------------------------- MODULE OldAllocatorProofs -------------------------
(***************************************************************************)
(* Proofs about OldAllocator, for any sizes of tags, requests and heap and *)
(* any number of blocks.                                                   *)
(*                                                                         *)
(* The invariant is about the tags and not about the calls: the blocks     *)
(* tile the heap, footers repeat headers, no two free blocks meet, and the *)
(* links of the free blocks run down a rank that starts at the head of the *)
(* list.  Each helper of the code is described by what it does to the tags *)
(* (Absorbs, Unlinks, HasCut, Creates), whatever the heap looks like, and  *)
(* the operations are put together from these descriptions.                *)
(***************************************************************************)
EXTENDS OldAllocator, FiniteSetTheorems, WellFoundedInduction, TLAPS

-----------------------------------------------------------------------------
(* Induction, stated with sets *)

LEMMA LeastNat ==
    ASSUME NEW S \in SUBSET Nat, S # {}
    PROVE  \E n \in S : \A k \in S : n <= k
<1> DEFINE R == OpToRel(<, Nat)
<1>1. IsWellFoundedOn(R, Nat)
  BY NatLessThanWellFounded
<1>2. \A x, y \in Nat : x < y => <<x, y>> \in R
  BY DEF OpToRel
<1> HIDE DEF R
<1>3. PICK x \in S : \A y \in S : ~(<<y, x>> \in R)
  BY <1>1, WFMin
<1>4. \A y \in S : ~(y < x)
  BY <1>2, <1>3
<1> QED
  BY <1>3, <1>4

LEMMA NatSetInduction ==
    ASSUME NEW S, 0 \in S, \A n \in Nat : n \in S => n + 1 \in S
    PROVE  Nat \subseteq S
<1> SUFFICES ASSUME Nat \ S # {} PROVE FALSE
  OBVIOUS
<1>1. PICK n \in Nat \ S : \A k \in Nat \ S : n <= k
  BY LeastNat
<1>2. n # 0 /\ n - 1 \in Nat /\ n - 1 \in S
  BY <1>1
<1> QED
  BY <1>1, <1>2

(* A set P of finite sets that has the empty set, and every set of which   *)
(* it has the sets with one element less, has all finite subsets of U.     *)
LEMMA FiniteSetInduction ==
    ASSUME NEW U, NEW P, {} \in P,
           \A S \in SUBSET U :
              IsFiniteSet(S) /\ S # {} /\ (\A x \in S : S \ {x} \in P) =>
                  S \in P
    PROVE  \A S \in SUBSET U : IsFiniteSet(S) => S \in P
<1> DEFINE N == {n \in Nat : \A S \in SUBSET U :
                    IsFiniteSet(S) /\ Cardinality(S) = n => S \in P}
<1>1. 0 \in N
  BY FS_EmptySet
<1>2. ASSUME NEW n \in Nat, n \in N PROVE n + 1 \in N
  <2> SUFFICES ASSUME NEW S \in SUBSET U, IsFiniteSet(S),
                      Cardinality(S) = n + 1
               PROVE  S \in P
    OBVIOUS
  <2>1. S # {}
    BY FS_EmptySet
  <2>2. ASSUME NEW x \in S PROVE S \ {x} \in P
    <3>1. /\ IsFiniteSet(S \ {x})
          /\ Cardinality(S \ {x}) = Cardinality(S) - 1
      BY FS_RemoveElement
    <3>2. S \ {x} \in SUBSET U /\ Cardinality(S \ {x}) = n
      BY <3>1
    <3> QED
      BY <3>1, <3>2, <1>2
  <2> QED
    BY <2>1, <2>2
<1>3. Nat \subseteq N
  <2> HIDE DEF N
  <2> QED
    BY <1>1, <1>2, NatSetInduction
<1>4. ASSUME NEW S \in SUBSET U, IsFiniteSet(S) PROVE S \in P
  <2>1. Cardinality(S) \in Nat
    BY <1>4, FS_CardinalityType
  <2>2. Cardinality(S) \in N
    BY <1>3, <2>1
  <2> QED
    BY <1>4, <2>2
<1> QED
  BY <1>4

-----------------------------------------------------------------------------
(* Sums of block sizes *)

Total(h, S) == MapThenSumSet(LAMBDA b : h[b].size, S)

SumStep(h, s, f) ==
    IF s = {} THEN 0
    ELSE LET x == CHOOSE x \in s : TRUE IN h[x].size + f[s \ {x}]

(* f gives the sum over each subset of S.                                  *)
IsSum(h, S, f) == f = [s \in SUBSET S |-> SumStep(h, s, f)]

LEMMA TotalIs ==
    ASSUME NEW h, NEW S
    PROVE  Total(h, S) = (CHOOSE f : IsSum(h, S, f))[S]
BY DEF Total, MapThenSumSet, MapThenFoldSet, IsSum, SumStep

LEMMA SumUnique ==
    ASSUME NEW h, NEW S, NEW T, NEW f, NEW g, IsSum(h, S, f), IsSum(h, T, g)
    PROVE  \A s \in SUBSET (S \cap T) : IsFiniteSet(s) => f[s] = g[s]
<1> DEFINE U == S \cap T
           P == {s \in SUBSET U : f[s] = g[s]}
<1>1. \A s \in SUBSET U : f[s] = SumStep(h, s, f) /\ g[s] = SumStep(h, s, g)
  BY DEF IsSum
<1>2. {} \in P
  BY <1>1 DEF SumStep
<1>3. ASSUME NEW s \in SUBSET U, s # {}, \A x \in s : s \ {x} \in P
      PROVE  s \in P
  <2>1. (CHOOSE x \in s : TRUE) \in s
    BY <1>3
  <2> QED
    BY <1>1, <1>3, <2>1 DEF SumStep
<1> HIDE DEF P
<1>4. \A s \in SUBSET U : IsFiniteSet(s) => s \in P
  BY <1>2, <1>3, FiniteSetInduction
<1> QED
  BY <1>4 DEF P

LEMMA SumExists ==
    ASSUME NEW h, NEW U
    PROVE  \A S \in SUBSET U : IsFiniteSet(S) => \E f : IsSum(h, S, f)
<1> DEFINE P == {S \in SUBSET U : \A T \in SUBSET S : \E f : IsSum(h, T, f)}
<1>1. {} \in P
  <2>1. IsSum(h, {}, [s \in SUBSET {} |-> 0])
    BY DEF IsSum, SumStep
  <2> QED
    BY <2>1
<1>2. ASSUME NEW S \in SUBSET U, IsFiniteSet(S), S # {},
             \A x \in S : S \ {x} \in P
      PROVE  S \in P
  <2>1. ASSUME NEW T \in SUBSET S, T # S PROVE \E f : IsSum(h, T, f)
    <3>1. PICK x \in S : x \notin T
      BY <2>1
    <3>2. T \in SUBSET (S \ {x}) /\ S \ {x} \in P
      BY <3>1, <1>2
    <3> QED
      BY <3>2
  <2> DEFINE Fun(T) == CHOOSE f : IsSum(h, T, f)
             low == [s \in SUBSET S |-> Fun(s)[s]]
             f == [s \in SUBSET S |-> SumStep(h, s, low)]
  <2>2. ASSUME NEW s \in SUBSET S, s # S PROVE low[s] = SumStep(h, s, low)
    <3>1. IsSum(h, s, Fun(s))
      BY <2>1, <2>2
    <3>2. low[s] = SumStep(h, s, Fun(s))
      BY <3>1, <2>2 DEF IsSum
    <3>3. CASE s = {}
      BY <3>2, <3>3 DEF SumStep
    <3>4. CASE s # {}
      <4> DEFINE x == CHOOSE x \in s : TRUE
      <4>1. x \in s
        BY <3>4
      <4>2. s \ {x} \in SUBSET S /\ s \ {x} # S /\ IsFiniteSet(s \ {x})
        BY <4>1, <1>2, FS_Subset
      <4>3. IsSum(h, s \ {x}, Fun(s \ {x}))
        BY <4>2, <2>1
      <4> HIDE DEF x, Fun
      <4>4. Fun(s)[s \ {x}] = Fun(s \ {x})[s \ {x}]
        BY <3>1, <4>2, <4>3, SumUnique
      <4>5. low[s \ {x}] = Fun(s)[s \ {x}]
        BY <4>2, <4>4
      <4> QED
        BY <3>2, <3>4, <4>5 DEF SumStep, x
    <3> QED
      BY <3>3, <3>4
  <2>3. ASSUME NEW s \in SUBSET S PROVE f[s] = SumStep(h, s, f)
    <3> HIDE DEF low
    <3>1. CASE s = {}
      BY <3>1 DEF SumStep
    <3>2. CASE s # {}
      <4> DEFINE x == CHOOSE x \in s : TRUE
      <4>1. x \in s
        BY <3>2
      <4>2. s \ {x} \in SUBSET S /\ s \ {x} # S
        BY <4>1
      <4>3. f[s \ {x}] = low[s \ {x}]
        BY <4>2, <2>2
      <4>4. SumStep(h, s, f) = SumStep(h, s, low)
        BY <3>2, <4>3 DEF SumStep
      <4> QED
        BY <4>4
    <3> QED
      BY <3>1, <3>2
  <2>4. IsSum(h, S, f)
    <3>1. f = [s \in SUBSET S |-> f[s]]
      OBVIOUS
    <3> HIDE DEF f
    <3> QED
      BY <2>3, <3>1 DEF IsSum
  <2> QED
    BY <2>1, <2>4
<1> HIDE DEF P
<1>3. \A S \in SUBSET U : IsFiniteSet(S) => S \in P
  BY <1>1, <1>2, FiniteSetInduction
<1> QED
  BY <1>3 DEF P

LEMMA TotalEmpty ==
    ASSUME NEW h
    PROVE  Total(h, {}) = 0
<1>1. IsFiniteSet({})
  BY FS_EmptySet
<1>2. \E f : IsSum(h, {}, f)
  BY <1>1, SumExists
<1>3. IsSum(h, {}, CHOOSE f : IsSum(h, {}, f))
  BY <1>2
<1> QED
  BY <1>3, TotalIs DEF IsSum, SumStep

LEMMA TotalStep ==
    ASSUME NEW h, NEW S, IsFiniteSet(S), S # {}
    PROVE  \E x \in S : Total(h, S) = h[x].size + Total(h, S \ {x})
<1> DEFINE x == CHOOSE x \in S : TRUE
           f == CHOOSE f : IsSum(h, S, f)
           g == CHOOSE g : IsSum(h, S \ {x}, g)
<1>1. x \in S
  OBVIOUS
<1>2. IsFiniteSet(S \ {x})
  BY FS_RemoveElement
<1>3. IsSum(h, S, f) /\ IsSum(h, S \ {x}, g)
  BY <1>2, SumExists
<1>4. f[S] = h[x].size + f[S \ {x}]
  BY <1>3 DEF IsSum, SumStep
<1> HIDE DEF x, f, g
<1>5. f[S \ {x}] = g[S \ {x}]
  BY <1>2, <1>3, SumUnique
<1>6. Total(h, S) = f[S] /\ Total(h, S \ {x}) = g[S \ {x}]
  BY TotalIs DEF f, g
<1> QED
  BY <1>1, <1>4, <1>5, <1>6

LEMMA TotalType ==
    ASSUME NEW h, NEW S, IsFiniteSet(S), \A x \in S : h[x].size \in Nat
    PROVE  Total(h, S) \in Nat
<1> DEFINE P == {s \in SUBSET S : Total(h, s) \in Nat}
<1>1. {} \in P
  BY TotalEmpty
<1>2. ASSUME NEW s \in SUBSET S, IsFiniteSet(s), s # {},
             \A x \in s : s \ {x} \in P
      PROVE  s \in P
  <2>1. PICK x \in s : Total(h, s) = h[x].size + Total(h, s \ {x})
    BY <1>2, TotalStep
  <2> QED
    BY <1>2, <2>1
<1> HIDE DEF P
<1>3. S \in P
  BY <1>1, <1>2, FiniteSetInduction
<1> QED
  BY <1>3 DEF P

(* Any element may be taken out of a sum first.                            *)
LEMMA TotalRemove ==
    ASSUME NEW h, NEW S, IsFiniteSet(S), \A x \in S : h[x].size \in Nat,
           NEW x \in S
    PROVE  Total(h, S) = h[x].size + Total(h, S \ {x})
<1> DEFINE P == {s \in SUBSET S :
                    \A y \in s : Total(h, s) = h[y].size + Total(h, s \ {y})}
<1>1. {} \in P
  OBVIOUS
<1>2. ASSUME NEW s \in SUBSET S, IsFiniteSet(s), s # {},
             \A y \in s : s \ {y} \in P
      PROVE  s \in P
  <2> SUFFICES ASSUME NEW y \in s
               PROVE  Total(h, s) = h[y].size + Total(h, s \ {y})
    OBVIOUS
  <2>1. PICK z \in s : Total(h, s) = h[z].size + Total(h, s \ {z})
    BY <1>2, TotalStep
  <2>2. CASE y = z
    BY <2>1, <2>2
  <2>3. CASE y # z
    <3>1. y \in s \ {z} /\ z \in s \ {y}
      BY <2>3
    <3>2. Total(h, s \ {z}) = h[y].size + Total(h, (s \ {z}) \ {y})
      BY <3>1, <1>2
    <3>3. Total(h, s \ {y}) = h[z].size + Total(h, (s \ {y}) \ {z})
      BY <3>1, <1>2
    <3>4. (s \ {z}) \ {y} = (s \ {y}) \ {z}
      OBVIOUS
    <3>5. Total(h, (s \ {y}) \ {z}) \in Nat
      <4>1. IsFiniteSet((s \ {y}) \ {z})
        BY <1>2, FS_RemoveElement
      <4> QED
        BY <4>1, TotalType
    <3>6. h[y].size \in Nat /\ h[z].size \in Nat
      OBVIOUS
    <3>7. Total(h, s \ {z}) = h[y].size + Total(h, (s \ {y}) \ {z})
      BY <3>2, <3>4
    <3> QED
      BY <2>1, <3>3, <3>5, <3>6, <3>7
  <2> QED
    BY <2>2, <2>3
<1> HIDE DEF P
<1>3. S \in P
  BY <1>1, <1>2, FiniteSetInduction
<1> QED
  BY <1>3 DEF P

LEMMA TotalSame ==
    ASSUME NEW h, NEW g, NEW S, IsFiniteSet(S),
           \A x \in S : h[x].size = g[x].size
    PROVE  Total(h, S) = Total(g, S)
<1> DEFINE f == CHOOSE f : IsSum(h, S, f)
           e == CHOOSE e : IsSum(g, S, e)
           P == {s \in SUBSET S : f[s] = e[s]}
<1>1. IsSum(h, S, f) /\ IsSum(g, S, e)
  BY SumExists
<1>2. \A s \in SUBSET S : f[s] = SumStep(h, s, f) /\ e[s] = SumStep(g, s, e)
  BY <1>1 DEF IsSum
<1> HIDE DEF f, e
<1>3. {} \in P
  BY <1>2 DEF SumStep
<1>4. ASSUME NEW s \in SUBSET S, s # {}, \A x \in s : s \ {x} \in P
      PROVE  s \in P
  <2>1. (CHOOSE x \in s : TRUE) \in s
    BY <1>4
  <2> QED
    BY <1>2, <1>4, <2>1 DEF SumStep
<1> HIDE DEF P
<1>5. S \in P
  BY <1>3, <1>4, FiniteSetInduction
<1> QED
  BY <1>5, TotalIs DEF P, f, e

(* No block is larger than the sum.                                        *)
LEMMA TotalBounds ==
    ASSUME NEW h, NEW S, IsFiniteSet(S), \A x \in S : h[x].size \in Nat,
           NEW x \in S
    PROVE  h[x].size <= Total(h, S)
<1>1. Total(h, S) = h[x].size + Total(h, S \ {x})
  BY TotalRemove
<1>2. Total(h, S \ {x}) \in Nat
  <2>1. IsFiniteSet(S \ {x})
    BY FS_RemoveElement
  <2> QED
    BY <2>1, TotalType
<1> QED
  BY <1>1, <1>2

-----------------------------------------------------------------------------
(* The inductive invariant *)

BlockType == [size : Nat, is_free : BOOLEAN, mapped : BOOLEAN,
              next : Nat \cup {NULL}]

Brks(h) == {b \in DOMAIN h : ~h[b].mapped}
Frees(h) == {b \in DOMAIN h : h[b].is_free}
EndIn(h, b) == b + (overhead_size + h[b].size)
FootIn(h, b) == b + header_size + h[b].size

Headers(h) ==
    /\ DOMAIN h \subseteq Nat
    /\ IsFiniteSet(DOMAIN h)
    /\ h \in [DOMAIN h -> BlockType]

(* Blocks do not overlap, and those between s and e leave no gap.          *)
Tiles(h, s, e) ==
    /\ \A b, c \in DOMAIN h : b < c => EndIn(h, b) <= c
    /\ s = NULL => e = NULL /\ Brks(h) = {}
    /\ s # NULL =>
          /\ s \in Nat /\ e \in Nat /\ s <= e /\ e <= BrkLimit
          /\ s \in Brks(h) \cup {e}
          /\ e = s \/ \E c \in Brks(h) : EndIn(h, c) = e
          /\ \A b \in Brks(h) :
                /\ s <= b /\ EndIn(h, b) <= e
                /\ EndIn(h, b) \in Brks(h) \cup {e}
                /\ b = s \/ \E c \in Brks(h) : EndIn(h, c) = b

(* Mapped blocks are as long as somebody asked for, and never free.        *)
Maps(h) ==
    \A b \in DOMAIN h \ Brks(h) :
        b \in MapAddr /\ h[b].size \in Requests /\ ~h[b].is_free

Footers(h, f) ==
    /\ DOMAIN f = {FootIn(h, b) : b \in DOMAIN h}
    /\ \A b \in DOMAIN h :
          f[FootIn(h, b)] = [size |-> h[b].size, mapped |-> h[b].mapped]

(* The blocks of L, and no others, are linked in the order of their ranks, *)
(* the highest first.                                                      *)
Links(h, L, r, first) ==
    /\ L \subseteq DOMAIN h
    /\ r \in [L -> Nat]
    /\ \A a, b \in L : r[a] = r[b] => a = b
    /\ first \in L \cup {NULL}
    /\ \A a \in L : first # NULL /\ r[a] <= r[first]
    /\ \A b \in L :
          /\ h[b].next \in L \cup {NULL}
          /\ h[b].next # NULL => r[h[b].next] < r[b]
          /\ \A a \in L :
                r[a] < r[b] => h[b].next # NULL /\ r[a] <= r[h[b].next]
    /\ \A b \in DOMAIN h \ L : h[b].next = NULL

Apart(h) == \A b \in Frees(h) : EndIn(h, b) \notin Frees(h)

(* The blocks the search has passed by are too small.                      *)
Passed(r) ==
    LET small(b) == header[b].size < size
    IN  IF prev_search_end = NULL
        THEN \A b \in FreeBlock :
                curr = NULL \/ r[curr] < r[b] => small(b)
        ELSE /\ curr # NULL
             /\ header[prev_search_end].next # NULL =>
                   \A b \in FreeBlock :
                       IF r[curr] < r[prev_search_end]
                       THEN r[curr] < r[b] /\ r[b] < r[prev_search_end] =>
                                small(b)
                       ELSE r[b] < r[prev_search_end] \/ r[curr] < r[b] =>
                                small(b)

Searching(r) ==
    pc = "search" =>
        /\ {prev, curr} \subseteq FreeBlock \cup {NULL}
        /\ IF prev = NULL THEN curr = free_list ELSE header[prev].next = curr
        /\ Passed(r)

Blocks(h, f, s, e) == Headers(h) /\ Tiles(h, s, e) /\ Maps(h) /\ Footers(h, f)

Listed == \E r : Links(header, FreeBlock, r, free_list) /\ Searching(r)

HeldBlocks(u, h) ==
    /\ DOMAIN u \subseteq DOMAIN h
    /\ u = [b \in DOMAIN u |-> u[b]]
    /\ \A b \in DOMAIN u :
          ~h[b].is_free /\ u[b] \in Nat /\ u[b] <= h[b].size

(* Where the call in progress stands, and which blocks can be neither free *)
(* nor held: those that a failed brk left behind in the destructor.        *)
Control ==
    /\ pc \in {"new", "idle", "search", "create", "destroy", "gone"}
    /\ pc = "new" =>
          /\ DOMAIN header = {}
          /\ free_list = NULL /\ prev_search_end = NULL
          /\ brk_heap_start = NULL
    /\ pc \in {"search", "create"} => size \in Requests
    /\ pc = "create" => \A b \in FreeBlock : header[b].size < size
    /\ pc \notin {"destroy", "gone"} => BrkBlock \ FreeBlock \subseteq DOMAIN users
    /\ pc = "destroy" /\ free_list # NULL /\ DOMAIN users \cap BrkBlock = {} =>
          BrkBlock \subseteq FreeBlock

OldInv ==
    /\ Blocks(header, footer, brk_heap_start, brk_heap_end)
    /\ Apart(header)
    /\ available_bytes = Total(header, FreeBlock)
    /\ prev_search_end \in FreeBlock \cup {NULL}
    /\ Listed
    /\ HeldBlocks(users, header)
    /\ Control

-----------------------------------------------------------------------------
(* What the invariant implies *)

LEMMA OldConstants ==
    /\ header_size \in Nat /\ header_size > 0
    /\ footer_size \in Nat /\ footer_size > 0
    /\ overhead_size \in Nat /\ overhead_size > 0
    /\ INITIAL_CHUNK \in Nat /\ MMAP_THRESHOLD \in Nat
    /\ BrkBase \in Nat /\ BrkLimit \in Nat
    /\ Requests \subseteq Nat /\ MapAddr \subseteq Nat
    /\ NULL \notin Nat
BY OldAllocatorAssumption DEF overhead_size

LEMMA MemoryFields ==
    /\ Memory.header = header /\ Memory.footer = footer
    /\ Memory.free_list = free_list
    /\ Memory.prev_search_end = prev_search_end
    /\ Memory.available_bytes = available_bytes
    /\ Memory.brk_heap_start = brk_heap_start
    /\ Memory.brk_heap_end = brk_heap_end
BY DEF Memory

LEMMA StateNames ==
    /\ FreeBlock = Frees(header) /\ BrkBlock = Brks(header)
    /\ \A b : EndOf(b) = EndIn(header, b)
    /\ \A b : footer_of(Memory, b) = FootIn(header, b)
BY MemoryFields DEF FreeBlock, BrkBlock, Frees, Brks, EndOf, EndIn, block_end,
   block_span, footer_of, FootIn

LEMMA TiledFromInv == OldInv => HeapTiled
<1> SUFFICES ASSUME OldInv PROVE HeapTiled
  OBVIOUS
<1>1. Headers(header) /\ Tiles(header, brk_heap_start, brk_heap_end)
      /\ Footers(header, footer)
  BY DEF OldInv, Blocks
<1>2. BrkBlock # {} => brk_heap_start \in BrkBlock
  <2>1. brk_heap_start = NULL => Brks(header) = {}
    BY <1>1 DEF Tiles
  <2>2. ASSUME brk_heap_start # NULL
        PROVE  Brks(header) # {} => brk_heap_start \in Brks(header)
    <3>1. /\ brk_heap_start \in Brks(header) \cup {brk_heap_end}
          /\ \A b \in Brks(header) :
                brk_heap_start <= b /\ EndIn(header, b) <= brk_heap_end
          /\ brk_heap_start \in Nat /\ brk_heap_end \in Nat
      BY <1>1, <2>2 DEF Tiles
    <3>2. \A b \in Brks(header) : b \in Nat /\ EndIn(header, b) > b
                                  /\ EndIn(header, b) \in Nat
      BY <1>1, OldConstants DEF Headers, Brks, BlockType, EndIn
    <3>3. ASSUME NEW b \in Brks(header) PROVE brk_heap_start # brk_heap_end
      <4>1. brk_heap_start <= b /\ EndIn(header, b) <= brk_heap_end
        BY <3>1
      <4>2. b \in Nat /\ EndIn(header, b) > b /\ EndIn(header, b) \in Nat
        BY <3>2
      <4> HIDE DEF EndIn
      <4> QED
        BY <4>1, <4>2, <3>1
    <3> QED
      BY <3>1, <3>3
  <2>3. Brks(header) # {} => brk_heap_start \in Brks(header)
    BY <2>1, <2>2
  <2> QED
    BY <2>3, StateNames
<1>3. ASSUME NEW b \in BrkBlock
      PROVE  /\ EndOf(b) \in BrkBlock \cup {brk_heap_end}
             /\ \A c \in BrkBlock : b < c => EndOf(b) <= c
  <2>1. brk_heap_start # NULL
    BY <1>1, <1>3, StateNames DEF Tiles
  <2>2. BrkBlock \subseteq DOMAIN header
    BY DEF BrkBlock
  <2> QED
    BY <1>1, <1>3, <2>1, <2>2, StateNames DEF Tiles
<1>4. DOMAIN footer = {footer_of(Memory, b) : b \in DOMAIN header}
  BY <1>1, StateNames DEF Footers
<1>5. ASSUME NEW b \in DOMAIN header
      PROVE  /\ footer[footer_of(Memory, b)].size = header[b].size
             /\ footer[footer_of(Memory, b)].mapped = header[b].mapped
  <2>1. footer[FootIn(header, b)] =
            [size |-> header[b].size, mapped |-> header[b].mapped]
    BY <1>1, <1>5 DEF Footers
  <2> QED
    BY <2>1, StateNames
<1> QED
  BY <1>2, <1>3, <1>4, <1>5 DEF HeapTiled

LEMMA SumFromInv == OldInv => AvailableExact
BY StateNames DEF OldInv, Total, AvailableExact

LEMMA ApartFromInv == OldInv => NoAdjacentFree
BY StateNames DEF OldInv, Apart, NoAdjacentFree

LEMMA NeedFromInv == OldInv => CreatesOnlyWhenNeeded
BY DEF OldInv, Control, CreatesOnlyWhenNeeded

(* Two free blocks next to each other would have been merged, so a heap of *)
(* free blocks is one block.                                               *)
LEMMA ProgressFromInv == OldInv => DestructorProgress
<1> SUFFICES ASSUME OldInv, pc = "destroy", free_list # NULL,
                    DOMAIN users \cap BrkBlock = {}
             PROVE  EndOf(free_list) = brk_heap_end
  BY DEF DestructorProgress
<1>1. Brks(header) \subseteq Frees(header)
  BY StateNames DEF OldInv, Control
<1>2. free_list \in Frees(header) /\ free_list \in Brks(header)
  BY StateNames DEF OldInv, Listed, Links, Blocks, Maps, Frees
<1>3. EndIn(header, free_list) \notin Frees(header)
  BY <1>2 DEF OldInv, Apart
<1>4. EndIn(header, free_list) \in Brks(header) \cup {brk_heap_end}
  BY <1>2 DEF OldInv, Blocks, Tiles
<1> QED
  BY <1>1, <1>3, <1>4, StateNames

-----------------------------------------------------------------------------
(* The free list *)

LEMMA Predecessor ==
    ASSUME NEW h, NEW L, NEW r, NEW first, Links(h, L, r, first),
           NEW b \in L, b # first
    PROVE  \E a \in L : h[a].next = b
<1>1. /\ r \in [L -> Nat]
      /\ \A a, c \in L : r[a] = r[c] => a = c
      /\ first \in L /\ r[b] <= r[first]
      /\ \A c \in L : h[c].next \in L \cup {NULL}
                      /\ (h[c].next # NULL => r[h[c].next] < r[c])
      /\ \A c, a \in L : r[a] < r[c] => h[c].next # NULL
                                        /\ r[a] <= r[h[c].next]
  BY DEF Links
<1> DEFINE A == {r[a] : a \in {a \in L : r[b] < r[a]}}
<1>2. A \in SUBSET Nat /\ r[first] \in A
  BY <1>1
<1>3. PICK n \in A : \A k \in A : n <= k
  <2> HIDE DEF A
  <2> QED
    BY <1>2, LeastNat
<1>4. PICK a \in L : r[b] < r[a] /\ n = r[a]
  BY <1>3
<1>5. \A c \in L : r[b] < r[c] => r[a] <= r[c]
  BY <1>3, <1>4
<1>6. h[a].next # NULL /\ h[a].next \in L /\ r[b] <= r[h[a].next]
      /\ r[h[a].next] < r[a]
  BY <1>1, <1>4
<1>7. ~(r[b] < r[h[a].next])
  <2>1. r[a] \in Nat /\ r[h[a].next] \in Nat
    BY <1>1, <1>6
  <2> QED
    BY <1>5, <1>6, <2>1
<1>8. r[b] = r[h[a].next]
  <2>1. r[b] \in Nat /\ r[h[a].next] \in Nat
    BY <1>1, <1>6
  <2> QED
    BY <1>6, <1>7, <2>1
<1> QED
  BY <1>1, <1>6, <1>8

LEMMA OnePredecessor ==
    ASSUME NEW h, NEW L, NEW r, NEW first, Links(h, L, r, first),
           NULL \notin L, NEW b \in L
    PROVE  /\ \A a, c \in DOMAIN h :
                 h[a].next = b /\ h[c].next = b => a = c
           /\ \A a \in DOMAIN h : h[a].next = b => a \in L /\ b # first
<1>1. ASSUME NEW a \in DOMAIN h, h[a].next = b
      PROVE  a \in L /\ b # first
  <2>1. a \in L
    BY <1>1 DEF Links
  <2>2. r[b] < r[a] /\ r[a] <= r[first]
    BY <1>1, <2>1 DEF Links
  <2>3. r[a] \in Nat /\ r[b] \in Nat
    BY <2>1 DEF Links
  <2> QED
    BY <2>1, <2>2, <2>3
<1>2. ASSUME NEW a \in L, NEW c \in L, h[a].next = b, h[c].next = b,
             r[a] < r[c]
      PROVE  FALSE
  <2>1. r[a] <= r[b] /\ r[b] < r[a]
    BY <1>2 DEF Links
  <2>2. r[a] \in Nat /\ r[b] \in Nat
    BY DEF Links
  <2> QED
    BY <2>1, <2>2
<1>3. ASSUME NEW a \in DOMAIN h, NEW c \in DOMAIN h, h[a].next = b, h[c].next = b
      PROVE  a = c
  <2>1. a \in L /\ c \in L
    BY <1>1, <1>3
  <2>2. ~(r[a] < r[c]) /\ ~(r[c] < r[a])
    BY <1>2, <1>3, <2>1
  <2>3. r[a] \in Nat /\ r[c] \in Nat
    BY <2>1 DEF Links
  <2>4. r[a] = r[c]
    BY <2>2, <2>3
  <2> QED
    BY <2>1, <2>4 DEF Links
<1> QED
  BY <1>1, <1>3

(* list_before finds the block before b, and none before the head.         *)
LEMMA BlockBefore ==
    ASSUME NEW m, NEW L, NEW r, Links(m.header, L, r, m.free_list),
           NULL \notin DOMAIN m.header, NEW b \in L
    PROVE  /\ b = m.free_list => list_before(m, b) = NULL
           /\ b # m.free_list => list_before(m, b) \in L
           /\ \A a \in DOMAIN m.header :
                 m.header[a].next = b <=> a = list_before(m, b)
           /\ listed(m, b)
<1> DEFINE h == m.header
<1>0. NULL \notin L
  BY DEF Links
<1>1. /\ \A a, c \in DOMAIN h : h[a].next = b /\ h[c].next = b => a = c
      /\ \A a \in DOMAIN h : h[a].next = b => a \in L /\ b # m.free_list
  <2> HIDE DEF h
  <2> QED
    BY <1>0, OnePredecessor DEF h
<1>2. b # m.free_list => \E a \in L : h[a].next = b
  BY Predecessor
<1>3. L \subseteq DOMAIN h
  BY DEF Links
<1>4. CASE b = m.free_list
  <2>1. ~\E a \in DOMAIN h : h[a].next = b
    BY <1>1, <1>4
  <2>2. list_before(m, b) = NULL
    BY <2>1 DEF list_before
  <2> QED
    BY <1>4, <2>1, <2>2 DEF listed
<1>5. CASE b # m.free_list
  <2>1. PICK a \in L : h[a].next = b
    BY <1>2, <1>5
  <2>2. list_before(m, b) = CHOOSE x \in DOMAIN h : h[x].next = b
    BY <2>1, <1>3 DEF list_before
  <2>3. list_before(m, b) \in DOMAIN h /\ h[list_before(m, b)].next = b
    BY <2>1, <2>2, <1>3
  <2>4. list_before(m, b) \in L
    BY <1>1, <2>3
  <2>5. list_before(m, b) # NULL
    BY <1>0, <2>4
  <2> QED
    BY <1>1, <1>5, <2>3, <2>4, <2>5 DEF listed
<1> QED
  BY <1>4, <1>5

(* f[n] is the block n links behind the first.                             *)
IsWalk(h, first, k, f) ==
    f = [n \in 0 .. k |->
            IF n = 0 THEN first
            ELSE LET b == f[n - 1] IN IF b = NULL THEN NULL ELSE h[b].next]

LEMMA WalkExists ==
    ASSUME NEW h, NEW first, NEW k \in Nat
    PROVE  \E f : IsWalk(h, first, k, f)
<1> DEFINE K == {j \in Nat : \E f : IsWalk(h, first, j, f)}
           After(b) == IF b = NULL THEN NULL ELSE h[b].next
<1>1. 0 \in K
  <2>1. IsWalk(h, first, 0, [n \in 0 .. 0 |-> first])
    BY DEF IsWalk
  <2> QED
    BY <2>1
<1>2. ASSUME NEW j \in Nat, j \in K PROVE j + 1 \in K
  <2>1. PICK f : IsWalk(h, first, j, f)
    BY <1>2
  <2> DEFINE g == [n \in 0 .. j + 1 |->
                      IF n = j + 1 THEN After(f[j]) ELSE f[n]]
  <2>2. \A n \in 0 .. j :
           f[n] = IF n = 0 THEN first ELSE After(f[n - 1])
    BY <2>1 DEF IsWalk
  <2> HIDE DEF After
  <2>3. ASSUME NEW n \in 0 .. j + 1
        PROVE  g[n] = IF n = 0 THEN first ELSE After(g[n - 1])
    <3>1. CASE n = 0
      BY <2>2, <3>1
    <3>2. CASE n # 0 /\ n # j + 1
      <4>1. n - 1 \in 0 .. j + 1 /\ n - 1 # j + 1 /\ n \in 0 .. j
        BY <3>2
      <4>2. g[n] = f[n] /\ g[n - 1] = f[n - 1]
        BY <3>2, <4>1
      <4> QED
        BY <2>2, <3>2, <4>1, <4>2
    <3>3. CASE n = j + 1
      <4>1. n # 0 /\ n - 1 = j /\ j \in 0 .. j + 1 /\ j # j + 1
        BY <3>3
      <4>2. g[n] = After(f[j]) /\ g[n - 1] = f[j]
        BY <3>3, <4>1
      <4> QED
        BY <4>1, <4>2
    <3> QED
      BY <3>1, <3>2, <3>3
  <2>4. g = [n \in 0 .. j + 1 |-> g[n]]
    OBVIOUS
  <2> HIDE DEF g
  <2>5. g = [n \in 0 .. j + 1 |-> IF n = 0 THEN first ELSE After(g[n - 1])]
    BY <2>3, <2>4
  <2>6. IsWalk(h, first, j + 1, g)
    BY <2>5 DEF IsWalk, After
  <2> QED
    BY <2>6
<1>3. Nat \subseteq K
  <2> HIDE DEF K
  <2> QED
    BY <1>1, <1>2, NatSetInduction
<1> QED
  BY <1>3

(* The walk takes the blocks in the order of their ranks: the nth one has  *)
(* n blocks of higher rank.                                                *)
Above(L, r, b) == {a \in L : r[b] < r[a]}

LEMMA AboveNext ==
    ASSUME NEW h, NEW L, NEW r, NEW first, Links(h, L, r, first),
           IsFiniteSet(L), NULL \notin L,
           NEW a \in L, NEW b \in L, h[a].next = b
    PROVE  /\ Cardinality(Above(L, r, b)) = Cardinality(Above(L, r, a)) + 1
           /\ Cardinality(Above(L, r, a)) \in Nat
<1>1. /\ r \in [L -> Nat]
      /\ \A x, y \in L : r[x] = r[y] => x = y
      /\ r[b] < r[a]
      /\ \A x \in L : r[x] < r[a] => r[x] <= r[b]
  BY DEF Links
<1>2. \A x \in L : r[b] < r[x] <=> x = a \/ r[a] < r[x]
  <2> TAKE x \in L
  <2>1. r[x] \in Nat /\ r[a] \in Nat /\ r[b] \in Nat
    BY <1>1
  <2>2. r[x] < r[a] \/ x = a \/ r[a] < r[x]
    BY <1>1, <2>1
  <2> QED
    BY <1>1, <2>1, <2>2
<1>3. Above(L, r, b) = Above(L, r, a) \cup {a}
  BY <1>2 DEF Above
<1>4. a \notin Above(L, r, a)
  <2>1. ~(r[a] < r[a])
    BY <1>1
  <2> QED
    BY <2>1 DEF Above
<1>5. Above(L, r, a) \subseteq L
  BY DEF Above
<1>6. IsFiniteSet(Above(L, r, a))
  BY <1>5, FS_Subset
<1>7. Cardinality(Above(L, r, a)) \in Nat
  BY <1>6, FS_CardinalityType
<1> QED
  BY <1>3, <1>4, <1>6, <1>7, FS_AddElement

LEMMA WalkVisits ==
    ASSUME NEW h, NEW L, NEW r, NEW first, Links(h, L, r, first),
           IsFiniteSet(L), NULL \notin L,
           NEW k \in Nat, Cardinality(L) <= k, NEW f, IsWalk(h, first, k, f)
    PROVE  f[k] = NULL /\ {f[n] : n \in 0 .. k} \ {NULL} = L
<1> DEFINE Index(b) == Cardinality(Above(L, r, b))
<1>0. \A n \in 0 .. k :
         f[n] = IF n = 0 THEN first
                ELSE IF f[n - 1] = NULL THEN NULL ELSE h[f[n - 1]].next
  BY DEF IsWalk
<1>1. /\ first \in L \cup {NULL} /\ \A b \in L : first # NULL
      /\ \A b \in L : h[b].next \in L \cup {NULL}
      /\ r \in [L -> Nat]
      /\ \A b \in L : r[b] <= r[first]
  BY DEF Links
<1>2. \A b \in L : Index(b) \in Nat /\ Index(b) < Cardinality(L)
  <2> TAKE b \in L
  <2>1. Above(L, r, b) \in SUBSET L
    BY DEF Above
  <2>2. b \notin Above(L, r, b)
    <3>1. ~(r[b] < r[b])
      BY <1>1
    <3> QED
      BY <3>1 DEF Above
  <2>3. /\ IsFiniteSet(Above(L, r, b)) /\ Index(b) <= Cardinality(L)
        /\ Cardinality(L) = Index(b) => L = Above(L, r, b)
    BY <2>1, FS_Subset
  <2>4. Index(b) \in Nat /\ Cardinality(L) \in Nat
    BY <2>3, FS_CardinalityType
  <2>5. Cardinality(L) # Index(b)
    BY <2>2, <2>3
  <2> HIDE DEF Index
  <2> QED
    BY <2>3, <2>4, <2>5
<1>3. first # NULL => Index(first) = 0
  <2> SUFFICES ASSUME first # NULL PROVE Index(first) = 0
    OBVIOUS
  <2>1. ASSUME NEW x \in L PROVE ~(r[first] < r[x])
    <3>1. r[first] \in Nat /\ r[x] \in Nat /\ r[x] <= r[first]
      BY <1>1, <2>1
    <3> QED
      BY <3>1
  <2>2. Above(L, r, first) = {}
    BY <2>1 DEF Above
  <2> QED
    BY <2>2, FS_EmptySet
<1>4. \A a, b \in L : h[a].next = b => Index(b) = Index(a) + 1
  BY AboveNext
<1> HIDE DEF Index
<1>5. \A n \in 0 .. k : f[n] \in L \cup {NULL}
                        /\ (f[n] # NULL => Index(f[n]) = n)
  <2> DEFINE N == {n \in Nat : n \in 0 .. k =>
                      /\ f[n] \in L \cup {NULL}
                      /\ (f[n] # NULL => Index(f[n]) = n)}
  <2>1. 0 \in N
    BY <1>0, <1>1, <1>3
  <2>2. ASSUME NEW n \in Nat, n \in N PROVE n + 1 \in N
    <3> SUFFICES ASSUME n + 1 \in 0 .. k
                 PROVE  /\ f[n + 1] \in L \cup {NULL}
                        /\ (f[n + 1] # NULL => Index(f[n + 1]) = n + 1)
      OBVIOUS
    <3>1. /\ f[n] \in L \cup {NULL}
          /\ (f[n] # NULL => Index(f[n]) = n)
      BY <2>2
    <3>2. f[n + 1] = IF f[n] = NULL THEN NULL ELSE h[f[n]].next
      <4>1. n + 1 # 0 /\ (n + 1) - 1 = n
        OBVIOUS
      <4> QED
        BY <1>0, <4>1
    <3>3. CASE f[n] = NULL
      BY <3>2, <3>3
    <3>4. CASE f[n] # NULL
      <4>1. f[n] \in L /\ f[n + 1] = h[f[n]].next /\ Index(f[n]) = n
        BY <3>1, <3>2, <3>4
      <4>2. f[n + 1] \in L \cup {NULL}
        BY <4>1, <1>1
      <4> QED
        BY <4>1, <4>2, <1>4
    <3> QED
      BY <3>3, <3>4
  <2> HIDE DEF N
  <2>3. Nat \subseteq N
    BY <2>1, <2>2, NatSetInduction
  <2>4. \A n \in 0 .. k : n \in N
    BY <2>3
  <2> QED
    BY <2>4 DEF N
<1>6. \A b \in L : f[Index(b)] = b
  <2> DEFINE N == {n \in Nat : \A b \in L : Index(b) = n => f[n] = b}
  <2>0. \A b \in L : Index(b) \in 0 .. k
    <3>1. Cardinality(L) \in Nat
      BY FS_CardinalityType
    <3> QED
      BY <1>2, <3>1
  <2>1. ASSUME NEW b \in L, b # first
        PROVE  \E a \in L : h[a].next = b /\ Index(b) = Index(a) + 1
    BY <1>4, <2>1, Predecessor
  <2>2. 0 \in N
    <3> SUFFICES ASSUME NEW b \in L, Index(b) = 0 PROVE f[0] = b
      OBVIOUS
    <3>1. b = first
      <4> SUFFICES ASSUME b # first PROVE FALSE
        OBVIOUS
      <4>1. PICK a \in L : Index(b) = Index(a) + 1
        BY <2>1
      <4> QED
        BY <4>1, <1>2
    <3> QED
      BY <3>1, <1>0
  <2>3. ASSUME NEW n \in Nat, n \in N PROVE n + 1 \in N
    <3> SUFFICES ASSUME NEW b \in L, Index(b) = n + 1 PROVE f[n + 1] = b
      OBVIOUS
    <3>1. b # first
      BY <1>3, <1>1
    <3>2. PICK a \in L : h[a].next = b /\ Index(b) = Index(a) + 1
      BY <2>1, <3>1
    <3>3. Index(a) = n
      BY <3>2, <1>2
    <3>4. f[n] = a
      BY <2>3, <3>3
    <3>5. n + 1 \in 0 .. k /\ n + 1 # 0 /\ (n + 1) - 1 = n
      BY <2>0
    <3>6. f[n + 1] = IF f[n] = NULL THEN NULL ELSE h[f[n]].next
      BY <1>0, <3>5
    <3> QED
      BY <3>2, <3>4, <3>6
  <2> HIDE DEF N
  <2>4. Nat \subseteq N
    BY <2>2, <2>3, NatSetInduction
  <2> QED
    BY <2>4, <1>2 DEF N
<1>7. \A b \in L : Index(b) \in 0 .. k /\ Index(b) # k
  <2>1. Cardinality(L) \in Nat
    BY FS_CardinalityType
  <2> QED
    BY <1>2, <2>1
<1>8. f[k] = NULL
  <2>1. k \in 0 .. k
    OBVIOUS
  <2> QED
    BY <1>5, <1>7, <2>1
<1> QED
  BY <1>5, <1>6, <1>7, <1>8

LEMMA ListFromInv == OldInv => FreeListExact
<1> SUFFICES ASSUME OldInv PROVE FreeListExact
  OBVIOUS
<1> DEFINE k == Cardinality(DOMAIN header)
           f == CHOOSE f : IsWalk(header, free_list, k, f)
<1>1. PICK r : Links(header, FreeBlock, r, free_list)
  BY DEF OldInv, Listed
<1>2. IsFiniteSet(DOMAIN header) /\ DOMAIN header \subseteq Nat
  BY DEF OldInv, Blocks, Headers
<1>3. FreeBlock \in SUBSET DOMAIN header /\ NULL \notin FreeBlock
  BY <1>2, OldConstants DEF FreeBlock
<1>4. /\ k \in Nat /\ IsFiniteSet(FreeBlock)
      /\ Cardinality(FreeBlock) <= k
  BY <1>2, <1>3, FS_CardinalityType, FS_Subset
<1>5. IsWalk(header, free_list, k, f)
  <2> HIDE DEF k
  <2> QED
    BY <1>4, WalkExists
<1>6. f[k] = NULL /\ {f[n] : n \in 0 .. k} \ {NULL} = FreeBlock
  <2> HIDE DEF k, f
  <2> QED
    BY <1>1, <1>3, <1>4, <1>5, WalkVisits
<1>7. FreeBlock \subseteq BrkBlock
  BY StateNames DEF OldInv, Blocks, Maps, Frees
<1> QED
  BY <1>6, <1>7 DEF FreeListExact, IsWalk

LEMMA SearchEndFromInv == OldInv => SearchEndListed
<1> SUFFICES ASSUME OldInv, prev_search_end # NULL
             PROVE  listed(Memory, prev_search_end)
  BY DEF SearchEndListed
<1>1. PICK r : Links(header, FreeBlock, r, free_list)
  BY DEF OldInv, Listed
<1>2. NULL \notin DOMAIN header
  BY OldConstants DEF OldInv, Blocks, Headers
<1>3. prev_search_end \in FreeBlock
  BY DEF OldInv
<1> QED
  BY <1>1, <1>2, <1>3, MemoryFields, BlockBefore

-----------------------------------------------------------------------------
(* Tiling: what keeps it *)

LEMMA BlockFacts ==
    ASSUME NEW h, Headers(h), NEW b \in DOMAIN h
    PROVE  /\ b \in Nat /\ h[b].size \in Nat /\ h[b] \in BlockType
           /\ EndIn(h, b) \in Nat /\ b < EndIn(h, b)
           /\ FootIn(h, b) \in Nat
           /\ b < FootIn(h, b) /\ FootIn(h, b) < EndIn(h, b)
           /\ EndIn(h, b) = b + (overhead_size + h[b].size)
           /\ FootIn(h, b) + footer_size = EndIn(h, b)
<1>1. b \in Nat /\ h[b] \in BlockType
  BY DEF Headers
<1>2. h[b].size \in Nat
  BY <1>1 DEF BlockType
<1> QED
  BY <1>1, <1>2, OldConstants DEF EndIn, FootIn, overhead_size

LEMMA FeetDistinct ==
    ASSUME NEW h, Headers(h), NEW a \in DOMAIN h, NEW c \in DOMAIN h,
           a < c => EndIn(h, a) <= c, c < a => EndIn(h, c) <= a,
           FootIn(h, a) = FootIn(h, c)
    PROVE  a = c
<1>1. /\ a \in Nat /\ EndIn(h, a) \in Nat /\ FootIn(h, a) \in Nat
      /\ a < FootIn(h, a) /\ FootIn(h, a) < EndIn(h, a)
  BY BlockFacts
<1>2. /\ c \in Nat /\ EndIn(h, c) \in Nat /\ FootIn(h, c) \in Nat
      /\ c < FootIn(h, c) /\ FootIn(h, c) < EndIn(h, c)
  BY BlockFacts
<1> QED
  BY <1>1, <1>2

LEMMA BlocksSame ==
    ASSUME NEW h, NEW f, NEW s, NEW e, Blocks(h, f, s, e),
           NEW g \in [DOMAIN h -> BlockType],
           \A b \in DOMAIN h : /\ g[b].size = h[b].size
                               /\ g[b].mapped = h[b].mapped
                               /\ g[b].mapped => ~g[b].is_free
    PROVE  Blocks(g, f, s, e)
<1>1. DOMAIN g = DOMAIN h
  OBVIOUS
<1>2. Brks(g) = Brks(h)
  BY <1>1 DEF Brks
<1>3. \A b \in DOMAIN h : EndIn(g, b) = EndIn(h, b) /\ FootIn(g, b) = FootIn(h, b)
  BY DEF EndIn, FootIn
<1>4. Headers(g)
  BY <1>1 DEF Blocks, Headers
<1>5. Tiles(g, s, e)
  <2>1. Brks(h) \subseteq DOMAIN h
    BY DEF Brks
  <2>2. Tiles(h, s, e)
    BY DEF Blocks
  <2>3. \A b, c \in DOMAIN g : b < c => EndIn(g, b) <= c
    BY <1>1, <1>3, <2>2 DEF Tiles
  <2>4. \A b \in Brks(h) : EndIn(g, b) = EndIn(h, b)
    BY <1>3, <2>1
  <2>5. \A x : (\E c \in Brks(h) : EndIn(h, c) = x) <=>
               (\E c \in Brks(h) : EndIn(g, c) = x)
    BY <2>4
  <2> QED
    BY <1>2, <2>2, <2>3, <2>4, <2>5 DEF Tiles
<1>6. Maps(g)
  BY <1>1, <1>2 DEF Blocks, Maps, Brks
<1>7. Footers(g, f)
  <2>1. {FootIn(g, b) : b \in DOMAIN g} = {FootIn(h, b) : b \in DOMAIN h}
    BY <1>1, <1>3
  <2> QED
    BY <1>1, <1>3, <2>1 DEF Blocks, Footers
<1> QED
  BY <1>4, <1>5, <1>6, <1>7 DEF Blocks

(* Block b grows over block n behind it.                                   *)
Absorbed(h, b, n) ==
    [a \in DOMAIN h \ {n} |->
        IF a = b THEN [h[a] EXCEPT !.size = h[b].size + overhead_size + h[n].size]
        ELSE h[a]]

LEMMA AbsorbedFields ==
    ASSUME NEW h, Headers(h), NEW b \in DOMAIN h, NEW n \in DOMAIN h, b # n,
           EndIn(h, b) = n
    PROVE  LET g == Absorbed(h, b, n)
           IN  /\ DOMAIN g = DOMAIN h \ {n}
               /\ Headers(g)
               /\ \A a \in DOMAIN g :
                     /\ g[a].mapped = h[a].mapped /\ g[a].is_free = h[a].is_free
                     /\ g[a].next = h[a].next
                     /\ a # b => g[a] = h[a]
               /\ g[b].size = h[b].size + overhead_size + h[n].size
               /\ EndIn(g, b) = EndIn(h, n) /\ FootIn(g, b) = FootIn(h, n)
               /\ \A a \in DOMAIN g : a # b =>
                     EndIn(g, a) = EndIn(h, a) /\ FootIn(g, a) = FootIn(h, a)
<1> DEFINE g == Absorbed(h, b, n)
<1>1. DOMAIN g = DOMAIN h \ {n}
  BY DEF Absorbed
<1>2. \A a \in DOMAIN h : h[a] \in BlockType
  BY DEF Headers
<1>3. \A a \in DOMAIN g : a # b => g[a] = h[a]
  BY DEF Absorbed
<1>4. g[b] = [h[b] EXCEPT !.size = h[b].size + overhead_size + h[n].size]
  BY DEF Absorbed
<1>5. h[b].size + overhead_size + h[n].size \in Nat
  BY <1>2, OldConstants DEF BlockType
<1>6. /\ g[b] \in BlockType
      /\ g[b].mapped = h[b].mapped /\ g[b].is_free = h[b].is_free
      /\ g[b].next = h[b].next
      /\ g[b].size = h[b].size + overhead_size + h[n].size
  BY <1>2, <1>4, <1>5 DEF BlockType
<1>7. Headers(g)
  <2>1. \A a \in DOMAIN g : g[a] \in BlockType
    BY <1>1, <1>2, <1>3, <1>6
  <2>2. g = [a \in DOMAIN g |-> g[a]]
    BY DEF Absorbed
  <2>3. IsFiniteSet(DOMAIN h \ {n})
    BY FS_RemoveElement DEF Headers
  <2> HIDE DEF g
  <2> QED
    BY <1>1, <2>1, <2>2, <2>3 DEF Headers
<1>8. EndIn(g, b) = EndIn(h, n) /\ FootIn(g, b) = FootIn(h, n)
  <2>1. /\ b \in Nat /\ h[b].size \in Nat
        /\ n = b + (overhead_size + h[b].size)
    BY BlockFacts
  <2>2. h[n].size \in Nat
    BY BlockFacts
  <2> HIDE DEF g
  <2> QED
    BY <1>6, <2>1, <2>2, OldConstants DEF EndIn, FootIn
<1>9. \A a \in DOMAIN g : a # b =>
         EndIn(g, a) = EndIn(h, a) /\ FootIn(g, a) = FootIn(h, a)
  BY <1>3 DEF EndIn, FootIn
<1>10. \A a \in DOMAIN g :
          /\ g[a].mapped = h[a].mapped /\ g[a].is_free = h[a].is_free
          /\ g[a].next = h[a].next
  BY <1>3, <1>6
<1> HIDE DEF g
<1> QED
  BY <1>1, <1>3, <1>6, <1>7, <1>8, <1>9, <1>10 DEF g

LEMMA AbsorbTiles ==
    ASSUME NEW h, NEW s, NEW e, Headers(h), Tiles(h, s, e),
           NEW b \in Brks(h), NEW n \in Brks(h), EndIn(h, b) = n
    PROVE  Tiles(Absorbed(h, b, n), s, e)
           /\ Brks(Absorbed(h, b, n)) = Brks(h) \ {n}
<1> DEFINE g == Absorbed(h, b, n)
<1>0. b \in DOMAIN h /\ n \in DOMAIN h
  BY DEF Brks
<1>1. /\ \A a \in DOMAIN h : a \in Nat /\ EndIn(h, a) \in Nat /\ a < EndIn(h, a)
      /\ b < n
  BY <1>0, BlockFacts
<1>2. /\ DOMAIN g = DOMAIN h \ {n}
      /\ \A a \in DOMAIN g : g[a].mapped = h[a].mapped
      /\ EndIn(g, b) = EndIn(h, n)
      /\ \A a \in DOMAIN g : a # b => EndIn(g, a) = EndIn(h, a)
  BY <1>0, <1>1, AbsorbedFields
<1> HIDE DEF g
<1>3. Brks(g) = Brks(h) \ {n} /\ b \in Brks(g)
  BY <1>1, <1>2 DEF Brks
<1>4. /\ \A a, c \in DOMAIN h : a < c => EndIn(h, a) <= c
      /\ s # NULL
      /\ s \in Nat /\ e \in Nat /\ s <= e /\ e <= BrkLimit
      /\ s \in Brks(h) \cup {e}
      /\ e = s \/ \E c \in Brks(h) : EndIn(h, c) = e
      /\ \A a \in Brks(h) :
            /\ s <= a /\ EndIn(h, a) <= e
            /\ EndIn(h, a) \in Brks(h) \cup {e}
            /\ a = s \/ \E c \in Brks(h) : EndIn(h, c) = a
  <2>1. s # NULL
    BY DEF Tiles
  <2> QED
    BY <2>1 DEF Tiles
<1>5. \A a, c \in DOMAIN g : a < c => EndIn(g, a) <= c
  <2> SUFFICES ASSUME NEW a \in DOMAIN g, NEW c \in DOMAIN g, a < c
               PROVE  EndIn(g, a) <= c
    OBVIOUS
  <2>1. CASE a # b
    BY <1>2, <1>4, <2>1
  <2>2. CASE a = b
    <3>1. n <= c /\ c # n
      BY <1>2, <1>4, <2>2, <1>0
    <3>2. n < c
      BY <3>1, <1>0, <1>1, <1>2
    <3> QED
      BY <3>2, <2>2, <1>0, <1>2, <1>4
  <2> QED
    BY <2>1, <2>2
<1>6. \A a \in Brks(h) : a # b => EndIn(h, a) # n
  <2> SUFFICES ASSUME NEW a \in Brks(h), a # b, EndIn(h, a) = n PROVE FALSE
    OBVIOUS
  <2>0. a \in DOMAIN h
    BY DEF Brks
  <2>1. a \in Nat /\ a < n /\ b \in Nat /\ n \in Nat
    BY <2>0, <1>0, <1>1
  <2>2. (a < b => n <= b) /\ (b < a => n <= a)
    BY <2>0, <1>0, <1>4
  <2> QED
    BY <2>1, <2>2, <1>1
<1>7. \A a \in Brks(h) : a # n /\ a # b => a \in Brks(g) /\ EndIn(g, a) = EndIn(h, a)
  BY <1>2, <1>3 DEF Brks
<1>8. ASSUME NEW x, x # n, \E c \in Brks(h) : EndIn(h, c) = x
      PROVE  \E c \in Brks(g) : EndIn(g, c) = x
  <2>1. PICK c \in Brks(h) : EndIn(h, c) = x
    BY <1>8
  <2>2. c # b
    BY <1>8, <2>1
  <2> QED
    BY <2>1, <2>2, <1>2, <1>3, <1>7
<1>9. n # e /\ s # n
  <2>1. s <= b /\ EndIn(h, n) <= e
    BY <1>4
  <2> QED
    BY <2>1, <1>0, <1>1, <1>4
<1>10. s \in Brks(g) \cup {e}
  BY <1>3, <1>4, <1>9
<1>11. e = s \/ \E c \in Brks(g) : EndIn(g, c) = e
  BY <1>4, <1>8, <1>9
<1>12. ASSUME NEW a \in Brks(g)
       PROVE  /\ s <= a /\ EndIn(g, a) <= e
              /\ EndIn(g, a) \in Brks(g) \cup {e}
              /\ a = s \/ \E c \in Brks(g) : EndIn(g, c) = a
  <2>1. a \in Brks(h) /\ a # n
    BY <1>3, <1>12
  <2>2. a = s \/ \E c \in Brks(g) : EndIn(g, c) = a
    BY <1>4, <1>8, <2>1
  <2>3. EndIn(g, a) <= e /\ EndIn(g, a) \in Brks(g) \cup {e}
    <3>1. CASE a = b
      <4>1. EndIn(h, n) <= e /\ EndIn(h, n) \in Brks(h) \cup {e}
        BY <1>4
      <4>2. EndIn(h, n) # n
        BY <1>0, <1>1
      <4> QED
        BY <3>1, <4>1, <4>2, <1>2, <1>3
    <3>2. CASE a # b
      <4>1. EndIn(g, a) = EndIn(h, a) /\ EndIn(h, a) # n
        BY <1>6, <1>7, <2>1, <3>2
      <4> QED
        BY <4>1, <1>3, <1>4, <2>1
    <3> QED
      BY <3>1, <3>2
  <2> QED
    BY <1>4, <2>1, <2>2, <2>3
<1>13. Tiles(g, s, e)
  BY <1>4, <1>5, <1>10, <1>11, <1>12 DEF Tiles
<1> QED
  BY <1>3, <1>13 DEF g

FootRecord(h, b) == [size |-> h[b].size, mapped |-> h[b].mapped]

LEMMA AbsorbBlocks ==
    ASSUME NEW h, NEW f, NEW s, NEW e, Blocks(h, f, s, e),
           NEW b \in Brks(h), NEW n \in Brks(h), EndIn(h, b) = n
    PROVE  LET g == Absorbed(h, b, n)
           IN  /\ Blocks(g, Put(Drop(f, FootIn(h, b)), FootIn(g, b),
                                FootRecord(g, b)), s, e)
               /\ Brks(g) = Brks(h) \ {n}
<1> DEFINE g == Absorbed(h, b, n)
           k == Put(Drop(f, FootIn(h, b)), FootIn(g, b), FootRecord(g, b))
<1>0. b \in DOMAIN h /\ n \in DOMAIN h /\ Headers(h) /\ Tiles(h, s, e)
      /\ Maps(h) /\ Footers(h, f)
  BY DEF Brks, Blocks
<1>1. b # n
  BY <1>0, BlockFacts
<1>2. /\ DOMAIN g = DOMAIN h \ {n}
      /\ Headers(g)
      /\ \A a \in DOMAIN g :
            g[a].mapped = h[a].mapped /\ (a # b => g[a] = h[a])
      /\ FootIn(g, b) = FootIn(h, n)
      /\ \A a \in DOMAIN g : a # b => FootIn(g, a) = FootIn(h, a)
  BY <1>0, <1>1, AbsorbedFields
<1>3. Tiles(g, s, e) /\ Brks(g) = Brks(h) \ {n}
  BY <1>0, AbsorbTiles
<1> HIDE DEF g
<1>4. Maps(g)
  BY <1>0, <1>2, <1>3 DEF Maps
<1>5. Footers(g, k)
  <2>1. \A a, c \in DOMAIN h : FootIn(h, a) = FootIn(h, c) => a = c
    <3>1. \A a, c \in DOMAIN h : a < c => EndIn(h, a) <= c
      BY <1>0 DEF Tiles
    <3> QED
      BY <1>0, <3>1, FeetDistinct
  <2>2. /\ DOMAIN f = {FootIn(h, a) : a \in DOMAIN h}
        /\ \A a \in DOMAIN h : f[FootIn(h, a)] = FootRecord(h, a)
    BY <1>0 DEF Footers, FootRecord
  <2>3. DOMAIN k = (DOMAIN f \ {FootIn(h, b)}) \cup {FootIn(h, n)}
    BY <1>2 DEF Put, Drop
  <2>4. DOMAIN k = {FootIn(g, a) : a \in DOMAIN g}
    <3>1. ASSUME NEW a \in DOMAIN g PROVE FootIn(g, a) \in DOMAIN k
      <4>1. CASE a = b
        BY <4>1, <1>2, <2>3
      <4>2. CASE a # b
        BY <4>2, <1>0, <1>2, <2>1, <2>2, <2>3
      <4> QED
        BY <4>1, <4>2
    <3>2. ASSUME NEW x \in DOMAIN k PROVE \E a \in DOMAIN g : x = FootIn(g, a)
      <4>1. CASE x = FootIn(h, n)
        BY <4>1, <1>0, <1>1, <1>2
      <4>2. CASE x # FootIn(h, n)
        <5>1. PICK a \in DOMAIN h : x = FootIn(h, a) /\ x # FootIn(h, b)
          BY <3>2, <4>2, <2>2, <2>3
        <5> QED
          BY <5>1, <4>2, <1>2
      <4> QED
        BY <4>1, <4>2
    <3> QED
      BY <3>1, <3>2
  <2>5. ASSUME NEW a \in DOMAIN g PROVE k[FootIn(g, a)] = FootRecord(g, a)
    <3>1. CASE a = b
      BY <3>1 DEF Put
    <3>2. CASE a # b
      <4>1. /\ FootIn(g, a) = FootIn(h, a) /\ FootIn(h, a) # FootIn(h, n)
            /\ FootIn(h, a) # FootIn(h, b) /\ a \in DOMAIN h
            /\ FootIn(h, a) \in DOMAIN f
        BY <3>2, <1>0, <1>2, <2>1, <2>2
      <4>2. Drop(f, FootIn(h, b))[FootIn(h, a)] = f[FootIn(h, a)]
            /\ FootIn(h, a) \in DOMAIN Drop(f, FootIn(h, b))
        BY <4>1 DEF Drop
      <4>3. k[FootIn(h, a)] = f[FootIn(h, a)]
        BY <4>1, <4>2, <1>2 DEF Put
      <4>4. f[FootIn(h, a)] = FootRecord(h, a) /\ FootRecord(h, a) = FootRecord(g, a)
        BY <3>2, <4>1, <1>2, <2>2 DEF FootRecord
      <4> QED
        BY <4>1, <4>3, <4>4
    <3> QED
      BY <3>1, <3>2
  <2> HIDE DEF k
  <2> QED
    BY <2>4, <2>5 DEF Footers, FootRecord
<1> QED
  BY <1>2, <1>3, <1>4, <1>5 DEF Blocks, g

LEMMA FeetApart ==
    ASSUME NEW h, Headers(h), NEW s, NEW e, Tiles(h, s, e)
    PROVE  \A a, c \in DOMAIN h : FootIn(h, a) = FootIn(h, c) => a = c
<1>1. \A a, c \in DOMAIN h : a < c => EndIn(h, a) <= c
  BY DEF Tiles
<1> QED
  BY <1>1, FeetDistinct

(* Block b is cut to n bytes, and the rest becomes block rest.             *)
IsCut(h, g, b, n, rest) ==
    /\ DOMAIN g = DOMAIN h \cup {rest}
    /\ g \in [DOMAIN g -> BlockType]
    /\ rest = b + overhead_size + n
    /\ n \in Nat /\ n + overhead_size + 1 <= h[b].size
    /\ g[b].size = n /\ ~g[b].mapped
    /\ g[rest].size = h[b].size - n - overhead_size /\ ~g[rest].mapped
    /\ \A a \in DOMAIN h \ {b} : /\ g[a].size = h[a].size
                                 /\ g[a].mapped = h[a].mapped
                                 /\ g[a].mapped => ~g[a].is_free

LEMMA CutFields ==
    ASSUME NEW h, NEW g, NEW b \in DOMAIN h, NEW n, NEW rest,
           Headers(h), IsCut(h, g, b, n, rest),
           \A a, c \in DOMAIN h : a < c => EndIn(h, a) <= c
    PROVE  /\ Headers(g)
           /\ rest \notin DOMAIN h /\ rest \in DOMAIN g /\ rest \in Nat
           /\ b < rest /\ rest < EndIn(h, b)
           /\ EndIn(g, b) = rest /\ EndIn(g, rest) = EndIn(h, b)
           /\ FootIn(g, rest) = FootIn(h, b)
           /\ \A a \in DOMAIN h \ {b} :
                 EndIn(g, a) = EndIn(h, a) /\ FootIn(g, a) = FootIn(h, a)
<1>1. /\ b \in Nat /\ h[b].size \in Nat
      /\ EndIn(h, b) = b + (overhead_size + h[b].size)
  BY BlockFacts
<1>2. /\ rest = b + overhead_size + n /\ n \in Nat
      /\ n + overhead_size + 1 <= h[b].size
      /\ g[b].size = n
      /\ g[rest].size = h[b].size - n - overhead_size
  BY DEF IsCut
<1>3. rest \in Nat /\ b < rest /\ rest < EndIn(h, b)
  BY <1>1, <1>2, OldConstants
<1>4. rest \notin DOMAIN h
  <2> SUFFICES ASSUME rest \in DOMAIN h PROVE FALSE
    OBVIOUS
  <2>1. EndIn(h, b) <= rest /\ EndIn(h, b) \in Nat
    BY <1>3, BlockFacts
  <2> QED
    BY <1>3, <2>1
<1>5. EndIn(g, b) = rest /\ EndIn(g, rest) = EndIn(h, b)
      /\ FootIn(g, rest) = FootIn(h, b)
  BY <1>1, <1>2, OldConstants DEF EndIn, FootIn, overhead_size
<1>6. \A a \in DOMAIN h \ {b} :
         EndIn(g, a) = EndIn(h, a) /\ FootIn(g, a) = FootIn(h, a)
  BY DEF IsCut, EndIn, FootIn
<1>7. Headers(g)
  <2>1. IsFiniteSet(DOMAIN h \cup {rest})
    BY FS_AddElement DEF Headers
  <2> QED
    BY <1>3, <2>1 DEF Headers, IsCut
<1>8. rest \in DOMAIN g
  BY DEF IsCut
<1> QED
  BY <1>3, <1>4, <1>5, <1>6, <1>7, <1>8

LEMMA CutTiles ==
    ASSUME NEW h, NEW g, NEW s, NEW e, NEW b \in Brks(h), NEW n, NEW rest,
           Headers(h), Tiles(h, s, e), IsCut(h, g, b, n, rest)
    PROVE  Tiles(g, s, e) /\ Brks(g) = Brks(h) \cup {rest}
<1>0. b \in DOMAIN h /\ DOMAIN g = DOMAIN h \cup {rest}
  BY DEF Brks, IsCut
<1>1. /\ \A a, c \in DOMAIN h : a < c => EndIn(h, a) <= c
      /\ s # NULL
      /\ s \in Nat /\ e \in Nat /\ s <= e /\ e <= BrkLimit
      /\ s \in Brks(h) \cup {e}
      /\ e = s \/ \E c \in Brks(h) : EndIn(h, c) = e
      /\ \A a \in Brks(h) :
            /\ s <= a /\ EndIn(h, a) <= e
            /\ EndIn(h, a) \in Brks(h) \cup {e}
            /\ a = s \/ \E c \in Brks(h) : EndIn(h, c) = a
  <2>1. s # NULL
    BY DEF Tiles
  <2> QED
    BY <2>1 DEF Tiles
<1>2. /\ rest \notin DOMAIN h /\ rest \in DOMAIN g /\ rest \in Nat
      /\ b < rest /\ rest < EndIn(h, b)
      /\ EndIn(g, b) = rest /\ EndIn(g, rest) = EndIn(h, b)
      /\ \A a \in DOMAIN h \ {b} : EndIn(g, a) = EndIn(h, a)
  BY <1>0, <1>1, CutFields
<1>3. \A a \in DOMAIN h : a \in Nat /\ EndIn(h, a) \in Nat /\ a < EndIn(h, a)
  BY BlockFacts
<1>4. Brks(g) = Brks(h) \cup {rest}
  BY <1>0, <1>2 DEF Brks, IsCut
<1>5. \A a, c \in DOMAIN g : a < c => EndIn(g, a) <= c
  <2> SUFFICES ASSUME NEW a \in DOMAIN g, NEW c \in DOMAIN g, a < c
               PROVE  EndIn(g, a) <= c
    OBVIOUS
  <2>1. CASE a = rest
    <3>1. c \in DOMAIN h /\ c \in Nat /\ b < c
      BY <1>0, <1>2, <1>3, <2>1
    <3> QED
      BY <3>1, <1>0, <1>1, <1>2, <2>1
  <2>2. CASE a = b
    <3>1. CASE c = rest
      BY <3>1, <2>2, <1>2
    <3>2. CASE c # rest
      <4>1. c \in DOMAIN h /\ c \in Nat /\ EndIn(h, b) <= c
        BY <1>0, <1>1, <1>3, <2>2, <3>2
      <4> QED
        BY <4>1, <1>0, <1>2, <1>3, <2>2
    <3> QED
      BY <3>1, <3>2
  <2>3. CASE a # b /\ a # rest
    <3>1. a \in DOMAIN h /\ EndIn(g, a) = EndIn(h, a) /\ a \in Nat
          /\ EndIn(h, a) \in Nat
      BY <1>0, <1>2, <1>3, <2>3
    <3>2. CASE c # rest
      BY <3>1, <3>2, <1>0, <1>1
    <3>3. CASE c = rest
      <4>1. ~(b < a)
        <5> SUFFICES ASSUME b < a PROVE FALSE
          OBVIOUS
        <5>1. EndIn(h, b) <= a
          BY <1>0, <1>1, <3>1
        <5> QED
          BY <5>1, <1>0, <1>2, <1>3, <3>1, <3>3
      <4>2. a < b
        BY <4>1, <2>3, <3>1, <1>0, <1>3
      <4>3. EndIn(h, a) <= b
        BY <4>2, <3>1, <1>0, <1>1
      <4> QED
        BY <4>3, <3>1, <3>3, <1>0, <1>2, <1>3
    <3> QED
      BY <3>2, <3>3
  <2> QED
    BY <2>1, <2>2, <2>3
<1>6. \A a \in Brks(h) : a # b => a \in Brks(g) /\ EndIn(g, a) = EndIn(h, a)
  BY <1>2, <1>4 DEF Brks
<1>7. b \in Brks(g) /\ rest \in Brks(g)
  BY <1>4
<1>8. ASSUME NEW x, \E c \in Brks(h) : EndIn(h, c) = x
      PROVE  \E c \in Brks(g) : EndIn(g, c) = x
  <2>1. PICK c \in Brks(h) : EndIn(h, c) = x
    BY <1>8
  <2> QED
    BY <2>1, <1>2, <1>6, <1>7
<1>9. ASSUME NEW a \in Brks(g)
      PROVE  /\ s <= a /\ EndIn(g, a) <= e
             /\ EndIn(g, a) \in Brks(g) \cup {e}
             /\ a = s \/ \E c \in Brks(g) : EndIn(g, c) = a
  <2>0. /\ s <= b /\ EndIn(h, b) <= e /\ EndIn(h, b) \in Brks(h) \cup {e}
        /\ b \in Nat /\ EndIn(h, b) \in Nat
    BY <1>0, <1>1, <1>3
  <2>1. CASE a = rest
    <3>1. s <= rest
      BY <2>0, <1>1, <1>2
    <3> QED
      BY <2>0, <2>1, <3>1, <1>2, <1>4, <1>7
  <2>2. CASE a = b
    <3>1. rest <= e
      BY <2>0, <1>1, <1>2
    <3>2. b = s \/ \E c \in Brks(g) : EndIn(g, c) = b
      BY <1>1, <1>8
    <3> QED
      BY <2>0, <2>2, <3>1, <3>2, <1>2, <1>7
  <2>3. CASE a # rest /\ a # b
    <3>1. a \in Brks(h) /\ EndIn(g, a) = EndIn(h, a)
      BY <1>4, <1>6, <1>9, <2>3
    <3> QED
      BY <3>1, <1>1, <1>4, <1>8
  <2> QED
    BY <2>1, <2>2, <2>3
<1>10. s \in Brks(g) \cup {e} /\ (e = s \/ \E c \in Brks(g) : EndIn(g, c) = e)
  BY <1>1, <1>4, <1>8
<1> QED
  BY <1>1, <1>4, <1>5, <1>9, <1>10 DEF Tiles

LEMMA CutBlocks ==
    ASSUME NEW h, NEW f, NEW g, NEW s, NEW e, NEW b \in Brks(h), NEW n, NEW rest,
           Blocks(h, f, s, e), IsCut(h, g, b, n, rest)
    PROVE  /\ Blocks(g, Put(Put(f, FootIn(g, b), FootRecord(g, b)),
                            FootIn(g, rest), FootRecord(g, rest)), s, e)
           /\ Brks(g) = Brks(h) \cup {rest}
<1> DEFINE k == Put(Put(f, FootIn(g, b), FootRecord(g, b)),
                    FootIn(g, rest), FootRecord(g, rest))
<1>0. /\ b \in DOMAIN h /\ Headers(h) /\ Tiles(h, s, e) /\ Maps(h)
      /\ Footers(h, f) /\ DOMAIN g = DOMAIN h \cup {rest}
  BY DEF Brks, IsCut, Blocks
<1>1. /\ Headers(g) /\ rest \notin DOMAIN h
      /\ FootIn(g, rest) = FootIn(h, b)
      /\ \A a \in DOMAIN h \ {b} : FootIn(g, a) = FootIn(h, a)
  <2>1. \A a, c \in DOMAIN h : a < c => EndIn(h, a) <= c
    BY <1>0 DEF Tiles
  <2>2. \A a \in DOMAIN h \ {b} :
           EndIn(g, a) = EndIn(h, a) /\ FootIn(g, a) = FootIn(h, a)
    BY <1>0, <2>1, CutFields
  <2>3. /\ Headers(g) /\ rest \notin DOMAIN h
        /\ FootIn(g, rest) = FootIn(h, b)
    BY <1>0, <2>1, CutFields
  <2> QED
    BY <2>2, <2>3
<1>2. Tiles(g, s, e) /\ Brks(g) = Brks(h) \cup {rest}
  BY <1>0, CutTiles
<1>3. Maps(g)
  BY <1>0, <1>2 DEF Maps, Brks, IsCut
<1>4. Footers(g, k)
  <2>1. \A a, c \in DOMAIN g : FootIn(g, a) = FootIn(g, c) => a = c
    BY <1>1, <1>2, FeetApart
  <2>2. /\ DOMAIN f = {FootIn(h, a) : a \in DOMAIN h}
        /\ \A a \in DOMAIN h : f[FootIn(h, a)] = FootRecord(h, a)
    BY <1>0 DEF Footers, FootRecord
  <2>3. DOMAIN k = DOMAIN f \cup {FootIn(g, b)} \cup {FootIn(g, rest)}
    BY DEF Put
  <2>4. DOMAIN k = {FootIn(g, a) : a \in DOMAIN g}
    <3>1. ASSUME NEW a \in DOMAIN g PROVE FootIn(g, a) \in DOMAIN k
      BY <3>1, <1>0, <1>1, <2>2, <2>3
    <3>2. ASSUME NEW x \in DOMAIN k PROVE \E a \in DOMAIN g : x = FootIn(g, a)
      <4>1. CASE x \in {FootIn(g, b), FootIn(g, rest)}
        BY <4>1, <1>0
      <4>2. CASE x \notin {FootIn(g, b), FootIn(g, rest)}
        <5>1. PICK a \in DOMAIN h : x = FootIn(h, a)
          BY <3>2, <4>2, <2>2, <2>3
        <5> QED
          BY <5>1, <4>2, <1>0, <1>1
      <4> QED
        BY <4>1, <4>2
    <3> QED
      BY <3>1, <3>2
  <2>5. ASSUME NEW a \in DOMAIN g PROVE k[FootIn(g, a)] = FootRecord(g, a)
    <3>1. CASE a = rest
      BY <3>1 DEF Put
    <3>2. CASE a = b
      <4>1. FootIn(g, b) # FootIn(g, rest)
        BY <1>0, <1>1, <2>1
      <4> QED
        BY <3>2, <4>1 DEF Put
    <3>3. CASE a # rest /\ a # b
      <4>1. /\ a \in DOMAIN h /\ FootIn(g, a) = FootIn(h, a)
            /\ FootIn(g, a) # FootIn(g, rest) /\ FootIn(g, a) # FootIn(g, b)
            /\ FootIn(g, a) \in DOMAIN f
        BY <3>3, <1>0, <1>1, <2>1, <2>2
      <4>2. k[FootIn(g, a)] = f[FootIn(g, a)]
        BY <4>1 DEF Put
      <4>3. FootRecord(h, a) = FootRecord(g, a)
        BY <3>3, <4>1 DEF FootRecord, IsCut
      <4> QED
        BY <4>1, <4>2, <4>3, <2>2
    <3> QED
      BY <3>1, <3>2, <3>3
  <2> HIDE DEF k
  <2> QED
    BY <2>4, <2>5 DEF Footers, FootRecord
<1> QED
  BY <1>1, <1>2, <1>3, <1>4 DEF Blocks

(* A block that system calls place outside the others.                     *)
LEMMA AddedFields ==
    ASSUME NEW h, Headers(h), NEW at \in Nat, at \notin DOMAIN h,
           NEW v \in BlockType
    PROVE  LET g == Put(h, at, v)
           IN  /\ DOMAIN g = DOMAIN h \cup {at} /\ Headers(g)
               /\ g[at] = v /\ \A a \in DOMAIN h : g[a] = h[a]
               /\ EndIn(g, at) = at + (overhead_size + v.size)
               /\ \A a \in DOMAIN h :
                     EndIn(g, a) = EndIn(h, a) /\ FootIn(g, a) = FootIn(h, a)
<1> DEFINE g == Put(h, at, v)
<1>1. /\ DOMAIN g = DOMAIN h \cup {at}
      /\ g[at] = v /\ \A a \in DOMAIN h : g[a] = h[a]
      /\ g = [a \in DOMAIN g |-> g[a]]
  BY DEF Put
<1>2. IsFiniteSet(DOMAIN h \cup {at})
  BY FS_AddElement DEF Headers
<1> HIDE DEF g
<1>3. \A a \in DOMAIN g : g[a] \in BlockType
  BY <1>1 DEF Headers
<1>4. Headers(g)
  BY <1>1, <1>2, <1>3 DEF Headers
<1>5. EndIn(g, at) = at + (overhead_size + v.size)
      /\ \A a \in DOMAIN h :
            EndIn(g, a) = EndIn(h, a) /\ FootIn(g, a) = FootIn(h, a)
  BY <1>1 DEF EndIn, FootIn
<1> QED
  BY <1>1, <1>4, <1>5 DEF g

LEMMA AddedFooters ==
    ASSUME NEW h, Headers(h), NEW f, Footers(h, f), NEW at \in Nat,
           at \notin DOMAIN h, NEW v \in BlockType,
           NEW s, NEW e, Tiles(Put(h, at, v), s, e)
    PROVE  LET g == Put(h, at, v)
           IN  Footers(g, Put(f, FootIn(g, at), FootRecord(g, at)))
<1> DEFINE g == Put(h, at, v)
           k == Put(f, FootIn(g, at), FootRecord(g, at))
<1>1. /\ DOMAIN g = DOMAIN h \cup {at} /\ Headers(g)
      /\ \A a \in DOMAIN h : g[a] = h[a]
      /\ \A a \in DOMAIN h :
            EndIn(g, a) = EndIn(h, a) /\ FootIn(g, a) = FootIn(h, a)
  BY AddedFields
<1> HIDE DEF g
<1>2. \A a, c \in DOMAIN g : FootIn(g, a) = FootIn(g, c) => a = c
  BY <1>1, FeetApart DEF g
<1>3. /\ DOMAIN f = {FootIn(h, a) : a \in DOMAIN h}
      /\ \A a \in DOMAIN h : f[FootIn(h, a)] = FootRecord(h, a)
  BY DEF Footers, FootRecord
<1>4. DOMAIN k = DOMAIN f \cup {FootIn(g, at)}
  BY DEF Put
<1>5. DOMAIN k = {FootIn(g, a) : a \in DOMAIN g}
  <2>1. ASSUME NEW a \in DOMAIN g PROVE FootIn(g, a) \in DOMAIN k
    BY <2>1, <1>1, <1>3, <1>4
  <2>2. ASSUME NEW x \in DOMAIN k PROVE \E a \in DOMAIN g : x = FootIn(g, a)
    <3>1. CASE x = FootIn(g, at)
      BY <3>1, <1>1
    <3>2. CASE x # FootIn(g, at)
      <4>1. PICK a \in DOMAIN h : x = FootIn(h, a)
        BY <2>2, <3>2, <1>3, <1>4
      <4> QED
        BY <4>1, <1>1
    <3> QED
      BY <3>1, <3>2
  <2> QED
    BY <2>1, <2>2
<1>6. ASSUME NEW a \in DOMAIN g PROVE k[FootIn(g, a)] = FootRecord(g, a)
  <2>1. CASE a = at
    BY <2>1 DEF Put
  <2>2. CASE a # at
    <3>1. /\ a \in DOMAIN h /\ FootIn(g, a) = FootIn(h, a)
          /\ FootIn(g, a) # FootIn(g, at) /\ FootIn(g, a) \in DOMAIN f
      BY <2>2, <1>1, <1>2, <1>3
    <3>2. k[FootIn(g, a)] = f[FootIn(g, a)]
      BY <3>1 DEF Put
    <3>3. FootRecord(h, a) = FootRecord(g, a)
      BY <3>1, <1>1 DEF FootRecord
    <3> QED
      BY <3>1, <3>2, <3>3, <1>3
  <2> QED
    BY <2>1, <2>2
<1> HIDE DEF k
<1>7. Footers(g, k)
  BY <1>5, <1>6 DEF Footers, FootRecord
<1> QED
  BY <1>7 DEF g, k

(* Any block ends below the mapped ones and, in the heap, below its end.   *)
LEMMA BrkBelow ==
    ASSUME NEW h, NEW f, NEW s, NEW e, Blocks(h, f, s, e), NEW a \in DOMAIN h
    PROVE  /\ a \in Brks(h) => /\ s # NULL /\ e \in Nat /\ e <= BrkLimit
                               /\ EndIn(h, a) <= e
           /\ a \notin Brks(h) => a \in MapAddr /\ BrkLimit < a
                                  /\ h[a].size \in Requests
<1>1. ASSUME a \in Brks(h)
      PROVE  s # NULL /\ e \in Nat /\ e <= BrkLimit /\ EndIn(h, a) <= e
  <2>1. Tiles(h, s, e)
    BY DEF Blocks
  <2>2. s # NULL
    BY <1>1, <2>1 DEF Tiles
  <2> QED
    BY <1>1, <2>1, <2>2 DEF Tiles
<1>2. ASSUME a \notin Brks(h)
      PROVE  a \in MapAddr /\ h[a].size \in Requests
  BY <1>2 DEF Blocks, Maps
<1>3. \A x \in MapAddr : x > BrkLimit
  BY OldAllocatorAssumption
<1>4. ASSUME a \notin Brks(h) PROVE BrkLimit < a
  <2>1. a > BrkLimit /\ a \in Nat
    BY <1>2, <1>3, <1>4, OldConstants
  <2> QED
    BY <2>1, OldConstants
<1> QED
  BY <1>1, <1>2, <1>4

LEMMA SbrkBlocks ==
    ASSUME NEW h, NEW f, NEW s, NEW e, Blocks(h, f, s, e),
           NEW at \in Nat, at = IF e = NULL THEN BrkBase ELSE e,
           NEW v \in BlockType, ~v.mapped,
           at + (overhead_size + v.size) <= BrkLimit
    PROVE  LET g == Put(h, at, v)
           IN  /\ Blocks(g, Put(f, FootIn(g, at), FootRecord(g, at)),
                         IF s = NULL THEN at ELSE s, EndIn(g, at))
               /\ Brks(g) = Brks(h) \cup {at}
               /\ at \notin DOMAIN h
<1> DEFINE g == Put(h, at, v)
           start == IF s = NULL THEN at ELSE s
           end == EndIn(g, at)
<1>0. Headers(h) /\ Tiles(h, s, e) /\ Maps(h) /\ Footers(h, f)
  BY DEF Blocks
<1>1. v.size \in Nat
  BY DEF BlockType
<1>2. \A a \in DOMAIN h : a \in Nat /\ EndIn(h, a) \in Nat /\ a < EndIn(h, a)
  BY <1>0, BlockFacts
<1>3. ASSUME NEW a \in Brks(h) PROVE EndIn(h, a) <= at /\ a < at
  <2>0. a \in DOMAIN h
    BY DEF Brks
  <2>1. EndIn(h, a) <= e /\ e \in Nat
    BY <2>0, BrkBelow
  <2>2. at = e
    BY <2>1, OldConstants
  <2> QED
    BY <2>0, <2>1, <2>2, <1>2
<1>4. ASSUME NEW a \in DOMAIN h, a \notin Brks(h) PROVE BrkLimit < a /\ at < a
  <2>1. BrkLimit < a /\ a \in Nat
    BY <1>4, <1>2, BrkBelow
  <2> QED
    BY <2>1, <1>1, OldConstants
<1>5. at \notin DOMAIN h
  <2> SUFFICES ASSUME at \in DOMAIN h PROVE FALSE
    OBVIOUS
  <2>1. at < at
    BY <1>3, <1>4
  <2> QED
    BY <2>1
<1>6. /\ DOMAIN g = DOMAIN h \cup {at} /\ Headers(g)
      /\ g[at] = v /\ \A a \in DOMAIN h : g[a] = h[a]
      /\ EndIn(g, at) = at + (overhead_size + v.size)
      /\ \A a \in DOMAIN h :
            EndIn(g, a) = EndIn(h, a) /\ FootIn(g, a) = FootIn(h, a)
  BY <1>0, <1>5, AddedFields
<1> HIDE DEF g
<1>7. Brks(g) = Brks(h) \cup {at}
  BY <1>6, <1>5 DEF Brks
<1>8. end \in Nat /\ at < end /\ end <= BrkLimit
  BY <1>1, <1>6, OldConstants
<1> HIDE DEF end
<1>9. \A a, c \in DOMAIN g : a < c => EndIn(g, a) <= c
  <2> SUFFICES ASSUME NEW a \in DOMAIN g, NEW c \in DOMAIN g, a < c
               PROVE  EndIn(g, a) <= c
    OBVIOUS
  <2>1. CASE a = at
    <3>1. c \in DOMAIN h /\ c \in Nat
      BY <1>2, <1>6, <2>1
    <3>2. c \notin Brks(h)
      BY <1>3, <2>1, <3>1
    <3>3. BrkLimit < c
      BY <1>4, <3>1, <3>2
    <3> QED
      BY <2>1, <3>1, <3>3, <1>8, OldConstants DEF end
  <2>2. CASE a # at /\ c = at
    <3>1. a \in DOMAIN h /\ a \in Nat
      BY <1>2, <1>6, <2>2
    <3>2. a \in Brks(h)
      BY <1>4, <2>2, <3>1
    <3> QED
      BY <1>3, <1>6, <2>2, <3>1, <3>2
  <2>3. CASE a # at /\ c # at
    BY <2>3, <1>0, <1>6 DEF Tiles
  <2> QED
    BY <2>1, <2>2, <2>3
<1>10. start \in Nat /\ start <= end /\ start # NULL /\ end \in Nat
  <2>1. s # NULL => s \in Nat /\ s <= e /\ e \in Nat
    BY <1>0 DEF Tiles
  <2>2. s # NULL => at = e
    BY <2>1, OldConstants
  <2> QED
    BY <2>1, <2>2, <1>8, OldConstants
<1>11. start \in Brks(g) \cup {end}
  <2>1. CASE s = NULL
    BY <2>1, <1>7
  <2>2. CASE s # NULL
    <3>1. s \in Brks(h) \cup {e} /\ e \in Nat
      BY <1>0, <2>2 DEF Tiles
    <3>2. at = e
      BY <3>1, OldConstants
    <3> QED
      BY <2>2, <3>1, <3>2, <1>7
  <2> QED
    BY <2>1, <2>2
<1>12. \E c \in Brks(g) : EndIn(g, c) = end
  BY <1>7 DEF end
<1>13. ASSUME NEW a \in Brks(g)
       PROVE  /\ start <= a /\ EndIn(g, a) <= end
              /\ EndIn(g, a) \in Brks(g) \cup {end}
              /\ a = start \/ \E c \in Brks(g) : EndIn(g, c) = a
  <2>1. \A c \in Brks(h) : c \in Brks(g) /\ EndIn(g, c) = EndIn(h, c)
    BY <1>6, <1>7 DEF Brks
  <2>2. CASE a = at
    <3>1. CASE s = NULL
      BY <2>2, <3>1, <1>8 DEF end
    <3>2. CASE s # NULL
      <4>1. /\ e \in Nat /\ s \in Nat /\ s <= e
            /\ e = s \/ \E c \in Brks(h) : EndIn(h, c) = e
        BY <1>0, <3>2 DEF Tiles
      <4>2. at = e
        BY <4>1, OldConstants
      <4>3. at = start \/ \E c \in Brks(g) : EndIn(g, c) = at
        BY <2>1, <3>2, <4>1, <4>2
      <4>4. end <= end
        BY <1>8
      <4> QED
        BY <2>2, <3>2, <4>1, <4>2, <4>3, <4>4 DEF end
    <3> QED
      BY <3>1, <3>2
  <2>3. CASE a # at
    <3>0. a \in Brks(h) /\ a \in DOMAIN h
      BY <1>7, <1>13, <2>3 DEF Brks
    <3>1. s # NULL /\ e \in Nat
      BY <3>0, BrkBelow
    <3>2. at = e
      BY <3>1, OldConstants
    <3>3. /\ s <= a /\ EndIn(h, a) <= e
          /\ EndIn(h, a) \in Brks(h) \cup {e}
          /\ a = s \/ \E c \in Brks(h) : EndIn(h, c) = a
      BY <1>0, <3>0, <3>1 DEF Tiles
    <3>4. EndIn(h, a) <= end
      BY <3>0, <3>1, <3>2, <3>3, <1>2, <1>8
    <3>5. EndIn(g, a) = EndIn(h, a)
      BY <2>1, <3>0
    <3> QED
      BY <2>1, <3>1, <3>2, <3>3, <3>4, <3>5, <1>7
  <2> QED
    BY <2>2, <2>3
<1> HIDE DEF start
<1>14. Tiles(g, start, end)
  BY <1>8, <1>9, <1>10, <1>11, <1>12, <1>13 DEF Tiles
<1>15. Maps(g)
  <2>1. \A a \in DOMAIN g \ Brks(g) : a \in DOMAIN h \ Brks(h) /\ g[a] = h[a]
    BY <1>6, <1>7
  <2> QED
    BY <1>0, <2>1 DEF Maps
<1>16. Footers(g, Put(f, FootIn(g, at), FootRecord(g, at)))
  BY <1>0, <1>5, <1>14, AddedFooters DEF g
<1> QED
  BY <1>5, <1>6, <1>7, <1>14, <1>15, <1>16 DEF Blocks, g, start, end

LEMMA MmapBlocks ==
    ASSUME NEW h, NEW f, NEW s, NEW e, Blocks(h, f, s, e),
           NEW at \in MapAddr, at \notin DOMAIN h,
           NEW v \in BlockType, v.mapped, ~v.is_free, v.size \in Requests
    PROVE  LET g == Put(h, at, v)
           IN  /\ Blocks(g, Put(f, FootIn(g, at), FootRecord(g, at)), s, e)
               /\ Brks(g) = Brks(h)
<1> DEFINE g == Put(h, at, v)
<1>0. Headers(h) /\ Tiles(h, s, e) /\ Maps(h) /\ Footers(h, f) /\ at \in Nat
  BY OldConstants DEF Blocks
<1>1. v.size \in Nat
  BY DEF BlockType
<1>2. \A a \in DOMAIN h : a \in Nat /\ EndIn(h, a) \in Nat /\ a < EndIn(h, a)
                          /\ EndIn(h, a) = a + (overhead_size + h[a].size)
                          /\ h[a].size \in Nat
  BY <1>0, BlockFacts
<1>3. /\ DOMAIN g = DOMAIN h \cup {at} /\ Headers(g)
      /\ g[at] = v /\ \A a \in DOMAIN h : g[a] = h[a]
      /\ EndIn(g, at) = at + (overhead_size + v.size)
      /\ \A a \in DOMAIN h :
            EndIn(g, a) = EndIn(h, a) /\ FootIn(g, a) = FootIn(h, a)
  BY <1>0, AddedFields
<1> HIDE DEF g
<1>4. Brks(g) = Brks(h)
  BY <1>3 DEF Brks
<1>5. \A a, c \in MapAddr, q \in Requests :
         a < c => a + (overhead_size + q) <= c
  <2> SUFFICES ASSUME NEW a \in MapAddr, NEW c \in MapAddr, NEW q \in Requests,
                      a < c
               PROVE  a + (overhead_size + q) <= c
    OBVIOUS
  <2>1. a + q + header_size + footer_size <= c
    BY OldAllocatorAssumption
  <2> QED
    BY <2>1, OldConstants DEF overhead_size
<1>6. BrkLimit < at
  <2>1. at > BrkLimit
    BY OldAllocatorAssumption
  <2> QED
    BY <2>1, <1>0, OldConstants
<1>7. \A a, c \in DOMAIN g : a < c => EndIn(g, a) <= c
  <2> SUFFICES ASSUME NEW a \in DOMAIN g, NEW c \in DOMAIN g, a < c
               PROVE  EndIn(g, a) <= c
    OBVIOUS
  <2>1. CASE a = at
    <3>1. c \in DOMAIN h /\ c \in Nat
      BY <1>0, <1>2, <1>3, <2>1
    <3>2. c \notin Brks(h)
      <4> SUFFICES ASSUME c \in Brks(h) PROVE FALSE
        OBVIOUS
      <4>1. EndIn(h, c) <= e /\ e <= BrkLimit /\ e \in Nat
        BY <3>1, BrkBelow
      <4> QED
        BY <4>1, <3>1, <1>0, <1>2, <1>6, <2>1, OldConstants
    <3>3. c \in MapAddr
      BY <3>1, <3>2, BrkBelow
    <3> QED
      BY <2>1, <3>3, <1>3, <1>5
  <2>2. CASE a # at /\ c = at
    <3>1. a \in DOMAIN h /\ a \in Nat /\ EndIn(g, a) = EndIn(h, a)
      BY <1>2, <1>3, <2>2
    <3>2. CASE a \in Brks(h)
      <4>1. EndIn(h, a) <= e /\ e <= BrkLimit /\ e \in Nat
        BY <3>1, <3>2, BrkBelow
      <4> QED
        BY <4>1, <3>1, <1>0, <1>2, <1>6, <2>2, OldConstants
    <3>3. CASE a \notin Brks(h)
      <4>1. a \in MapAddr /\ h[a].size \in Requests
        BY <3>1, <3>3, BrkBelow
      <4> QED
        BY <4>1, <3>1, <1>2, <1>5, <2>2
    <3> QED
      BY <3>2, <3>3
  <2>3. CASE a # at /\ c # at
    BY <2>3, <1>0, <1>3 DEF Tiles
  <2> QED
    BY <2>1, <2>2, <2>3
<1>8. \A a \in Brks(h) : EndIn(g, a) = EndIn(h, a)
  BY <1>3 DEF Brks
<1>9. \A x : (\E c \in Brks(h) : EndIn(h, c) = x) <=>
             (\E c \in Brks(h) : EndIn(g, c) = x)
  BY <1>8
<1>10. Tiles(g, s, e)
  BY <1>0, <1>4, <1>7, <1>8, <1>9 DEF Tiles
<1>11. Maps(g)
  <2>1. \A a \in DOMAIN h \ Brks(h) :
           a \in MapAddr /\ h[a].size \in Requests /\ ~h[a].is_free
    BY <1>0 DEF Maps
  <2>2. ASSUME NEW a \in DOMAIN g \ Brks(g)
        PROVE  a \in MapAddr /\ g[a].size \in Requests /\ ~g[a].is_free
    <3>1. CASE a = at
      BY <3>1, <1>3
    <3>2. CASE a # at
      <4>1. a \in DOMAIN h \ Brks(h) /\ g[a] = h[a]
        BY <2>2, <3>2, <1>3, <1>4
      <4> QED
        BY <2>1, <4>1
    <3> QED
      BY <3>1, <3>2
  <2> QED
    BY <2>2 DEF Maps
<1>12. Footers(g, Put(f, FootIn(g, at), FootRecord(g, at)))
  BY <1>0, <1>10, AddedFooters DEF g
<1> QED
  BY <1>3, <1>4, <1>10, <1>11, <1>12 DEF Blocks, g

(* A block goes back to the system: a mapped one, or the last of the heap. *)
LEMMA ReleasedBlocks ==
    ASSUME NEW h, NEW f, NEW s, NEW e, Blocks(h, f, s, e), NEW b \in DOMAIN h,
           b \in Brks(h) => EndIn(h, b) = e
    PROVE  LET g == Drop(h, b)
           IN  /\ Blocks(g, Drop(f, FootIn(h, b)), s,
                         IF b \in Brks(h) THEN b ELSE e)
               /\ Brks(g) = Brks(h) \ {b}
<1> DEFINE g == Drop(h, b)
           end == IF b \in Brks(h) THEN b ELSE e
           k == Drop(f, FootIn(h, b))
<1>0. Headers(h) /\ Tiles(h, s, e) /\ Maps(h) /\ Footers(h, f)
  BY DEF Blocks
<1>1. /\ DOMAIN g = DOMAIN h \ {b} /\ \A a \in DOMAIN g : g[a] = h[a]
      /\ g = [a \in DOMAIN g |-> g[a]]
  BY DEF Drop
<1> HIDE DEF g
<1>2. Headers(g)
  <2>1. IsFiniteSet(DOMAIN h \ {b})
    BY <1>0, FS_RemoveElement DEF Headers
  <2>2. \A a \in DOMAIN g : g[a] \in BlockType
    BY <1>0, <1>1 DEF Headers
  <2> QED
    BY <1>0, <1>1, <2>1, <2>2 DEF Headers
<1>3. Brks(g) = Brks(h) \ {b}
  BY <1>1 DEF Brks
<1>4. \A a \in DOMAIN g : EndIn(g, a) = EndIn(h, a) /\ FootIn(g, a) = FootIn(h, a)
  BY <1>1 DEF EndIn, FootIn
<1>5. Maps(g)
  <2>1. \A a \in DOMAIN g \ Brks(g) : a \in DOMAIN h \ Brks(h) /\ g[a] = h[a]
    BY <1>1, <1>3
  <2> QED
    BY <1>0, <2>1 DEF Maps
<1>6. \A a, c \in DOMAIN g : a < c => EndIn(g, a) <= c
  BY <1>0, <1>1, <1>4 DEF Tiles
<1>7. \A a \in Brks(h) : a # b => a \in Brks(g) /\ EndIn(g, a) = EndIn(h, a)
  BY <1>1, <1>3, <1>4 DEF Brks
<1>8. Tiles(g, s, end)
  <2>1. CASE b \notin Brks(h)
    <3>1. Brks(g) = Brks(h) /\ end = e /\ \A a \in Brks(h) : EndIn(g, a) = EndIn(h, a)
      BY <2>1, <1>3, <1>7
    <3>2. \A x : (\E c \in Brks(h) : EndIn(h, c) = x) <=>
                 (\E c \in Brks(h) : EndIn(g, c) = x)
      BY <3>1
    <3> QED
      BY <1>0, <1>6, <3>1, <3>2 DEF Tiles
  <2>2. CASE b \in Brks(h)
    <3>0. end = b /\ EndIn(h, b) = e
      BY <2>2
    <3> HIDE DEF end
    <3>1. /\ \A a, c \in DOMAIN h : a < c => EndIn(h, a) <= c
          /\ s # NULL
          /\ s \in Nat /\ e \in Nat /\ e <= BrkLimit
          /\ \A a \in Brks(h) :
                /\ s <= a /\ EndIn(h, a) <= e
                /\ EndIn(h, a) \in Brks(h) \cup {e}
                /\ a = s \/ \E c \in Brks(h) : EndIn(h, c) = a
          /\ s \in Brks(h) \cup {e}
      <4>1. s # NULL
        BY <1>0, <2>2 DEF Tiles
      <4> QED
        BY <1>0, <4>1 DEF Tiles
    <3>2. \A a \in DOMAIN h : a \in Nat /\ EndIn(h, a) \in Nat /\ a < EndIn(h, a)
      BY <1>0, BlockFacts
    <3>3. b \in Nat /\ b < e /\ s <= b
      BY <2>2, <3>0, <3>1, <3>2
    <3>4. s \in Brks(g) \cup {b}
      <4>1. s # e
        BY <3>1, <3>3
      <4> QED
        BY <3>1, <4>1, <1>3
    <3>5. ASSUME NEW x \in Nat, x <= b, \E c \in Brks(h) : EndIn(h, c) = x
          PROVE  \E c \in Brks(g) : EndIn(g, c) = x
      <4>1. PICK c \in Brks(h) : EndIn(h, c) = x
        BY <3>5
      <4>2. c # b
        BY <3>0, <3>1, <3>3, <3>5, <4>1
      <4> QED
        BY <1>7, <4>1, <4>2
    <3>6. ASSUME NEW a \in Brks(h), a # b
          PROVE  EndIn(h, a) <= b /\ a < b
      <4>0. a \in DOMAIN h
        BY DEF Brks
      <4>1. ~(b < a)
        <5> SUFFICES ASSUME b < a PROVE FALSE
          OBVIOUS
        <5>1. e <= a /\ EndIn(h, a) <= e
          BY <3>0, <3>1, <4>0
        <5> QED
          BY <5>1, <3>1, <3>2, <4>0
      <4>2. a < b
        BY <3>2, <3>6, <4>0, <4>1
      <4> QED
        BY <3>1, <4>0, <4>2
    <3>7. ASSUME NEW a \in Brks(g)
          PROVE  /\ s <= a /\ EndIn(g, a) <= b
                 /\ EndIn(g, a) \in Brks(g) \cup {b}
                 /\ a = s \/ \E c \in Brks(g) : EndIn(g, c) = a
      <4>1. a \in Brks(h) /\ a # b /\ a \in DOMAIN h
        BY <1>3, <3>7 DEF Brks
      <4>2. EndIn(h, a) <= b /\ a < b /\ EndIn(g, a) = EndIn(h, a)
        BY <1>7, <3>6, <4>1
      <4>3. EndIn(h, a) # e
        BY <3>1, <3>2, <3>3, <4>1, <4>2
      <4>4. a \in Nat /\ a <= b
        BY <3>2, <3>3, <4>1, <4>2
      <4>5. a = s \/ \E c \in Brks(g) : EndIn(g, c) = a
        BY <3>1, <3>5, <4>1, <4>4
      <4> QED
        BY <1>3, <3>1, <4>1, <4>2, <4>3, <4>5
    <3>8. b = s \/ \E c \in Brks(g) : EndIn(g, c) = b
      <4>1. b <= b
        BY <3>3
      <4> QED
        BY <2>2, <3>1, <3>3, <3>5, <4>1
    <3>9. b <= BrkLimit
      BY <3>1, <3>3, OldConstants
    <3> QED
      BY <1>6, <3>0, <3>1, <3>3, <3>4, <3>7, <3>8, <3>9 DEF Tiles
  <2> QED
    BY <2>1, <2>2
<1>9. Footers(g, k)
  <2>1. \A a, c \in DOMAIN h : FootIn(h, a) = FootIn(h, c) => a = c
    BY <1>0, FeetApart
  <2>2. /\ DOMAIN f = {FootIn(h, a) : a \in DOMAIN h}
        /\ \A a \in DOMAIN h : f[FootIn(h, a)] = FootRecord(h, a)
    BY <1>0 DEF Footers, FootRecord
  <2>3. DOMAIN k = DOMAIN f \ {FootIn(h, b)}
    BY DEF Drop
  <2>4. DOMAIN k = {FootIn(g, a) : a \in DOMAIN g}
    BY <1>1, <1>4, <2>1, <2>2, <2>3
  <2>5. ASSUME NEW a \in DOMAIN g PROVE k[FootIn(g, a)] = FootRecord(g, a)
    <3>1. /\ a \in DOMAIN h /\ FootIn(g, a) = FootIn(h, a) /\ g[a] = h[a]
          /\ FootIn(h, a) \in DOMAIN f /\ FootIn(h, a) # FootIn(h, b)
      BY <2>5, <1>1, <1>4, <2>1, <2>2
    <3>2. k[FootIn(h, a)] = f[FootIn(h, a)]
      BY <3>1 DEF Drop
    <3> QED
      BY <3>1, <3>2, <2>2 DEF FootRecord
  <2> HIDE DEF k
  <2> QED
    BY <2>4, <2>5 DEF Footers, FootRecord
<1> QED
  BY <1>2, <1>3, <1>5, <1>8, <1>9 DEF Blocks, g

-----------------------------------------------------------------------------
(* The free list: what keeps it *)

LEMMA LinksSame ==
    ASSUME NEW h, NEW L, NEW r, NEW first, Links(h, L, r, first), NEW g,
           L \subseteq DOMAIN g,
           \A a \in L : g[a].next = h[a].next,
           \A a \in DOMAIN g \ L : g[a].next = NULL
    PROVE  Links(g, L, r, first)
BY DEF Links

LEMMA LinksInsert ==
    ASSUME NEW h, NEW L, NEW r, NEW first, Links(h, L, r, first),
           NULL \notin DOMAIN h, NEW b \in DOMAIN h \ L, NEW g,
           DOMAIN g = DOMAIN h, g[b].next = first,
           \A a \in DOMAIN h \ {b} : g[a].next = h[a].next
    PROVE  \E q : Links(g, L \cup {b}, q, b)
<1> DEFINE top == IF first = NULL THEN 0 ELSE r[first] + 1
           q == [a \in L \cup {b} |-> IF a = b THEN top ELSE r[a]]
<1>1. /\ L \subseteq DOMAIN h /\ r \in [L -> Nat]
      /\ \A a, c \in L : r[a] = r[c] => a = c
      /\ first \in L \cup {NULL}
      /\ \A a \in L : first # NULL /\ r[a] <= r[first]
      /\ \A a \in L : h[a].next \in L \cup {NULL}
      /\ \A a \in L : h[a].next # NULL => r[h[a].next] < r[a]
      /\ \A a, c \in L : r[c] < r[a] => h[a].next # NULL /\ r[c] <= r[h[a].next]
      /\ \A a \in DOMAIN h \ L : h[a].next = NULL
      /\ NULL \notin L
  BY DEF Links
<1>2. top \in Nat /\ \A a \in L : r[a] \in Nat /\ r[a] < top
  BY <1>1
<1> HIDE DEF top
<1>3. q \in [L \cup {b} -> Nat]
  BY <1>1, <1>2
<1>4. q[b] = top /\ \A a \in L : q[a] = r[a]
  OBVIOUS
<1> HIDE DEF q
<1>5. \A a, c \in L \cup {b} : q[a] = q[c] => a = c
  BY <1>1, <1>2, <1>4
<1>6. \A a \in L \cup {b} : b # NULL /\ q[a] <= q[b]
  BY <1>1, <1>2, <1>4
<1>7. \A a \in L \cup {b} : g[a].next \in (L \cup {b}) \cup {NULL}
  BY <1>1
<1>8. \A a \in L \cup {b} : g[a].next # NULL => q[g[a].next] < q[a]
  <2>1. ASSUME NEW a \in L, g[a].next # NULL PROVE q[g[a].next] < q[a]
    BY <2>1, <1>1, <1>4
  <2>2. g[b].next # NULL => q[g[b].next] < q[b]
    BY <1>1, <1>2, <1>4
  <2> QED
    BY <2>1, <2>2
<1>9. ASSUME NEW a \in L \cup {b}, NEW c \in L \cup {b}, q[c] < q[a]
      PROVE  g[a].next # NULL /\ q[c] <= q[g[a].next]
  <2>1. CASE a = b
    <3>1. c # b
      BY <1>2, <1>4, <1>9, <2>1
    <3>2. c \in L /\ first # NULL /\ r[c] <= r[first] /\ first \in L
      BY <1>1, <3>1
    <3> QED
      BY <2>1, <3>2, <1>4
  <2>2. CASE a # b
    <3>1. c # b
      BY <1>2, <1>4, <1>9, <2>2
    <3>2. g[a].next = h[a].next /\ h[a].next # NULL /\ r[c] <= r[h[a].next]
          /\ h[a].next \in L
      BY <1>1, <1>4, <1>9, <2>2, <3>1
    <3> QED
      BY <3>1, <3>2, <1>4
  <2> QED
    BY <2>1, <2>2
<1>10. L \cup {b} \subseteq DOMAIN g
       /\ \A a \in DOMAIN g \ (L \cup {b}) : g[a].next = NULL
  BY <1>1
<1>11. Links(g, L \cup {b}, q, b)
  BY <1>3, <1>5, <1>6, <1>7, <1>8, <1>9, <1>10 DEF Links
<1> QED
  BY <1>11

LEMMA LinksRemove ==
    ASSUME NEW h, NEW L, NEW r, NEW first, Links(h, L, r, first),
           NULL \notin DOMAIN h, NEW b \in L, NEW g,
           DOMAIN g = DOMAIN h, g[b].next = NULL,
           \A a \in DOMAIN h \ {b} :
              g[a].next = IF h[a].next = b THEN h[b].next ELSE h[a].next
    PROVE  \E q : Links(g, L \ {b}, q, IF first = b THEN h[b].next ELSE first)
<1> DEFINE q == [a \in L \ {b} |-> r[a]]
           new == IF first = b THEN h[b].next ELSE first
<1>1. /\ L \subseteq DOMAIN h /\ r \in [L -> Nat]
      /\ \A a, c \in L : r[a] = r[c] => a = c
      /\ first \in L \cup {NULL}
      /\ \A a \in L : first # NULL /\ r[a] <= r[first]
      /\ \A a \in L : h[a].next \in L \cup {NULL}
      /\ \A a \in L : h[a].next # NULL => r[h[a].next] < r[a]
      /\ \A a, c \in L : r[c] < r[a] => h[a].next # NULL /\ r[c] <= r[h[a].next]
      /\ \A a \in DOMAIN h \ L : h[a].next = NULL
      /\ NULL \notin L /\ b # NULL
  BY DEF Links
<1>2. h[b].next # b
  <2>1. r[b] \in Nat
    BY <1>1
  <2> QED
    BY <2>1, <1>1
<1>3. q \in [L \ {b} -> Nat] /\ \A a \in L \ {b} : q[a] = r[a]
  BY <1>1
<1> HIDE DEF q
<1>4. \A a, c \in L \ {b} : q[a] = q[c] => a = c
  BY <1>1, <1>3
<1>5. new \in (L \ {b}) \cup {NULL}
  BY <1>1, <1>2
<1>6. ASSUME NEW a \in L \ {b} PROVE new # NULL /\ q[a] <= q[new]
  <2>1. CASE first # b
    BY <2>1, <1>1, <1>3
  <2>2. CASE first = b
    <3>1. r[a] \in Nat /\ r[b] \in Nat /\ r[a] <= r[b] /\ r[a] # r[b]
      BY <1>1, <2>2
    <3>2. r[a] < r[b]
      BY <3>1
    <3>3. h[b].next # NULL /\ r[a] <= r[h[b].next] /\ h[b].next \in L \ {b}
      BY <3>2, <1>1, <1>2
    <3> QED
      BY <2>2, <3>3, <1>3
  <2> QED
    BY <2>1, <2>2
<1>7. ASSUME NEW a \in L \ {b}
      PROVE  /\ g[a].next \in (L \ {b}) \cup {NULL}
             /\ g[a].next # NULL => q[g[a].next] < q[a]
             /\ \A c \in L \ {b} :
                   q[c] < q[a] => g[a].next # NULL /\ q[c] <= q[g[a].next]
  <2>1. CASE h[a].next # b
    <3>1. g[a].next = h[a].next
      BY <1>1, <2>1
    <3>2. g[a].next \in (L \ {b}) \cup {NULL}
      BY <1>1, <2>1, <3>1
    <3>3. g[a].next # NULL => q[g[a].next] < q[a]
      BY <1>1, <1>3, <3>1, <3>2
    <3>4. ASSUME NEW c \in L \ {b}, q[c] < q[a]
          PROVE  g[a].next # NULL /\ q[c] <= q[g[a].next]
      <4>1. r[c] < r[a]
        BY <1>3, <3>4
      <4>2. h[a].next # NULL /\ r[c] <= r[h[a].next]
        BY <1>1, <4>1
      <4> QED
        BY <4>2, <1>3, <3>1, <3>2
    <3> QED
      BY <3>2, <3>3, <3>4
  <2>2. CASE h[a].next = b
    <3>1. g[a].next = h[b].next
      BY <1>1, <2>2
    <3>2. g[a].next \in (L \ {b}) \cup {NULL}
      BY <1>1, <1>2, <3>1
    <3>3. r[b] < r[a] /\ r[a] \in Nat /\ r[b] \in Nat
      BY <1>1, <2>2
    <3>4. ASSUME g[a].next # NULL PROVE q[g[a].next] < q[a]
      <4>1. h[b].next \in L \ {b} /\ r[h[b].next] < r[b]
        BY <1>1, <1>2, <3>1, <3>4
      <4>2. r[h[b].next] \in Nat
        BY <1>1, <4>1
      <4>3. r[h[b].next] < r[a]
        BY <3>3, <4>1, <4>2
      <4> QED
        BY <4>1, <4>3, <1>3, <3>1
    <3>5. ASSUME NEW c \in L \ {b}, q[c] < q[a]
          PROVE  g[a].next # NULL /\ q[c] <= q[g[a].next]
      <4>1. r[c] <= r[b] /\ r[c] # r[b] /\ r[c] \in Nat
        BY <1>1, <1>3, <2>2, <3>5
      <4>2. r[c] < r[b]
        BY <3>3, <4>1
      <4>3. h[b].next # NULL /\ r[c] <= r[h[b].next]
        BY <1>1, <4>2
      <4> QED
        BY <4>3, <1>3, <3>1, <3>2
    <3> QED
      BY <3>2, <3>4, <3>5
  <2> QED
    BY <2>1, <2>2
<1>8. ASSUME NEW a \in DOMAIN g \ (L \ {b}) PROVE g[a].next = NULL
  <2>1. CASE a = b
    BY <2>1
  <2>2. CASE a # b
    <3>1. a \in DOMAIN h \ L /\ h[a].next = NULL
      BY <1>1, <1>8, <2>2
    <3> QED
      BY <3>1, <1>1, <2>2
  <2> QED
    BY <2>1, <2>2
<1>9. L \ {b} \subseteq DOMAIN g
  BY <1>1
<1> HIDE DEF new
<1>10. Links(g, L \ {b}, q, new)
  BY <1>3, <1>4, <1>5, <1>6, <1>7, <1>8, <1>9 DEF Links
<1> QED
  BY <1>10 DEF new

(* Block rest takes the place of block b on the list.                      *)
LEMMA LinksReplace ==
    ASSUME NEW h, NEW L, NEW r, NEW first, Links(h, L, r, first),
           NULL \notin DOMAIN h, NEW b \in L, NEW rest, rest \notin DOMAIN h,
           rest # NULL, NEW g,
           DOMAIN g = DOMAIN h \cup {rest}, g[b].next = NULL,
           g[rest].next = h[b].next,
           \A a \in DOMAIN h \ {b} :
              g[a].next = IF h[a].next = b THEN rest ELSE h[a].next
    PROVE  \E q : Links(g, (L \ {b}) \cup {rest}, q,
                        IF first = b THEN rest ELSE first)
<1> DEFINE K == (L \ {b}) \cup {rest}
           q == [a \in K |-> IF a = rest THEN r[b] ELSE r[a]]
           new == IF first = b THEN rest ELSE first
           As(x) == IF x = b THEN rest ELSE x
           Was(x) == IF x = rest THEN b ELSE x
<1>1. /\ L \subseteq DOMAIN h /\ r \in [L -> Nat]
      /\ \A a, c \in L : r[a] = r[c] => a = c
      /\ first \in L \cup {NULL}
      /\ \A a \in L : first # NULL /\ r[a] <= r[first]
      /\ \A a \in L : h[a].next \in L \cup {NULL}
      /\ \A a \in L : h[a].next # NULL => r[h[a].next] < r[a]
      /\ \A a, c \in L : r[c] < r[a] => h[a].next # NULL /\ r[c] <= r[h[a].next]
      /\ \A a \in DOMAIN h \ L : h[a].next = NULL
      /\ NULL \notin L /\ b # NULL
  BY DEF Links
<1>2. h[b].next # b
  <2>1. r[b] \in Nat
    BY <1>1
  <2> QED
    BY <2>1, <1>1
<1>3. \A a \in K : Was(a) \in L /\ As(Was(a)) = a /\ q[a] = r[Was(a)]
  BY <1>1
<1>4. q \in [K -> Nat]
  BY <1>1
<1>5. \A x \in L : As(x) \in K /\ q[As(x)] = r[x]
  BY <1>1
<1>6. \A a \in K : g[a].next = As(h[Was(a)].next)
  BY <1>1, <1>2
<1>7. \A x : As(x) = NULL <=> x = NULL
  BY <1>1
<1>8. new = As(first)
  OBVIOUS
<1> HIDE DEF q, As, Was, new
<1>9. \A a, c \in K : q[a] = q[c] => a = c
  BY <1>1, <1>3
<1>10. new \in K \cup {NULL} /\ \A a \in K : new # NULL /\ q[a] <= q[new]
  <2>1. new \in K \cup {NULL}
    BY <1>1, <1>5, <1>7, <1>8
  <2>2. ASSUME NEW a \in K PROVE new # NULL /\ q[a] <= q[new]
    <3>1. first # NULL /\ r[Was(a)] <= r[first] /\ first \in L
      BY <1>1, <1>3, <2>2
    <3> QED
      BY <3>1, <1>3, <1>5, <1>7, <1>8, <2>2
  <2> QED
    BY <2>1, <2>2
<1>11. ASSUME NEW a \in K
       PROVE  /\ g[a].next \in K \cup {NULL}
              /\ g[a].next # NULL => q[g[a].next] < q[a]
              /\ \A c \in K :
                    q[c] < q[a] => g[a].next # NULL /\ q[c] <= q[g[a].next]
  <2> DEFINE x == h[Was(a)].next
  <2>1. x \in L \cup {NULL} /\ (x # NULL => r[x] < r[Was(a)])
    BY <1>1, <1>3, <1>11
  <2>2. g[a].next = As(x)
    BY <1>6, <1>11
  <2>3. \A c \in L : r[c] < r[Was(a)] => x # NULL /\ r[c] <= r[x]
    BY <1>1, <1>3, <1>11
  <2> HIDE DEF x
  <2>4. g[a].next \in K \cup {NULL}
    BY <2>1, <2>2, <1>5, <1>7
  <2>5. g[a].next # NULL => q[g[a].next] < q[a]
    BY <2>1, <2>2, <1>3, <1>5, <1>7, <1>11
  <2>6. ASSUME NEW c \in K, q[c] < q[a]
        PROVE  g[a].next # NULL /\ q[c] <= q[g[a].next]
    <3>1. x # NULL /\ r[Was(c)] <= r[x]
      BY <2>3, <2>6, <1>3, <1>11
    <3> QED
      BY <3>1, <2>1, <2>2, <2>6, <1>3, <1>5, <1>7
  <2> QED
    BY <2>4, <2>5, <2>6
<1>12. ASSUME NEW a \in DOMAIN g \ K PROVE g[a].next = NULL
  <2>1. CASE a = b
    BY <2>1
  <2>2. CASE a # b
    <3>1. a \in DOMAIN h \ L /\ h[a].next = NULL
      BY <1>1, <1>12, <2>2
    <3> QED
      BY <3>1, <1>1, <2>2
  <2> QED
    BY <2>1, <2>2
<1>13. K \subseteq DOMAIN g
  BY <1>1
<1> HIDE DEF K
<1>14. Links(g, K, q, new)
  BY <1>4, <1>9, <1>10, <1>11, <1>12, <1>13 DEF Links
<1> QED
  BY <1>14 DEF K, new

-----------------------------------------------------------------------------
(* What the helpers do to the fields of the memory *)

Mem(h, f, first, search, bytes, s, e) ==
    [header |-> h, footer |-> f, free_list |-> first,
     prev_search_end |-> search, available_bytes |-> bytes,
     brk_heap_start |-> s, brk_heap_end |-> e]

IsMem(m) ==
    m = Mem(m.header, m.footer, m.free_list, m.prev_search_end,
            m.available_bytes, m.brk_heap_start, m.brk_heap_end)

LEMMA MemFields ==
    ASSUME NEW m, NEW h, NEW f, NEW first, NEW search, NEW bytes, NEW s, NEW e,
           m = Mem(h, f, first, search, bytes, s, e)
    PROVE  /\ m.header = h /\ m.footer = f /\ m.free_list = first
           /\ m.prev_search_end = search /\ m.available_bytes = bytes
           /\ m.brk_heap_start = s /\ m.brk_heap_end = e
           /\ IsMem(m)
BY DEF Mem, IsMem

(* The links go round block b, which is behind p.                          *)
Bypass(h, b, p) ==
    LET k == IF p # NULL THEN [h EXCEPT ![p].next = h[b].next] ELSE h
    IN  [[k EXCEPT ![b].is_free = FALSE] EXCEPT ![b].next = NULL]

LEMMA UnlinkFields ==
    ASSUME NEW h, NEW f, NEW first, NEW search, NEW bytes, NEW s, NEW e, NEW m,
           m = Mem(h, f, first, search, bytes, s, e), NEW b,
           NEW p, p = list_before(m, b)
    PROVE  unlink_free(m, b) =
               Mem(Bypass(h, b, p), f, IF p # NULL THEN first ELSE h[b].next,
                   IF search = b THEN p ELSE search, bytes, s, e)
<1> DEFINE k == IF p # NULL THEN [h EXCEPT ![p].next = h[b].next] ELSE h
           m1 == IF p # NULL THEN set_next(m, p, m.header[b].next)
                 ELSE [m EXCEPT !.free_list = m.header[b].next]
           x == IF search = b THEN p ELSE search
           m2 == [m1 EXCEPT !.prev_search_end = x]
           first2 == IF p # NULL THEN first ELSE h[b].next
           k3 == [k EXCEPT ![b].is_free = FALSE]
           m3 == set_free(m2, b, FALSE)
<1>0. m.header = h
  BY MemFields
<1>1. m1 = Mem(k, f, first2, search, bytes, s, e)
  BY <1>0 DEF Mem, set_next
<1>2. m1.prev_search_end = search
  BY <1>1, MemFields
<1>3. unlink_free(m, b) = set_next(m3, b, NULL)
  BY <1>2 DEF unlink_free
<1> HIDE DEF m1, x, k, first2
<1>4. m2 = Mem(k, f, first2, x, bytes, s, e)
  BY <1>1 DEF Mem
<1> HIDE DEF m2
<1>5. m3 = Mem(k3, f, first2, x, bytes, s, e)
  <2>1. \A v : set_free(m2, b, v) =
                   Mem([k EXCEPT ![b].is_free = v], f, first2, x, bytes, s, e)
    BY <1>4 DEF set_free, Mem
  <2> QED
    BY <2>1
<1> HIDE DEF m3, k3
<1>6. set_next(m3, b, NULL) =
          Mem([k3 EXCEPT ![b].next = NULL], f, first2, x, bytes, s, e)
  BY <1>5 DEF set_next, Mem
<1> QED
  BY <1>3, <1>6 DEF k, first2, x, k3, Bypass

(* Block b leaves the list.                                                *)
Unlinked(h, b) ==
    [a \in DOMAIN h |->
        IF a = b THEN [h[a] EXCEPT !.is_free = FALSE, !.next = NULL]
        ELSE IF h[a].next = b THEN [h[a] EXCEPT !.next = h[b].next]
        ELSE h[a]]

LEMMA UnlinkIs ==
    ASSUME NEW m, IsMem(m), Headers(m.header), NEW L, NEW r,
           Links(m.header, L, r, m.free_list), NEW b \in L
    PROVE  unlink_free(m, b) =
               Mem(Unlinked(m.header, b), m.footer,
                   IF m.free_list = b THEN m.header[b].next ELSE m.free_list,
                   IF m.prev_search_end = b THEN list_before(m, b)
                   ELSE m.prev_search_end,
                   m.available_bytes, m.brk_heap_start, m.brk_heap_end)
<1> DEFINE h == m.header
           p == list_before(m, b)
           n == h[b].next
           search == IF m.prev_search_end = b THEN p ELSE m.prev_search_end
           k2 == Bypass(h, b, p)
<1>2. /\ NULL \notin DOMAIN h /\ h \in [DOMAIN h -> BlockType]
      /\ L \subseteq DOMAIN h /\ NULL \notin L
  BY OldConstants DEF Links, Headers
<1>1. /\ b = m.free_list => p = NULL
      /\ b # m.free_list => p \in L
      /\ \A a \in DOMAIN h : h[a].next = b <=> a = p
  BY <1>2, BlockBefore
<1>3. p # b
  <2>1. n # b
    <3>1. n # NULL => r[n] < r[b]
      BY DEF Links
    <3>2. r[b] \in Nat
      BY DEF Links
    <3> QED
      BY <1>2, <3>1, <3>2
  <2> QED
    BY <1>1, <1>2, <2>1
<1>4. p = list_before(m, b)
      /\ m = Mem(h, m.footer, m.free_list, m.prev_search_end,
                 m.available_bytes, m.brk_heap_start, m.brk_heap_end)
  BY DEF IsMem
<1> HIDE DEF p, h, k2
<1>7. unlink_free(m, b) =
          Mem(k2, m.footer, IF p # NULL THEN m.free_list ELSE n, search,
              m.available_bytes, m.brk_heap_start, m.brk_heap_end)
  BY <1>4, UnlinkFields DEF k2
<1> USE DEF h, k2
<1>5. k2 = Unlinked(h, b)
  <2>1. k2 = [a \in DOMAIN h |-> k2[a]]
    BY DEF Bypass
  <2>2. ASSUME NEW a \in DOMAIN h PROVE k2[a] = Unlinked(h, b)[a]
    <3>1. CASE a = b
      BY <1>2, <1>3, <3>1 DEF Unlinked, BlockType, Bypass
    <3>2. CASE a # b
      BY <1>1, <1>2, <1>3, <3>2 DEF Unlinked, BlockType, Bypass
    <3> QED
      BY <3>1, <3>2
  <2>3. Unlinked(h, b) = [a \in DOMAIN h |-> Unlinked(h, b)[a]]
    BY DEF Unlinked
  <2> HIDE DEF k2
  <2> QED
    BY <2>1, <2>2, <2>3
<1>6. (IF p # NULL THEN m.free_list ELSE n) =
      (IF m.free_list = b THEN m.header[b].next ELSE m.free_list)
  BY <1>1, <1>2
<1> HIDE DEF k2
<1> QED
  BY <1>5, <1>6, <1>7 DEF p

LEMMA AbsorbIs ==
    ASSUME NEW m, IsMem(m), Headers(m.header), NEW b \in DOMAIN m.header,
           NEW n \in DOMAIN m.header, b # n
    PROVE  LET g == Absorbed(m.header, b, n)
           IN  absorb(m, b, n) =
                 Mem(g, Put(Drop(m.footer, FootIn(m.header, b)), FootIn(g, b),
                            FootRecord(g, b)),
                     m.free_list, m.prev_search_end,
                     m.available_bytes + overhead_size,
                     m.brk_heap_start, m.brk_heap_end)
<1> DEFINE h == m.header
           f == Drop(m.footer, FootIn(h, b))
           z == h[b].size + overhead_size + h[n].size
           k == [h EXCEPT ![b].size = z]
           g == Absorbed(h, b, n)
           m0 == [m EXCEPT !.footer = f]
           grown == set_size(m0, b, z)
           m1 == write_footer(grown, b)
           f1 == Put(f, FootIn(k, b), FootRecord(k, b))
<1> DEFINE first == m.free_list
           search == m.prev_search_end
           bytes == m.available_bytes
           s == m.brk_heap_start
           e == m.brk_heap_end
<1>1. m = Mem(h, m.footer, first, search, bytes, s, e)
  BY DEF IsMem
<1>2. absorb(m, b, n) = [m1 EXCEPT !.header = Drop(@, n),
                                   !.available_bytes = @ + overhead_size]
  BY DEF absorb, footer_of, FootIn
<1>3. b \in DOMAIN h /\ n \in DOMAIN h /\ h \in [DOMAIN h -> BlockType]
  BY DEF Headers
<1> HIDE DEF h, first, search, bytes, s, e
<1>4. m0 = Mem(h, f, first, search, bytes, s, e)
  BY <1>1 DEF Mem
<1> HIDE DEF m0, f, z
<1>5. grown = Mem(k, f, first, search, bytes, s, e)
  BY <1>4 DEF set_size, Mem
<1> HIDE DEF grown, k
<1>6. m1 = Mem(k, f1, first, search, bytes, s, e)
  BY <1>5 DEF write_footer, Mem, footer_of, FootIn, FootRecord
<1> HIDE DEF m1, f1
<1>7. [m1 EXCEPT !.header = Drop(@, n), !.available_bytes = @ + overhead_size]
      = Mem(Drop(k, n), f1, first, search, bytes + overhead_size, s, e)
  <2>1. m1.header = k /\ m1.available_bytes = bytes
    BY <1>6, MemFields
  <2>2. \A v, w : [m1 EXCEPT !.header = v, !.available_bytes = w]
                 = Mem(v, f1, first, search, w, s, e)
    <3> TAKE v, w
    <3> DEFINE y == [m1 EXCEPT !.header = v]
    <3>1. y = Mem(v, f1, first, search, bytes, s, e)
      BY <1>6 DEF Mem
    <3>2. [m1 EXCEPT !.header = v, !.available_bytes = w]
          = [y EXCEPT !.available_bytes = w]
      BY <1>6 DEF Mem
    <3> HIDE DEF y
    <3>3. [y EXCEPT !.available_bytes = w] = Mem(v, f1, first, search, w, s, e)
      BY <3>1 DEF Mem
    <3> QED
      BY <3>2, <3>3
  <2>3. [m1 EXCEPT !.header = Drop(@, n), !.available_bytes = @ + overhead_size]
        = [m1 EXCEPT !.header = Drop(k, n),
                     !.available_bytes = bytes + overhead_size]
    BY <2>1
  <2> QED
    BY <2>2, <2>3
<1>8. Drop(k, n) = g
  <2>1. k = [a \in DOMAIN h |-> IF a = b THEN [h[a] EXCEPT !.size = z] ELSE h[a]]
    BY <1>3 DEF k
  <2> QED
    BY <2>1 DEF Drop, Absorbed, z
<1>9. k[b] = g[b]
  BY <1>3 DEF k, z, Absorbed
<1>10. FootIn(k, b) = FootIn(g, b) /\ FootRecord(k, b) = FootRecord(g, b)
  BY <1>9 DEF FootIn, FootRecord
<1> HIDE DEF g
<1>11. absorb(m, b, n) =
           Mem(g, Put(f, FootIn(g, b), FootRecord(g, b)), first, search,
               bytes + overhead_size, s, e)
  BY <1>2, <1>7, <1>8, <1>10 DEF f1
<1> QED
  BY <1>11 DEF g, f, h, first, search, bytes, s, e

(* Block b is free, though not on the list yet.                            *)
Freed(h, b) ==
    [a \in DOMAIN h |->
        IF a = b THEN [h[a] EXCEPT !.is_free = TRUE, !.next = NULL] ELSE h[a]]

LEMMA FreedIs ==
    ASSUME NEW m, IsMem(m), NEW b \in DOMAIN m.header, Headers(m.header)
    PROVE  [set_next(set_free(m, b, TRUE), b, NULL) EXCEPT
              !.available_bytes = @ + m.header[b].size] =
           Mem(Freed(m.header, b), m.footer, m.free_list, m.prev_search_end,
               m.available_bytes + m.header[b].size,
               m.brk_heap_start, m.brk_heap_end)
<1> DEFINE h == m.header
           f == m.footer
           first == m.free_list
           search == m.prev_search_end
           bytes == m.available_bytes
           s == m.brk_heap_start
           e == m.brk_heap_end
           z == m.header[b].size
           k1 == [h EXCEPT ![b].is_free = TRUE]
           k2 == [k1 EXCEPT ![b].next = NULL]
           m1 == set_free(m, b, TRUE)
           m2 == set_next(m1, b, NULL)
<1>1. m = Mem(h, f, first, search, bytes, s, e)
      /\ h \in [DOMAIN h -> BlockType] /\ b \in DOMAIN h
  BY DEF IsMem, Headers
<1> HIDE DEF h, f, first, search, bytes, s, e, z
<1>2. m1 = Mem(k1, f, first, search, bytes, s, e)
  <2>1. \A v : set_free(m, b, v) =
                   Mem([h EXCEPT ![b].is_free = v], f, first, search, bytes, s, e)
    BY <1>1 DEF set_free, Mem
  <2> QED
    BY <2>1
<1> HIDE DEF m1, k1
<1>3. m2 = Mem(k2, f, first, search, bytes, s, e)
  BY <1>2 DEF set_next, Mem
<1> HIDE DEF m2, k2
<1>4. [m2 EXCEPT !.available_bytes = @ + z] =
      Mem(k2, f, first, search, bytes + z, s, e)
  BY <1>3 DEF Mem
<1>5. k2 = Freed(h, b)
  <2>1. k2 = [a \in DOMAIN h |-> k2[a]]
    BY DEF k1, k2
  <2>2. ASSUME NEW a \in DOMAIN h PROVE k2[a] = Freed(h, b)[a]
    BY <1>1 DEF k1, k2, Freed, BlockType
  <2>3. Freed(h, b) = [a \in DOMAIN h |-> Freed(h, b)[a]]
    BY DEF Freed
  <2> QED
    BY <2>1, <2>2, <2>3
<1> QED
  BY <1>4, <1>5 DEF m2, m1, h, f, first, search, bytes, s, e, z

LEMMA InsertIs ==
    ASSUME NEW m, IsMem(m), NEW b \in DOMAIN m.header
    PROVE  insert_free(m, b) =
           Mem([m.header EXCEPT ![b].next = m.free_list], m.footer, b,
               m.prev_search_end, m.available_bytes,
               m.brk_heap_start, m.brk_heap_end)
<1> DEFINE h == m.header
           f == m.footer
           first == m.free_list
           search == m.prev_search_end
           bytes == m.available_bytes
           s == m.brk_heap_start
           e == m.brk_heap_end
           k1 == [h EXCEPT ![b].next = first]
           m1 == set_next(m, b, first)
<1>1. m = Mem(h, f, first, search, bytes, s, e)
  BY DEF IsMem
<1> HIDE DEF h, f, first, search, bytes, s, e
<1>2. m1 = Mem(k1, f, first, search, bytes, s, e)
  BY <1>1 DEF set_next, Mem
<1> HIDE DEF m1, k1
<1>3. [m1 EXCEPT !.free_list = b] = Mem(k1, f, b, search, bytes, s, e)
  BY <1>2 DEF Mem
<1> QED
  BY <1>3 DEF insert_free, m1, k1, h, f, first, search, bytes, s, e

-----------------------------------------------------------------------------
(* Neighbours *)

Laid(m) == Blocks(m.header, m.footer, m.brk_heap_start, m.brk_heap_end)

LEMMA FreesAreBrks ==
    ASSUME NEW h, Maps(h)
    PROVE  Frees(h) \subseteq Brks(h)
BY DEF Maps, Frees, Brks

(* The footer below a block leads to the block below.                      *)
LEMMA PrevPhys ==
    ASSUME NEW m, Laid(m), NEW b \in Brks(m.header)
    PROVE  IF b = m.brk_heap_start THEN prev_phys(m, b) = NULL
           ELSE /\ prev_phys(m, b) \in Brks(m.header)
                /\ EndIn(m.header, prev_phys(m, b)) = b
<1> DEFINE h == m.header
           s == m.brk_heap_start
           e == m.brk_heap_end
<1>1. /\ Headers(h) /\ Tiles(h, s, e) /\ Footers(h, m.footer)
      /\ b \in DOMAIN h /\ ~h[b].mapped
  BY DEF Laid, Blocks, Brks
<1>2. s # NULL /\ s \in Nat /\ s <= b /\ b \in Nat
      /\ (b = s \/ \E c \in Brks(h) : EndIn(h, c) = b)
  BY <1>1, BlockFacts DEF Tiles
<1>3. CASE b = s
  BY <1>1, <1>2, <1>3, OldConstants DEF prev_phys
<1>4. CASE b # s
  <2>1. PICK c \in Brks(h) : EndIn(h, c) = b
    BY <1>2, <1>4
  <2>2. c \in DOMAIN h /\ ~h[c].mapped /\ s <= c
    BY <1>1, <1>2 DEF Tiles, Brks
  <2>3. /\ c \in Nat /\ h[c].size \in Nat
        /\ b = c + (overhead_size + h[c].size)
        /\ FootIn(h, c) + footer_size = b /\ FootIn(h, c) \in Nat
    BY <1>1, <2>1, <2>2, BlockFacts
  <2>4. ~(b <= s + header_size)
    BY <1>2, <2>2, <2>3, OldConstants DEF overhead_size
  <2>5. b - footer_size = FootIn(h, c)
    BY <1>2, <2>3, OldConstants
  <2>6. m.footer[b - footer_size] = [size |-> h[c].size, mapped |-> h[c].mapped]
    BY <1>1, <2>2, <2>5 DEF Footers
  <2>7. m.footer[b - footer_size].size = h[c].size
        /\ m.footer[b - footer_size].mapped = h[c].mapped
    BY <2>6
  <2>8. b - (overhead_size + h[c].size) = c
    BY <1>2, <2>3, OldConstants
  <2>9. prev_phys(m, b) = c
    BY <1>1, <1>2, <2>2, <2>3, <2>4, <2>7, <2>8 DEF prev_phys
  <2> QED
    BY <1>4, <2>1, <2>9
<1> QED
  BY <1>3, <1>4

LEMMA NextPhys ==
    ASSUME NEW m, Laid(m), NEW b \in Brks(m.header)
    PROVE  /\ mergeable_next(m, b) <=> EndIn(m.header, b) \in Frees(m.header)
           /\ mergeable_next(m, b) => next_phys(m, b) = EndIn(m.header, b)
<1> DEFINE h == m.header
           s == m.brk_heap_start
           e == m.brk_heap_end
           n == EndIn(h, b)
<1>1. /\ Headers(h) /\ Tiles(h, s, e) /\ Maps(h)
      /\ b \in DOMAIN h /\ ~h[b].mapped
  BY DEF Laid, Blocks, Brks
<1>2. s # NULL /\ e \in Nat /\ e # NULL /\ n \in Brks(h) \cup {e} /\ n \in Nat
  BY <1>1, BlockFacts, OldConstants DEF Tiles
<1>3. block_end(m, b) = n
  BY DEF block_end, block_span, EndIn
<1>4. n \in Brks(h) => n < e
  <2> SUFFICES ASSUME n \in Brks(h) PROVE n < e
    OBVIOUS
  <2>1. n \in DOMAIN h /\ EndIn(h, n) <= e
    BY <1>1, <1>2 DEF Brks, Tiles
  <2>2. n < EndIn(h, n) /\ EndIn(h, n) \in Nat
    BY <1>1, <2>1, BlockFacts
  <2> QED
    BY <1>2, <2>1, <2>2
<1>5. next_phys(m, b) = IF n >= e THEN NULL ELSE n
  BY <1>1, <1>2, <1>3 DEF next_phys
<1>6. Frees(h) \subseteq Brks(h)
  BY <1>1, FreesAreBrks
<1> HIDE DEF n
<1>7. CASE n >= e
  BY <1>2, <1>4, <1>5, <1>6, <1>7, OldConstants DEF mergeable_next, n
<1>8. CASE ~(n >= e)
  <2>1. n \in Brks(h) /\ n \in DOMAIN h /\ next_phys(m, b) = n /\ n # NULL
    BY <1>2, <1>5, <1>8, OldConstants DEF Brks
  <2>2. mergeable_next(m, b) <=> h[n].is_free
    BY <2>1 DEF mergeable_next
  <2> QED
    BY <2>1, <2>2 DEF Frees, n
<1> QED
  BY <1>7, <1>8

-----------------------------------------------------------------------------
(* Merging *)

LEMMA MergedTotal ==
    ASSUME NEW h, NEW g, NEW F, IsFiniteSet(F), NEW b \in F, NEW n \in F, b # n,
           \A a \in F : h[a].size \in Nat,
           g[b].size = h[b].size + overhead_size + h[n].size,
           \A a \in F \ {b, n} : g[a].size = h[a].size
    PROVE  Total(g, F \ {n}) = Total(h, F) + overhead_size
<1> DEFINE R == (F \ {n}) \ {b}
<1>1. IsFiniteSet(F \ {n}) /\ IsFiniteSet(R)
  BY FS_RemoveElement
<1>2. Total(h, F) = h[n].size + Total(h, F \ {n})
  BY TotalRemove
<1>3. b \in F \ {n} /\ \A a \in F \ {n} : h[a].size \in Nat
  OBVIOUS
<1>4. Total(h, F \ {n}) = h[b].size + Total(h, R)
  BY <1>1, <1>3, TotalRemove
<1>5. h[b].size \in Nat /\ h[n].size \in Nat /\ overhead_size \in Nat
  BY OldConstants
<1>6. \A a \in F \ {n} : g[a].size \in Nat
  BY <1>5
<1>7. Total(g, F \ {n}) = g[b].size + Total(g, R)
  BY <1>1, <1>3, <1>6, TotalRemove
<1>8. \A a \in R : g[a].size = h[a].size
  OBVIOUS
<1>9. Total(g, R) = Total(h, R)
  BY <1>1, <1>8, TotalSame
<1>10. Total(h, R) \in Nat
  BY <1>1, <1>3, TotalType
<1> HIDE DEF R
<1> QED
  BY <1>2, <1>4, <1>5, <1>7, <1>9, <1>10

(* u is m after block b has left the list, which was L.                    *)
Unlinks(m, u, b, L) ==
    LET h == m.header
        k == u.header
    IN  /\ IsMem(u) /\ Laid(u)
        /\ DOMAIN k = DOMAIN h /\ Frees(k) = Frees(h) \ {b}
        /\ \A a \in DOMAIN h : k[a].size = h[a].size /\ k[a].mapped = h[a].mapped
        /\ \E q : Links(k, L \ {b}, q, u.free_list)
        /\ u.prev_search_end \in (L \ {b}) \cup {NULL}
        /\ u.available_bytes = m.available_bytes
        /\ u.brk_heap_start = m.brk_heap_start
        /\ u.brk_heap_end = m.brk_heap_end

LEMMA UnlinkKeeps ==
    ASSUME NEW m, IsMem(m), Laid(m), NEW L, NEW r,
           Links(m.header, L, r, m.free_list), L \subseteq Frees(m.header),
           NEW b \in L, m.prev_search_end \in L \cup {NULL}
    PROVE  Unlinks(m, unlink_free(m, b), b, L)
<1> DEFINE h == m.header
           u == unlink_free(m, b)
           k == Unlinked(h, b)
           p == list_before(m, b)
           first == IF m.free_list = b THEN h[b].next ELSE m.free_list
<1>1. Headers(h) /\ NULL \notin DOMAIN h /\ h \in [DOMAIN h -> BlockType]
      /\ L \subseteq DOMAIN h /\ b \in DOMAIN h
  BY OldConstants DEF Laid, Blocks, Headers, Links
<1>2. u = Mem(k, m.footer, first,
              IF m.prev_search_end = b THEN p ELSE m.prev_search_end,
              m.available_bytes, m.brk_heap_start, m.brk_heap_end)
  BY <1>1, UnlinkIs
<1>3. /\ IsMem(u) /\ u.header = k /\ u.footer = m.footer /\ u.free_list = first
      /\ u.prev_search_end = (IF m.prev_search_end = b THEN p
                              ELSE m.prev_search_end)
      /\ u.available_bytes = m.available_bytes
      /\ u.brk_heap_start = m.brk_heap_start
      /\ u.brk_heap_end = m.brk_heap_end
  BY <1>2, MemFields
<1> HIDE DEF u
<1>4. /\ DOMAIN k = DOMAIN h /\ k \in [DOMAIN h -> BlockType]
      /\ \A a \in DOMAIN h : k[a].size = h[a].size /\ k[a].mapped = h[a].mapped
      /\ \A a \in DOMAIN h : a # b => k[a].is_free = h[a].is_free
      /\ k[b].is_free = FALSE /\ k[b].next = NULL
      /\ \A a \in DOMAIN h \ {b} :
            k[a].next = IF h[a].next = b THEN h[b].next ELSE h[a].next
  <2>1. ASSUME NEW a \in DOMAIN h
        PROVE  /\ k[a] \in BlockType
               /\ k[a].size = h[a].size /\ k[a].mapped = h[a].mapped
               /\ a # b => /\ k[a].is_free = h[a].is_free
                           /\ k[a].next = IF h[a].next = b THEN h[b].next
                                          ELSE h[a].next
               /\ a = b => k[a].is_free = FALSE /\ k[a].next = NULL
    <3>1. h[a] \in BlockType /\ h[b] \in BlockType
      BY <1>1
    <3>2. CASE a = b
      BY <3>1, <3>2 DEF Unlinked, BlockType
    <3>3. CASE a # b /\ h[a].next = b
      <4>1. k[a] = [h[a] EXCEPT !.next = h[b].next]
        BY <3>3 DEF Unlinked
      <4> QED
        BY <3>1, <3>3, <4>1 DEF BlockType
    <3>4. CASE a # b /\ h[a].next # b
      BY <3>1, <3>4 DEF Unlinked
    <3> QED
      BY <3>2, <3>3, <3>4
  <2>2. k = [a \in DOMAIN h |-> k[a]]
    BY DEF Unlinked
  <2> HIDE DEF k
  <2> QED
    BY <1>1, <2>1, <2>2
<1> HIDE DEF k
<1>5. Frees(k) = Frees(h) \ {b}
  BY <1>1, <1>4 DEF Frees
<1>6. Laid(u)
  <2>1. \A a \in DOMAIN h : k[a].mapped => ~k[a].is_free
    BY <1>4 DEF Laid, Blocks, Maps, Brks
  <2>2. Blocks(k, m.footer, m.brk_heap_start, m.brk_heap_end)
    BY <1>4, <2>1, BlocksSame DEF Laid
  <2> QED
    BY <1>3, <2>2 DEF Laid
<1>7. \E q : Links(k, L \ {b}, q, first)
  BY <1>1, <1>4, LinksRemove
<1>8. u.prev_search_end \in (L \ {b}) \cup {NULL}
  <2>1. /\ b = m.free_list => p = NULL
        /\ b # m.free_list => p \in L
        /\ \A a \in DOMAIN h : h[a].next = b <=> a = p
    BY <1>1, BlockBefore
  <2>2. h[b].next # b
    <3>1. h[b].next # NULL => r[h[b].next] < r[b]
      BY DEF Links
    <3>2. r[b] \in Nat /\ b # NULL
      BY <1>1 DEF Links
    <3> QED
      BY <3>1, <3>2
  <2> HIDE DEF p
  <2>3. p # b
    BY <1>1, <2>1, <2>2
  <2> QED
    BY <1>3, <2>1, <2>3
<1> QED
  BY <1>3, <1>4, <1>5, <1>6, <1>7, <1>8 DEF u, Unlinks

(* x is m after block b has grown over block n.                            *)
Absorbs(m, x, b, n) ==
    LET h == m.header
        g == x.header
    IN  /\ IsMem(x) /\ Laid(x)
        /\ DOMAIN g = DOMAIN h \ {n} /\ Frees(g) = Frees(h) \ {n}
        /\ b # n /\ g[b].size = h[b].size + overhead_size + h[n].size
        /\ EndIn(g, b) = EndIn(h, n)
        /\ \A a \in DOMAIN g :
              /\ g[a].mapped = h[a].mapped
              /\ a # b => g[a].size = h[a].size /\ EndIn(g, a) = EndIn(h, a)
        /\ x.prev_search_end = m.prev_search_end
        /\ x.available_bytes = m.available_bytes + overhead_size
        /\ x.brk_heap_start = m.brk_heap_start
        /\ x.brk_heap_end = m.brk_heap_end

LEMMA AbsorbKeeps ==
    ASSUME NEW m, IsMem(m), Laid(m), NEW b \in Brks(m.header),
           NEW n \in Brks(m.header), EndIn(m.header, b) = n,
           NEW L, NEW r, Links(m.header, L, r, m.free_list), n \notin L
    PROVE  /\ Absorbs(m, absorb(m, b, n), b, n)
           /\ Links(absorb(m, b, n).header, L, r, absorb(m, b, n).free_list)
<1> DEFINE h == m.header
           x == absorb(m, b, n)
           g == Absorbed(h, b, n)
           f == Put(Drop(m.footer, FootIn(h, b)), FootIn(g, b), FootRecord(g, b))
<1>1. Headers(h) /\ b \in DOMAIN h /\ n \in DOMAIN h
      /\ Blocks(h, m.footer, m.brk_heap_start, m.brk_heap_end)
  BY DEF Laid, Blocks, Brks
<1>2. b # n
  <2>1. b < EndIn(h, b) /\ b \in Nat
    BY <1>1, BlockFacts
  <2> QED
    BY <2>1
<1>3. x = Mem(g, f, m.free_list, m.prev_search_end,
              m.available_bytes + overhead_size,
              m.brk_heap_start, m.brk_heap_end)
  BY <1>1, <1>2, AbsorbIs
<1>4. /\ IsMem(x) /\ x.header = g /\ x.footer = f /\ x.free_list = m.free_list
      /\ x.prev_search_end = m.prev_search_end
      /\ x.available_bytes = m.available_bytes + overhead_size
      /\ x.brk_heap_start = m.brk_heap_start
      /\ x.brk_heap_end = m.brk_heap_end
  BY <1>3, MemFields
<1> HIDE DEF x
<1>5. /\ DOMAIN g = DOMAIN h \ {n}
      /\ \A a \in DOMAIN g :
            /\ g[a].mapped = h[a].mapped /\ g[a].is_free = h[a].is_free
            /\ g[a].next = h[a].next
            /\ a # b => g[a] = h[a]
      /\ g[b].size = h[b].size + overhead_size + h[n].size
      /\ EndIn(g, b) = EndIn(h, n)
      /\ \A a \in DOMAIN g : a # b => EndIn(g, a) = EndIn(h, a)
  BY <1>1, <1>2, AbsorbedFields
<1>6. Blocks(g, f, m.brk_heap_start, m.brk_heap_end)
  BY <1>1, AbsorbBlocks
<1> HIDE DEF g, f
<1>7. Frees(g) = Frees(h) \ {n}
  BY <1>5 DEF Frees
<1>8. Links(g, L, r, m.free_list)
  <2>1. L \subseteq DOMAIN g
    BY <1>5 DEF Links
  <2>2. \A a \in L : g[a].next = h[a].next
    BY <1>5, <2>1
  <2>3. \A a \in DOMAIN g \ L : g[a].next = NULL
    BY <1>5 DEF Links
  <2> QED
    BY <2>1, <2>2, <2>3, LinksSame
<1>9. Laid(x)
  BY <1>4, <1>6 DEF Laid
<1> QED
  BY <1>2, <1>4, <1>5, <1>7, <1>8, <1>9 DEF x, Absorbs

(* The blocks that are not free are the same.                              *)
SameUsed(h, g) ==
    /\ DOMAIN g \ Frees(g) = DOMAIN h \ Frees(h)
    /\ \A c \in DOMAIN h \ Frees(h) :
          g[c].size = h[c].size /\ g[c].mapped = h[c].mapped

(* Block o is free, on the list unless X holds it, and nothing is left to  *)
(* merge except perhaps o with the block behind it.                        *)
Merging(m, o, X) ==
    LET h == m.header
    IN  /\ IsMem(m) /\ Laid(m)
        /\ o \in Frees(h) /\ X \subseteq {o}
        /\ m.available_bytes = Total(h, Frees(h))
        /\ m.prev_search_end \in (Frees(h) \ X) \cup {NULL}
        /\ \E r : Links(h, Frees(h) \ X, r, m.free_list)
        /\ \A c \in Frees(h) \ {o} : EndIn(h, c) \notin Frees(h)

Turn(m, o) ==
    IF mergeable_next(m, o)
    THEN absorb(unlink_free(m, next_phys(m, o)), o, next_phys(m, o))
    ELSE m

LEMMA FreesFinite ==
    ASSUME NEW h, Headers(h)
    PROVE  IsFiniteSet(Frees(h)) /\ \A a \in Frees(h) : h[a].size \in Nat
<1>1. Frees(h) \subseteq DOMAIN h /\ IsFiniteSet(DOMAIN h)
  BY DEF Frees, Headers
<1> QED
  BY <1>1, FS_Subset, BlockFacts

LEMMA TurnMerges ==
    ASSUME NEW m, NEW o, NEW X, Merging(m, o, X)
    PROVE  /\ Merging(Turn(m, o), o, X)
           /\ Apart(Turn(m, o).header)
           /\ SameUsed(m.header, Turn(m, o).header)
           /\ Turn(m, o).brk_heap_start = m.brk_heap_start
           /\ Turn(m, o).brk_heap_end = m.brk_heap_end
<1> DEFINE h == m.header
           n == EndIn(h, o)
           L == Frees(h) \ X
<1>1. /\ IsMem(m) /\ Laid(m) /\ Headers(h) /\ Maps(h)
      /\ o \in Frees(h) /\ X \subseteq {o}
      /\ m.available_bytes = Total(h, Frees(h))
      /\ m.prev_search_end \in L \cup {NULL}
      /\ \A c \in Frees(h) \ {o} : EndIn(h, c) \notin Frees(h)
  BY DEF Merging, Laid, Blocks
<1>2. Frees(h) \subseteq Brks(h) /\ o \in Brks(h) /\ Frees(h) \subseteq DOMAIN h
  BY <1>1, FreesAreBrks DEF Frees
<1>3. CASE ~mergeable_next(m, o)
  <2>1. Turn(m, o) = m
    BY <1>3 DEF Turn
  <2>2. n \notin Frees(h)
    BY <1>1, <1>2, <1>3, NextPhys
  <2>3. Apart(h)
    BY <1>1, <2>2 DEF Apart
  <2>4. SameUsed(h, h)
    BY DEF SameUsed
  <2> QED
    BY <2>1, <2>3, <2>4
<1>4. CASE mergeable_next(m, o)
  <2> DEFINE u == unlink_free(m, n)
             x == absorb(u, o, n)
             k == u.header
             g == x.header
  <2>1. n \in Frees(h) /\ next_phys(m, o) = n
    BY <1>1, <1>2, <1>4, NextPhys
  <2>2. Turn(m, o) = x
    BY <1>4, <2>1 DEF Turn
  <2>3. n # o /\ n \in L
    <3>1. o < n /\ o \in Nat /\ n \in Nat
      BY <1>1, <1>2, BlockFacts
    <3> HIDE DEF n
    <3>2. n # o
      BY <3>1
    <3> QED
      BY <1>1, <2>1, <3>2
  <2>4. PICK r : Links(h, L, r, m.free_list)
    BY DEF Merging
  <2>5. /\ IsMem(u) /\ Laid(u)
        /\ DOMAIN k = DOMAIN h /\ Frees(k) = Frees(h) \ {n}
        /\ \A a \in DOMAIN h : k[a].size = h[a].size /\ k[a].mapped = h[a].mapped
        /\ \E q : Links(k, L \ {n}, q, u.free_list)
        /\ u.prev_search_end \in (L \ {n}) \cup {NULL}
        /\ u.available_bytes = m.available_bytes
        /\ u.brk_heap_start = m.brk_heap_start
        /\ u.brk_heap_end = m.brk_heap_end
    <3>1. L \subseteq Frees(h)
      OBVIOUS
    <3> HIDE DEF L, n
    <3>2. Unlinks(m, u, n, L)
      BY <1>1, <2>3, <2>4, <3>1, UnlinkKeeps
    <3> QED
      BY <3>2 DEF Unlinks
  <2> HIDE DEF u
  <2>6. PICK q : Links(k, L \ {n}, q, u.free_list)
    BY <2>5
  <2>7. Brks(k) = Brks(h) /\ \A a \in DOMAIN h : EndIn(k, a) = EndIn(h, a)
    BY <2>5 DEF Brks, EndIn
  <2>8. o \in Brks(k) /\ n \in Brks(k) /\ EndIn(k, o) = n /\ n \notin L \ {n}
    <3>1. o \in DOMAIN h /\ EndIn(h, o) = n
      BY <1>1, <1>2
    <3> HIDE DEF n
    <3> QED
      BY <1>2, <2>1, <2>7, <3>1
  <2> HIDE DEF n
  <2>9. /\ IsMem(x) /\ Laid(x)
        /\ DOMAIN g = DOMAIN k \ {n} /\ Frees(g) = Frees(k) \ {n}
        /\ g[o].size = k[o].size + overhead_size + k[n].size
        /\ EndIn(g, o) = EndIn(k, n)
        /\ \A a \in DOMAIN g :
              /\ g[a].mapped = k[a].mapped
              /\ a # o => g[a].size = k[a].size /\ EndIn(g, a) = EndIn(k, a)
        /\ Links(g, L \ {n}, q, x.free_list)
        /\ x.prev_search_end = u.prev_search_end
        /\ x.available_bytes = u.available_bytes + overhead_size
        /\ x.brk_heap_start = u.brk_heap_start
        /\ x.brk_heap_end = u.brk_heap_end
    <3> DEFINE M == L \ {n}
    <3>1. IsMem(u) /\ Laid(u) /\ n \notin M /\ Links(u.header, M, q, u.free_list)
      BY <2>5, <2>6, <2>8
    <3>2. o \in Brks(u.header) /\ n \in Brks(u.header) /\ EndIn(u.header, o) = n
      BY <2>8
    <3> HIDE DEF M
    <3>3. Absorbs(u, x, o, n) /\ Links(x.header, M, q, x.free_list)
      BY <3>1, <3>2, AbsorbKeeps
    <3> QED
      BY <3>3 DEF M, Absorbs
  <2> HIDE DEF x
  <2>10. Frees(g) = Frees(h) \ {n} /\ Frees(g) \ X = L \ {n} /\ o \in Frees(g)
    BY <1>1, <2>3, <2>5, <2>9
  <2>11. x.available_bytes = Total(g, Frees(g))
    <3>1. IsFiniteSet(Frees(h)) /\ \A a \in Frees(h) : h[a].size \in Nat
      BY <1>1, FreesFinite
    <3>2. g[o].size = h[o].size + overhead_size + h[n].size
      BY <1>2, <2>1, <2>5, <2>9, <1>1
    <3>3. \A a \in Frees(h) \ {o, n} : g[a].size = h[a].size
      BY <1>2, <2>5, <2>9
    <3>4. Total(g, Frees(h) \ {n}) = Total(h, Frees(h)) + overhead_size
      BY <1>1, <2>1, <2>3, <3>1, <3>2, <3>3, MergedTotal
    <3> QED
      BY <1>1, <2>5, <2>9, <2>10, <3>4
  <2>12. Apart(g)
    <3>1. ASSUME NEW c \in Frees(g) PROVE EndIn(g, c) \notin Frees(g)
      <4>1. c \in Frees(h) /\ c # n /\ c \in DOMAIN h /\ c \in DOMAIN g
        BY <1>2, <2>10, <3>1, <2>5, <2>9
      <4>2. CASE c = o
        <5>1. EndIn(g, c) = EndIn(h, n)
          BY <1>2, <2>1, <2>7, <2>9, <4>2
        <5> QED
          BY <1>1, <2>1, <2>3, <2>10, <5>1
      <4>3. CASE c # o
        <5>1. EndIn(g, c) = EndIn(h, c)
          BY <2>7, <2>9, <4>1, <4>3
        <5> QED
          BY <1>1, <2>10, <4>1, <4>3, <5>1
      <4> QED
        BY <4>2, <4>3
    <3> QED
      BY <3>1 DEF Apart
  <2>13. Merging(x, o, X)
    <3>1. \A c \in Frees(g) \ {o} : EndIn(g, c) \notin Frees(g)
      BY <2>12 DEF Apart
    <3>2. \E w : Links(g, Frees(g) \ X, w, x.free_list)
      BY <2>9, <2>10
    <3>3. x.prev_search_end \in (Frees(g) \ X) \cup {NULL}
      BY <2>5, <2>9, <2>10
    <3> QED
      BY <1>1, <2>9, <2>10, <2>11, <3>1, <3>2, <3>3 DEF Merging
  <2>14. SameUsed(h, g)
    <3>1. DOMAIN g \ Frees(g) = DOMAIN h \ Frees(h)
      BY <2>1, <2>5, <2>9, <2>10
    <3>2. ASSUME NEW c \in DOMAIN h \ Frees(h)
          PROVE  g[c].size = h[c].size /\ g[c].mapped = h[c].mapped
      <4>1. c \in DOMAIN g /\ c # o
        BY <1>1, <3>1, <3>2
      <4> QED
        BY <2>5, <2>9, <4>1
    <3> QED
      BY <3>1, <3>2 DEF SameUsed
  <2> QED
    BY <2>2, <2>5, <2>9, <2>12, <2>13, <2>14
<1> QED
  BY <1>3, <1>4

(* f[n] is the memory after n turns of the loop of coalesce_next.          *)
IsTurns(m, o, k, f) ==
    f = [n \in 0 .. k |->
            IF n = 0 THEN m ELSE LET x == f[n - 1] IN Turn(x, o)]

LEMMA TurnsExist ==
    ASSUME NEW m, NEW o, NEW k \in Nat
    PROVE  \E f : IsTurns(m, o, k, f)
<1> DEFINE K == {j \in Nat : \E f : IsTurns(m, o, j, f)}
<1>1. 0 \in K
  <2>1. IsTurns(m, o, 0, [n \in 0 .. 0 |-> m])
    BY DEF IsTurns
  <2> QED
    BY <2>1
<1>2. ASSUME NEW j \in Nat, j \in K PROVE j + 1 \in K
  <2>1. PICK f : IsTurns(m, o, j, f)
    BY <1>2
  <2> DEFINE g == [n \in 0 .. j + 1 |->
                      IF n = j + 1 THEN Turn(f[j], o) ELSE f[n]]
  <2>2. \A n \in 0 .. j : f[n] = IF n = 0 THEN m ELSE Turn(f[n - 1], o)
    BY <2>1 DEF IsTurns
  <2>3. ASSUME NEW n \in 0 .. j + 1
        PROVE  g[n] = IF n = 0 THEN m ELSE Turn(g[n - 1], o)
    <3>1. CASE n = 0
      BY <2>2, <3>1
    <3>2. CASE n # 0 /\ n # j + 1
      <4>1. n - 1 \in 0 .. j + 1 /\ n - 1 # j + 1 /\ n \in 0 .. j
        BY <3>2
      <4>2. g[n] = f[n] /\ g[n - 1] = f[n - 1]
        BY <3>2, <4>1
      <4> QED
        BY <2>2, <3>2, <4>1, <4>2
    <3>3. CASE n = j + 1
      <4>1. n # 0 /\ n - 1 = j /\ j \in 0 .. j + 1 /\ j # j + 1
        BY <3>3
      <4>2. g[n] = Turn(f[j], o) /\ g[n - 1] = f[j]
        BY <3>3, <4>1
      <4> QED
        BY <4>1, <4>2
    <3> QED
      BY <3>1, <3>2, <3>3
  <2>4. g = [n \in 0 .. j + 1 |-> g[n]]
    OBVIOUS
  <2> HIDE DEF g
  <2>5. g = [n \in 0 .. j + 1 |-> IF n = 0 THEN m ELSE Turn(g[n - 1], o)]
    BY <2>3, <2>4
  <2>6. IsTurns(m, o, j + 1, g)
    BY <2>5 DEF IsTurns
  <2> QED
    BY <2>6
<1>3. Nat \subseteq K
  <2> HIDE DEF K
  <2> QED
    BY <1>1, <1>2, NatSetInduction
<1> QED
  BY <1>3

LEMMA SameUsedSteps ==
    ASSUME NEW h, NEW k, NEW g, SameUsed(h, k), SameUsed(k, g)
    PROVE  SameUsed(h, g)
BY DEF SameUsed

(* x comes from m by merging block o with blocks behind it.                *)
Merged(m, x, o, X) ==
    /\ Merging(x, o, X)
    /\ SameUsed(m.header, x.header)
    /\ x.brk_heap_start = m.brk_heap_start
    /\ x.brk_heap_end = m.brk_heap_end

LEMMA NextMerges ==
    ASSUME NEW m, NEW o, NEW X, Merging(m, o, X)
    PROVE  /\ Merged(m, coalesce_next(m, o), o, X)
           /\ Apart(coalesce_next(m, o).header)
<1> DEFINE k == Cardinality(DOMAIN m.header)
           f == CHOOSE f : IsTurns(m, o, k, f)
           P == {n \in Nat : n <= k =>
                    /\ Merged(m, f[n], o, X)
                    /\ n # 0 => Apart(f[n].header)}
<1>1. coalesce_next(m, o) = f[k]
  BY DEF coalesce_next, IsTurns, Turn
<1>2. k \in Nat /\ k # 0
  <2>1. IsFiniteSet(DOMAIN m.header) /\ o \in DOMAIN m.header
    BY DEF Merging, Laid, Blocks, Headers, Frees
  <2> QED
    BY <2>1, FS_CardinalityType, FS_EmptySet
<1> HIDE DEF k
<1>3. IsTurns(m, o, k, f)
  BY <1>2, TurnsExist
<1> HIDE DEF f
<1>4. f[0] = m /\ \A n \in Nat : n + 1 <= k => f[n + 1] = Turn(f[n], o)
  <2>1. f[0] = m
    BY <1>2, <1>3 DEF IsTurns
  <2>2. ASSUME NEW n \in Nat, n + 1 <= k PROVE f[n + 1] = Turn(f[n], o)
    <3>1. n + 1 \in 0 .. k /\ n + 1 # 0 /\ (n + 1) - 1 = n
      BY <1>2, <2>2
    <3>2. f[n + 1] = Turn(f[(n + 1) - 1], o)
      BY <1>3, <3>1 DEF IsTurns
    <3> QED
      BY <3>1, <3>2
  <2> QED
    BY <2>1, <2>2
<1>5. 0 \in P
  <2>1. SameUsed(m.header, m.header)
    BY DEF SameUsed
  <2>2. Merged(m, f[0], o, X)
    BY <1>4, <2>1 DEF Merged
  <2> QED
    BY <2>2
<1>6. ASSUME NEW n \in Nat, n \in P PROVE n + 1 \in P
  <2> SUFFICES ASSUME n + 1 <= k
               PROVE  Merged(m, f[n + 1], o, X) /\ Apart(f[n + 1].header)
    OBVIOUS
  <2>1. f[n + 1] = Turn(f[n], o)
    BY <1>4
  <2>2. Merged(m, f[n], o, X)
    BY <1>2, <1>6
  <2>3. /\ Merging(Turn(f[n], o), o, X)
        /\ Apart(Turn(f[n], o).header)
        /\ SameUsed(f[n].header, Turn(f[n], o).header)
        /\ Turn(f[n], o).brk_heap_start = f[n].brk_heap_start
        /\ Turn(f[n], o).brk_heap_end = f[n].brk_heap_end
    BY <2>2, TurnMerges DEF Merged
  <2>4. SameUsed(m.header, Turn(f[n], o).header)
    BY <2>2, <2>3, SameUsedSteps DEF Merged
  <2> QED
    BY <2>1, <2>2, <2>3, <2>4 DEF Merged
<1>7. k \in P
  <2> HIDE DEF P
  <2> QED
    BY <1>2, <1>5, <1>6, NatSetInduction
<1> QED
  BY <1>1, <1>2, <1>7

(* Memory between two operations.                                          *)
Sound(m) ==
    LET h == m.header
    IN  /\ IsMem(m) /\ Laid(m) /\ Apart(h)
        /\ m.available_bytes = Total(h, Frees(h))
        /\ m.prev_search_end \in Frees(h) \cup {NULL}
        /\ \E r : Links(h, Frees(h), r, m.free_list)

(* No two blocks end at the same address.                                  *)
LEMMA EndsApart ==
    ASSUME NEW m, Laid(m), NEW a \in DOMAIN m.header, NEW c \in DOMAIN m.header,
           EndIn(m.header, a) = EndIn(m.header, c)
    PROVE  a = c
<1> DEFINE h == m.header
<1>1. Headers(h) /\ \A x, y \in DOMAIN h : x < y => EndIn(h, x) <= y
  BY DEF Laid, Blocks, Tiles
<1>2. /\ a \in Nat /\ EndIn(h, a) \in Nat /\ a < EndIn(h, a)
      /\ c \in Nat /\ EndIn(h, c) \in Nat /\ c < EndIn(h, c)
  BY <1>1, BlockFacts
<1>3. (a < c => EndIn(h, a) <= c) /\ (c < a => EndIn(h, c) <= a)
  BY <1>1
<1> HIDE DEF h
<1> QED
  BY <1>2, <1>3 DEF h

LEMMA InsertKeeps ==
    ASSUME NEW m, NEW b, Merging(m, b, {b}), Apart(m.header)
    PROVE  LET x == insert_free(m, b)
           IN  /\ Sound(x) /\ SameUsed(m.header, x.header)
               /\ x.brk_heap_start = m.brk_heap_start
               /\ x.brk_heap_end = m.brk_heap_end
<1> DEFINE h == m.header
           x == insert_free(m, b)
           g == [h EXCEPT ![b].next = m.free_list]
           L == Frees(h) \ {b}
<1>1. /\ IsMem(m) /\ Laid(m) /\ Headers(h) /\ b \in Frees(h) /\ b \in DOMAIN h
      /\ h \in [DOMAIN h -> BlockType] /\ NULL \notin DOMAIN h
      /\ m.available_bytes = Total(h, Frees(h))
      /\ m.prev_search_end \in L \cup {NULL}
      /\ DOMAIN h \subseteq Nat
  BY OldConstants DEF Merging, Laid, Blocks, Headers, Frees
<1>2. PICK r : Links(h, L, r, m.free_list)
  BY DEF Merging
<1>3. x = Mem(g, m.footer, b, m.prev_search_end, m.available_bytes,
              m.brk_heap_start, m.brk_heap_end)
  BY <1>1, InsertIs
<1>4. /\ IsMem(x) /\ x.header = g /\ x.footer = m.footer /\ x.free_list = b
      /\ x.prev_search_end = m.prev_search_end
      /\ x.available_bytes = m.available_bytes
      /\ x.brk_heap_start = m.brk_heap_start
      /\ x.brk_heap_end = m.brk_heap_end
  BY <1>3, MemFields
<1> HIDE DEF x
<1>5. m.free_list \in Nat \cup {NULL}
  BY <1>1, <1>2 DEF Links
<1>6. /\ DOMAIN g = DOMAIN h /\ g \in [DOMAIN h -> BlockType]
      /\ \A a \in DOMAIN h : /\ g[a].size = h[a].size
                             /\ g[a].mapped = h[a].mapped
                             /\ g[a].is_free = h[a].is_free
      /\ g[b].next = m.free_list
      /\ \A a \in DOMAIN h \ {b} : g[a].next = h[a].next
  <2>1. h[b] \in BlockType
    BY <1>1
  <2>2. [h[b] EXCEPT !.next = m.free_list] \in BlockType
    BY <1>5, <2>1 DEF BlockType
  <2>3. g = [a \in DOMAIN h |-> IF a = b THEN [h[b] EXCEPT !.next = m.free_list]
                                ELSE h[a]]
    BY <1>1
  <2> HIDE DEF g
  <2>4. g[b] = [h[b] EXCEPT !.next = m.free_list]
        /\ \A a \in DOMAIN h \ {b} : g[a] = h[a]
    BY <1>1, <2>3
  <2>5. g \in [DOMAIN h -> BlockType] /\ DOMAIN g = DOMAIN h
    BY <1>1, <2>2, <2>3
  <2>6. /\ g[b].size = h[b].size /\ g[b].mapped = h[b].mapped
        /\ g[b].is_free = h[b].is_free /\ g[b].next = m.free_list
    BY <2>1, <2>4 DEF BlockType
  <2> QED
    BY <2>4, <2>5, <2>6
<1> HIDE DEF g
<1>7. Laid(x)
  <2>1. \A a \in DOMAIN h : g[a].mapped => ~g[a].is_free
    BY <1>1, <1>6 DEF Laid, Blocks, Maps, Brks
  <2>2. Blocks(g, m.footer, m.brk_heap_start, m.brk_heap_end)
    BY <1>1, <1>6, <2>1, BlocksSame DEF Laid
  <2> QED
    BY <1>4, <2>2 DEF Laid
<1>8. Frees(g) = Frees(h) /\ \A a \in DOMAIN h : EndIn(g, a) = EndIn(h, a)
  BY <1>6 DEF Frees, EndIn
<1>9. Apart(g)
  BY <1>8 DEF Apart, Frees
<1>10. \E q : Links(g, Frees(g), q, b)
  <2>1. b \in DOMAIN h \ L /\ L \cup {b} = Frees(g)
    BY <1>1, <1>8
  <2> HIDE DEF L
  <2>2. \E q : Links(g, L \cup {b}, q, b)
    BY <1>1, <1>2, <1>6, <2>1, LinksInsert
  <2> QED
    BY <2>1, <2>2
<1>11. x.available_bytes = Total(g, Frees(g))
  <2>1. IsFiniteSet(Frees(h)) /\ \A a \in Frees(h) : h[a].size = g[a].size
    BY <1>1, <1>6, FreesFinite DEF Frees
  <2> QED
    BY <1>1, <1>4, <1>8, <2>1, TotalSame
<1>12. SameUsed(h, g)
  BY <1>6, <1>8 DEF SameUsed
<1>13. x.prev_search_end \in Frees(g) \cup {NULL}
  BY <1>1, <1>4, <1>8
<1> QED
  BY <1>4, <1>7, <1>9, <1>10, <1>11, <1>12, <1>13 DEF Sound, x

(* The blocks that are not free are the same, except b, which was one.     *)
LosesUsed(h, g, b) ==
    /\ DOMAIN g \ Frees(g) = (DOMAIN h \ Frees(h)) \ {b}
    /\ \A c \in (DOMAIN h \ Frees(h)) \ {b} :
          g[c].size = h[c].size /\ g[c].mapped = h[c].mapped

(* m1 is m with block b marked free.                                       *)
MarkedFree(m, m1, b) ==
    LET h == m.header
        k == m1.header
    IN  /\ IsMem(m1) /\ Laid(m1)
        /\ DOMAIN k = DOMAIN h /\ Frees(k) = Frees(h) \cup {b}
        /\ Brks(k) = Brks(h)
        /\ \A a \in DOMAIN h : /\ k[a].size = h[a].size
                               /\ k[a].mapped = h[a].mapped
                               /\ EndIn(k, a) = EndIn(h, a)
        /\ \E r : Links(k, Frees(h), r, m1.free_list)
        /\ m1.available_bytes = Total(k, Frees(k))
        /\ m1.prev_search_end = m.prev_search_end
        /\ m1.brk_heap_start = m.brk_heap_start
        /\ m1.brk_heap_end = m.brk_heap_end

LEMMA MarkFree ==
    ASSUME NEW m, Sound(m), NEW b \in Brks(m.header), b \notin Frees(m.header)
    PROVE  MarkedFree(m, [set_next(set_free(m, b, TRUE), b, NULL) EXCEPT
                             !.available_bytes = @ + m.header[b].size], b)
<1> DEFINE h == m.header
           m1 == [set_next(set_free(m, b, TRUE), b, NULL) EXCEPT
                     !.available_bytes = @ + m.header[b].size]
           k == Freed(h, b)
<1>1. /\ IsMem(m) /\ Laid(m) /\ Headers(h) /\ b \in DOMAIN h /\ ~h[b].mapped
      /\ h \in [DOMAIN h -> BlockType]
      /\ m.available_bytes = Total(h, Frees(h))
      /\ Frees(h) \subseteq DOMAIN h
  BY DEF Sound, Laid, Blocks, Headers, Brks, Frees
<1>2. PICK r : Links(h, Frees(h), r, m.free_list)
  BY DEF Sound
<1>3. m1 = Mem(k, m.footer, m.free_list, m.prev_search_end,
               m.available_bytes + h[b].size, m.brk_heap_start, m.brk_heap_end)
  BY <1>1, FreedIs
<1>4. /\ IsMem(m1) /\ m1.header = k /\ m1.footer = m.footer
      /\ m1.free_list = m.free_list /\ m1.prev_search_end = m.prev_search_end
      /\ m1.available_bytes = m.available_bytes + h[b].size
      /\ m1.brk_heap_start = m.brk_heap_start
      /\ m1.brk_heap_end = m.brk_heap_end
  <2> HIDE DEF m1, k
  <2> QED
    BY <1>3, MemFields
<1> HIDE DEF m1
<1>5. /\ DOMAIN k = DOMAIN h /\ k \in [DOMAIN h -> BlockType]
      /\ \A a \in DOMAIN h \ {b} : k[a] = h[a]
      /\ k[b].size = h[b].size /\ k[b].mapped = h[b].mapped
      /\ k[b].is_free = TRUE /\ k[b].next = NULL
  <2>1. h[b] \in BlockType
    BY <1>1
  <2> DEFINE v == [h[b] EXCEPT !.is_free = TRUE, !.next = NULL]
  <2>2. v \in BlockType /\ v.size = h[b].size /\ v.mapped = h[b].mapped
        /\ v.is_free = TRUE /\ v.next = NULL
    BY <2>1 DEF BlockType
  <2>3. k = [a \in DOMAIN h |-> IF a = b THEN v ELSE h[a]]
    BY DEF Freed
  <2> HIDE DEF k, v
  <2> QED
    BY <1>1, <2>2, <2>3
<1> HIDE DEF k
<1>6. \A a \in DOMAIN h : k[a].size = h[a].size /\ k[a].mapped = h[a].mapped
                          /\ EndIn(k, a) = EndIn(h, a)
  BY <1>5 DEF EndIn
<1>7. Frees(k) = Frees(h) \cup {b} /\ Brks(k) = Brks(h)
  BY <1>1, <1>5, <1>6 DEF Frees, Brks
<1>8. Laid(m1)
  <2>1. \A a \in DOMAIN h : k[a].mapped => ~k[a].is_free
    BY <1>1, <1>5 DEF Laid, Blocks, Maps, Brks
  <2>2. Blocks(k, m.footer, m.brk_heap_start, m.brk_heap_end)
    BY <1>1, <1>5, <1>6, <2>1, BlocksSame DEF Laid
  <2> QED
    BY <1>4, <2>2 DEF Laid
<1>9. Links(k, Frees(h), r, m1.free_list)
  <2>1. Frees(h) \subseteq DOMAIN k /\ \A a \in Frees(h) : k[a].next = h[a].next
    BY <1>1, <1>5
  <2>2. \A a \in DOMAIN k \ Frees(h) : k[a].next = NULL
    BY <1>2, <1>5 DEF Links
  <2> QED
    BY <1>2, <1>4, <2>1, <2>2, LinksSame
<1>10. m1.available_bytes = Total(k, Frees(k))
  <2>1. Headers(k)
    BY <1>1, <1>5 DEF Headers
  <2>2. IsFiniteSet(Frees(k)) /\ (\A a \in Frees(k) : k[a].size \in Nat)
        /\ b \in Frees(k)
    BY <1>7, <2>1, FreesFinite
  <2>3. Total(k, Frees(k)) = k[b].size + Total(k, Frees(k) \ {b})
    BY <2>2, TotalRemove
  <2>4. Frees(k) \ {b} = Frees(h)
    BY <1>7
  <2>5. IsFiniteSet(Frees(h)) /\ (\A a \in Frees(h) : h[a].size \in Nat)
        /\ (\A a \in Frees(h) : h[a].size = k[a].size)
    BY <1>1, <1>6, FreesFinite
  <2>6. Total(h, Frees(h)) = Total(k, Frees(h)) /\ Total(h, Frees(h)) \in Nat
    BY <2>5, TotalSame, TotalType
  <2>7. h[b].size \in Nat
    BY <1>1, BlockFacts
  <2> QED
    <3> DEFINE T == Total(h, Frees(h))
               z == h[b].size
    <3>1. Total(k, Frees(k)) = z + T
      BY <1>5, <2>3, <2>4, <2>6
    <3>2. m1.available_bytes = T + z
      BY <1>1, <1>4
    <3>3. T \in Nat /\ z \in Nat
      BY <2>6, <2>7
    <3> HIDE DEF T, z
    <3> QED
      BY <3>1, <3>2, <3>3
<1> QED
  BY <1>4, <1>5, <1>6, <1>7, <1>8, <1>9, <1>10 DEF MarkedFree, m1

LEMMA PrevMerges ==
    ASSUME NEW m, Sound(m), NEW b \in Brks(m.header), b \notin Frees(m.header),
           NEW m1, MarkedFree(m, m1, b)
    PROVE  LET c == coalesce_prev(m1, b)
           IN  /\ Merged(m1, c.m, c.owner, IF c.owner = b THEN {b} ELSE {})
<1> DEFINE h == m.header
           k == m1.header
           p == prev_phys(m1, b)
           c == coalesce_prev(m1, b)
<1>1. /\ IsMem(m1) /\ Laid(m1) /\ Headers(k) /\ Maps(k)
      /\ DOMAIN k = DOMAIN h /\ Frees(k) = Frees(h) \cup {b}
      /\ Brks(k) = Brks(h)
      /\ \A a \in DOMAIN h : EndIn(k, a) = EndIn(h, a)
      /\ m1.available_bytes = Total(k, Frees(k))
      /\ m1.prev_search_end \in Frees(h) \cup {NULL}
      /\ Apart(h) /\ Frees(h) \subseteq DOMAIN h
  BY DEF MarkedFree, Sound, Laid, Blocks, Frees
<1>2. PICK r : Links(k, Frees(h), r, m1.free_list)
  BY DEF MarkedFree
<1>3. b \in Brks(k) /\ b \in DOMAIN k /\ Brks(k) \subseteq DOMAIN k
      /\ NULL \notin DOMAIN k
  BY <1>1, OldConstants DEF Brks, Headers
<1>4. IF b = m1.brk_heap_start THEN p = NULL
      ELSE p \in Brks(k) /\ EndIn(k, p) = b
  BY <1>1, <1>3, PrevPhys
<1> HIDE DEF p
<1>5. CASE p # NULL /\ k[p].is_free
  <2> DEFINE x == absorb(m1, p, b)
             g == x.header
  <2>1. c.owner = p /\ c.m = x
    BY <1>5 DEF coalesce_prev, p
  <2>2. p \in Brks(k) /\ EndIn(k, p) = b /\ p \in Frees(k)
    BY <1>3, <1>4, <1>5 DEF Frees
  <2>3. Absorbs(m1, x, p, b) /\ Links(g, Frees(h), r, x.free_list)
    BY <1>1, <1>2, <1>3, <2>2, AbsorbKeeps
  <2> HIDE DEF x
  <2>4. /\ IsMem(x) /\ Laid(x)
        /\ DOMAIN g = DOMAIN k \ {b} /\ Frees(g) = Frees(k) \ {b}
        /\ p # b /\ g[p].size = k[p].size + overhead_size + k[b].size
        /\ \A a \in DOMAIN g :
              /\ g[a].mapped = k[a].mapped
              /\ a # p => g[a].size = k[a].size /\ EndIn(g, a) = EndIn(k, a)
        /\ x.prev_search_end = m1.prev_search_end
        /\ x.available_bytes = m1.available_bytes + overhead_size
        /\ x.brk_heap_start = m1.brk_heap_start
        /\ x.brk_heap_end = m1.brk_heap_end
    BY <2>3 DEF Absorbs
  <2>5. Frees(g) = Frees(h) /\ p \in Frees(g)
    BY <1>1, <2>2, <2>4
  <2>6. x.available_bytes = Total(g, Frees(g))
    <3>1. IsFiniteSet(Frees(k)) /\ (\A a \in Frees(k) : k[a].size \in Nat)
          /\ b \in Frees(k)
      BY <1>1, FreesFinite
    <3>2. \A a \in Frees(k) \ {p, b} : g[a].size = k[a].size
      BY <2>4 DEF Frees
    <3>3. Total(g, Frees(k) \ {b}) = Total(k, Frees(k)) + overhead_size
      BY <2>2, <2>4, <3>1, <3>2, MergedTotal
    <3> QED
      BY <1>1, <2>4, <3>3
  <2>7. ASSUME NEW a \in Frees(g) \ {p} PROVE EndIn(g, a) \notin Frees(g)
    <3>1. a \in DOMAIN g /\ a \in DOMAIN h /\ a \in Frees(h)
      BY <1>1, <2>4, <2>5, <2>7
    <3>2. EndIn(g, a) = EndIn(h, a)
      BY <1>1, <2>4, <2>7, <3>1
    <3> QED
      BY <1>1, <2>5, <3>1, <3>2 DEF Apart
  <2>8. Merging(x, p, {})
    <3>1. Frees(g) \ {} = Frees(h)
      BY <2>5
    <3> QED
      <4>1. \E w : Links(g, Frees(g) \ {}, w, x.free_list)
        BY <2>3, <3>1
      <4>2. x.prev_search_end \in (Frees(g) \ {}) \cup {NULL}
        BY <1>1, <2>4, <3>1
      <4> QED
        BY <2>4, <2>5, <2>6, <2>7, <4>1, <4>2 DEF Merging
  <2>9. SameUsed(k, g)
    <3>1. DOMAIN g \ Frees(g) = DOMAIN k \ Frees(k)
      BY <1>1, <2>4
    <3>2. ASSUME NEW a \in DOMAIN k \ Frees(k)
          PROVE  g[a].size = k[a].size /\ g[a].mapped = k[a].mapped
      <4>1. a \in DOMAIN g /\ a # p
        BY <2>2, <3>1, <3>2
      <4> QED
        BY <2>4, <4>1
    <3> QED
      BY <3>1, <3>2 DEF SameUsed
  <2> QED
    BY <2>1, <2>4, <2>8, <2>9 DEF Merged
<1>6. CASE ~(p # NULL /\ k[p].is_free)
  <2>1. c.owner = b /\ c.m = m1
    BY <1>6 DEF coalesce_prev, p
  <2>2. ASSUME NEW a \in Frees(k) \ {b} PROVE EndIn(k, a) \notin Frees(k)
    <3>1. a \in Frees(h) /\ a \in DOMAIN h /\ a \in Brks(k) /\ a \in DOMAIN k
      BY <1>1, <1>3, <2>2, FreesAreBrks
    <3>2. EndIn(k, a) \notin Frees(h)
      BY <1>1, <3>1 DEF Apart
    <3>3. ASSUME EndIn(k, a) = b PROVE FALSE
      <4>1. b # m1.brk_heap_start
        <5>1. m1.brk_heap_start \in Nat /\ m1.brk_heap_start <= a
          BY <1>1, <3>1 DEF Laid, Blocks, Tiles
        <5>2. a < EndIn(k, a) /\ a \in Nat /\ EndIn(k, a) \in Nat
          BY <1>1, <3>1, BlockFacts
        <5> QED
          BY <3>3, <5>1, <5>2
      <4>2. p \in DOMAIN k /\ EndIn(k, p) = EndIn(k, a)
        BY <1>3, <1>4, <3>3, <4>1
      <4>3. p = a
        BY <1>1, <3>1, <4>2, EndsApart
      <4> QED
        BY <1>3, <1>6, <2>2, <3>1, <4>3 DEF Frees
    <3> QED
      BY <1>1, <3>2, <3>3
  <2>3. Frees(k) \ {b} = Frees(h) /\ b \in Frees(k)
    BY <1>1
  <2>4. Merging(m1, b, {b})
    BY <1>1, <1>2, <2>2, <2>3 DEF Merging
  <2>5. SameUsed(k, k)
    BY DEF SameUsed
  <2> QED
    BY <2>1, <2>4, <2>5 DEF Merged
<1> QED
  BY <1>5, <1>6

(* return_back_unlocked: the block is merged or linked in, and the memory  *)
(* is sound again.                                                         *)
LEMMA ReturnKeeps ==
    ASSUME NEW m, Sound(m), NEW b \in Brks(m.header), b \notin Frees(m.header)
    PROVE  LET x == return_back_unlocked(m, b)
           IN  /\ Sound(x) /\ LosesUsed(m.header, x.header, b)
               /\ x.brk_heap_start = m.brk_heap_start
               /\ x.brk_heap_end = m.brk_heap_end
<1> DEFINE h == m.header
           m1 == [set_next(set_free(m, b, TRUE), b, NULL) EXCEPT
                     !.available_bytes = @ + m.header[b].size]
           k == m1.header
           c == coalesce_prev(m1, b)
           X == IF c.owner = b THEN {b} ELSE {}
           y == coalesce_next(c.m, c.owner)
           x == return_back_unlocked(m, b)
<1>1. MarkedFree(m, m1, b)
  BY MarkFree
<1>2. ~k[b].mapped
  BY <1>1 DEF MarkedFree, Brks
<1>3. x = IF c.owner = b THEN insert_free(y, b) ELSE y
  BY <1>2 DEF return_back_unlocked, coalesce_around
<1> HIDE DEF m1, x
<1>4. Merged(m1, c.m, c.owner, X)
  BY <1>1, PrevMerges
<1> HIDE DEF c, X
<1>5. Merged(c.m, y, c.owner, X) /\ Apart(y.header)
  BY <1>4, NextMerges DEF Merged
<1> HIDE DEF y
<1>6. /\ Sound(x) /\ SameUsed(y.header, x.header)
      /\ x.brk_heap_start = y.brk_heap_start
      /\ x.brk_heap_end = y.brk_heap_end
  <2>1. CASE c.owner = b
    <3>1. Merging(y, b, {b})
      BY <1>5, <2>1 DEF Merged, X
    <3> QED
      BY <1>3, <1>5, <2>1, <3>1, InsertKeeps
  <2>2. CASE c.owner # b
    <3>1. Merging(y, c.owner, {}) /\ x = y
      BY <1>3, <1>5, <2>2 DEF Merged, X
    <3>2. Frees(y.header) \ {} = Frees(y.header)
      OBVIOUS
    <3>3. Sound(y)
      BY <1>5, <3>1, <3>2 DEF Merging, Sound
    <3> QED
      BY <3>1, <3>3 DEF SameUsed
  <2> QED
    BY <2>1, <2>2
<1>7. SameUsed(k, x.header)
  BY <1>4, <1>5, <1>6, SameUsedSteps DEF Merged
<1>8. LosesUsed(h, x.header, b)
  BY <1>1, <1>7 DEF MarkedFree, SameUsed, LosesUsed
<1> QED
  BY <1>1, <1>4, <1>5, <1>6, <1>8 DEF Merged, MarkedFree, x

-----------------------------------------------------------------------------
(* deallocate *)

(* A free block that leaves the list counts as used from then on.          *)
GainsUsed(h, g, b) ==
    /\ DOMAIN g \ Frees(g) = (DOMAIN h \ Frees(h)) \cup {b}
    /\ \A c \in (DOMAIN h \ Frees(h)) \cup {b} :
          g[c].size = h[c].size /\ g[c].mapped = h[c].mapped

LEMMA TakeOffKeeps ==
    ASSUME NEW m, Sound(m), NEW b \in Frees(m.header)
    PROVE  LET x == [unlink_free(m, b) EXCEPT
                        !.available_bytes = @ - m.header[b].size]
           IN  /\ Sound(x) /\ GainsUsed(m.header, x.header, b)
               /\ Frees(x.header) = Frees(m.header) \ {b}
               /\ Brks(x.header) = Brks(m.header)
               /\ EndIn(x.header, b) = EndIn(m.header, b)
               /\ x.brk_heap_start = m.brk_heap_start
               /\ x.brk_heap_end = m.brk_heap_end
<1> DEFINE h == m.header
           u == unlink_free(m, b)
           k == u.header
           z == h[b].size
           x == [u EXCEPT !.available_bytes = @ - z]
<1>1. /\ IsMem(m) /\ Laid(m) /\ Headers(h) /\ Apart(h)
      /\ m.available_bytes = Total(h, Frees(h))
      /\ m.prev_search_end \in Frees(h) \cup {NULL}
      /\ b \in DOMAIN h /\ Frees(h) \subseteq DOMAIN h
  BY DEF Sound, Laid, Blocks, Frees
<1>2. PICK r : Links(h, Frees(h), r, m.free_list)
  BY DEF Sound
<1>3. /\ IsMem(u) /\ Laid(u)
      /\ DOMAIN k = DOMAIN h /\ Frees(k) = Frees(h) \ {b}
      /\ \A a \in DOMAIN h : k[a].size = h[a].size /\ k[a].mapped = h[a].mapped
      /\ \E q : Links(k, Frees(h) \ {b}, q, u.free_list)
      /\ u.prev_search_end \in (Frees(h) \ {b}) \cup {NULL}
      /\ u.available_bytes = m.available_bytes
      /\ u.brk_heap_start = m.brk_heap_start
      /\ u.brk_heap_end = m.brk_heap_end
  <2> DEFINE L == Frees(h)
  <2>1. L \subseteq Frees(h) /\ b \in L /\ Links(h, L, r, m.free_list)
        /\ m.prev_search_end \in L \cup {NULL}
    BY <1>1, <1>2
  <2> HIDE DEF L
  <2>2. Unlinks(m, u, b, L)
    BY <1>1, <2>1, UnlinkKeeps
  <2> QED
    BY <2>2 DEF L, Unlinks
<1> HIDE DEF u
<1>4. x = Mem(k, u.footer, u.free_list, u.prev_search_end,
              u.available_bytes - z, u.brk_heap_start, u.brk_heap_end)
  <2> HIDE DEF z
  <2>1. u = Mem(k, u.footer, u.free_list, u.prev_search_end,
                u.available_bytes, u.brk_heap_start, u.brk_heap_end)
    BY <1>3 DEF IsMem
  <2> DEFINE f == u.footer
             first == u.free_list
             search == u.prev_search_end
             bytes == u.available_bytes
             s == u.brk_heap_start
             e == u.brk_heap_end
  <2>2. u = Mem(k, f, first, search, bytes, s, e)
    BY <2>1
  <2> HIDE DEF f, first, search, bytes, s, e, k
  <2>3. [u EXCEPT !.available_bytes = @ - z] =
            Mem(k, f, first, search, bytes - z, s, e)
    BY <2>2 DEF Mem
  <2> QED
    BY <2>3 DEF f, first, search, bytes, s, e
<1>5. /\ IsMem(x) /\ x.header = k /\ x.footer = u.footer
      /\ x.free_list = u.free_list /\ x.prev_search_end = u.prev_search_end
      /\ x.available_bytes = u.available_bytes - z
      /\ x.brk_heap_start = u.brk_heap_start
      /\ x.brk_heap_end = u.brk_heap_end
  <2> HIDE DEF x
  <2> QED
    BY <1>4, MemFields
<1> HIDE DEF x, k
<1>6. Laid(x)
  BY <1>3, <1>5 DEF Laid, k
<1>7. /\ \A a \in DOMAIN h : EndIn(k, a) = EndIn(h, a)
      /\ Brks(k) = Brks(h)
  BY <1>3 DEF EndIn, Brks, k
<1>8. Apart(k)
  BY <1>1, <1>3, <1>7 DEF Apart, k
<1>9. x.available_bytes = Total(k, Frees(k))
  <2> DEFINE R == Frees(h) \ {b}
  <2>1. IsFiniteSet(Frees(h)) /\ \A a \in Frees(h) : h[a].size \in Nat
    BY <1>1, FreesFinite
  <2>2. Total(h, Frees(h)) = h[b].size + Total(h, R)
    BY <2>1, TotalRemove
  <2>3. IsFiniteSet(R) /\ \A a \in R : h[a].size = k[a].size
    BY <1>1, <1>3, <2>1, FS_RemoveElement DEF k
  <2>4. Total(h, R) = Total(k, R)
    BY <2>3, TotalSame
  <2>5. Total(h, R) \in Nat /\ h[b].size \in Nat
    BY <2>1, <2>3, TotalType
  <2>6. Frees(k) = R
    BY <1>3 DEF k
  <2>7. x.available_bytes = Total(h, Frees(h)) - h[b].size
    BY <1>1, <1>3, <1>5
  <2> HIDE DEF R
  <2> QED
    BY <2>2, <2>4, <2>5, <2>6, <2>7
<1>10. GainsUsed(h, k, b)
  BY <1>1, <1>3 DEF GainsUsed, k
<1>11. Sound(x)
  BY <1>3, <1>5, <1>6, <1>8, <1>9 DEF Sound, k
<1> QED
  BY <1>1, <1>3, <1>5, <1>7, <1>10, <1>11 DEF x, k, u

(* A used block goes back to the system: by munmap, or as the last of the  *)
(* heap.                                                                   *)
LEMMA ReleaseKeeps ==
    ASSUME NEW m, Sound(m), NEW b \in DOMAIN m.header,
           b \notin Frees(m.header),
           b \in Brks(m.header) => EndIn(m.header, b) = m.brk_heap_end,
           NEW x,
           x = IF b \in Brks(m.header)
               THEN [released(m, b) EXCEPT !.brk_heap_end = b]
               ELSE released(m, b)
    PROVE  /\ Sound(x) /\ LosesUsed(m.header, x.header, b)
           /\ Frees(x.header) = Frees(m.header)
<1> DEFINE h == m.header
           f == m.footer
           first == m.free_list
           search == m.prev_search_end
           bytes == m.available_bytes
           s == m.brk_heap_start
           e == m.brk_heap_end
           g == Drop(h, b)
           f1 == Drop(f, FootIn(h, b))
           y == released(m, b)
           e1 == IF b \in Brks(h) THEN b ELSE e
<1>1. /\ m = Mem(h, f, first, search, bytes, s, e)
      /\ Laid(m) /\ Headers(h) /\ Apart(h) /\ bytes = Total(h, Frees(h))
      /\ search \in Frees(h) \cup {NULL}
      /\ Blocks(h, f, s, e)
      /\ Frees(h) \subseteq DOMAIN h
  BY DEF Sound, Laid, Blocks, Frees, IsMem
<1>2. PICK r : Links(h, Frees(h), r, first)
  BY DEF Sound
<1>3. y = [m EXCEPT !.header = g, !.footer = f1]
  BY DEF released, footer_of, FootIn
<1>4. Blocks(g, f1, s, e1)
  BY <1>1, ReleasedBlocks
<1>5. b \in DOMAIN h /\ b \notin Frees(h)
  OBVIOUS
<1> HIDE DEF h, f, first, search, bytes, s, e
<1>6. y = Mem(g, f1, first, search, bytes, s, e)
  <2> HIDE DEF g, f1
  <2> DEFINE z == [m EXCEPT !.header = g]
  <2>1. z = Mem(g, f, first, search, bytes, s, e)
    BY <1>1 DEF Mem
  <2>2. y = [z EXCEPT !.footer = f1]
    BY <1>1, <1>3 DEF Mem
  <2> HIDE DEF z
  <2>3. [z EXCEPT !.footer = f1] = Mem(g, f1, first, search, bytes, s, e)
    BY <2>1 DEF Mem
  <2> QED
    BY <2>2, <2>3
<1>7. x = Mem(g, f1, first, search, bytes, s, e1)
  <2> HIDE DEF y, g, f1
  <2>1. [y EXCEPT !.brk_heap_end = b] = Mem(g, f1, first, search, bytes, s, b)
    BY <1>6 DEF Mem
  <2>2. x = IF b \in Brks(h) THEN [y EXCEPT !.brk_heap_end = b] ELSE y
    BY DEF y, h
  <2> QED
    BY <1>6, <2>1, <2>2
<1>8. /\ IsMem(x) /\ x.header = g /\ x.footer = f1 /\ x.free_list = first
      /\ x.prev_search_end = search /\ x.available_bytes = bytes
      /\ x.brk_heap_start = s /\ x.brk_heap_end = e1
  <2> HIDE DEF g, f1, e1
  <2> QED
    BY ONLY <1>7, MemFields
<1>9. DOMAIN g = DOMAIN h \ {b} /\ \A a \in DOMAIN g : g[a] = h[a]
  BY DEF Drop
<1> HIDE DEF g, f1, e1
<1>10. Frees(g) = Frees(h) /\ \A a \in DOMAIN g : EndIn(g, a) = EndIn(h, a)
  BY <1>5, <1>9 DEF Frees, EndIn
<1>11. Laid(x)
  BY <1>4, <1>8 DEF Laid
<1>12. Apart(g)
  BY <1>1, <1>5, <1>9, <1>10 DEF Apart
<1>13. Links(g, Frees(h), r, first)
  <2>1. Frees(h) \subseteq DOMAIN g /\ \A a \in Frees(h) : g[a].next = h[a].next
    BY <1>1, <1>5, <1>9
  <2>2. \A a \in DOMAIN g \ Frees(h) : g[a].next = NULL
    BY <1>2, <1>9 DEF Links
  <2> QED
    BY <1>2, <2>1, <2>2, LinksSame
<1>14. bytes = Total(g, Frees(g))
  <2>1. IsFiniteSet(Frees(h)) /\ \A a \in Frees(h) : h[a].size = g[a].size
    BY <1>1, <1>5, <1>9, FreesFinite
  <2> QED
    BY <1>1, <1>10, <2>1, TotalSame
<1>15. Sound(x)
  BY <1>1, <1>8, <1>10, <1>11, <1>12, <1>13, <1>14 DEF Sound
<1>16. LosesUsed(h, g, b)
  BY <1>5, <1>9, <1>10 DEF LosesUsed
<1> QED
  BY <1>8, <1>10, <1>15, <1>16 DEF h

LEMMA DeallocateUsed ==
    ASSUME NEW m, Sound(m), NEW b \in DOMAIN m.header,
           b \notin Frees(m.header), NEW ok \in BOOLEAN,
           ~ok => system_call(m, b)
    PROVE  LET x == deallocated(m, b, ok)
           IN  IF ok THEN Sound(x) /\ LosesUsed(m.header, x.header, b)
               ELSE x = m
<1> DEFINE h == m.header
           x == deallocated(m, b, ok)
<1>1. ~h[b].is_free
  BY DEF Frees
<1>2. block_end(m, b) = EndIn(h, b)
  BY DEF block_end, block_span, EndIn
<1>3. x = IF h[b].mapped THEN IF ok THEN released(m, b) ELSE m
          ELSE IF EndIn(h, b) # m.brk_heap_end THEN return_back_unlocked(m, b)
          ELSE IF ok THEN [released(m, b) EXCEPT !.brk_heap_end = b] ELSE m
  BY <1>1, <1>2 DEF deallocated
<1>4. system_call(m, b) <=> h[b].mapped \/ EndIn(h, b) = m.brk_heap_end
  BY <1>2 DEF system_call
<1> HIDE DEF x
<1>5. CASE ~ok
  BY <1>3, <1>4, <1>5 DEF x
<1>6. CASE ok /\ ~h[b].mapped /\ EndIn(h, b) # m.brk_heap_end
  <2>1. b \in Brks(h) /\ x = return_back_unlocked(m, b)
    BY <1>3, <1>6 DEF Brks
  <2>2. Sound(return_back_unlocked(m, b))
        /\ LosesUsed(h, return_back_unlocked(m, b).header, b)
    BY <2>1, ReturnKeeps
  <2> QED
    BY <1>6, <2>1, <2>2 DEF x
<1>7. CASE ok /\ (h[b].mapped \/ EndIn(h, b) = m.brk_heap_end)
  <2>1. b \in Brks(h) <=> ~h[b].mapped
    BY DEF Brks
  <2>2. x = IF b \in Brks(h) THEN [released(m, b) EXCEPT !.brk_heap_end = b]
            ELSE released(m, b)
    BY <1>3, <1>7, <2>1
  <2>3. b \in Brks(h) => EndIn(h, b) = m.brk_heap_end
    BY <1>7, <2>1
  <2>4. Sound(x) /\ LosesUsed(h, x.header, b)
    BY <2>2, <2>3, ReleaseKeeps
  <2> QED
    BY <1>7, <2>4 DEF x
<1> QED
  BY <1>5, <1>6, <1>7

(* The destructor deallocates the head of the list.                        *)
LEMMA DeallocateFree ==
    ASSUME NEW m, Sound(m), NEW b \in Frees(m.header), NEW ok \in BOOLEAN,
           ~ok => system_call(m, b)
    PROVE  LET x == deallocated(m, b, ok)
           IN  /\ Sound(x)
               /\ ok => SameUsed(m.header, x.header)
               /\ ~ok => /\ GainsUsed(m.header, x.header, b)
                         /\ Frees(x.header) = Frees(m.header) \ {b}
                         /\ Brks(x.header) = Brks(m.header)
                         /\ EndIn(m.header, b) = m.brk_heap_end
<1> DEFINE h == m.header
           x == deallocated(m, b, ok)
           m1 == [unlink_free(m, b) EXCEPT !.available_bytes = @ - m.header[b].size]
           g == m1.header
<1>1. /\ Laid(m) /\ Headers(h) /\ Maps(h) /\ b \in DOMAIN h /\ h[b].is_free
      /\ NULL \notin DOMAIN h
  BY OldConstants DEF Sound, Laid, Blocks, Headers, Frees
<1>2. ~h[b].mapped
  BY <1>1, FreesAreBrks DEF Brks
<1>3. listed(m, b)
  <2>1. PICK r : Links(h, Frees(h), r, m.free_list)
    BY DEF Sound
  <2> QED
    BY <1>1, <2>1, BlockBefore
<1>4. block_end(m, b) = EndIn(h, b)
  BY DEF block_end, block_span, EndIn
<1>5. x = IF EndIn(h, b) # m.brk_heap_end THEN return_back_unlocked(m1, b)
          ELSE IF ok THEN [released(m1, b) EXCEPT !.brk_heap_end = b] ELSE m1
  BY <1>1, <1>2, <1>3, <1>4 DEF deallocated
<1>6. ~ok => EndIn(h, b) = m.brk_heap_end
  BY <1>2, <1>4 DEF system_call
<1>7. /\ Sound(m1) /\ GainsUsed(h, g, b)
      /\ Frees(g) = Frees(h) \ {b}
      /\ Brks(g) = Brks(h)
      /\ EndIn(g, b) = EndIn(h, b)
      /\ m1.brk_heap_end = m.brk_heap_end
  BY TakeOffKeeps
<1> HIDE DEF m1, x
<1>8. b \in Brks(g) /\ b \in DOMAIN g /\ b \notin Frees(g)
  BY <1>1, <1>2, <1>7 DEF Brks
<1>9. ASSUME LosesUsed(g, x.header, b) PROVE SameUsed(h, x.header)
  <2>1. b \in Frees(h)
    OBVIOUS
  <2> QED
    BY <1>7, <1>9, <2>1 DEF LosesUsed, SameUsed, GainsUsed
<1>10. CASE EndIn(h, b) # m.brk_heap_end
  <2>1. Sound(return_back_unlocked(m1, b))
        /\ LosesUsed(g, return_back_unlocked(m1, b).header, b)
    BY <1>7, <1>8, ReturnKeeps
  <2>2. x = return_back_unlocked(m1, b)
    BY <1>5, <1>10
  <2> QED
    BY <1>6, <1>9, <1>10, <2>1, <2>2 DEF x
<1>11. CASE EndIn(h, b) = m.brk_heap_end /\ ok
  <2>1. x = IF b \in Brks(g) THEN [released(m1, b) EXCEPT !.brk_heap_end = b]
            ELSE released(m1, b)
    BY <1>5, <1>8, <1>11
  <2>2. b \in Brks(g) => EndIn(g, b) = m1.brk_heap_end
    BY <1>7, <1>11
  <2>3. Sound(x) /\ LosesUsed(g, x.header, b)
    BY <1>7, <1>8, <2>1, <2>2, ReleaseKeeps
  <2> QED
    BY <1>9, <1>11, <2>3 DEF x
<1>12. CASE EndIn(h, b) = m.brk_heap_end /\ ~ok
  BY <1>5, <1>7, <1>12 DEF x
<1> QED
  BY <1>10, <1>11, <1>12

-----------------------------------------------------------------------------
(* allocate: taking a block *)

(* Block b, behind p, leaves the list.                                     *)
TakenOff(h, b, p) ==
    LET k == IF p # NULL THEN [h EXCEPT ![p].next = h[b].next] ELSE h
    IN  [[k EXCEPT ![b].next = NULL] EXCEPT ![b].is_free = FALSE]

LEMMA TakenIs ==
    ASSUME NEW m, NEW b, NEW p,
           NEW h, NEW f, NEW first, NEW search, NEW bytes, NEW s, NEW e,
           split(m, b, size) = Mem(h, f, first, search, bytes, s, e)
    PROVE  taken(m, b, p) =
             Mem(TakenOff(h, b, p), f, IF p # NULL THEN first ELSE h[b].next, p,
                 bytes - TakenOff(h, b, p)[b].size, s, e)
<1> DEFINE m1 == split(m, b, size)
           n == h[b].next
           k == IF p # NULL THEN [h EXCEPT ![p].next = n] ELSE h
           first2 == IF p # NULL THEN first ELSE n
           m2 == IF p # NULL
                 THEN [set_next(m1, p, m1.header[b].next) EXCEPT
                         !.prev_search_end = p]
                 ELSE [m1 EXCEPT !.free_list = m1.header[b].next,
                                 !.prev_search_end = NULL]
           k3 == [k EXCEPT ![b].next = NULL]
           k4 == [k3 EXCEPT ![b].is_free = FALSE]
           m3 == set_next(m2, b, NULL)
           m4 == set_free(m3, b, FALSE)
<1>1. taken(m, b, p) = [m4 EXCEPT !.available_bytes = @ - m4.header[b].size]
  BY DEF taken
<1>0. m1 = Mem(h, f, first, search, bytes, s, e)
  OBVIOUS
<1> HIDE DEF m1
<1>2. m1.header = h
  BY <1>0, MemFields
<1> HIDE DEF n
<1>3. m2 = Mem(k, f, first2, p, bytes, s, e)
  <2>0. m1.header[b].next = n
    BY <1>2 DEF n
  <2>1. CASE p # NULL
    <3> DEFINE y == set_next(m1, p, n)
               g == [h EXCEPT ![p].next = n]
    <3>1. y = Mem(g, f, first, search, bytes, s, e)
      BY <1>0 DEF set_next, Mem
    <3>2. m2 = [y EXCEPT !.prev_search_end = p]
      BY <2>0, <2>1
    <3> HIDE DEF y, g
    <3>3. [y EXCEPT !.prev_search_end = p] = Mem(g, f, first, p, bytes, s, e)
      BY <3>1 DEF Mem
    <3> QED
      BY <2>1, <3>2, <3>3 DEF g
  <2>2. CASE p = NULL
    <3> DEFINE y == [m1 EXCEPT !.free_list = n]
    <3>1. y = Mem(h, f, n, search, bytes, s, e)
      BY <1>0 DEF Mem
    <3>2. m2 = [m1 EXCEPT !.free_list = n, !.prev_search_end = NULL]
      BY <2>0, <2>2
    <3>3. [m1 EXCEPT !.free_list = n, !.prev_search_end = NULL]
          = [y EXCEPT !.prev_search_end = NULL]
      BY <1>0 DEF Mem
    <3> HIDE DEF y
    <3>4. [y EXCEPT !.prev_search_end = NULL] = Mem(h, f, n, NULL, bytes, s, e)
      BY <3>1 DEF Mem
    <3> HIDE DEF m2
    <3> QED
      BY <2>2, <3>2, <3>3, <3>4
  <2> QED
    BY <2>1, <2>2
<1> HIDE DEF m2, k, first2
<1>4. m3 = Mem(k3, f, first2, p, bytes, s, e)
  BY <1>3 DEF set_next, Mem
<1> HIDE DEF m3, k3
<1>5. m4 = Mem(k4, f, first2, p, bytes, s, e)
  <2>1. \A v : set_free(m3, b, v) =
                   Mem([k3 EXCEPT ![b].is_free = v], f, first2, p, bytes, s, e)
    BY <1>4 DEF set_free, Mem
  <2> QED
    BY <2>1
<1> HIDE DEF m4, k4
<1>6. [m4 EXCEPT !.available_bytes = @ - m4.header[b].size]
      = Mem(k4, f, first2, p, bytes - k4[b].size, s, e)
  <2>1. m4.header = k4 /\ m4.available_bytes = bytes
    BY ONLY <1>5, MemFields
  <2>2. \A v : [m4 EXCEPT !.available_bytes = v]
               = Mem(k4, f, first2, p, v, s, e)
    BY <1>5 DEF Mem
  <2> QED
    BY <2>1, <2>2
<1>7. k4 = TakenOff(h, b, p)
  BY DEF k4, k3, k, TakenOff, n
<1> QED
  BY <1>1, <1>6, <1>7 DEF first2, n

OffList(h, g, b, p) ==
    /\ DOMAIN g = DOMAIN h /\ g \in [DOMAIN h -> BlockType]
    /\ \A a \in DOMAIN h : g[a].size = h[a].size /\ g[a].mapped = h[a].mapped
    /\ g[b].next = NULL /\ g[b].is_free = FALSE
    /\ \A a \in DOMAIN h \ {b} :
          /\ g[a].is_free = h[a].is_free
          /\ g[a].next = IF p # NULL /\ a = p THEN h[b].next ELSE h[a].next

LEMMA TakenOffFields ==
    ASSUME NEW h, h \in [DOMAIN h -> BlockType], NEW b \in DOMAIN h,
           NEW p, p # NULL => p \in DOMAIN h, p # b
    PROVE  OffList(h, TakenOff(h, b, p), b, p)
<1> DEFINE n == h[b].next
           k == IF p # NULL THEN [h EXCEPT ![p].next = n] ELSE h
           k2 == [k EXCEPT ![b].next = NULL]
           g == TakenOff(h, b, p)
<1>1. h[b] \in BlockType /\ n \in Nat \cup {NULL}
  BY DEF BlockType
<1>2. /\ DOMAIN k = DOMAIN h /\ k \in [DOMAIN h -> BlockType] /\ k[b] = h[b]
      /\ \A a \in DOMAIN h :
            /\ k[a].size = h[a].size /\ k[a].mapped = h[a].mapped
            /\ k[a].is_free = h[a].is_free
            /\ k[a].next = IF p # NULL /\ a = p THEN n ELSE h[a].next
  <2>1. CASE p = NULL
    BY <2>1
  <2>2. CASE p # NULL
    <3> DEFINE v == [h[p] EXCEPT !.next = n]
    <3>1. h[p] \in BlockType /\ p \in DOMAIN h
      BY <2>2
    <3>2. /\ v \in BlockType /\ v.size = h[p].size /\ v.mapped = h[p].mapped
          /\ v.is_free = h[p].is_free /\ v.next = n
      <4> HIDE DEF n
      <4> QED
        BY <1>1, <3>1 DEF BlockType
    <3>3. k = [a \in DOMAIN h |-> IF a = p THEN v ELSE h[a]]
      BY <2>2, <3>1
    <3> HIDE DEF v, k, n
    <3> QED
      BY <2>2, <3>1, <3>2, <3>3
  <2> QED
    BY <2>1, <2>2
<1>3. g = [k2 EXCEPT ![b].is_free = FALSE]
  BY DEF TakenOff
<1> HIDE DEF k, g, n
<1> DEFINE v == [h[b] EXCEPT !.next = NULL, !.is_free = FALSE]
<1>4. /\ v \in BlockType /\ v.size = h[b].size /\ v.mapped = h[b].mapped
      /\ v.is_free = FALSE /\ v.next = NULL
  BY <1>1 DEF BlockType
<1>5. g = [a \in DOMAIN h |-> IF a = b THEN v ELSE k[a]]
  <2>1. g = [a \in DOMAIN h |-> g[a]]
    BY <1>2, <1>3
  <2>2. ASSUME NEW a \in DOMAIN h PROVE g[a] = IF a = b THEN v ELSE k[a]
    <3>1. CASE a = b
      BY <1>1, <1>2, <1>3, <3>1 DEF BlockType
    <3>2. CASE a # b
      BY <1>2, <1>3, <3>2
    <3> QED
      BY <3>1, <3>2
  <2> HIDE DEF v
  <2> QED
    BY <2>1, <2>2
<1> HIDE DEF v
<1> QED
  <2>1. OffList(h, g, b, p)
    <3>1. DOMAIN g = DOMAIN h /\ g \in [DOMAIN h -> BlockType]
      BY <1>2, <1>4, <1>5
    <3>2. g[b] = v /\ \A a \in DOMAIN h \ {b} : g[a] = k[a]
      BY <1>5
    <3> QED
      BY <1>2, <1>4, <3>1, <3>2 DEF OffList, n
  <2> QED
    BY <2>1 DEF g

(* The header of the remainder of block b, cut to n bytes.                 *)
RestOf(h, b, n) ==
    [size |-> h[b].size - n - overhead_size, is_free |-> TRUE,
     mapped |-> h[b].mapped, next |-> h[b].next]

CutHeader(h, b, n, rest) ==
    [Put([h EXCEPT ![b].size = n], rest, RestOf(h, b, n)) EXCEPT
        ![b].next = rest]

HasCut(h, g, b, n, rest) ==
    /\ DOMAIN g = DOMAIN h \cup {rest}
    /\ g \in [DOMAIN h \cup {rest} -> BlockType]
    /\ g[b].size = n /\ g[b].mapped = h[b].mapped
    /\ g[b].is_free = h[b].is_free /\ g[b].next = rest
    /\ g[rest] = RestOf(h, b, n)
    /\ \A a \in DOMAIN h \ {b} : g[a] = h[a]

LEMMA CutHeaderFields ==
    ASSUME NEW h, h \in [DOMAIN h -> BlockType], NEW b \in DOMAIN h,
           NEW n \in Nat, NEW rest \in Nat, rest \notin DOMAIN h,
           h[b].size - n - overhead_size \in Nat
    PROVE  HasCut(h, CutHeader(h, b, n, rest), b, n, rest)
<1> DEFINE g == CutHeader(h, b, n, rest)
           k == [h EXCEPT ![b].size = n]
           k2 == Put(k, rest, RestOf(h, b, n))
           v == [h[b] EXCEPT !.size = n, !.next = rest]
<1>1. h[b] \in BlockType /\ rest # b
  OBVIOUS
<1>2. /\ v \in BlockType /\ v.size = n /\ v.mapped = h[b].mapped
      /\ v.is_free = h[b].is_free /\ v.next = rest
  BY <1>1 DEF BlockType
<1>3. RestOf(h, b, n) \in BlockType
  BY <1>1 DEF RestOf, BlockType
<1>4. k = [a \in DOMAIN h |-> IF a = b THEN [h[b] EXCEPT !.size = n] ELSE h[a]]
  OBVIOUS
<1>5. /\ DOMAIN k2 = DOMAIN h \cup {rest} /\ k2[rest] = RestOf(h, b, n)
      /\ k2[b] = [h[b] EXCEPT !.size = n]
      /\ \A a \in DOMAIN h \ {b} : k2[a] = h[a]
      /\ k2 = [a \in DOMAIN h \cup {rest} |-> k2[a]]
  <2> HIDE DEF k
  <2> QED
    BY <1>1, <1>4 DEF Put
<1>6. g = [k2 EXCEPT ![b].next = rest]
  BY DEF CutHeader
<1> HIDE DEF k2, k, g
<1>7. g = [a \in DOMAIN h \cup {rest} |->
              IF a = b THEN v ELSE k2[a]]
  <2>1. g = [a \in DOMAIN h \cup {rest} |->
                IF a = b THEN [k2[b] EXCEPT !.next = rest] ELSE k2[a]]
    BY <1>5, <1>6
  <2>2. [k2[b] EXCEPT !.next = rest] = v
    BY <1>1, <1>5 DEF BlockType
  <2> QED
    BY <2>1, <2>2
<1> HIDE DEF v
<1> QED
  BY <1>1, <1>2, <1>3, <1>5, <1>7 DEF g, HasCut

LEMMA SplitIs ==
    ASSUME NEW m, NEW h, NEW f, NEW first, NEW search, NEW bytes, NEW s, NEW e,
           m = Mem(h, f, first, search, bytes, s, e),
           h \in [DOMAIN h -> BlockType], NEW b \in DOMAIN h,
           NEW n \in Nat, splittable(m, b, n),
           NEW rest \in Nat, rest = b + overhead_size + n,
           rest \notin DOMAIN h,
           h[b].size - n - overhead_size \in Nat
    PROVE  LET g == CutHeader(h, b, n, rest)
           IN  split(m, b, n) =
                 Mem(g, Put(Put(f, FootIn(g, b), FootRecord(g, b)),
                            FootIn(g, rest), FootRecord(g, rest)),
                     first, search, bytes - overhead_size, s, e)
<1> DEFINE g == CutHeader(h, b, n, rest)
           k == [h EXCEPT ![b].size = n]
           k2 == Put(k, rest, RestOf(h, b, n))
           f1 == Put(f, FootIn(k, b), FootRecord(k, b))
           f2 == Put(f1, FootIn(k2, rest), FootRecord(k2, rest))
           y == set_size(m, b, n)
           m1 == write_footer(y, b)
           m2 == [m1 EXCEPT !.header = Put(@, rest, RestOf(h, b, n))]
           y2 == write_footer(m2, rest)
           m3 == set_next(y2, b, rest)
<1>1. m.header = h
  BY MemFields
<1>2. split(m, b, n) = [m3 EXCEPT !.available_bytes = @ - overhead_size]
  BY <1>1 DEF split, RestOf
<1>3. y = Mem(k, f, first, search, bytes, s, e)
  BY DEF set_size, Mem
<1> HIDE DEF y, k
<1>4. m1 = Mem(k, f1, first, search, bytes, s, e)
  BY <1>3 DEF write_footer, Mem, footer_of, FootIn, FootRecord
<1> HIDE DEF m1, f1
<1>5. m2 = Mem(k2, f1, first, search, bytes, s, e)
  <2>1. m1.header = k
    BY ONLY <1>4, MemFields
  <2>2. \A v : [m1 EXCEPT !.header = v] = Mem(v, f1, first, search, bytes, s, e)
    BY <1>4 DEF Mem
  <2> QED
    BY <2>1, <2>2
<1> HIDE DEF m2, k2
<1>6. y2 = Mem(k2, f2, first, search, bytes, s, e)
  BY <1>5 DEF write_footer, Mem, footer_of, FootIn, FootRecord
<1> HIDE DEF y2, f2
<1>7. m3 = Mem([k2 EXCEPT ![b].next = rest], f2, first, search, bytes, s, e)
  BY <1>6 DEF set_next, Mem
<1>8. g = [k2 EXCEPT ![b].next = rest]
  BY DEF CutHeader, k2, k
<1> HIDE DEF m3, g
<1>9. m3 = Mem(g, f2, first, search, bytes, s, e)
  BY <1>7, <1>8
<1>10. [m3 EXCEPT !.available_bytes = @ - overhead_size]
       = Mem(g, f2, first, search, bytes - overhead_size, s, e)
  BY <1>9 DEF Mem
<1>11. /\ g[b].size = n /\ g[b].mapped = h[b].mapped
       /\ g[rest] = RestOf(h, b, n)
  <2>1. HasCut(h, CutHeader(h, b, n, rest), b, n, rest)
    BY CutHeaderFields
  <2> QED
    BY <2>1 DEF g, HasCut
<1>12. k[b].size = n /\ k[b].mapped = h[b].mapped
  BY DEF k, BlockType
<1>13. k2[rest] = RestOf(h, b, n)
  BY DEF k2, Put
<1>14. FootIn(k, b) = FootIn(g, b) /\ FootRecord(k, b) = FootRecord(g, b)
       /\ FootIn(k2, rest) = FootIn(g, rest)
       /\ FootRecord(k2, rest) = FootRecord(g, rest)
  BY <1>11, <1>12, <1>13 DEF FootIn, FootRecord
<1> QED
  BY <1>2, <1>10, <1>14 DEF g, f2, f1

(* Block b is used now, with room for n bytes; the other used blocks are   *)
(* the same.                                                               *)
Takes(h, g, b, n) ==
    /\ DOMAIN g \ Frees(g) = (DOMAIN h \ Frees(h)) \cup {b}
    /\ b \in DOMAIN g /\ n <= g[b].size /\ ~g[b].mapped
    /\ \A c \in DOMAIN h \ Frees(h) :
          g[c].size = h[c].size /\ g[c].mapped = h[c].mapped

(* p is the block before b on the list, and NULL if b is the first.        *)
Behind(m, b, p) ==
    IF p = NULL THEN b = m.free_list
    ELSE p \in Frees(m.header) /\ m.header[p].next = b

OnlyBehind(m, b, p) ==
    /\ p # b /\ (p # NULL => p \in Frees(m.header))
    /\ (p = NULL) <=> (m.free_list = b)
    /\ \A a \in DOMAIN m.header :
          (m.header[a].next = b) <=> (p # NULL /\ a = p)

LEMMA BehindFacts ==
    ASSUME NEW m, Sound(m), NEW b \in Frees(m.header), NEW p, Behind(m, b, p)
    PROVE  OnlyBehind(m, b, p)
<1> DEFINE h == m.header
<1>1. Frees(h) \subseteq DOMAIN h /\ NULL \notin DOMAIN h /\ NULL \notin Frees(h)
  BY OldConstants DEF Sound, Laid, Blocks, Headers, Frees
<1>2. PICK r : Links(h, Frees(h), r, m.free_list)
  BY DEF Sound
<1>3. /\ \A a, c \in DOMAIN h : h[a].next = b /\ h[c].next = b => a = c
      /\ \A a \in DOMAIN h : h[a].next = b => a \in Frees(h) /\ b # m.free_list
  BY <1>1, <1>2, OnePredecessor
<1>4. p # NULL => p \in Frees(h) /\ h[p].next = b
  BY DEF Behind
<1>5. p = NULL => b = m.free_list
  BY DEF Behind
<1>6. h[b].next # b
  <2>1. h[b].next # NULL => r[h[b].next] < r[b]
    BY <1>2 DEF Links
  <2>2. r[b] \in Nat /\ b # NULL
    BY <1>1, <1>2 DEF Links
  <2> QED
    BY <2>1, <2>2
<1> QED
  BY <1>1, <1>3, <1>4, <1>5, <1>6 DEF OnlyBehind

LEMMA TakenWhole ==
    ASSUME NEW m, Sound(m), NEW b \in Frees(m.header), NEW p, Behind(m, b, p),
           size \in Nat, size <= m.header[b].size, ~splittable(m, b, size)
    PROVE  Sound(taken(m, b, p)) /\ Takes(m.header, taken(m, b, p).header, b, size)
<1> DEFINE h == m.header
           g == TakenOff(h, b, p)
           x == taken(m, b, p)
           n == h[b].next
<1>1. /\ IsMem(m) /\ Laid(m) /\ Headers(h) /\ Apart(h)
      /\ m.available_bytes = Total(h, Frees(h))
      /\ m.prev_search_end \in Frees(h) \cup {NULL}
      /\ b \in DOMAIN h /\ Frees(h) \subseteq DOMAIN h
      /\ h \in [DOMAIN h -> BlockType] /\ NULL \notin DOMAIN h
  BY OldConstants DEF Sound, Laid, Blocks, Frees, Headers
<1>2. PICK r : Links(h, Frees(h), r, m.free_list)
  BY DEF Sound
<1>3. /\ p # b /\ (p # NULL => p \in Frees(h))
      /\ (p = NULL) <=> (m.free_list = b)
      /\ \A a \in DOMAIN h : (h[a].next = b) <=> (p # NULL /\ a = p)
  <2>1. OnlyBehind(m, b, p)
    BY BehindFacts
  <2> QED
    BY <2>1 DEF OnlyBehind
<1>4. x = Mem(g, m.footer, IF p # NULL THEN m.free_list ELSE n, p,
              m.available_bytes - g[b].size, m.brk_heap_start, m.brk_heap_end)
  <2>1. split(m, b, size) = m
    BY DEF split
  <2>2. m = Mem(h, m.footer, m.free_list, m.prev_search_end,
                m.available_bytes, m.brk_heap_start, m.brk_heap_end)
    BY <1>1 DEF IsMem
  <2> DEFINE f == m.footer
             first == m.free_list
             search == m.prev_search_end
             bytes == m.available_bytes
             s == m.brk_heap_start
             e == m.brk_heap_end
  <2>3. split(m, b, size) = Mem(h, f, first, search, bytes, s, e)
    BY <2>1, <2>2
  <2> HIDE DEF h, f, first, search, bytes, s, e
  <2>4. taken(m, b, p) =
           Mem(TakenOff(h, b, p), f, IF p # NULL THEN first ELSE h[b].next, p,
               bytes - TakenOff(h, b, p)[b].size, s, e)
    BY <2>3, TakenIs
  <2> QED
    BY <2>4 DEF h, f, first, search, bytes, s, e
<1>5. /\ DOMAIN g = DOMAIN h /\ g \in [DOMAIN h -> BlockType]
      /\ \A a \in DOMAIN h : g[a].size = h[a].size /\ g[a].mapped = h[a].mapped
      /\ g[b].next = NULL /\ g[b].is_free = FALSE
      /\ \A a \in DOMAIN h \ {b} :
            /\ g[a].is_free = h[a].is_free
            /\ g[a].next = IF p # NULL /\ a = p THEN h[b].next ELSE h[a].next
  <2>1. OffList(h, g, b, p)
    BY <1>1, <1>3, TakenOffFields
  <2> HIDE DEF g
  <2> QED
    BY <2>1 DEF OffList
<1> HIDE DEF x, g
<1>6. /\ IsMem(x) /\ x.header = g /\ x.footer = m.footer
      /\ x.free_list = (IF p # NULL THEN m.free_list ELSE n)
      /\ x.prev_search_end = p
      /\ x.available_bytes = m.available_bytes - g[b].size
      /\ x.brk_heap_start = m.brk_heap_start
      /\ x.brk_heap_end = m.brk_heap_end
  BY ONLY <1>4, MemFields
<1>7. Frees(g) = Frees(h) \ {b}
  BY <1>1, <1>5 DEF Frees
<1>8. Laid(x)
  <2>1. \A a \in DOMAIN h : g[a].mapped => ~g[a].is_free
    BY <1>1, <1>5 DEF Laid, Blocks, Maps, Brks
  <2>2. Blocks(g, m.footer, m.brk_heap_start, m.brk_heap_end)
    BY <1>1, <1>5, <2>1, BlocksSame DEF Laid
  <2> QED
    BY <1>6, <2>2 DEF Laid
<1>9. Apart(g)
  <2>1. \A a \in DOMAIN h : EndIn(g, a) = EndIn(h, a)
    BY <1>5 DEF EndIn
  <2> QED
    BY <1>1, <1>7, <2>1 DEF Apart
<1>10. \E q : Links(g, Frees(g), q, x.free_list)
  <2>1. \A a \in DOMAIN h \ {b} :
            g[a].next = IF h[a].next = b THEN h[b].next ELSE h[a].next
    BY <1>3, <1>5
  <2>2. \E q : Links(g, Frees(h) \ {b}, q,
                     IF m.free_list = b THEN h[b].next ELSE m.free_list)
    BY <1>1, <1>2, <1>5, <2>1, LinksRemove
  <2>3. x.free_list = IF m.free_list = b THEN h[b].next ELSE m.free_list
    BY <1>3, <1>6
  <2> QED
    BY <1>7, <2>2, <2>3
<1>11. x.available_bytes = Total(g, Frees(g))
  <2> DEFINE R == Frees(h) \ {b}
  <2>1. IsFiniteSet(Frees(h)) /\ \A a \in Frees(h) : h[a].size \in Nat
    BY <1>1, FreesFinite
  <2>2. Total(h, Frees(h)) = h[b].size + Total(h, R)
    BY <2>1, TotalRemove
  <2>3. IsFiniteSet(R) /\ \A a \in R : h[a].size = g[a].size
    BY <1>1, <1>5, <2>1, FS_RemoveElement
  <2>4. Total(h, R) = Total(g, R)
    BY <2>3, TotalSame
  <2>5. Total(h, R) \in Nat /\ h[b].size \in Nat
    BY <2>1, <2>3, TotalType
  <2>6. Frees(g) = R
    BY <1>7
  <2>7. x.available_bytes = Total(h, Frees(h)) - h[b].size
    BY <1>1, <1>5, <1>6
  <2> HIDE DEF R
  <2> QED
    BY <2>2, <2>4, <2>5, <2>6, <2>7
<1>12. x.prev_search_end \in Frees(g) \cup {NULL}
  BY <1>3, <1>6, <1>7
<1>13. Sound(x)
  BY <1>6, <1>8, <1>9, <1>10, <1>11, <1>12 DEF Sound
<1>14. Takes(h, g, b, size)
  <2>1. ~g[b].mapped
    BY <1>1, <1>5, FreesAreBrks DEF Laid, Blocks, Brks
  <2> QED
    BY <1>1, <1>5, <1>7, <2>1 DEF Takes
<1> QED
  BY <1>6, <1>13, <1>14 DEF x

LEMMA TakenCut ==
    ASSUME NEW m, Sound(m), NEW b \in Frees(m.header), NEW p, Behind(m, b, p),
           size \in Nat, splittable(m, b, size)
    PROVE  Sound(taken(m, b, p)) /\ Takes(m.header, taken(m, b, p).header, b, size)
<1> DEFINE h == m.header
           f == m.footer
           first == m.free_list
           bytes == m.available_bytes
           s == m.brk_heap_start
           e == m.brk_heap_end
           rest == b + overhead_size + size
           k == CutHeader(h, b, size, rest)
           f2 == Put(Put(f, FootIn(k, b), FootRecord(k, b)),
                     FootIn(k, rest), FootRecord(k, rest))
           g == TakenOff(k, b, p)
           x == taken(m, b, p)
<1>1. /\ m = Mem(h, f, first, m.prev_search_end, bytes, s, e)
      /\ Laid(m) /\ Headers(h) /\ Apart(h) /\ Blocks(h, f, s, e)
      /\ bytes = Total(h, Frees(h))
      /\ b \in DOMAIN h /\ Frees(h) \subseteq DOMAIN h
      /\ h \in [DOMAIN h -> BlockType] /\ NULL \notin DOMAIN h
      /\ \A a, c \in DOMAIN h : a < c => EndIn(h, a) <= c
  BY OldConstants DEF Sound, Laid, Blocks, Frees, Headers, Tiles, IsMem
<1>2. PICK r : Links(h, Frees(h), r, first)
  BY DEF Sound
<1>3. /\ p # b /\ (p # NULL => p \in Frees(h))
      /\ (p = NULL) <=> (first = b)
      /\ \A a \in DOMAIN h : (h[a].next = b) <=> (p # NULL /\ a = p)
  <2>1. OnlyBehind(m, b, p)
    BY BehindFacts
  <2> QED
    BY <2>1 DEF OnlyBehind
<1>4. /\ b \in Nat /\ h[b].size \in Nat /\ overhead_size \in Nat
      /\ overhead_size > 0
      /\ EndIn(h, b) = b + (overhead_size + h[b].size)
  BY <1>1, BlockFacts, OldConstants
<1>5. size + overhead_size + 1 <= h[b].size
  BY <1>4 DEF splittable
<1>6. /\ rest \in Nat /\ b < rest /\ rest < EndIn(h, b)
      /\ h[b].size - size - overhead_size \in Nat
  BY <1>4, <1>5
<1>7. rest \notin DOMAIN h /\ rest # NULL
  <2> SUFFICES ASSUME rest \in DOMAIN h PROVE FALSE
    BY <1>6, OldConstants
  <2>1. EndIn(h, b) <= rest
    BY <1>1, <1>6
  <2>2. EndIn(h, b) \in Nat
    BY <1>1, BlockFacts
  <2> HIDE DEF rest
  <2> QED
    BY <1>6, <2>1, <2>2
<1>8. rest = b + overhead_size + size
  OBVIOUS
<1> HIDE DEF rest
<1>9. split(m, b, size) = Mem(k, f2, first, m.prev_search_end,
                              bytes - overhead_size, s, e)
  <2> DEFINE search == m.prev_search_end
  <2>1. m = Mem(h, f, first, search, bytes, s, e)
    BY <1>1
  <2> HIDE DEF h, f, first, search, bytes, s, e
  <2>2. split(m, b, size) = Mem(k, f2, first, search, bytes - overhead_size, s, e)
    BY <1>1, <1>6, <1>7, <1>8, <2>1, SplitIs
  <2> QED
    BY <2>2 DEF search
<1>10. HasCut(h, k, b, size, rest)
  BY <1>1, <1>6, <1>7, CutHeaderFields
<1>11. x = Mem(g, f2, IF p # NULL THEN first ELSE k[b].next, p,
               (bytes - overhead_size) - g[b].size, s, e)
  <2> DEFINE search == m.prev_search_end
             left == bytes - overhead_size
  <2>1. split(m, b, size) = Mem(k, f2, first, search, left, s, e)
    BY <1>9
  <2> HIDE DEF search, left, k, f2, first, s, e
  <2>3. taken(m, b, p) =
           Mem(TakenOff(k, b, p), f2, IF p # NULL THEN first ELSE k[b].next, p,
               left - TakenOff(k, b, p)[b].size, s, e)
    BY <2>1, TakenIs
  <2> QED
    BY <2>3 DEF left
<1> HIDE DEF k, f2
<1>12. /\ DOMAIN k = DOMAIN h \cup {rest}
       /\ k \in [DOMAIN h \cup {rest} -> BlockType]
       /\ k[b].size = size /\ k[b].mapped = h[b].mapped
       /\ k[b].is_free = h[b].is_free /\ k[b].next = rest
       /\ k[rest] = RestOf(h, b, size)
       /\ \A a \in DOMAIN h \ {b} : k[a] = h[a]
  BY <1>10 DEF HasCut
<1>13. /\ DOMAIN g = DOMAIN k /\ g \in [DOMAIN k -> BlockType]
       /\ \A a \in DOMAIN k : g[a].size = k[a].size /\ g[a].mapped = k[a].mapped
       /\ g[b].next = NULL /\ g[b].is_free = FALSE
       /\ \A a \in DOMAIN k \ {b} :
             /\ g[a].is_free = k[a].is_free
             /\ g[a].next = IF p # NULL /\ a = p THEN k[b].next ELSE k[a].next
  <2>1. k \in [DOMAIN k -> BlockType] /\ b \in DOMAIN k
        /\ (p # NULL => p \in DOMAIN k) /\ p # b
    BY <1>1, <1>3, <1>12
  <2>2. OffList(k, g, b, p)
    BY <2>1, TakenOffFields
  <2> HIDE DEF g
  <2> QED
    BY <2>2 DEF OffList
<1> HIDE DEF x, g
<1>14. /\ IsMem(x) /\ x.header = g /\ x.footer = f2
       /\ x.free_list = (IF p # NULL THEN first ELSE k[b].next)
       /\ x.prev_search_end = p
       /\ x.available_bytes = (bytes - overhead_size) - g[b].size
       /\ x.brk_heap_start = s /\ x.brk_heap_end = e
  <2> HIDE DEF s, e, bytes, first
  <2> QED
    BY ONLY <1>11, MemFields
<1>15. /\ g[rest].size = h[b].size - size - overhead_size
       /\ g[rest].mapped = h[b].mapped /\ g[rest].is_free = TRUE
       /\ rest # b /\ rest \in DOMAIN k
       /\ (p # NULL => rest # p) /\ g[rest].next = h[b].next
  <2>1. rest # b /\ rest \in DOMAIN k /\ (p # NULL => rest # p)
    BY <1>1, <1>3, <1>7, <1>12
  <2> QED
    BY <1>12, <1>13, <2>1 DEF RestOf
<1>16. ~h[b].mapped /\ b \in Brks(h)
  BY <1>1, FreesAreBrks DEF Blocks, Brks
<1>17. IsCut(h, g, b, size, rest)
  <2>1. \A a \in DOMAIN h \ {b} : /\ g[a].size = h[a].size
                                  /\ g[a].mapped = h[a].mapped
                                  /\ g[a].is_free = h[a].is_free
    BY <1>12, <1>13
  <2>2. \A a \in DOMAIN h \ {b} : g[a].mapped => ~g[a].is_free
    BY <1>1, <2>1 DEF Blocks, Maps, Brks
  <2>3. g[b].size = size /\ ~g[b].mapped
    BY <1>1, <1>12, <1>13, <1>16
  <2> QED
    BY <1>5, <1>8, <1>12, <1>13, <1>15, <1>16, <2>1, <2>2, <2>3 DEF IsCut
<1>18. /\ EndIn(g, rest) = EndIn(h, b)
       /\ \A a \in DOMAIN h \ {b} : EndIn(g, a) = EndIn(h, a)
  <2> HIDE DEF h
  <2>1. /\ Headers(g)
        /\ rest \notin DOMAIN h /\ rest \in DOMAIN g /\ rest \in Nat
        /\ b < rest /\ rest < EndIn(h, b)
        /\ EndIn(g, b) = rest /\ EndIn(g, rest) = EndIn(h, b)
        /\ FootIn(g, rest) = FootIn(h, b)
        /\ \A a \in DOMAIN h \ {b} :
              EndIn(g, a) = EndIn(h, a) /\ FootIn(g, a) = FootIn(h, a)
    BY <1>1, <1>17, CutFields
  <2> QED
    BY <2>1
<1>19. Laid(x)
  <2>1. FootIn(k, b) = FootIn(g, b) /\ FootRecord(k, b) = FootRecord(g, b)
        /\ FootIn(k, rest) = FootIn(g, rest)
        /\ FootRecord(k, rest) = FootRecord(g, rest)
    BY <1>1, <1>12, <1>13, <1>15 DEF FootIn, FootRecord
  <2>2. Blocks(g, Put(Put(f, FootIn(g, b), FootRecord(g, b)),
                      FootIn(g, rest), FootRecord(g, rest)), s, e)
    BY <1>1, <1>16, <1>17, CutBlocks
  <2>3. f2 = Put(Put(f, FootIn(g, b), FootRecord(g, b)),
                 FootIn(g, rest), FootRecord(g, rest))
    BY <2>1 DEF f2
  <2> QED
    BY <1>14, <2>2, <2>3 DEF Laid
<1>20. Frees(g) = (Frees(h) \ {b}) \cup {rest}
  BY <1>1, <1>7, <1>12, <1>13, <1>15 DEF Frees
<1>21. Apart(g)
  <2>1. EndIn(h, b) \notin Frees(h) /\ EndIn(h, b) # rest
    BY <1>1, <1>6 DEF Apart
  <2>2. ASSUME NEW a \in Frees(h) \ {b} PROVE EndIn(h, a) # rest
    <3>1. /\ a \in DOMAIN h /\ a \in Nat /\ EndIn(h, a) \in Nat
          /\ a < EndIn(h, a) /\ a # b /\ EndIn(h, b) \in Nat
      BY <1>1, BlockFacts
    <3>2. (a < b => EndIn(h, a) <= b) /\ (b < a => EndIn(h, b) <= a)
      BY <1>1, <3>1
    <3> QED
      BY <1>4, <1>6, <3>1, <3>2
  <2>3. ASSUME NEW a \in Frees(g) PROVE EndIn(g, a) \notin Frees(g)
    <3>1. CASE a = rest
      BY <1>18, <1>20, <2>1, <3>1
    <3>2. CASE a # rest
      <4>1. a \in Frees(h) \ {b} /\ EndIn(g, a) = EndIn(h, a)
        BY <1>1, <1>18, <1>20, <2>3, <3>2
      <4>2. EndIn(h, a) \notin Frees(h)
        BY <1>1, <4>1 DEF Apart
      <4> QED
        BY <1>20, <2>2, <4>1, <4>2
    <3> QED
      BY <3>1, <3>2
  <2> QED
    BY <2>3 DEF Apart
<1>22. \E q : Links(g, Frees(g), q, x.free_list)
  <2>1. \A a \in DOMAIN h \ {b} :
            g[a].next = IF h[a].next = b THEN rest ELSE h[a].next
    BY <1>3, <1>12, <1>13
  <2>2. DOMAIN g = DOMAIN h \cup {rest}
    BY <1>12, <1>13
  <2>3. \E q : Links(g, (Frees(h) \ {b}) \cup {rest}, q,
                     IF first = b THEN rest ELSE first)
    BY <1>1, <1>2, <1>7, <1>13, <1>15, <2>1, <2>2, LinksReplace
  <2>4. x.free_list = IF first = b THEN rest ELSE first
    BY <1>3, <1>12, <1>14
  <2> QED
    BY <1>20, <2>3, <2>4
<1>23. x.available_bytes = Total(g, Frees(g))
  <2> DEFINE R == Frees(h) \ {b}
             T == Total(h, R)
  <2>1. IsFiniteSet(Frees(h)) /\ \A a \in Frees(h) : h[a].size \in Nat
    BY <1>1, FreesFinite
  <2>2. Total(h, Frees(h)) = h[b].size + T
    BY <2>1, TotalRemove
  <2>3. IsFiniteSet(R) /\ \A a \in R : h[a].size = g[a].size
    BY <1>1, <1>12, <1>13, <2>1, FS_RemoveElement
  <2>4. T = Total(g, R)
    BY <2>3, TotalSame
  <2>5. T \in Nat /\ h[b].size \in Nat
    BY <2>1, <2>3, TotalType
  <2>6. Headers(g)
    BY <1>14, <1>19 DEF Laid, Blocks
  <2>7. IsFiniteSet(Frees(g)) /\ (\A a \in Frees(g) : g[a].size \in Nat)
        /\ rest \in Frees(g)
    BY <1>20, <2>6, FreesFinite
  <2>8. Total(g, Frees(g)) = g[rest].size + Total(g, Frees(g) \ {rest})
    BY <2>7, TotalRemove
  <2>9. Frees(g) \ {rest} = R
    BY <1>1, <1>7, <1>20
  <2>10. Total(g, Frees(g)) = (h[b].size - size - overhead_size) + T
    BY <1>15, <2>4, <2>8, <2>9
  <2>11. x.available_bytes = (Total(h, Frees(h)) - overhead_size) - size
    BY <1>1, <1>12, <1>13, <1>14
  <2>12. x.available_bytes = ((h[b].size + T) - overhead_size) - size
    BY <2>2, <2>11
  <2> HIDE DEF T
  <2> QED
    BY <1>4, <2>5, <2>10, <2>12
<1>24. x.prev_search_end \in Frees(g) \cup {NULL}
  BY <1>3, <1>14, <1>20
<1>25. Sound(x)
  BY <1>14, <1>19, <1>21, <1>22, <1>23, <1>24 DEF Sound
<1>26. Takes(h, g, b, size)
  <2>1. DOMAIN g \ Frees(g) = (DOMAIN h \ Frees(h)) \cup {b}
    BY <1>1, <1>7, <1>12, <1>13, <1>15, <1>20
  <2>2. b \in DOMAIN g /\ size <= g[b].size /\ ~g[b].mapped
    BY <1>1, <1>12, <1>13, <1>16
  <2>3. \A c \in DOMAIN h \ Frees(h) :
            g[c].size = h[c].size /\ g[c].mapped = h[c].mapped
    BY <1>12, <1>13
  <2> QED
    BY <2>1, <2>2, <2>3 DEF Takes
<1> QED
  BY <1>14, <1>25, <1>26 DEF x

-----------------------------------------------------------------------------
(* Blocks from the system *)

NewBlock(n, is_free, mapped) ==
    [size |-> n, is_free |-> is_free, mapped |-> mapped, next |-> NULL]

LEMMA CreateIs ==
    ASSUME NEW m, NEW h, NEW f, NEW first, NEW search, NEW bytes, NEW s, NEW e,
           m = Mem(h, f, first, search, bytes, s, e),
           NEW at, NEW n, NEW is_free, NEW mapped, NEW g,
           g = Put(h, at, NewBlock(n, is_free, mapped))
    PROVE  create_block(m, at, n, is_free, mapped) =
             Mem(g, Put(f, FootIn(g, at), FootRecord(g, at)),
                 first, search, bytes,
                 IF mapped THEN s ELSE IF s = NULL THEN at ELSE s,
                 IF mapped THEN e ELSE EndIn(g, at))
<1> DEFINE v == NewBlock(n, is_free, mapped)
           m0 == [m EXCEPT !.header = Put(@, at, v)]
           m1 == write_footer(m0, at)
           f1 == Put(f, FootIn(g, at), FootRecord(g, at))
           s1 == IF s = NULL THEN at ELSE s
           m2 == [m1 EXCEPT !.brk_heap_start = IF @ = NULL THEN at ELSE @,
                            !.brk_heap_end = block_end(m1, at)]
<1>1. create_block(m, at, n, is_free, mapped) = IF mapped THEN m1 ELSE m2
  BY DEF create_block, NewBlock
<1> HIDE DEF v
<1>2. m0 = Mem(g, f, first, search, bytes, s, e)
  <2>1. m.header = h
    BY ONLY m = Mem(h, f, first, search, bytes, s, e), MemFields
  <2>2. \A w : [m EXCEPT !.header = w] = Mem(w, f, first, search, bytes, s, e)
    BY DEF Mem
  <2>3. m0 = [m EXCEPT !.header = g]
    BY <2>1 DEF v
  <2> QED
    BY <2>2, <2>3
<1> HIDE DEF m0
<1>3. m1 = Mem(g, f1, first, search, bytes, s, e)
  BY <1>2 DEF write_footer, Mem, footer_of, FootIn, FootRecord
<1> HIDE DEF m1, f1
<1>4. m2 = Mem(g, f1, first, search, bytes, s1, EndIn(g, at))
  <2>1. m1.header = g /\ m1.brk_heap_start = s
    BY ONLY <1>3, MemFields
  <2>2. block_end(m1, at) = EndIn(g, at)
    BY <2>1 DEF block_end, block_span, EndIn
  <2> DEFINE y == [m1 EXCEPT !.brk_heap_start = s1]
             end == EndIn(g, at)
  <2>3. m2 = [m1 EXCEPT !.brk_heap_start = s1, !.brk_heap_end = end]
    BY <2>1, <2>2
  <2> HIDE DEF s1, end, m2
  <2>4. [m1 EXCEPT !.brk_heap_start = s1, !.brk_heap_end = end]
        = [y EXCEPT !.brk_heap_end = end]
    BY <1>3 DEF Mem
  <2>5. y = Mem(g, f1, first, search, bytes, s1, e)
    BY <1>3 DEF Mem
  <2> HIDE DEF y
  <2>6. [y EXCEPT !.brk_heap_end = end] = Mem(g, f1, first, search, bytes, s1, end)
    BY <2>5 DEF Mem
  <2> QED
    BY <2>3, <2>4, <2>6 DEF end
<1> HIDE DEF m2
<1> QED
  BY <1>1, <1>3, <1>4 DEF f1

(* x is m with a new used block of n bytes.                                *)
Creates(h, g, at, n, mapped) ==
    /\ at \notin DOMAIN h /\ DOMAIN g = DOMAIN h \cup {at}
    /\ Frees(g) = Frees(h)
    /\ g[at].size = n /\ g[at].mapped = mapped
    /\ \A a \in DOMAIN h : g[a] = h[a]

LEMMA NewBlockLaid ==
    ASSUME NEW h, NEW f, NEW s, NEW e, Blocks(h, f, s, e), NEW m,
           m.header = h, m.brk_heap_end = e,
           NEW n \in Nat, NEW is_free \in BOOLEAN, NEW mapped \in BOOLEAN,
           mapped => n \in Requests /\ ~is_free,
           NEW at \in block_at(m, n, mapped), at # NULL,
           NEW g, g = Put(h, at, NewBlock(n, is_free, mapped))
    PROVE  /\ Blocks(g, Put(f, FootIn(g, at), FootRecord(g, at)),
                     IF mapped THEN s ELSE IF s = NULL THEN at ELSE s,
                     IF mapped THEN e ELSE EndIn(g, at))
           /\ at \in Nat /\ at \notin DOMAIN h
           /\ NewBlock(n, is_free, mapped) \in BlockType
<1> DEFINE v == NewBlock(n, is_free, mapped)
<1>1. v \in BlockType /\ v.size = n /\ v.mapped = mapped /\ v.is_free = is_free
  BY DEF NewBlock, BlockType
<1> HIDE DEF v
<1>2. CASE mapped
  <2>1. at \in MapAddr /\ at \notin DOMAIN h
    BY <1>2 DEF block_at, mmap_at
  <2>2. at \in Nat
    BY <2>1, OldConstants
  <2>3. Blocks(Put(h, at, v), Put(f, FootIn(Put(h, at, v), at),
                                  FootRecord(Put(h, at, v), at)), s, e)
    BY <1>1, <1>2, <2>1, MmapBlocks
  <2> QED
    BY <1>1, <1>2, <2>1, <2>2, <2>3 DEF v
<1>3. CASE ~mapped
  <2>1. at = (IF e = NULL THEN BrkBase ELSE e)
        /\ at + n + overhead_size <= BrkLimit
    BY <1>3 DEF block_at, sbrk_at
  <2>2. at \in Nat
    <3>1. e = NULL \/ e \in Nat
      BY DEF Blocks, Tiles
    <3> QED
      BY <2>1, <3>1, OldConstants
  <2>3. at + (overhead_size + v.size) <= BrkLimit
    <3>1. at + (overhead_size + n) = at + n + overhead_size
      BY <2>2, OldConstants
    <3> QED
      BY <1>1, <2>1, <3>1
  <2>4. /\ Blocks(Put(h, at, v), Put(f, FootIn(Put(h, at, v), at),
                                     FootRecord(Put(h, at, v), at)),
                  IF s = NULL THEN at ELSE s, EndIn(Put(h, at, v), at))
        /\ at \notin DOMAIN h
    BY <1>1, <1>3, <2>1, <2>2, <2>3, SbrkBlocks
  <2> QED
    BY <1>1, <1>3, <2>2, <2>4 DEF v
<1> QED
  BY <1>2, <1>3

LEMMA CreateKeeps ==
    ASSUME NEW m, Sound(m), NEW n \in Requests, NEW mapped \in BOOLEAN,
           NEW at \in block_at(m, n, mapped), at # NULL
    PROVE  LET x == create_block(m, at, n, FALSE, mapped)
           IN  Sound(x) /\ Creates(m.header, x.header, at, n, mapped)
<1> DEFINE h == m.header
           f == m.footer
           first == m.free_list
           search == m.prev_search_end
           bytes == m.available_bytes
           s == m.brk_heap_start
           e == m.brk_heap_end
           no == FALSE
           v == NewBlock(n, no, mapped)
           g == Put(h, at, v)
           f1 == Put(f, FootIn(g, at), FootRecord(g, at))
           s1 == IF mapped THEN s ELSE IF s = NULL THEN at ELSE s
           e1 == IF mapped THEN e ELSE EndIn(g, at)
           x == create_block(m, at, n, no, mapped)
<1>1. /\ m = Mem(h, f, first, search, bytes, s, e)
      /\ Headers(h) /\ Apart(h) /\ Blocks(h, f, s, e)
      /\ bytes = Total(h, Frees(h)) /\ search \in Frees(h) \cup {NULL}
      /\ Frees(h) \subseteq DOMAIN h
  BY DEF Sound, Laid, Blocks, Frees, IsMem
<1>2. PICK r : Links(h, Frees(h), r, first)
  BY DEF Sound
<1>3. n \in Nat
  BY OldConstants
<1>4. Blocks(g, f1, s1, e1) /\ at \in Nat /\ at \notin DOMAIN h /\ v \in BlockType
  <2>1. no \in BOOLEAN /\ (mapped => n \in Requests /\ ~no)
    OBVIOUS
  <2>2. h = m.header /\ e = m.brk_heap_end /\ g = Put(h, at, v)
    OBVIOUS
  <2> HIDE DEF no, h, f, s, e, g
  <2> QED
    BY <1>1, <1>3, <2>1, <2>2, NewBlockLaid
<1>5. v.size = n /\ v.mapped = mapped /\ v.is_free = FALSE /\ v.next = NULL
  BY DEF NewBlock
<1>6. g = Put(h, at, v)
  OBVIOUS
<1> HIDE DEF h, f, first, search, bytes, s, e, g
<1>7. x = Mem(g, f1, first, search, bytes, s1, e1)
  <2> HIDE DEF no
  <2>1. g = Put(h, at, NewBlock(n, no, mapped))
    BY <1>6
  <2> QED
    BY <1>1, <2>1, CreateIs
<1> HIDE DEF v, f1, s1, e1, x
<1>8. /\ IsMem(x) /\ x.header = g /\ x.footer = f1 /\ x.free_list = first
      /\ x.prev_search_end = search /\ x.available_bytes = bytes
      /\ x.brk_heap_start = s1 /\ x.brk_heap_end = e1
  BY ONLY <1>7, MemFields
<1>9. /\ DOMAIN g = DOMAIN h \cup {at} /\ g[at] = v
      /\ \A a \in DOMAIN h : g[a] = h[a] /\ EndIn(g, a) = EndIn(h, a)
  <2>1. /\ DOMAIN g = DOMAIN h \cup {at} /\ g[at] = v
        /\ \A a \in DOMAIN h : g[a] = h[a]
    BY <1>4, <1>6 DEF Put
  <2> QED
    BY <2>1 DEF EndIn
<1>10. Frees(g) = Frees(h)
  BY <1>4, <1>5, <1>9 DEF Frees
<1>11. Laid(x)
  BY <1>4, <1>8 DEF Laid
<1>12. Apart(g)
  BY <1>1, <1>9, <1>10 DEF Apart
<1>13. Links(g, Frees(h), r, first)
  <2>1. Frees(h) \subseteq DOMAIN g /\ \A a \in Frees(h) : g[a].next = h[a].next
    BY <1>1, <1>9
  <2>2. \A a \in DOMAIN g \ Frees(h) : g[a].next = NULL
    BY <1>2, <1>5, <1>9 DEF Links
  <2> QED
    BY <1>2, <2>1, <2>2, LinksSame
<1>14. bytes = Total(g, Frees(g))
  <2>1. IsFiniteSet(Frees(h)) /\ \A a \in Frees(h) : h[a].size = g[a].size
    BY <1>1, <1>9, FreesFinite
  <2> QED
    BY <1>1, <1>10, <2>1, TotalSame
<1>15. Sound(x)
  BY <1>1, <1>8, <1>10, <1>11, <1>12, <1>13, <1>14 DEF Sound
<1>16. Creates(h, g, at, n, mapped)
  BY <1>4, <1>5, <1>9, <1>10 DEF Creates
<1> QED
  BY <1>8, <1>15, <1>16 DEF h, x

(* The first block of the heap is free and the whole list.                 *)
LEMMA FirstBlockKeeps ==
    ASSUME NEW m, Sound(m), DOMAIN m.header = {}, m.prev_search_end = NULL,
           NEW at \in sbrk_at(m, INITIAL_CHUNK), at # NULL
    PROVE  LET x == [create_block(m, at, INITIAL_CHUNK, TRUE, FALSE) EXCEPT
                        !.free_list = at, !.available_bytes = INITIAL_CHUNK]
           IN  Sound(x) /\ Frees(x.header) = DOMAIN x.header
<1> DEFINE h == m.header
           f == m.footer
           first == m.free_list
           search == m.prev_search_end
           bytes == m.available_bytes
           s == m.brk_heap_start
           e == m.brk_heap_end
           yes == TRUE
           no == FALSE
           n == INITIAL_CHUNK
           v == NewBlock(n, yes, no)
           g == Put(h, at, v)
           f1 == Put(f, FootIn(g, at), FootRecord(g, at))
           s1 == IF no THEN s ELSE IF s = NULL THEN at ELSE s
           e1 == IF no THEN e ELSE EndIn(g, at)
           y == create_block(m, at, n, yes, no)
           x == [y EXCEPT !.free_list = at, !.available_bytes = n]
<1>1. /\ m = Mem(h, f, first, search, bytes, s, e)
      /\ Headers(h) /\ Blocks(h, f, s, e) /\ DOMAIN h = {}
  BY DEF Sound, Laid, Blocks, IsMem
<1>3. n \in Nat
  BY OldConstants
<1>4. Blocks(g, f1, s1, e1) /\ at \in Nat /\ v \in BlockType
  <2>1. yes \in BOOLEAN /\ no \in BOOLEAN /\ (no => n \in Requests /\ ~yes)
    OBVIOUS
  <2>2. h = m.header /\ e = m.brk_heap_end /\ g = Put(h, at, v)
    OBVIOUS
  <2>3. at \in block_at(m, n, no)
    BY DEF block_at
  <2> HIDE DEF yes, no, n, h, f, s, e, g
  <2> QED
    BY <1>1, <1>3, <2>1, <2>2, <2>3, NewBlockLaid
<1>5. v.size = n /\ v.is_free = TRUE /\ v.next = NULL
  BY DEF NewBlock
<1>6. g = Put(h, at, v)
  OBVIOUS
<1> HIDE DEF h, f, first, search, bytes, s, e, g, n
<1>7. y = Mem(g, f1, first, search, bytes, s1, e1)
  <2> HIDE DEF yes, no
  <2>1. g = Put(h, at, NewBlock(n, yes, no))
    BY <1>6
  <2> QED
    BY <1>1, <2>1, CreateIs
<1>8. x = Mem(g, f1, at, search, n, s1, e1)
  <2> HIDE DEF y, f1, s1, e1
  <2> DEFINE z == [y EXCEPT !.free_list = at]
  <2>1. z = Mem(g, f1, at, search, bytes, s1, e1)
    BY <1>7 DEF Mem
  <2>2. x = [z EXCEPT !.available_bytes = n]
    BY <1>7 DEF Mem
  <2> HIDE DEF z
  <2>3. [z EXCEPT !.available_bytes = n] = Mem(g, f1, at, search, n, s1, e1)
    BY <2>1 DEF Mem
  <2> QED
    BY <2>2, <2>3
<1> HIDE DEF v, f1, s1, e1, x, y, yes, no
<1>9. /\ IsMem(x) /\ x.header = g /\ x.footer = f1 /\ x.free_list = at
      /\ x.prev_search_end = search /\ x.available_bytes = n
      /\ x.brk_heap_start = s1 /\ x.brk_heap_end = e1
  BY ONLY <1>8, MemFields
<1>10. DOMAIN g = {at} /\ g[at] = v
  BY <1>1, <1>6 DEF Put
<1>11. Frees(g) = {at}
  BY <1>5, <1>10 DEF Frees
<1>12. Laid(x) /\ Headers(g)
  BY <1>4, <1>9 DEF Laid, Blocks
<1>13. Apart(g)
  <2>1. at < EndIn(g, at) /\ at \in Nat
    BY <1>10, <1>12, BlockFacts
  <2>2. EndIn(g, at) # at
    BY <2>1
  <2> QED
    BY <1>11, <2>2 DEF Apart
<1>14. Links(g, {at}, [a \in {at} |-> 0], at)
  <2>1. at # NULL
    OBVIOUS
  <2> QED
    BY <1>5, <1>10, <2>1 DEF Links
<1>15. n = Total(g, Frees(g))
  <2>1. IsFiniteSet({at}) /\ (\A a \in {at} : g[a].size \in Nat) /\ at \in {at}
    BY <1>3, <1>5, <1>10, FS_Singleton
  <2>2. Total(g, {at}) = g[at].size + Total(g, {at} \ {at})
    BY <2>1, TotalRemove
  <2>3. {at} \ {at} = {}
    OBVIOUS
  <2>4. Total(g, {at}) = n + 0
    BY <1>5, <1>10, <2>2, <2>3, TotalEmpty
  <2> QED
    BY <1>3, <1>11, <2>4
<1>16. Sound(x)
  <2>1. \E q : Links(g, Frees(g), q, x.free_list)
    BY <1>9, <1>11, <1>14
  <2>2. x.prev_search_end \in Frees(g) \cup {NULL}
    BY <1>9 DEF search
  <2> QED
    BY <1>9, <1>12, <1>13, <1>15, <2>1, <2>2 DEF Sound
<1>17. Frees(x.header) = DOMAIN x.header
  BY <1>9, <1>10, <1>11
<1> QED
  BY <1>16, <1>17 DEF x, y, n, yes, no

-----------------------------------------------------------------------------
(* The invariant is kept *)

LEMMA MemorySound ==
    ASSUME OldInv
    PROVE  Sound(Memory)
<1>1. IsMem(Memory)
  BY DEF Memory, IsMem, Mem
<1>2. Laid(Memory)
  BY MemoryFields DEF OldInv, Laid
<1>3. \E r : Links(header, Frees(header), r, free_list)
  BY StateNames DEF OldInv, Listed
<1> QED
  BY <1>1, <1>2, <1>3, MemoryFields, StateNames DEF OldInv, Sound

(* What is left to show of the invariant once the memory is sound.         *)
LEMMA SoundMemory ==
    ASSUME NEW x, Sound(x), BecomesMemory(x), pc' # "search",
           HeldBlocks(users', header'), Control'
    PROVE  OldInv'
<1>1. /\ x.header = header' /\ x.footer = footer' /\ x.free_list = free_list'
      /\ x.prev_search_end = prev_search_end'
      /\ x.available_bytes = available_bytes'
      /\ x.brk_heap_start = brk_heap_start' /\ x.brk_heap_end = brk_heap_end'
  BY DEF BecomesMemory
<1>2. FreeBlock' = Frees(header')
  BY DEF FreeBlock, Frees
<1>3. Blocks(header', footer', brk_heap_start', brk_heap_end') /\ Apart(header')
      /\ available_bytes' = Total(header', FreeBlock')
      /\ prev_search_end' \in FreeBlock' \cup {NULL}
  BY <1>1, <1>2 DEF Sound, Laid
<1>4. PICK r : Links(header', FreeBlock', r, free_list')
  BY <1>1, <1>2 DEF Sound
<1>5. Listed'
  BY <1>4 DEF Listed, Searching
<1> QED
  BY <1>3, <1>5 DEF OldInv

LEMMA StaysMemory ==
    ASSUME OldInv, UNCHANGED heap, pc' # "search",
           HeldBlocks(users', header'), Control'
    PROVE  OldInv'
<1>1. BecomesMemory(Memory)
  BY MemoryFields DEF BecomesMemory, heap
<1> QED
  BY <1>1, MemorySound, SoundMemory

LEMMA InitOldInv == Init => OldInv
<1> SUFFICES ASSUME Init PROVE OldInv
  OBVIOUS
<1>1. /\ DOMAIN header = {} /\ DOMAIN footer = {} /\ DOMAIN users = {}
      /\ FreeBlock = {} /\ BrkBlock = {} /\ Frees(header) = {}
      /\ Brks(header) = {}
  BY DEF Init, FreeBlock, BrkBlock, Frees, Brks
<1>2. Headers(header)
  <2>1. header \in [DOMAIN header -> BlockType]
    BY <1>1 DEF Init
  <2> QED
    BY <1>1, <2>1, FS_EmptySet DEF Headers
<1>3. Blocks(header, footer, brk_heap_start, brk_heap_end)
  BY <1>1, <1>2 DEF Blocks, Tiles, Maps, Footers, Init
<1>4. Apart(header)
  BY <1>1 DEF Apart
<1>5. available_bytes = Total(header, FreeBlock)
  BY <1>1, TotalEmpty DEF Init
<1>6. Listed
  <2>1. Links(header, FreeBlock, [a \in {} |-> 0], free_list)
    BY <1>1 DEF Links, Init
  <2>2. Searching([a \in {} |-> 0])
    BY DEF Searching, Init
  <2> QED
    BY <2>1, <2>2 DEF Listed
<1>7. HeldBlocks(users, header)
  BY <1>1 DEF HeldBlocks, Init
<1>8. Control
  BY <1>1 DEF Control, Init
<1>9. prev_search_end \in FreeBlock \cup {NULL}
  BY DEF Init
<1> QED
  BY <1>3, <1>4, <1>5, <1>6, <1>7, <1>8, <1>9 DEF OldInv

LEMMA ConstructorKeeps == OldInv /\ constructor => OldInv'
<1> SUFFICES ASSUME OldInv, constructor PROVE OldInv'
  OBVIOUS
<1>1. /\ pc = "new" /\ pc' = "idle" /\ users' = users
      /\ DOMAIN header = {} /\ free_list = NULL /\ prev_search_end = NULL
      /\ brk_heap_start = NULL
  BY DEF constructor, OldInv, Control
<1>2. DOMAIN users = {} /\ users = [b \in {} |-> users[b]]
  BY <1>1 DEF OldInv, HeldBlocks
<1>3. HeldBlocks(users', header')
  BY <1>1, <1>2 DEF HeldBlocks
<1>4. PICK at \in sbrk_at(Memory, INITIAL_CHUNK) :
         IF at = NULL THEN UNCHANGED heap
         ELSE BecomesMemory(
                [create_block(Memory, at, INITIAL_CHUNK, TRUE, FALSE) EXCEPT
                   !.free_list = at, !.available_bytes = INITIAL_CHUNK])
  BY DEF constructor
<1>5. CASE at = NULL
  <2>1. UNCHANGED heap
    BY <1>4, <1>5
  <2>2. Control'
    BY <1>1, <2>1 DEF Control, heap, FreeBlock, BrkBlock
  <2> QED
    BY <1>1, <1>3, <2>1, <2>2, StaysMemory
<1>6. CASE at # NULL
  <2> DEFINE x == [create_block(Memory, at, INITIAL_CHUNK, TRUE, FALSE) EXCEPT
                      !.free_list = at, !.available_bytes = INITIAL_CHUNK]
  <2>1. BecomesMemory(x)
    BY <1>4, <1>6
  <2>2. Sound(Memory) /\ DOMAIN Memory.header = {}
        /\ Memory.prev_search_end = NULL
    BY <1>1, MemorySound, MemoryFields
  <2>3. Sound(x) /\ Frees(x.header) = DOMAIN x.header
    BY <1>6, <2>2, FirstBlockKeeps
  <2> HIDE DEF x
  <2>4. FreeBlock' = DOMAIN header'
    BY <2>1, <2>3 DEF BecomesMemory, FreeBlock, Frees
  <2>5. BrkBlock' \subseteq FreeBlock'
    BY <2>4 DEF BrkBlock
  <2>6. Control'
    BY <1>1, <2>5 DEF Control
  <2> QED
    BY <1>1, <1>3, <2>1, <2>3, <2>6, SoundMemory
<1> QED
  BY <1>5, <1>6

LEMMA CreateStepKeeps == OldInv /\ create => OldInv'
<1> SUFFICES ASSUME OldInv, create PROVE OldInv'
  OBVIOUS
<1>1. pc = "create" /\ pc' = "idle" /\ size \in Requests
  BY DEF create, returns, OldInv, Control
<1>2. PICK at \in block_at(Memory, size, size >= MMAP_THRESHOLD) :
         IF at = NULL THEN UNCHANGED <<heap, users>>
         ELSE /\ BecomesMemory(create_block(Memory, at, size, FALSE,
                                            size >= MMAP_THRESHOLD))
              /\ users' = Put(users, at, size)
  BY DEF create
<1>3. HeldBlocks(users, header) /\ BrkBlock \ FreeBlock \subseteq DOMAIN users
  BY <1>1 DEF OldInv, Control
<1>4. CASE at = NULL
  <2>1. UNCHANGED heap /\ users' = users
    BY <1>2, <1>4
  <2>2. Control'
    BY <1>1, <1>3, <2>1 DEF Control, heap, FreeBlock, BrkBlock
  <2>3. HeldBlocks(users', header')
    BY <1>3, <2>1 DEF heap
  <2> QED
    BY <1>1, <2>1, <2>2, <2>3, StaysMemory
<1>5. CASE at # NULL
  <2> DEFINE mapped == size >= MMAP_THRESHOLD
             x == create_block(Memory, at, size, FALSE, mapped)
  <2>1. BecomesMemory(x) /\ users' = Put(users, at, size)
    BY <1>2, <1>5
  <2>2. Sound(Memory)
    BY MemorySound
  <2>3. mapped \in BOOLEAN /\ at \in block_at(Memory, size, mapped)
    OBVIOUS
  <2> HIDE DEF mapped
  <2>4. Sound(x) /\ Creates(Memory.header, x.header, at, size, mapped)
    BY <1>1, <1>5, <2>2, <2>3, CreateKeeps
  <2> HIDE DEF x
  <2>5. /\ at \notin DOMAIN header /\ DOMAIN header' = DOMAIN header \cup {at}
        /\ FreeBlock' = FreeBlock /\ header'[at].size = size
        /\ \A a \in DOMAIN header : header'[a] = header[a]
    BY <2>1, <2>4, MemoryFields DEF Creates, BecomesMemory, FreeBlock, Frees
  <2>6. /\ DOMAIN users' = DOMAIN users \cup {at} /\ users'[at] = size
        /\ \A b \in DOMAIN users : b # at => users'[b] = users[b]
        /\ users' = [b \in DOMAIN users' |-> users'[b]]
    BY <2>1 DEF Put
  <2>7. size \in Nat /\ size <= size
    BY <1>1, OldConstants
  <2>8. HeldBlocks(users', header')
    <3>1. ~header'[at].is_free
      BY <2>5 DEF FreeBlock
    <3>2. DOMAIN users \subseteq DOMAIN header
      BY <1>3 DEF HeldBlocks
    <3>3. \A b \in DOMAIN users : header'[b] = header[b] /\ users'[b] = users[b]
      BY <2>5, <2>6, <3>2
    <3> QED
      <4>1. DOMAIN users' \subseteq DOMAIN header'
        BY <2>5, <2>6, <3>2
      <4>2. ASSUME NEW b \in DOMAIN users'
            PROVE  ~header'[b].is_free /\ users'[b] \in Nat
                   /\ users'[b] <= header'[b].size
        <5>1. CASE b = at
          BY <2>5, <2>6, <2>7, <3>1, <5>1
        <5>2. CASE b # at
          BY <1>3, <2>6, <3>3, <5>2 DEF HeldBlocks
        <5> QED
          BY <5>1, <5>2
      <4> QED
        BY <2>6, <4>1, <4>2 DEF HeldBlocks
  <2>9. BrkBlock' \ FreeBlock' \subseteq DOMAIN users'
    BY <1>3, <2>5, <2>6 DEF BrkBlock
  <2>10. Control'
    BY <1>1, <2>9 DEF Control
  <2> QED
    BY <1>1, <2>1, <2>4, <2>8, <2>10, SoundMemory
<1> QED
  BY <1>4, <1>5

LEMMA TakeStepKeeps == OldInv /\ search_take => OldInv'
<1> SUFFICES ASSUME OldInv, search_take PROVE OldInv'
  OBVIOUS
<1> DEFINE x == taken(Memory, curr, prev)
<1>1. /\ pc = "search" /\ pc' = "idle" /\ size \in Requests
      /\ BecomesMemory(x) /\ users' = Put(users, curr, size)
      /\ curr # NULL /\ header[curr].size >= size
  BY DEF search_take, returns, fits, OldInv, Control
<1>2. PICK r : Links(header, FreeBlock, r, free_list) /\ Searching(r)
  BY DEF OldInv, Listed
<1>3. Sound(Memory) /\ Memory.header = header /\ Memory.free_list = free_list
      /\ FreeBlock = Frees(header)
  BY MemorySound, MemoryFields, StateNames
<1>4. curr \in Frees(Memory.header) /\ Behind(Memory, curr, prev)
  BY <1>1, <1>2, <1>3 DEF Searching, Behind
<1>5. size \in Nat /\ size <= Memory.header[curr].size
  <2>1. size \in Nat
    BY <1>1, OldConstants
  <2>2. Headers(header) /\ curr \in DOMAIN header
    BY <1>3, <1>4 DEF OldInv, Blocks, Frees
  <2>3. header[curr].size \in Nat
    BY <2>2, BlockFacts
  <2> QED
    BY <1>1, <1>3, <2>1, <2>3
<1>6. Sound(x) /\ Takes(Memory.header, x.header, curr, size)
  <2>1. CASE splittable(Memory, curr, size)
    BY <1>3, <1>4, <1>5, <2>1, TakenCut
  <2>2. CASE ~splittable(Memory, curr, size)
    BY <1>3, <1>4, <1>5, <2>2, TakenWhole
  <2> QED
    BY <2>1, <2>2
<1> HIDE DEF x
<1>7. FreeBlock' = Frees(header') /\ header' = x.header
  BY <1>1 DEF FreeBlock, Frees, BecomesMemory
<1>8. /\ DOMAIN header' \ FreeBlock' = (DOMAIN header \ FreeBlock) \cup {curr}
      /\ curr \in DOMAIN header' /\ size <= header'[curr].size
      /\ ~header'[curr].mapped
      /\ \A c \in DOMAIN header \ FreeBlock :
            header'[c].size = header[c].size /\ header'[c].mapped = header[c].mapped
  BY <1>3, <1>6, <1>7 DEF Takes
<1>9. /\ HeldBlocks(users, header)
      /\ BrkBlock \ FreeBlock \subseteq DOMAIN users
  BY <1>1 DEF OldInv, Control
<1>10. /\ DOMAIN users' = DOMAIN users \cup {curr} /\ users'[curr] = size
       /\ \A b \in DOMAIN users : b # curr => users'[b] = users[b]
       /\ users' = [b \in DOMAIN users' |-> users'[b]]
  BY <1>1 DEF Put
<1>11. HeldBlocks(users', header')
  <2>1. DOMAIN users \subseteq DOMAIN header \ FreeBlock
    BY <1>9 DEF HeldBlocks, FreeBlock
  <2>2. DOMAIN users' \subseteq DOMAIN header' \ FreeBlock'
    BY <1>8, <1>10, <2>1
  <2>3. ASSUME NEW b \in DOMAIN users'
        PROVE  ~header'[b].is_free /\ users'[b] \in Nat
               /\ users'[b] <= header'[b].size
    <3>1. ~header'[b].is_free
      BY <2>2 DEF FreeBlock
    <3>2. CASE b = curr
      BY <1>5, <1>8, <1>10, <3>1, <3>2
    <3>3. CASE b # curr
      BY <1>8, <1>9, <1>10, <2>1, <3>1, <3>3 DEF HeldBlocks
    <3> QED
      BY <3>2, <3>3
  <2> QED
    BY <1>10, <2>2, <2>3 DEF HeldBlocks
<1>12. BrkBlock' \ FreeBlock' \subseteq DOMAIN users'
  <2>1. ASSUME NEW c \in BrkBlock' \ FreeBlock' PROVE c \in DOMAIN users'
    <3>1. c \in (DOMAIN header \ FreeBlock) \cup {curr} /\ ~header'[c].mapped
      BY <1>8, <2>1 DEF BrkBlock
    <3>2. CASE c = curr
      BY <1>10, <3>2
    <3>3. CASE c # curr
      BY <1>8, <1>9, <1>10, <3>1, <3>3 DEF BrkBlock
    <3> QED
      BY <3>2, <3>3
  <2> QED
    BY <2>1
<1>13. Control'
  BY <1>1, <1>12 DEF Control
<1> QED
  BY <1>1, <1>6, <1>11, <1>13, SoundMemory

LEMMA DeallocateKeeps ==
    ASSUME OldInv, NEW b \in DOMAIN users, NEW ok \in BOOLEAN, deallocate(b, ok)
    PROVE  OldInv'
<1> DEFINE x == deallocated(Memory, b, ok)
<1>1. /\ pc = "idle" /\ pc' = "idle" /\ (~ok => system_call(Memory, b))
      /\ BecomesMemory(x) /\ users' = IF ok THEN Drop(users, b) ELSE users
  BY DEF deallocate, locals
<1>2. /\ HeldBlocks(users, header)
      /\ BrkBlock \ FreeBlock \subseteq DOMAIN users
  BY <1>1 DEF OldInv, Control
<1>3. Sound(Memory) /\ Memory.header = header /\ FreeBlock = Frees(header)
  BY MemorySound, MemoryFields, StateNames
<1>4. b \in DOMAIN Memory.header /\ b \notin Frees(Memory.header)
  BY <1>2, <1>3 DEF HeldBlocks, Frees
<1>5. IF ok THEN Sound(x) /\ LosesUsed(Memory.header, x.header, b)
      ELSE x = Memory
  BY <1>1, <1>3, <1>4, DeallocateUsed
<1> HIDE DEF x
<1>6. FreeBlock' = Frees(header') /\ header' = x.header
  BY <1>1 DEF FreeBlock, Frees, BecomesMemory
<1>7. CASE ~ok
  <2>1. header' = header /\ users' = users /\ x = Memory
    BY <1>1, <1>3, <1>5, <1>6, <1>7
  <2>2. HeldBlocks(users', header')
    BY <1>2, <2>1
  <2>3. Control'
    BY <1>1, <1>2, <2>1 DEF Control, FreeBlock, BrkBlock
  <2> QED
    BY <1>1, <1>3, <2>1, <2>2, <2>3, SoundMemory
<1>8. CASE ok
  <2>1. /\ DOMAIN header' \ FreeBlock' = (DOMAIN header \ FreeBlock) \ {b}
        /\ \A c \in (DOMAIN header \ FreeBlock) \ {b} :
              header'[c].size = header[c].size
              /\ header'[c].mapped = header[c].mapped
    BY <1>3, <1>5, <1>6, <1>8 DEF LosesUsed
  <2>2. /\ DOMAIN users' = DOMAIN users \ {b}
        /\ users' = [c \in DOMAIN users' |-> users'[c]]
        /\ \A c \in DOMAIN users' : users'[c] = users[c]
    BY <1>1, <1>8 DEF Drop
  <2>3. HeldBlocks(users', header')
    <3>1. DOMAIN users \subseteq DOMAIN header \ FreeBlock
      BY <1>2 DEF HeldBlocks, FreeBlock
    <3>2. DOMAIN users' \subseteq DOMAIN header' \ FreeBlock'
      BY <2>1, <2>2, <3>1
    <3>3. ASSUME NEW c \in DOMAIN users'
          PROVE  ~header'[c].is_free /\ users'[c] \in Nat
                 /\ users'[c] <= header'[c].size
      <4>1. ~header'[c].is_free
        BY <3>2 DEF FreeBlock
      <4>2. c \in DOMAIN users /\ c \in (DOMAIN header \ FreeBlock) \ {b}
        BY <2>2, <3>1
      <4> QED
        BY <1>2, <2>1, <2>2, <4>1, <4>2 DEF HeldBlocks
    <3> QED
      BY <2>2, <3>2, <3>3 DEF HeldBlocks
  <2>4. BrkBlock' \ FreeBlock' \subseteq DOMAIN users'
    BY <1>2, <2>1, <2>2 DEF BrkBlock
  <2>5. Control'
    BY <1>1, <2>4 DEF Control
  <2>6. Sound(x)
    BY <1>5, <1>8
  <2> QED
    BY <1>1, <2>3, <2>5, <2>6, SoundMemory
<1> QED
  BY <1>7, <1>8

LEMMA DestructorKeeps ==
    OldInv /\ (destructor \/ destructor_end) => OldInv'
<1> SUFFICES ASSUME OldInv, destructor \/ destructor_end PROVE OldInv'
  OBVIOUS
<1>1. /\ UNCHANGED heap /\ users' = users
      /\ \/ pc = "idle" /\ pc' = "destroy"
         \/ pc' = "gone"
  BY DEF destructor, destructor_end
<1>2. header' = header /\ free_list' = free_list
      /\ FreeBlock' = FreeBlock /\ BrkBlock' = BrkBlock
  BY <1>1 DEF heap, FreeBlock, BrkBlock
<1>3. HeldBlocks(users', header')
  BY <1>1, <1>2 DEF OldInv
<1>4. Control'
  BY <1>1, <1>2 DEF OldInv, Control
<1> QED
  BY <1>1, <1>3, <1>4, StaysMemory

(* A failed brk leaves a used block behind.  If no user has one, the heap  *)
(* was one free block, and the list is empty now.                          *)
LEMMA DestructorStepKeeps ==
    ASSUME OldInv, NEW ok \in BOOLEAN, destructor_step(ok)
    PROVE  OldInv'
<1> DEFINE b == free_list
           x == deallocated(Memory, b, ok)
<1>1. /\ pc = "destroy" /\ pc' = "destroy" /\ b # NULL
      /\ (~ok => system_call(Memory, b))
      /\ BecomesMemory(x) /\ users' = users
  BY DEF destructor_step, locals
<1>2. HeldBlocks(users, header)
  BY DEF OldInv
<1>3. Sound(Memory) /\ Memory.header = header /\ FreeBlock = Frees(header)
      /\ Memory.brk_heap_end = brk_heap_end /\ BrkBlock = Brks(header)
  BY MemorySound, MemoryFields, StateNames
<1>4. b \in Frees(header)
  BY <1>1, <1>3 DEF OldInv, Listed, Links
<1>5. /\ Sound(x)
      /\ ok => SameUsed(header, x.header)
      /\ ~ok => /\ GainsUsed(header, x.header, b)
                /\ Frees(x.header) = Frees(header) \ {b}
                /\ Brks(x.header) = Brks(header)
                /\ EndIn(header, b) = brk_heap_end
  <2> HIDE DEF b
  <2>1. b \in Frees(Memory.header)
    BY <1>3, <1>4
  <2>2. /\ Sound(x)
        /\ ok => SameUsed(Memory.header, x.header)
        /\ ~ok => /\ GainsUsed(Memory.header, x.header, b)
                  /\ Frees(x.header) = Frees(Memory.header) \ {b}
                  /\ Brks(x.header) = Brks(Memory.header)
                  /\ EndIn(Memory.header, b) = Memory.brk_heap_end
    BY <1>1, <1>3, <2>1, DeallocateFree
  <2> QED
    BY <1>3, <2>2
<1> HIDE DEF x, b
<1>6. /\ FreeBlock' = Frees(header') /\ BrkBlock' = Brks(header')
      /\ header' = x.header /\ free_list' = x.free_list
  BY <1>1 DEF FreeBlock, Frees, BrkBlock, Brks, BecomesMemory
<1>7. /\ \A c \in DOMAIN header \ FreeBlock :
            /\ c \in DOMAIN header' \ FreeBlock'
            /\ header'[c].size = header[c].size
            /\ header'[c].mapped = header[c].mapped
      /\ ok => DOMAIN header' \ FreeBlock' = DOMAIN header \ FreeBlock
  <2>1. CASE ok
    BY <1>3, <1>5, <1>6, <2>1 DEF SameUsed
  <2>2. CASE ~ok
    BY <1>3, <1>5, <1>6, <2>2 DEF GainsUsed
  <2> QED
    BY <2>1, <2>2
<1>8. DOMAIN users \subseteq DOMAIN header \ FreeBlock
  BY <1>2 DEF HeldBlocks, FreeBlock
<1>9. HeldBlocks(users', header')
  <2>1. DOMAIN users \subseteq DOMAIN header' \ FreeBlock'
    BY <1>7, <1>8
  <2>2. ASSUME NEW c \in DOMAIN users
        PROVE  ~header'[c].is_free /\ users[c] \in Nat
               /\ users[c] <= header'[c].size
    <3>1. ~header'[c].is_free
      BY <2>1 DEF FreeBlock
    <3> QED
      BY <1>2, <1>7, <1>8, <3>1 DEF HeldBlocks
  <2>3. users = [c \in DOMAIN users |-> users[c]]
    BY <1>2 DEF HeldBlocks
  <2> QED
    BY <1>1, <2>1, <2>2, <2>3 DEF HeldBlocks
<1>10. ASSUME free_list' # NULL, DOMAIN users' \cap BrkBlock' = {}
       PROVE  BrkBlock' \subseteq FreeBlock'
  <2>1. DOMAIN users \cap BrkBlock = {}
    BY <1>1, <1>7, <1>8, <1>10 DEF BrkBlock
  <2>2. BrkBlock \subseteq FreeBlock
    BY <1>1, <2>1 DEF OldInv, Control, b
  <2>3. CASE ok
    BY <1>7, <2>2, <2>3 DEF BrkBlock
  <2>4. CASE ~ok
    <3>1. Laid(Memory) /\ Apart(header) /\ Tiles(header, brk_heap_start, brk_heap_end)
      BY <1>3 DEF Sound, OldInv, Blocks
    <3>2. EndIn(header, b) = brk_heap_end /\ Frees(header') = Frees(header) \ {b}
      BY <1>5, <1>6, <2>4
    <3>3. ASSUME NEW c \in Frees(header) PROVE c = b
      <4>1. c \in Brks(header) /\ c \in DOMAIN header
        BY <1>3, <3>3, FreesAreBrks DEF OldInv, Blocks, Frees
      <4>2. EndIn(header, c) \in Brks(header) \cup {brk_heap_end}
        BY <3>1, <4>1 DEF Tiles
      <4>3. EndIn(header, c) \notin Brks(header)
        BY <1>3, <2>2, <3>1, <3>3 DEF Apart
      <4>4. EndIn(header, c) = EndIn(header, b)
        BY <3>2, <4>2, <4>3
      <4>5. b \in DOMAIN header
        BY <1>4 DEF Frees
      <4> QED
        BY <1>3, <3>1, <4>1, <4>4, <4>5, EndsApart
    <3>4. Frees(header') = {}
      BY <3>2, <3>3
    <3>5. free_list' = NULL
      BY <1>5, <1>6, <3>4 DEF Sound, Links
    <3> QED
      BY <1>10, <3>5
  <2> QED
    BY <2>3, <2>4
<1>11. Control'
  BY <1>1, <1>10 DEF Control
<1> QED
  BY <1>1, <1>5, <1>9, <1>11, SoundMemory

(* The search changes nothing but its own variables.                       *)
LEMMA SearchGoesOn ==
    ASSUME OldInv, UNCHANGED <<heap, users>>, NEW r,
           Links(header, FreeBlock, r, free_list), Searching(r)', Control'
    PROVE  OldInv'
<1>1. /\ header' = header /\ footer' = footer /\ free_list' = free_list
      /\ prev_search_end' = prev_search_end
      /\ available_bytes' = available_bytes
      /\ brk_heap_start' = brk_heap_start /\ brk_heap_end' = brk_heap_end
      /\ users' = users
  BY DEF heap
<1>2. FreeBlock' = FreeBlock
  BY <1>1 DEF FreeBlock
<1>3. Listed'
  BY <1>1, <1>2 DEF Listed
<1> QED
  BY <1>1, <1>2, <1>3 DEF OldInv

LEMMA FreeFacts ==
    ASSUME OldInv, NEW r, Links(header, FreeBlock, r, free_list)
    PROVE  /\ FreeBlock \subseteq DOMAIN header /\ NULL \notin FreeBlock
           /\ \A b \in FreeBlock : header[b].size \in Nat /\ r[b] \in Nat
           /\ \A b \in FreeBlock : free_list \in FreeBlock /\ r[b] <= r[free_list]
           /\ free_list \in FreeBlock \cup {NULL}
           /\ \A a, b \in FreeBlock : r[a] = r[b] => a = b
           /\ \A b \in FreeBlock :
                 /\ header[b].next \in FreeBlock \cup {NULL}
                 /\ header[b].next # NULL => r[header[b].next] < r[b]
           /\ \A a, b \in FreeBlock :
                 r[a] < r[b] => header[b].next # NULL
                                /\ r[a] <= r[header[b].next]
           /\ prev_search_end \in FreeBlock \cup {NULL}
<1>1. Headers(header) /\ NULL \notin DOMAIN header
  BY OldConstants DEF OldInv, Blocks, Headers
<1>2. FreeBlock \subseteq DOMAIN header
  BY DEF FreeBlock
<1>3. \A b \in FreeBlock : header[b].size \in Nat
  BY <1>1, <1>2, BlockFacts
<1> QED
  BY <1>1, <1>2, <1>3 DEF Links, OldInv

LEMMA CallKeeps ==
    ASSUME OldInv, NEW n \in Requests, call_allocate(n)
    PROVE  OldInv'
<1>1. /\ pc = "idle" /\ size' = n /\ UNCHANGED <<heap, users>>
      /\ header' = header /\ free_list' = free_list
      /\ prev_search_end' = prev_search_end /\ users' = users
  BY DEF call_allocate, heap
<1>2. FreeBlock' = FreeBlock /\ BrkBlock' = BrkBlock
  BY <1>1 DEF FreeBlock, BrkBlock
<1>3. PICK r : Links(header, FreeBlock, r, free_list)
  BY DEF OldInv, Listed
<1>4. /\ FreeBlock \subseteq DOMAIN header /\ NULL \notin FreeBlock
      /\ \A b \in FreeBlock : header[b].size \in Nat /\ r[b] \in Nat
      /\ \A b \in FreeBlock : free_list \in FreeBlock /\ r[b] <= r[free_list]
      /\ free_list \in FreeBlock \cup {NULL}
      /\ \A b \in FreeBlock :
            /\ header[b].next \in FreeBlock \cup {NULL}
            /\ header[b].next # NULL => r[header[b].next] < r[b]
      /\ \A a, b \in FreeBlock :
            r[a] < r[b] => header[b].next # NULL
                           /\ r[a] <= r[header[b].next]
      /\ prev_search_end \in FreeBlock \cup {NULL}
  BY <1>3, FreeFacts
<1>5. BrkBlock \ FreeBlock \subseteq DOMAIN users
  BY <1>1 DEF OldInv, Control
<1>6. CASE ~(n <= available_bytes)
  <2>1. pc' = "create"
    BY <1>6 DEF call_allocate
  <2>2. \A b \in FreeBlock : header[b].size < n
    <3>1. IsFiniteSet(FreeBlock) /\ \A b \in FreeBlock : header[b].size \in Nat
      <4>1. Headers(header) /\ FreeBlock = Frees(header)
        BY StateNames DEF OldInv, Blocks
      <4> QED
        BY <4>1, FreesFinite
    <3>2. \A b \in FreeBlock : header[b].size <= Total(header, FreeBlock)
      BY <3>1, TotalBounds
    <3>3. available_bytes = Total(header, FreeBlock) /\ available_bytes \in Nat
      BY <3>1, TotalType DEF OldInv
    <3>4. n \in Nat
      BY OldConstants
    <3> QED
      BY <1>6, <3>1, <3>2, <3>3, <3>4
  <2>3. Searching(r)'
    BY <2>1 DEF Searching
  <2>4. Control'
    BY <1>1, <1>2, <1>5, <2>1, <2>2 DEF Control
  <2> QED
    BY <1>1, <1>3, <2>3, <2>4, SearchGoesOn
<1>7. CASE n <= available_bytes
  <2>1. /\ pc' = "search"
        /\ IF resumes
           THEN prev' = prev_search_end /\ curr' = header[prev_search_end].next
           ELSE prev' = NULL /\ curr' = free_list
    BY <1>7 DEF call_allocate
  <2>2. Control'
    BY <1>1, <1>2, <1>5, <2>1 DEF Control
  <2>3. CASE resumes
    <3>1. /\ prev_search_end # NULL /\ prev_search_end \in FreeBlock
          /\ prev' = prev_search_end /\ curr' = header[prev_search_end].next
          /\ curr' # NULL /\ curr' \in FreeBlock /\ r[curr'] < r[prev_search_end]
      BY <1>4, <2>1, <2>3 DEF resumes
    <3>2. \A b \in FreeBlock : r[b] < r[prev_search_end] => r[b] <= r[curr']
      BY <1>4, <3>1
    <3>3. \A b \in FreeBlock : ~(r[curr'] < r[b] /\ r[b] < r[prev_search_end])
      BY <1>4, <3>1, <3>2
    <3>4. Passed(r)'
      BY <1>1, <1>2, <3>1, <3>3 DEF Passed
    <3> QED
      <4>1. Searching(r)'
        BY <1>1, <1>2, <3>1, <3>4 DEF Searching
      <4> QED
        BY <1>1, <1>3, <2>2, <4>1, SearchGoesOn
  <2>4. CASE ~resumes
    <3>1. prev' = NULL /\ curr' = free_list
          /\ (prev_search_end = NULL \/ header[prev_search_end].next = NULL)
      BY <2>1, <2>4 DEF resumes
    <3>2. Passed(r)'
      <4>1. CASE prev_search_end = NULL
        <5>1. ASSUME NEW b \in FreeBlock
              PROVE  ~(free_list = NULL \/ r[free_list] < r[b])
          BY <1>4
        <5> QED
          BY <1>1, <1>2, <3>1, <4>1, <5>1 DEF Passed
      <4>2. CASE prev_search_end # NULL
        BY <1>1, <1>2, <1>4, <3>1, <4>2 DEF Passed
      <4> QED
        BY <4>1, <4>2
    <3>3. Searching(r)'
      BY <1>1, <1>2, <1>4, <3>1, <3>2 DEF Searching
    <3> QED
      BY <1>1, <1>3, <2>2, <3>3, SearchGoesOn
  <2> QED
    BY <2>3, <2>4
<1> QED
  BY <1>6, <1>7

(* What a turn of the search that does not take its block may use.         *)
LEMMA TurnFacts ==
    ASSUME OldInv, pc = "search", UNCHANGED <<heap, users, size>>
    PROVE  /\ header' = header /\ free_list' = free_list
           /\ prev_search_end' = prev_search_end /\ users' = users
           /\ size' = size /\ size \in Requests /\ size \in Nat
           /\ FreeBlock' = FreeBlock /\ BrkBlock' = BrkBlock
           /\ BrkBlock \ FreeBlock \subseteq DOMAIN users
           /\ \A b \in FreeBlock : ~fits(b) => header[b].size < size
<1>1. /\ header' = header /\ free_list' = free_list
      /\ prev_search_end' = prev_search_end /\ users' = users
      /\ size' = size
  BY DEF heap
<1>2. FreeBlock' = FreeBlock /\ BrkBlock' = BrkBlock
  BY <1>1 DEF FreeBlock, BrkBlock
<1>3. size \in Requests /\ size \in Nat
      /\ BrkBlock \ FreeBlock \subseteq DOMAIN users
  BY OldConstants DEF OldInv, Control
<1>4. \A b \in FreeBlock : header[b].size \in Nat
  <2>1. PICK r : Links(header, FreeBlock, r, free_list)
    BY DEF OldInv, Listed
  <2> QED
    BY <2>1, FreeFacts
<1>5. ASSUME NEW b \in FreeBlock, ~fits(b) PROVE header[b].size < size
  BY <1>3, <1>4, <1>5 DEF fits, FreeBlock
<1> QED
  BY <1>1, <1>2, <1>3, <1>5

LEMMA EndKeeps == OldInv /\ search_end => OldInv'
<1> SUFFICES ASSUME OldInv, search_end PROVE OldInv'
  OBVIOUS
<1>1. /\ pc = "search" /\ curr = NULL /\ pc' = "create"
      /\ UNCHANGED <<heap, users, size>>
  BY DEF search_end
<1>2. /\ header' = header /\ free_list' = free_list
      /\ prev_search_end' = prev_search_end /\ users' = users
      /\ size' = size /\ size \in Requests
      /\ FreeBlock' = FreeBlock /\ BrkBlock' = BrkBlock
      /\ BrkBlock \ FreeBlock \subseteq DOMAIN users
  BY <1>1, TurnFacts
<1>3. PICK r : Links(header, FreeBlock, r, free_list) /\ Searching(r)
  BY DEF OldInv, Listed
<1>4. Passed(r)
  BY <1>1, <1>3 DEF Searching
<1>5. \A b \in FreeBlock : header[b].size < size
  BY <1>1, <1>4 DEF Passed
<1>6. Control'
  BY <1>1, <1>2, <1>5 DEF Control
<1>7. Searching(r)'
  BY <1>1 DEF Searching
<1> QED
  BY <1>1, <1>3, <1>6, <1>7, SearchGoesOn

LEMMA WrapKeeps == OldInv /\ search_wrap => OldInv'
<1> SUFFICES ASSUME OldInv, search_wrap PROVE OldInv'
  OBVIOUS
<1>1. /\ pc = "search" /\ pc' = "search" /\ curr # NULL /\ ~fits(curr)
      /\ prev_search_end # NULL /\ header[curr].next = NULL
      /\ prev' = NULL /\ curr' = free_list
      /\ UNCHANGED <<heap, users, size>>
  BY DEF search_wrap, wraps
<1>2. /\ header' = header /\ free_list' = free_list
      /\ prev_search_end' = prev_search_end /\ users' = users
      /\ size' = size /\ size \in Requests
      /\ FreeBlock' = FreeBlock /\ BrkBlock' = BrkBlock
      /\ BrkBlock \ FreeBlock \subseteq DOMAIN users
      /\ \A b \in FreeBlock : ~fits(b) => header[b].size < size
  BY <1>1, TurnFacts
<1>3. PICK r : Links(header, FreeBlock, r, free_list) /\ Searching(r)
  BY DEF OldInv, Listed
<1>4. /\ NULL \notin FreeBlock
      /\ \A b \in FreeBlock : r[b] \in Nat
      /\ \A b \in FreeBlock : free_list \in FreeBlock /\ r[b] <= r[free_list]
      /\ free_list \in FreeBlock \cup {NULL}
      /\ \A a, b \in FreeBlock : r[a] = r[b] => a = b
      /\ \A b \in FreeBlock :
            /\ header[b].next \in FreeBlock \cup {NULL}
            /\ header[b].next # NULL => r[header[b].next] < r[b]
      /\ \A a, b \in FreeBlock :
            r[a] < r[b] => header[b].next # NULL
                           /\ r[a] <= r[header[b].next]
      /\ prev_search_end \in FreeBlock \cup {NULL}
  BY <1>3, FreeFacts
<1>5. curr \in FreeBlock /\ prev_search_end \in FreeBlock /\ Passed(r)
  BY <1>1, <1>3, <1>4 DEF Searching
<1>6. curr' # NULL /\ curr' \in FreeBlock /\ \A b \in FreeBlock : r[b] <= r[curr']
  BY <1>1, <1>4, <1>5
<1>7. \A b \in FreeBlock : r[curr] <= r[b]
  <2> TAKE b \in FreeBlock
  <2>1. ~(r[b] < r[curr])
    BY <1>1, <1>4, <1>5
  <2> QED
    BY <1>4, <1>5, <2>1
<1>8. ASSUME header[prev_search_end].next # NULL, NEW b \in FreeBlock,
             r[b] < r[prev_search_end]
      PROVE  header[b].size < size
  <2>1. r[curr] < r[prev_search_end]
    BY <1>4, <1>5, <1>7, <1>8
  <2>2. CASE b = curr
    BY <1>1, <1>2, <1>5, <2>2
  <2>3. CASE b # curr
    <3>1. r[curr] < r[b]
      BY <1>4, <1>5, <1>7, <2>3
    <3> QED
      BY <1>1, <1>5, <1>8, <2>1, <3>1 DEF Passed
  <2> QED
    BY <2>2, <2>3
<1>9. ~(r[curr'] < r[prev_search_end])
      /\ \A b \in FreeBlock : ~(r[curr'] < r[b])
  BY <1>4, <1>5, <1>6
<1>10. Passed(r)'
  BY <1>1, <1>2, <1>6, <1>8, <1>9 DEF Passed
<1>11. Searching(r)'
  BY <1>1, <1>2, <1>6, <1>10 DEF Searching
<1>12. Control'
  BY <1>1, <1>2 DEF Control
<1> QED
  BY <1>1, <1>3, <1>11, <1>12, SearchGoesOn

LEMMA AdvanceKeeps == OldInv /\ search_advance => OldInv'
<1> SUFFICES ASSUME OldInv, search_advance PROVE OldInv'
  OBVIOUS
<1>1. /\ pc = "search" /\ curr # NULL /\ ~fits(curr)
      /\ prev_search_end = NULL \/ header[curr].next # NULL
      /\ prev' = curr /\ curr' = header[curr].next
      /\ pc' = IF came_round(curr') THEN "create" ELSE "search"
      /\ UNCHANGED <<heap, users, size>>
  BY DEF search_advance, wraps
<1>2. /\ header' = header /\ free_list' = free_list
      /\ prev_search_end' = prev_search_end /\ users' = users
      /\ size' = size /\ size \in Requests
      /\ FreeBlock' = FreeBlock /\ BrkBlock' = BrkBlock
      /\ BrkBlock \ FreeBlock \subseteq DOMAIN users
      /\ \A b \in FreeBlock : ~fits(b) => header[b].size < size
  BY <1>1, TurnFacts
<1>3. PICK r : Links(header, FreeBlock, r, free_list) /\ Searching(r)
  BY DEF OldInv, Listed
<1>4. /\ NULL \notin FreeBlock
      /\ \A b \in FreeBlock : r[b] \in Nat
      /\ \A a, b \in FreeBlock : r[a] = r[b] => a = b
      /\ \A b \in FreeBlock :
            /\ header[b].next \in FreeBlock \cup {NULL}
            /\ header[b].next # NULL => r[header[b].next] < r[b]
      /\ \A a, b \in FreeBlock :
            r[a] < r[b] => header[b].next # NULL
                           /\ r[a] <= r[header[b].next]
      /\ prev_search_end \in FreeBlock \cup {NULL}
  BY <1>3, FreeFacts
<1>5. /\ curr \in FreeBlock /\ curr' \in FreeBlock \cup {NULL} /\ Passed(r)
      /\ header[curr].size < size
  BY <1>1, <1>2, <1>3, <1>4 DEF Searching
<1>6. \A b \in FreeBlock : curr' = NULL \/ r[curr'] < r[b] => r[curr] <= r[b]
  <2> TAKE b \in FreeBlock
  <2>1. r[b] < r[curr] => curr' # NULL /\ ~(r[curr'] < r[b])
    BY <1>1, <1>4, <1>5
  <2> QED
    BY <1>4, <1>5, <2>1
<1>7. curr' # NULL => r[curr'] < r[curr]
  BY <1>1, <1>4, <1>5
(* The block the search moves on from is too small: it counts as passed.   *)
<1>8. \A b \in FreeBlock : r[curr] <= r[b] => r[curr] < r[b] \/ b = curr
  BY <1>4, <1>5
<1>9. ASSUME pc' = "search", Passed(r)' PROVE OldInv'
  <2>1. Searching(r)'
    BY <1>1, <1>2, <1>5, <1>9 DEF Searching
  <2>2. Control'
    BY <1>1, <1>2, <1>9 DEF Control
  <2> QED
    BY <1>1, <1>3, <2>1, <2>2, SearchGoesOn
<1>10. CASE prev_search_end = NULL
  <2>1. pc' = "search"
    BY <1>1, <1>10 DEF came_round
  <2>2. ASSUME NEW b \in FreeBlock, curr' = NULL \/ r[curr'] < r[b]
        PROVE  header[b].size < size
    <3>1. r[curr] < r[b] \/ b = curr
      BY <1>6, <1>8, <2>2
    <3> QED
      BY <1>1, <1>5, <1>10, <3>1 DEF Passed
  <2>3. Passed(r)'
    BY <1>2, <1>10, <2>2 DEF Passed
  <2> QED
    BY <1>9, <2>1, <2>3
<1>11. CASE prev_search_end # NULL
  <2> DEFINE pse == prev_search_end
  <2>1. /\ pse \in FreeBlock /\ curr' # NULL /\ curr' \in FreeBlock
        /\ pc' = IF curr' = header[pse].next THEN "create" ELSE "search"
    BY <1>1, <1>4, <1>5, <1>11 DEF came_round
  <2>2. CASE header[pse].next = NULL
    <3>1. Passed(r)'
      BY <1>2, <1>11, <2>1, <2>2 DEF Passed
    <3> QED
      BY <1>9, <2>1, <2>2, <3>1
  <2>3. CASE header[pse].next # NULL /\ r[curr] < r[pse]
    <3>1. curr' # header[pse].next
      <4>1. r[curr] <= r[header[pse].next] /\ r[curr'] < r[curr]
            /\ header[pse].next \in FreeBlock
        BY <1>4, <1>5, <1>7, <2>1, <2>3
      <4> QED
        BY <1>4, <1>5, <2>1, <4>1
    <3>2. r[curr'] < r[pse]
      BY <1>4, <1>5, <1>7, <2>1, <2>3
    <3>3. ASSUME NEW b \in FreeBlock, r[curr'] < r[b], r[b] < r[pse]
          PROVE  header[b].size < size
      <4>1. r[curr] < r[b] \/ b = curr
        BY <1>6, <1>8, <3>3
      <4> QED
        BY <1>5, <1>11, <2>3, <3>3, <4>1 DEF Passed
    <3>4. Passed(r)'
      BY <1>2, <1>11, <2>1, <3>2, <3>3 DEF Passed
    <3> QED
      BY <1>9, <2>1, <3>1, <3>4
  <2>4. CASE header[pse].next # NULL /\ curr = pse
    <3>1. pc' = "create"
      BY <1>1, <2>1, <2>4
    <3>2. ASSUME NEW b \in FreeBlock PROVE header[b].size < size
      <4>1. r[b] < r[pse] \/ r[curr] < r[b] \/ b = curr
        BY <1>4, <1>5, <2>4
      <4>2. ~(r[curr] < r[pse])
        BY <1>4, <1>5, <2>4
      <4> QED
        BY <1>5, <1>11, <2>4, <4>1, <4>2 DEF Passed
    <3>3. Control'
      BY <1>1, <1>2, <3>1, <3>2 DEF Control
    <3>4. Searching(r)'
      BY <3>1 DEF Searching
    <3> QED
      BY <1>1, <1>3, <3>3, <3>4, SearchGoesOn
  <2>5. CASE header[pse].next # NULL /\ r[pse] < r[curr]
    <3>1. r[pse] <= r[curr'] /\ r[header[pse].next] < r[pse]
          /\ header[pse].next \in FreeBlock
      BY <1>1, <1>4, <1>5, <2>1, <2>5
    <3>2. curr' # header[pse].next /\ ~(r[curr'] < r[pse])
      BY <1>4, <2>1, <3>1
    <3>3. ASSUME NEW b \in FreeBlock, r[b] < r[pse] \/ r[curr'] < r[b]
          PROVE  header[b].size < size
      <4>1. r[b] < r[pse] \/ r[curr] < r[b] \/ b = curr
        BY <1>6, <1>8, <3>3
      <4>2. ~(r[curr] < r[pse])
        BY <1>4, <1>5, <2>1, <2>5
      <4> QED
        BY <1>5, <1>11, <2>5, <4>1, <4>2 DEF Passed
    <3>4. Passed(r)'
      BY <1>2, <1>11, <2>1, <3>2, <3>3 DEF Passed
    <3> QED
      BY <1>9, <2>1, <3>2, <3>4
  <2> QED
    <3>1. r[curr] < r[pse] \/ curr = pse \/ r[pse] < r[curr]
      BY <1>4, <1>5, <2>1
    <3> QED
      BY <2>2, <2>3, <2>4, <2>5, <3>1
<1> QED
  BY <1>10, <1>11

LEMMA OldInvStep == OldInv /\ [Next]_vars => OldInv'
<1> SUFFICES ASSUME OldInv, [Next]_vars PROVE OldInv'
  OBVIOUS
<1>1. CASE UNCHANGED vars
  BY <1>1 DEF vars, OldInv, Listed, Searching, Passed, Control, FreeBlock, BrkBlock
<1>2. CASE Terminated
  BY <1>1, <1>2 DEF Terminated
<1>3. CASE search_on
  BY <1>3, WrapKeeps, AdvanceKeeps, EndKeeps DEF search_on
<1> QED
  BY <1>1, <1>2, <1>3, ConstructorKeeps, CallKeeps, TakeStepKeeps,
     CreateStepKeeps, DeallocateKeeps, DestructorKeeps, DestructorStepKeeps
     DEF Next

-----------------------------------------------------------------------------
(* The theorems *)

(* The invariant behind all that follows: the tags tile the heap, the free *)
(* list is a chain of exactly the free blocks, a running search has passed *)
(* only blocks that are too small, and every block that is not free has a  *)
(* user or was left behind by the destructor.                              *)
THEOREM OldInvariant == Spec => []OldInv
BY InitOldInv, OldInvStep, PTL DEF Spec

(* Splitting, merging, sbrk, brk and mmap keep the boundary tags exact:    *)
(* the blocks lie one behind the other from brk_heap_start to              *)
(* brk_heap_end, and every footer repeats its header.                      *)
THEOREM HeapStaysTiled == Spec => []HeapTiled
BY OldInvariant, TiledFromInv, PTL

(* insert_free, unlink_free and the relinking in split and allocate leave  *)
(* a list without a cycle that holds each free block once and no other.    *)
THEOREM FreeListStaysExact == Spec => []FreeListExact
BY OldInvariant, ListFromInv, PTL

(* The counter available_bytes, which allocate trusts before it searches,  *)
(* is at every step the sum of the sizes of the free blocks.               *)
THEOREM AvailableStaysExact == Spec => []AvailableExact
BY OldInvariant, SumFromInv, PTL

(* prev_search_end never points to a block that was taken, merged into its *)
(* neighbour or given back to the system.                                  *)
THEOREM SearchEndStaysListed == Spec => []SearchEndListed
BY OldInvariant, SearchEndFromInv, PTL

(* coalesce_around merges a freed block with every free neighbour: two     *)
(* free blocks are never adjacent.                                         *)
THEOREM FreeBlocksApart == Spec => []NoAdjacentFree
BY OldInvariant, ApartFromInv, PTL

(* allocate reaches create_block only when no free block is large enough,  *)
(* though its search may begin in the middle of the list and go round.     *)
THEOREM CreationNeeded == Spec => []CreatesOnlyWhenNeeded
BY OldInvariant, NeedFromInv, PTL

(* If no user has a block of the heap left, the block the destructor works *)
(* on is the last of the heap, so that every turn shortens the free list.  *)
THEOREM DestructorAdvances == Spec => []DestructorProgress
BY OldInvariant, ProgressFromInv, PTL

-----------------------------------------------------------------------------
(* What the users are promised *)

Regions == {<<b, overhead_size + users[b]>> : b \in DOMAIN users}

LEMMA RegionElements ==
    /\ \A q : q \in Regions <=>
                  \E b \in DOMAIN users : q = <<b, overhead_size + users[b]>>
    /\ \A q : q \in Regions' <=>
                  \E b \in DOMAIN users' : q = <<b, overhead_size + users'[b]>>
BY DEF Regions

UsersApart ==
    \A b, c \in DOMAIN users :
        b # c => \/ b + (overhead_size + users[b]) <= c
                 \/ c + (overhead_size + users[c]) <= b

(* The tags around a user's bytes and the bytes are inside the block.      *)
LEMMA RegionsApart == OldInv => UsersApart
<1> SUFFICES ASSUME OldInv, NEW b \in DOMAIN users, NEW c \in DOMAIN users,
                    b # c
             PROVE  \/ b + (overhead_size + users[b]) <= c
                    \/ c + (overhead_size + users[c]) <= b
  BY DEF UsersApart
<1>1. Headers(header) /\ Tiles(header, brk_heap_start, brk_heap_end)
      /\ HeldBlocks(users, header)
  BY DEF OldInv, Blocks
<1>2. b \in DOMAIN header /\ c \in DOMAIN header /\ b \in Nat /\ c \in Nat
  BY <1>1 DEF HeldBlocks, Headers
<1>3. header[b].size \in Nat /\ header[c].size \in Nat
  BY <1>1, <1>2, BlockFacts
<1>4. /\ users[b] \in Nat /\ users[b] <= header[b].size
      /\ users[c] \in Nat /\ users[c] <= header[c].size
  BY <1>1 DEF HeldBlocks
<1>5. b < c \/ c < b
  BY <1>2
<1>6. /\ b < c => b + (overhead_size + header[b].size) <= c
      /\ c < b => c + (overhead_size + header[c].size) <= b
  BY <1>1, <1>2 DEF Tiles, EndIn
<1> QED
  BY <1>2, <1>3, <1>4, <1>5, <1>6, OldConstants

(* One more block is handed out.                                           *)
LEMMA HandsOut ==
    ASSUME OldInv', NEW b, NEW n, b \notin DOMAIN users,
           users' = Put(users, b, n)
    PROVE  Holders!SpecNext
<1>1. /\ DOMAIN users' = DOMAIN users \cup {b} /\ users'[b] = n
      /\ \A c \in DOMAIN users : users'[c] = users[c] /\ c # b
  BY DEF Put
<1>2. PICK r : r = <<b, overhead_size + n>>
  OBVIOUS
<1>3. r \notin Regions
  <2>1. \A c \in DOMAIN users : r # <<c, overhead_size + users[c]>>
    BY <1>1, <1>2
  <2> QED
    BY <2>1, RegionElements
<1>4. \A q : q \in Regions' <=> q \in Regions \/ q = r
  <2> TAKE q
  <2>1. ASSUME q \in Regions' PROVE q \in Regions \/ q = r
    <3>1. PICK c \in DOMAIN users' : q = <<c, overhead_size + users'[c]>>
      BY <2>1, RegionElements
    <3> QED
      BY <1>1, <1>2, <3>1, RegionElements
  <2>2. ASSUME q \in Regions PROVE q \in Regions'
    <3>1. PICK c \in DOMAIN users : q = <<c, overhead_size + users[c]>>
      BY <2>2, RegionElements
    <3>2. c \in DOMAIN users' /\ q = <<c, overhead_size + users'[c]>>
      BY <1>1, <3>1
    <3> QED
      BY <3>2, RegionElements
  <2>3. r \in Regions'
    BY <1>1, <1>2, RegionElements
  <2> QED
    BY <2>1, <2>2, <2>3
<1>5. Regions' = Regions \cup {r}
  BY <1>4
<1>6. ASSUME NEW q \in Regions PROVE Holders!Disjoint(r, q)
  <2>1. PICK c \in DOMAIN users : q = <<c, overhead_size + users[c]>>
    BY RegionElements
  <2>2. b \in DOMAIN users' /\ c \in DOMAIN users' /\ b # c
        /\ users'[b] = n /\ users'[c] = users[c]
    BY <1>1, <2>1
  <2>3. \/ b + (overhead_size + users'[b]) <= c
        \/ c + (overhead_size + users'[c]) <= b
    <3>1. UsersApart'
      BY RegionsApart, PTL
    <3> QED
      BY <2>2, <3>1 DEF UsersApart
  <2> QED
    BY <1>2, <2>1, <2>2, <2>3 DEF Holders!Disjoint
<1>7. Holders!HandOut(r)
  BY <1>3, <1>5, <1>6 DEF Holders!HandOut, Regions
<1>8. r \in Regions'
  BY <1>5
<1> QED
  BY <1>7, <1>8 DEF Holders!SpecNext, Regions

(* A block is given back.                                                  *)
LEMMA GivesBack ==
    ASSUME NEW b \in DOMAIN users, users' = Drop(users, b)
    PROVE  Holders!SpecNext
<1>1. /\ DOMAIN users' = DOMAIN users \ {b}
      /\ \A c \in DOMAIN users' : users'[c] = users[c]
  BY DEF Drop
<1>2. PICK r : r = <<b, overhead_size + users[b]>>
  OBVIOUS
<1>3. r \in Regions
  BY <1>2, RegionElements
<1>4. \A q : q \in Regions' <=> q \in Regions /\ q # r
  <2> TAKE q
  <2>1. ASSUME q \in Regions' PROVE q \in Regions /\ q # r
    <3>1. PICK c \in DOMAIN users' : q = <<c, overhead_size + users'[c]>>
      BY <2>1, RegionElements
    <3>2. c \in DOMAIN users /\ c # b /\ q = <<c, overhead_size + users[c]>>
      BY <1>1, <3>1
    <3> QED
      BY <1>2, <3>2, RegionElements
  <2>2. ASSUME q \in Regions, q # r PROVE q \in Regions'
    <3>1. PICK c \in DOMAIN users : q = <<c, overhead_size + users[c]>>
      BY <2>2, RegionElements
    <3>2. c # b
      BY <1>2, <2>2, <3>1
    <3>3. c \in DOMAIN users' /\ q = <<c, overhead_size + users'[c]>>
      BY <1>1, <3>1, <3>2
    <3> QED
      BY <3>3, RegionElements
  <2> QED
    BY <2>1, <2>2
<1>5. Regions' = Regions \ {r}
  BY <1>4
<1>6. Holders!GiveBack(r)
  BY <1>3, <1>5 DEF Holders!GiveBack, Regions
<1> QED
  BY <1>3, <1>6 DEF Holders!SpecNext, Regions

LEMMA OldRegionsStep ==
    OldInv /\ OldInv' /\ [Next]_vars => Holders!SpecNext \/ Regions' = Regions
<1> SUFFICES ASSUME OldInv, OldInv', [Next]_vars
             PROVE  Holders!SpecNext \/ Regions' = Regions
  OBVIOUS
<1>1. ASSUME users' = users PROVE Regions' = Regions
  BY <1>1 DEF Regions
<1>2. CASE search_take
  <2>1. curr # NULL /\ pc = "search" /\ users' = Put(users, curr, size)
    BY <1>2 DEF search_take
  <2>2. PICK r : Searching(r)
    BY DEF OldInv, Listed
  <2>3. curr \in FreeBlock /\ HeldBlocks(users, header)
    BY <2>1, <2>2 DEF Searching, OldInv
  <2>4. curr \notin DOMAIN users
    BY <2>3 DEF HeldBlocks, FreeBlock
  <2> QED
    BY <2>1, <2>4, HandsOut
<1>3. CASE create
  <2>1. PICK at \in block_at(Memory, size, size >= MMAP_THRESHOLD) :
           IF at = NULL THEN UNCHANGED <<heap, users>>
           ELSE users' = Put(users, at, size)
    BY <1>3 DEF create
  <2>2. CASE at = NULL
    BY <1>1, <2>1, <2>2
  <2>3. CASE at # NULL
    <3> DEFINE mapped == size >= MMAP_THRESHOLD
    <3>1. size \in Requests /\ Sound(Memory)
      BY <1>3, MemorySound DEF create, OldInv, Control
    <3>2. mapped \in BOOLEAN /\ at \in block_at(Memory, size, mapped)
      OBVIOUS
    <3> HIDE DEF mapped
    <3>3. Creates(Memory.header,
                  create_block(Memory, at, size, FALSE, mapped).header, at,
                  size, mapped)
      BY <2>3, <3>1, <3>2, CreateKeeps
    <3>4. at \notin DOMAIN header
      BY <3>3, MemoryFields DEF Creates
    <3>5. at \notin DOMAIN users
      BY <3>4 DEF OldInv, HeldBlocks
    <3> QED
      BY <2>1, <2>3, <3>5, HandsOut
  <2> QED
    BY <2>2, <2>3
<1>4. ASSUME NEW b \in DOMAIN users, NEW ok \in BOOLEAN, deallocate(b, ok)
      PROVE  Holders!SpecNext \/ Regions' = Regions
  <2>1. users' = Drop(users, b) \/ users' = users
    BY <1>4 DEF deallocate
  <2> QED
    BY <1>1, <2>1, GivesBack
<1>5. CASE constructor
  BY <1>1, <1>5 DEF constructor
<1>6. ASSUME NEW n \in Requests, call_allocate(n) PROVE Regions' = Regions
  BY <1>1, <1>6 DEF call_allocate
<1>7. CASE search_on
  BY <1>1, <1>7 DEF search_on, search_wrap, search_advance, search_end
<1>8. CASE destructor \/ destructor_end
  BY <1>1, <1>8 DEF destructor, destructor_end
<1>9. ASSUME NEW ok \in BOOLEAN, destructor_step(ok) PROVE Regions' = Regions
  BY <1>1, <1>9 DEF destructor_step
<1>10. CASE Terminated \/ UNCHANGED vars
  BY <1>1, <1>10 DEF Terminated, vars
<1> QED
  BY <1>2, <1>3, <1>4, <1>5, <1>6, <1>7, <1>8, <1>9, <1>10 DEF Next

(* The first design keeps the promise of RegionSpec: the bytes a user got  *)
(* and the tags around them are shared with no other user until deallocate *)
(* succeeds, whatever is split, merged, shrunk, mapped or grown meanwhile. *)
THEOREM OldRegionsKept == Spec => KeepsRegions
<1>1. Init => Holders!SpecInit
  BY DEF Init, Holders!SpecInit
<1>2. OldInv /\ OldInv' /\ [Next]_vars =>
          [Holders!SpecNext]_({<<b, overhead_size + users[b]>> : b \in DOMAIN users})
  BY OldRegionsStep DEF Regions
<1> QED
  BY <1>1, <1>2, OldInvariant, PTL DEF Spec, KeepsRegions, Holders!HoldersSpec

=============================================================================
