-------------------------- MODULE SpanListsProofs --------------------------
(***************************************************************************)
(* Proofs about SpanLists, for any number of spans, pages, classes and     *)
(* threads: following the pointers of the spans gives the free lists as    *)
(* sets, sorted by start, and the span lists as sequences.                 *)
(*                                                                         *)
(* A sorted list is described by its gaps: two spans that point at each    *)
(* other have no span of the list between them.  This says of every        *)
(* pointer alone what it must be, whatever the list looked like before.    *)
(***************************************************************************)
EXTENDS SpanLists, CentralFreeListProofs

-----------------------------------------------------------------------------
(* Sorted lists *)

(* No span of F starts between a and b, where NULL stands for either end.  *)
Gap(F, r, a, b) ==
    /\ a \in F \cup {NULL} /\ b \in F \cup {NULL}
    /\ a # NULL /\ b # NULL => r[a] < r[b]
    /\ \A u \in F : \/ a # NULL /\ r[u] <= r[a]
                    \/ b # NULL /\ r[b] <= r[u]

(* No two spans of F start on the same page.                               *)
Ranked(F, r) ==
    /\ NULL \notin F
    /\ \A u \in F : r[u] \in Nat
    /\ \A u, v \in F : r[u] = r[v] => u = v

Sorted(F, r, nx, pv, head) ==
    /\ Gap(F, r, NULL, head)
    /\ \A s \in F : Gap(F, r, s, nx[s]) /\ Gap(F, r, pv[s], s)

(* Behind a span there is one gap only.                                    *)
LEMMA GapAbove ==
    ASSUME NEW F, NEW r, Ranked(F, r), NEW a, NEW b, NEW c,
           Gap(F, r, a, b), Gap(F, r, a, c)
    PROVE  b = c
BY DEF Gap, Ranked

(* So there is before it.                                                  *)
LEMMA GapBelow ==
    ASSUME NEW F, NEW r, Ranked(F, r), NEW a, NEW b, NEW c,
           Gap(F, r, a, c), Gap(F, r, b, c)
    PROVE  a = b
BY DEF Gap, Ranked

(* On S, g is f with p pointing at v instead.                              *)
Redirects(f, g, p, v, S) ==
    \A u \in S : (u = p => g[u] = v) /\ (u # p => g[u] = f[u])

LEMMA RedirectsFewer ==
    ASSUME NEW f, NEW g, NEW p, NEW v, NEW S, Redirects(f, g, p, v, S),
           NEW T, T \subseteq S
    PROVE  Redirects(f, g, p, v, T)
BY DEF Redirects

(* Joining the neighbours of s takes it off the list.                      *)
LEMMA RemoveSorted ==
    ASSUME NEW F, NEW r, Ranked(F, r), NEW nx, NEW pv, NEW head,
           Sorted(F, r, nx, pv, head), NEW s \in F,
           NEW nx2, NEW pv2, NEW head2,
           Redirects(nx, nx2, pv[s], nx[s], F \ {s}),
           Redirects(pv, pv2, nx[s], pv[s], F \ {s}),
           head2 = IF pv[s] = NULL THEN nx[s] ELSE head
    PROVE  Sorted(F \ {s}, r, nx2, pv2, head2)
<1>1. Gap(F, r, pv[s], s) /\ Gap(F, r, s, nx[s]) /\ Gap(F, r, NULL, head)
  BY DEF Sorted
<1>2. Gap(F \ {s}, r, pv[s], nx[s])
  BY <1>1 DEF Gap, Ranked
<1>3. ASSUME NEW a, NEW b, a # s, b # s, Gap(F, r, a, b)
      PROVE  Gap(F \ {s}, r, a, b)
  BY <1>3 DEF Gap
<1>4. Gap(F \ {s}, r, NULL, head2)
  <2>1. CASE pv[s] = NULL
    BY <1>2, <2>1
  <2>2. CASE pv[s] # NULL
    <3>1. head # s
      BY <1>1, <2>2, GapBelow
    <3>2. NULL # s
      BY DEF Ranked
    <3> QED
      BY <1>1, <1>3, <2>2, <3>1, <3>2
  <2> QED
    BY <2>1, <2>2
<1>5. ASSUME NEW u \in F \ {s} PROVE Gap(F \ {s}, r, u, nx2[u])
  <2>1. CASE u = pv[s]
    BY <1>2, <2>1 DEF Redirects
  <2>2. CASE u # pv[s]
    <3>1. Gap(F, r, u, nx[u])
      BY DEF Sorted
    <3>2. nx[u] # s
      BY <1>1, <2>2, <3>1, GapBelow
    <3> QED
      BY <1>3, <2>2, <3>1, <3>2 DEF Redirects
  <2> QED
    BY <2>1, <2>2
<1>6. ASSUME NEW u \in F \ {s} PROVE Gap(F \ {s}, r, pv2[u], u)
  <2>1. CASE u = nx[s]
    BY <1>2, <2>1 DEF Redirects
  <2>2. CASE u # nx[s]
    <3>1. Gap(F, r, pv[u], u)
      BY DEF Sorted
    <3>2. pv[u] # s
      BY <1>1, <2>2, <3>1, GapAbove
    <3> QED
      BY <1>3, <2>2, <3>1, <3>2 DEF Redirects
  <2> QED
    BY <2>1, <2>2
<1> QED
  BY <1>4, <1>5, <1>6 DEF Sorted

(* Linking s into the gap it starts in puts it on the list.                *)
LEMMA InsertSorted ==
    ASSUME NEW F, NEW r, NEW s, s \notin F, Ranked(F \cup {s}, r),
           NEW nx, NEW pv, NEW head, Sorted(F, r, nx, pv, head),
           NEW a, NEW b, Gap(F, r, a, b),
           a # NULL => r[a] < r[s], b # NULL => r[s] < r[b],
           NEW nx2, NEW pv2, NEW head2,
           Redirects(nx, nx2, a, s, F), nx2[s] = b,
           Redirects(pv, pv2, b, s, F), pv2[s] = a,
           head2 = IF a = NULL THEN s ELSE head
    PROVE  Sorted(F \cup {s}, r, nx2, pv2, head2)
<1> DEFINE G == F \cup {s}
<1>1. Ranked(F, r) /\ s # NULL /\ r[s] \in Nat
  BY DEF Ranked
<1>2. Gap(G, r, a, s) /\ Gap(G, r, s, b)
  BY <1>1 DEF Gap, Ranked
<1>3. ASSUME NEW c, NEW d, Gap(F, r, c, d), c # a, d # b
      PROVE  Gap(G, r, c, d)
  <2>1. (c # NULL /\ r[s] <= r[c]) \/ (d # NULL /\ r[d] <= r[s])
    BY <1>1, <1>3 DEF Gap, Ranked
  <2> QED
    BY <1>3, <2>1 DEF Gap
<1>4. \A c, d : Gap(F, r, c, d) => (c = a <=> d = b)
  BY <1>1, GapAbove, GapBelow
<1>5. Gap(F, r, NULL, head)
  BY DEF Sorted
<1>6. Gap(G, r, NULL, head2)
  BY <1>2, <1>3, <1>4, <1>5
<1>7. ASSUME NEW u \in F PROVE Gap(G, r, u, nx2[u]) /\ Gap(G, r, pv2[u], u)
  <2>1. Gap(F, r, u, nx[u]) /\ Gap(F, r, pv[u], u)
    BY DEF Sorted
  <2> QED
    BY <1>2, <1>3, <1>4, <2>1 DEF Redirects
<1> QED
  BY <1>2, <1>6, <1>7 DEF Sorted

-----------------------------------------------------------------------------
(* Induction, stated with sets *)

LEMMA NumberInduction ==
    ASSUME NEW S, 0 \in S, \A n \in Nat : n \in S => n + 1 \in S
    PROVE  Nat \subseteq S
<1> SUFFICES ASSUME Nat \ S # {} PROVE FALSE
  OBVIOUS
<1>1. PICK n \in Nat \ S : \A k \in Nat \ S : n <= k
  <2>1. Nat \ S \in SUBSET Nat
    OBVIOUS
  <2> QED
    BY <2>1, LeastNatural
<1>2. n # 0 /\ n - 1 \in Nat /\ n - 1 \in S
  BY <1>1
<1> QED
  BY <1>1, <1>2

(* A set P that has the empty set, and every finite set of which it has    *)
(* the sets with one element less, has all finite subsets of U.            *)
LEMMA SubsetInduction ==
    ASSUME NEW U, NEW P, {} \in P,
           \A S \in SUBSET U :
              IsFiniteSet(S) /\ S # {} /\ (\A x \in S : S \ {x} \in P) =>
                  S \in P
    PROVE  \A S \in SUBSET U : IsFiniteSet(S) => S \in P
<1> DEFINE N == {n \in Nat : \A S \in SUBSET U :
                    IsFiniteSet(S) /\ Cardinality(S) = n => S \in P}
<1>1. 0 \in N
  BY FS_EmptySet
<1>2. ASSUME NEW n \in Nat, n \in N PROVE n + 1 \in N
  <2> SUFFICES ASSUME NEW S \in SUBSET U, IsFiniteSet(S),
                      Cardinality(S) = n + 1
               PROVE  S \in P
    OBVIOUS
  <2>1. S # {}
    BY FS_EmptySet
  <2>2. ASSUME NEW x \in S PROVE S \ {x} \in P
    <3>1. /\ IsFiniteSet(S \ {x})
          /\ Cardinality(S \ {x}) = Cardinality(S) - 1
      BY FS_RemoveElement
    <3> QED
      BY <1>2, <3>1
  <2> QED
    BY <2>1, <2>2
<1> HIDE DEF N
<1>3. Nat \subseteq N
  BY <1>1, <1>2, NumberInduction
<1>4. \A S \in SUBSET U : IsFiniteSet(S) => Cardinality(S) \in N
  BY <1>3, FS_CardinalityType
<1> QED
  BY <1>4 DEF N

-----------------------------------------------------------------------------
(* Walking along a list *)

(* g[n] is the span n links behind the first, for n up to k.               *)
IsWalk(f, first, k, g) ==
    g = [n \in 0 .. k |->
            IF n = 0 THEN first
            ELSE LET s == g[n - 1] IN IF s = NULL THEN NULL ELSE f[s]]

LEMMA WalkExists ==
    ASSUME NEW f, NEW first, NEW k \in Nat
    PROVE  \E g : IsWalk(f, first, k, g)
<1> DEFINE K == {j \in Nat : \E g : IsWalk(f, first, j, g)}
           After(s) == IF s = NULL THEN NULL ELSE f[s]
<1>1. 0 \in K
  <2>1. IsWalk(f, first, 0, [n \in 0 .. 0 |-> first])
    BY DEF IsWalk
  <2> QED
    BY <2>1
<1>2. ASSUME NEW j \in Nat, j \in K PROVE j + 1 \in K
  <2>1. PICK g : IsWalk(f, first, j, g)
    BY <1>2
  <2> DEFINE h == [n \in 0 .. j + 1 |->
                      IF n = j + 1 THEN After(g[j]) ELSE g[n]]
  <2>2. \A n \in 0 .. j :
           g[n] = IF n = 0 THEN first ELSE After(g[n - 1])
    BY <2>1 DEF IsWalk
  <2> HIDE DEF After
  <2>3. ASSUME NEW n \in 0 .. j + 1
        PROVE  h[n] = IF n = 0 THEN first ELSE After(h[n - 1])
    <3>1. CASE n = 0
      BY <2>2, <3>1
    <3>2. CASE n # 0 /\ n # j + 1
      <4>1. n - 1 \in 0 .. j + 1 /\ n - 1 # j + 1 /\ n \in 0 .. j
        BY <3>2
      <4>2. h[n] = g[n] /\ h[n - 1] = g[n - 1]
        BY <3>2, <4>1
      <4> QED
        BY <2>2, <3>2, <4>1, <4>2
    <3>3. CASE n = j + 1
      <4>1. n # 0 /\ n - 1 = j /\ j \in 0 .. j + 1 /\ j # j + 1
        BY <3>3
      <4>2. h[n] = After(g[j]) /\ h[n - 1] = g[j]
        BY <3>3, <4>1
      <4> QED
        BY <4>1, <4>2
    <3> QED
      BY <3>1, <3>2, <3>3
  <2>4. h = [n \in 0 .. j + 1 |-> h[n]]
    OBVIOUS
  <2> HIDE DEF h
  <2>5. h = [n \in 0 .. j + 1 |-> IF n = 0 THEN first ELSE After(h[n - 1])]
    BY <2>3, <2>4
  <2>6. IsWalk(f, first, j + 1, h)
    BY <2>5 DEF IsWalk, After
  <2> QED
    BY <2>6
<1>3. Nat \subseteq K
  <2> HIDE DEF K
  <2> QED
    BY <1>1, <1>2, NumberInduction
<1> QED
  BY <1>3

(* along starts at the first span and takes one link at a time.            *)
LEMMA Along ==
    ASSUME NEW f, NEW first
    PROVE  LET at == along(f, first)
               N == Cardinality(Span)
           IN  /\ N \in Nat /\ DOMAIN at = 0 .. N
               /\ at[0] = first
               /\ \A n \in 1 .. N :
                     at[n] = IF at[n - 1] = NULL THEN NULL ELSE f[at[n - 1]]
<1> DEFINE N == Cardinality(Span)
           at == CHOOSE g : IsWalk(f, first, N, g)
<1>1. N \in Nat
  BY SpanListsAssumption, FS_CardinalityType
<1>2. along(f, first) = at
  BY DEF along, IsWalk
<1> HIDE DEF N
<1>3. IsWalk(f, first, N, at)
  BY <1>1, WalkExists
<1> HIDE DEF at
<1>4. /\ DOMAIN at = 0 .. N
      /\ \A n \in 0 .. N :
            at[n] = IF n = 0 THEN first
                    ELSE IF at[n - 1] = NULL THEN NULL ELSE f[at[n - 1]]
  BY <1>3 DEF IsWalk
<1>5. at[0] = first
  BY <1>1, <1>4
<1>6. \A n \in 1 .. N : at[n] = IF at[n - 1] = NULL THEN NULL ELSE f[at[n - 1]]
  BY <1>1, <1>4
<1> QED
  BY <1>1, <1>2, <1>4, <1>5, <1>6 DEF N

-----------------------------------------------------------------------------
(* Walking along a sorted list *)

Earlier(F, r, s) == {u \in F : r[u] < r[s]}

LEMMA EarlierNext ==
    ASSUME NEW F, IsFiniteSet(F), NEW r, Ranked(F, r),
           NEW a \in F, NEW b \in F, Gap(F, r, a, b)
    PROVE  /\ Cardinality(Earlier(F, r, a)) \in Nat
           /\ Cardinality(Earlier(F, r, b)) = Cardinality(Earlier(F, r, a)) + 1
<1>1. r[a] < r[b] /\ \A u \in F : r[u] <= r[a] \/ r[b] <= r[u]
  BY DEF Gap, Ranked
<1>2. Earlier(F, r, b) = Earlier(F, r, a) \cup {a} /\ a \notin Earlier(F, r, a)
  BY <1>1 DEF Earlier, Ranked
<1>3. IsFiniteSet(Earlier(F, r, a))
  BY FS_Subset DEF Earlier
<1> QED
  BY <1>2, <1>3, FS_AddElement, FS_CardinalityType

(* The walk leads from gap to gap and comes to the end of the list.        *)
LEMMA WalkSorted ==
    ASSUME NEW F, F \subseteq Span, NEW r, Ranked(F, r),
           NEW nx, NEW pv, NEW head, Sorted(F, r, nx, pv, head),
           NEW at, at = along(nx, head), NEW N, N = Cardinality(Span)
    PROVE  /\ N \in Nat /\ DOMAIN at = 0 .. N
           /\ \A n \in 0 .. N : at[n] \in F \cup {NULL}
           /\ Gap(F, r, NULL, at[0])
           /\ \A n \in 1 .. N : at[n - 1] # NULL => Gap(F, r, at[n - 1], at[n])
           /\ at[N] = NULL
<1>1. /\ N \in Nat /\ DOMAIN at = 0 .. N /\ at[0] = head
      /\ \A n \in 1 .. N :
            at[n] = IF at[n - 1] = NULL THEN NULL ELSE nx[at[n - 1]]
  BY Along
<1>2. IsFiniteSet(F) /\ Cardinality(F) <= N
  BY SpanListsAssumption, FS_Subset
<1>3. Gap(F, r, NULL, at[0]) /\ at[0] \in F \cup {NULL}
  BY <1>1 DEF Sorted, Gap
<1>4. \A n \in 0 .. N : at[n] \in F \cup {NULL}
  <2> DEFINE S == {n \in Nat : n <= N => at[n] \in F \cup {NULL}}
  <2>1. 0 \in S
    BY <1>3
  <2>2. ASSUME NEW n \in Nat, n \in S PROVE n + 1 \in S
    <3> SUFFICES ASSUME n + 1 <= N PROVE at[n + 1] \in F \cup {NULL}
      OBVIOUS
    <3>1. at[n] \in F \cup {NULL}
      BY <1>1, <2>2
    <3>2. at[n + 1] = IF at[n] = NULL THEN NULL ELSE nx[at[n]]
      <4>1. n + 1 \in 1 .. N /\ (n + 1) - 1 = n
        BY <1>1
      <4> QED
        BY <1>1, <4>1
    <3> QED
      BY <3>1, <3>2 DEF Sorted, Gap
  <2> HIDE DEF S
  <2>3. Nat \subseteq S
    BY <2>1, <2>2, NumberInduction
  <2> QED
    BY <1>1, <2>3 DEF S
<1>5. ASSUME NEW n \in 1 .. N, at[n - 1] # NULL PROVE Gap(F, r, at[n - 1], at[n])
  <2>1. n - 1 \in 0 .. N
    BY <1>1
  <2>2. at[n - 1] \in F /\ at[n] = nx[at[n - 1]]
    BY <1>1, <1>4, <1>5, <2>1
  <2> QED
    BY <2>2 DEF Sorted
<1>6. \A n \in 0 .. N :
          at[n] # NULL => /\ Cardinality(Earlier(F, r, at[n])) = n
                          /\ \A m \in 0 .. n : at[m] # NULL
  <2> DEFINE S == {n \in Nat : n <= N /\ at[n] # NULL =>
                       /\ Cardinality(Earlier(F, r, at[n])) = n
                       /\ \A m \in 0 .. n : at[m] # NULL}
  <2>1. 0 \in S
    <3>1. at[0] # NULL => Earlier(F, r, at[0]) = {}
      BY <1>3 DEF Gap, Ranked, Earlier
    <3> QED
      BY <3>1, FS_EmptySet
  <2>2. ASSUME NEW n \in Nat, n \in S PROVE n + 1 \in S
    <3> SUFFICES ASSUME n + 1 <= N, at[n + 1] # NULL
                 PROVE  /\ Cardinality(Earlier(F, r, at[n + 1])) = n + 1
                        /\ \A m \in 0 .. n + 1 : at[m] # NULL
      OBVIOUS
    <3>1. n + 1 \in 1 .. N /\ (n + 1) - 1 = n /\ n \in 0 .. N /\ n + 1 \in 0 .. N
      BY <1>1
    <3>2. at[n] # NULL
      BY <1>1, <3>1
    <3>3. Gap(F, r, at[n], at[n + 1])
      BY <1>5, <3>1, <3>2
    <3>4. at[n] \in F /\ at[n + 1] \in F
      BY <1>4, <3>1, <3>2
    <3>5. Cardinality(Earlier(F, r, at[n])) = n /\ \A m \in 0 .. n : at[m] # NULL
      BY <1>1, <2>2, <3>1, <3>2
    <3>6. Cardinality(Earlier(F, r, at[n + 1])) = n + 1
      BY <1>2, <3>3, <3>4, <3>5, EarlierNext
    <3> QED
      BY <3>5, <3>6
  <2> HIDE DEF S
  <2>3. Nat \subseteq S
    BY <2>1, <2>2, NumberInduction
  <2> QED
    BY <1>1, <2>3 DEF S
<1>7. at[N] = NULL
  <2> SUFFICES ASSUME at[N] # NULL PROVE FALSE
    OBVIOUS
  <2>1. at[N] \in F /\ Cardinality(Earlier(F, r, at[N])) = N
    BY <1>1, <1>4, <1>6
  <2> DEFINE E == Earlier(F, r, at[N])
  <2>2. E \subseteq F \ {at[N]}
    BY <2>1 DEF Earlier, Ranked
  <2>3. IsFiniteSet(F \ {at[N]}) /\ Cardinality(F \ {at[N]}) = Cardinality(F) - 1
    BY <1>2, <2>1, FS_RemoveElement
  <2>4. Cardinality(E) <= Cardinality(F \ {at[N]})
    BY <2>2, <2>3, FS_Subset
  <2>5. Cardinality(F) \in Nat
    BY <1>2, FS_CardinalityType
  <2> QED
    BY <1>1, <1>2, <2>1, <2>3, <2>4, <2>5
<1> QED
  BY <1>1, <1>3, <1>4, <1>5, <1>7

(* The first place where the walk stops is the end of the gap a new span   *)
(* belongs in.                                                             *)
LEMMA StopFound ==
    ASSUME NEW F, F \subseteq Span, NEW r, Ranked(F, r),
           NEW nx, NEW pv, NEW head, Sorted(F, r, nx, pv, head),
           NEW x \in Nat,
           NEW at, at = along(nx, head),
           NEW stops, stops = {i \in DOMAIN at : at[i] = NULL \/ x < r[at[i]]},
           NEW i, i = Min(stops),
           NEW before, before = IF i = 0 THEN NULL ELSE at[i - 1]
    PROVE  /\ Gap(F, r, before, at[i])
           /\ before # NULL => r[before] <= x
           /\ at[i] # NULL => x < r[at[i]]
           /\ i # 0 => i \in DOMAIN at /\ i - 1 \in DOMAIN at
<1> DEFINE N == Cardinality(Span)
<1>1. /\ N \in Nat /\ DOMAIN at = 0 .. N
      /\ \A n \in 0 .. N : at[n] \in F \cup {NULL}
      /\ Gap(F, r, NULL, at[0])
      /\ \A n \in 1 .. N : at[n - 1] # NULL => Gap(F, r, at[n - 1], at[n])
      /\ at[N] = NULL
  BY WalkSorted
<1> HIDE DEF N
<1>2. i \in stops /\ \A j \in stops : i <= j
  <2>1. stops \subseteq Nat /\ N \in stops
    BY <1>1
  <2>2. \E n \in stops : \A m \in stops : n <= m
    BY <2>1, LeastNatural
  <2> QED
    BY <2>2 DEF Min
<1>3. CASE i = 0
  BY <1>1, <1>2, <1>3
<1>4. CASE i # 0
  <2>1. i \in 1 .. N /\ i - 1 \in 0 .. N /\ i - 1 < i
    BY <1>1, <1>2, <1>4
  <2>2. i - 1 \notin stops
    BY <1>1, <1>2, <2>1
  <2>3. at[i - 1] # NULL /\ ~(x < r[at[i - 1]])
    BY <1>1, <2>1, <2>2
  <2>4. at[i - 1] \in F /\ r[at[i - 1]] \in Nat
    BY <1>1, <2>1, <2>3 DEF Ranked
  <2>5. r[at[i - 1]] <= x
    BY <2>3, <2>4
  <2> QED
    BY <1>1, <1>2, <1>4, <2>1, <2>3, <2>5
<1> QED
  BY <1>3, <1>4

(* Every span of the list is met.                                          *)
LEMMA AllReached ==
    ASSUME NEW F, F \subseteq Span, NEW r, Ranked(F, r),
           NEW nx, NEW pv, NEW head, Sorted(F, r, nx, pv, head)
    PROVE  Range(along(nx, head)) \ {NULL} = F
<1> DEFINE at == along(nx, head)
           N == Cardinality(Span)
<1>1. /\ N \in Nat /\ DOMAIN at = 0 .. N
      /\ \A n \in 0 .. N : at[n] \in F \cup {NULL}
  BY WalkSorted
<1> HIDE DEF N
<1>2. ASSUME NEW u \in F PROVE \E n \in DOMAIN at : at[n] = u
  <2> DEFINE stops == {i \in DOMAIN at : at[i] = NULL \/ r[u] < r[at[i]]}
             i == Min(stops)
             before == IF i = 0 THEN NULL ELSE at[i - 1]
  <2>1. r[u] \in Nat
    BY DEF Ranked
  <2>2. /\ Gap(F, r, before, at[i])
        /\ before # NULL => r[before] <= r[u]
        /\ at[i] # NULL => r[u] < r[at[i]]
        /\ i # 0 => i - 1 \in DOMAIN at
    BY <2>1, StopFound
  <2> HIDE DEF stops, i, at
  <2>3. before # NULL /\ r[u] <= r[before]
    BY <2>1, <2>2 DEF Gap, Ranked
  <2>4. before \in F /\ r[before] \in Nat
    BY <2>2, <2>3 DEF Gap, Ranked
  <2>5. before = u
    BY <2>1, <2>2, <2>3, <2>4 DEF Ranked
  <2> QED
    BY <2>2, <2>3, <2>5
<1>3. NULL \notin F
  BY DEF Ranked
<1> HIDE DEF at
<1>4. Range(at) \ {NULL} = F
  BY <1>1, <1>2, <1>3 DEF Range
<1> QED
  BY <1>4 DEF at

-----------------------------------------------------------------------------
(* The pointers as a record *)

Pointers == [Span -> Span \cup {NULL}]

LinkType == [next : Pointers, prev : Pointers,
             free : [0 .. MAX_PAGES -> Span \cup {NULL}],
             list : [Class -> Span \cup {NULL}]]

(* Only pointers of the spans in V and heads of free lists differ.         *)
Framed(k, x, V) ==
    /\ x.list = k.list
    /\ \A u \in Span \ V : x.next[u] = k.next[u] /\ x.prev[u] = k.prev[u]

LEMMA PointIs ==
    ASSUME NEW f \in Pointers, NEW p \in Span \cup {NULL},
           NEW s \in Span \cup {NULL}
    PROVE  /\ point(f, p, s) \in Pointers
           /\ \A u \in Span : point(f, p, s)[u] = IF u = p THEN s ELSE f[u]
BY PageHeapAssumption DEF point, Pointers

LEMMA LinkFields ==
    ASSUME NEW k \in LinkType
    PROVE  /\ k.next \in Pointers /\ k.prev \in Pointers
           /\ k.free \in [0 .. MAX_PAGES -> Span \cup {NULL}]
           /\ k.list \in [Class -> Span \cup {NULL}]
           /\ \A s \in Span : /\ k.next[s] \in Span \cup {NULL}
                              /\ k.prev[s] \in Span \cup {NULL}
BY DEF LinkType, Pointers

(* detached joins the neighbours and clears the span's own pointers.       *)
LEMMA DetachedIs ==
    ASSUME NEW k \in LinkType, NEW s \in Span
    PROVE  LET x == detached(k, s) IN
           /\ x \in LinkType /\ x.free = k.free /\ x.list = k.list
           /\ \A u \in Span \ {s} :
                 /\ x.next[u] = IF u = k.prev[s] THEN k.next[s] ELSE k.next[u]
                 /\ x.prev[u] = IF u = k.next[s] THEN k.prev[s] ELSE k.prev[u]
           /\ x.next[s] = NULL /\ x.prev[s] = NULL
<1> DEFINE nx == k.next
           pv == k.prev
           a == pv[s]
           b == nx[s]
           n1 == point(nx, a, b)
           n2 == point(n1, s, NULL)
           p1 == point(pv, b, a)
           p2 == point(p1, s, NULL)
           x == [k EXCEPT !.next = n2, !.prev = p2]
<1>1. x = detached(k, s)
  BY DEF detached
<1>2. /\ nx \in Pointers /\ pv \in Pointers
      /\ a \in Span \cup {NULL} /\ b \in Span \cup {NULL}
  BY LinkFields
<1> HIDE DEF nx, pv, a, b
<1>3. n1 \in Pointers /\ \A u \in Span : n1[u] = IF u = a THEN b ELSE nx[u]
  BY <1>2, PointIs
<1>4. p1 \in Pointers /\ \A u \in Span : p1[u] = IF u = b THEN a ELSE pv[u]
  BY <1>2, PointIs
<1> HIDE DEF n1, p1
<1>5. n2 \in Pointers /\ \A u \in Span : n2[u] = IF u = s THEN NULL ELSE n1[u]
  BY <1>3, PointIs
<1>6. p2 \in Pointers /\ \A u \in Span : p2[u] = IF u = s THEN NULL ELSE p1[u]
  BY <1>4, PointIs
<1> HIDE DEF n2, p2
<1>7. /\ x \in LinkType /\ x.next = n2 /\ x.prev = p2
      /\ x.free = k.free /\ x.list = k.list
  BY <1>5, <1>6 DEF LinkType
<1> HIDE DEF x
<1>8. \A u \in Span \ {s} : /\ x.next[u] = IF u = a THEN b ELSE nx[u]
                            /\ x.prev[u] = IF u = b THEN a ELSE pv[u]
  BY <1>3, <1>4, <1>5, <1>6, <1>7
<1>9. x.next[s] = NULL /\ x.prev[s] = NULL
  BY <1>5, <1>6, <1>7
<1> QED
  BY <1>1, <1>7, <1>8, <1>9 DEF a, b, nx, pv

(* free_list_remove: the same, and the head moves on if s was first.       *)
LEMMA RemoveIs ==
    ASSUME NEW k \in LinkType, NEW n \in 0 .. MAX_PAGES, NEW s \in Span
    PROVE  LET x == free_list_remove(k, n, s) IN
           /\ x \in LinkType /\ x.list = k.list
           /\ Redirects(k.next, x.next, k.prev[s], k.next[s], Span \ {s})
           /\ Redirects(k.prev, x.prev, k.next[s], k.prev[s], Span \ {s})
           /\ x.free[n] = IF k.prev[s] = NULL THEN k.next[s] ELSE k.free[n]
           /\ \A m \in (0 .. MAX_PAGES) \ {n} : x.free[m] = k.free[m]
<1> DEFINE d == detached(k, s)
           h == head_without(k, s, k.free[n])
           x == [d EXCEPT !.free = [@ EXCEPT ![n] = h]]
<1>1. /\ d \in LinkType /\ d.free = k.free /\ d.list = k.list
      /\ \A u \in Span \ {s} :
            /\ d.next[u] = IF u = k.prev[s] THEN k.next[s] ELSE k.next[u]
            /\ d.prev[u] = IF u = k.next[s] THEN k.prev[s] ELSE k.prev[u]
  BY DetachedIs
<1> HIDE DEF d
<1>2. /\ k.free \in [0 .. MAX_PAGES -> Span \cup {NULL}]
      /\ d.free \in [0 .. MAX_PAGES -> Span \cup {NULL}]
      /\ k.next[s] \in Span \cup {NULL}
  BY <1>1, LinkFields
<1>3. h = IF k.prev[s] = NULL THEN k.next[s] ELSE k.free[n]
  BY DEF head_without
<1>4. h \in Span \cup {NULL}
  BY <1>2, <1>3
<1> HIDE DEF h
<1>5. x \in LinkType /\ x.next = d.next /\ x.prev = d.prev /\ x.list = d.list
      /\ x.free = [d.free EXCEPT ![n] = h]
  BY <1>1, <1>2, <1>4 DEF LinkType
<1>6. x = free_list_remove(k, n, s)
  <2>1. h = head_without(k, s, d.free[n])
    BY <1>1 DEF h
  <2> QED
    BY <2>1 DEF free_list_remove, d
<1> HIDE DEF x
<1>7. x.free[n] = h /\ \A m \in (0 .. MAX_PAGES) \ {n} : x.free[m] = k.free[m]
  BY <1>1, <1>2, <1>5
<1>8. \A u \in Span \ {s} :
            /\ x.next[u] = IF u = k.prev[s] THEN k.next[s] ELSE k.next[u]
            /\ x.prev[u] = IF u = k.next[s] THEN k.prev[s] ELSE k.prev[u]
  BY <1>1, <1>5
<1>9. /\ Redirects(k.next, x.next, k.prev[s], k.next[s], Span \ {s})
      /\ Redirects(k.prev, x.prev, k.next[s], k.prev[s], Span \ {s})
  BY <1>8 DEF Redirects
<1> QED
  BY <1>1, <1>3, <1>5, <1>6, <1>7, <1>9

(* unlink: as free_list_remove, with the head of a span list.              *)
LEMMA UnlinkIs ==
    ASSUME NEW k \in LinkType, NEW c \in Class, NEW s \in Span
    PROVE  LET x == unlink(k, c, s) IN
           /\ x \in LinkType /\ x.free = k.free
           /\ Redirects(k.next, x.next, k.prev[s], k.next[s], Span \ {s})
           /\ Redirects(k.prev, x.prev, k.next[s], k.prev[s], Span \ {s})
           /\ x.list[c] = IF k.prev[s] = NULL THEN k.next[s] ELSE k.list[c]
           /\ \A d \in Class \ {c} : x.list[d] = k.list[d]
<1> DEFINE y == detached(k, s)
           h == head_without(k, s, k.list[c])
           x == [y EXCEPT !.list = [@ EXCEPT ![c] = h]]
<1>1. /\ y \in LinkType /\ y.free = k.free /\ y.list = k.list
      /\ \A u \in Span \ {s} :
            /\ y.next[u] = IF u = k.prev[s] THEN k.next[s] ELSE k.next[u]
            /\ y.prev[u] = IF u = k.next[s] THEN k.prev[s] ELSE k.prev[u]
  BY DetachedIs
<1> HIDE DEF y
<1>2. /\ k.list \in [Class -> Span \cup {NULL}]
      /\ y.list \in [Class -> Span \cup {NULL}]
      /\ k.next[s] \in Span \cup {NULL}
  BY <1>1, LinkFields
<1>3. h = IF k.prev[s] = NULL THEN k.next[s] ELSE k.list[c]
  BY DEF head_without
<1>4. h \in Span \cup {NULL}
  BY <1>2, <1>3
<1> HIDE DEF h
<1>5. x \in LinkType /\ x.next = y.next /\ x.prev = y.prev /\ x.free = y.free
      /\ x.list = [y.list EXCEPT ![c] = h]
  BY <1>1, <1>2, <1>4 DEF LinkType
<1>6. x = unlink(k, c, s)
  <2>1. h = head_without(k, s, y.list[c])
    BY <1>1 DEF h
  <2> QED
    BY <2>1 DEF unlink, y
<1> HIDE DEF x
<1>7. x.list[c] = h /\ \A d \in Class \ {c} : x.list[d] = k.list[d]
  BY <1>1, <1>2, <1>5
<1>8. \A u \in Span \ {s} :
            /\ x.next[u] = IF u = k.prev[s] THEN k.next[s] ELSE k.next[u]
            /\ x.prev[u] = IF u = k.next[s] THEN k.prev[s] ELSE k.prev[u]
  BY <1>1, <1>5
<1>9. /\ Redirects(k.next, x.next, k.prev[s], k.next[s], Span \ {s})
      /\ Redirects(k.prev, x.prev, k.next[s], k.prev[s], Span \ {s})
  BY <1>8 DEF Redirects
<1> QED
  BY <1>1, <1>3, <1>5, <1>6, <1>7, <1>9

(* Span s is linked in between a and b on free list n.                     *)
Placed(k, n, s, a, b) ==
    [k EXCEPT !.next = point(point(@, s, b), a, s),
              !.prev = point(point(@, s, a), b, s),
              !.free[n] = IF a = NULL THEN s ELSE @]

(* Of all pointers only the ones to and from s change.                     *)
LinkedIn(k, x, n, s, a, b) ==
    /\ x \in LinkType /\ x.list = k.list
    /\ Redirects(k.next, x.next, a, s, Span \ {s})
    /\ Redirects(k.prev, x.prev, b, s, Span \ {s})
    /\ x.next[s] = b /\ x.prev[s] = a
    /\ x.free[n] = IF a = NULL THEN s ELSE k.free[n]
    /\ \A m \in (0 .. MAX_PAGES) \ {n} : x.free[m] = k.free[m]

LEMMA PlacedIs ==
    ASSUME NEW k \in LinkType, NEW n \in 0 .. MAX_PAGES, NEW s \in Span,
           NEW a \in Span \cup {NULL}, NEW b \in Span \cup {NULL}, a # s, b # s
    PROVE  LinkedIn(k, Placed(k, n, s, a, b), n, s, a, b)
<1> DEFINE nx == k.next
           pv == k.prev
           fr == k.free
           n1 == point(nx, s, b)
           n2 == point(n1, a, s)
           p1 == point(pv, s, a)
           p2 == point(p1, b, s)
           h == IF a = NULL THEN s ELSE fr[n]
           x == [k EXCEPT !.next = n2, !.prev = p2, !.free = [@ EXCEPT ![n] = h]]
<1>1. x = Placed(k, n, s, a, b)
  BY DEF Placed
<1>2. /\ nx \in Pointers /\ pv \in Pointers
      /\ fr \in [0 .. MAX_PAGES -> Span \cup {NULL}]
  BY LinkFields
<1> HIDE DEF nx, pv, fr
<1>3. n1 \in Pointers /\ \A u \in Span : n1[u] = IF u = s THEN b ELSE nx[u]
  BY <1>2, PointIs
<1>4. p1 \in Pointers /\ \A u \in Span : p1[u] = IF u = s THEN a ELSE pv[u]
  BY <1>2, PointIs
<1> HIDE DEF n1, p1
<1>0. /\ a \in Span \cup {NULL} /\ b \in Span \cup {NULL} /\ s \in Span \cup {NULL}
      /\ n1 \in Pointers /\ p1 \in Pointers
  BY <1>3, <1>4
<1>5. n2 \in Pointers /\ \A u \in Span : n2[u] = IF u = a THEN s ELSE n1[u]
  BY <1>0, PageHeapAssumption DEF point, Pointers
<1>6. p2 \in Pointers /\ \A u \in Span : p2[u] = IF u = b THEN s ELSE p1[u]
  BY <1>0, PageHeapAssumption DEF point, Pointers
<1> HIDE DEF n2, p2
<1>7. h \in Span \cup {NULL}
  BY <1>2
<1> HIDE DEF h
<1>8. /\ x \in LinkType /\ x.next = n2 /\ x.prev = p2 /\ x.list = k.list
      /\ x.free = [fr EXCEPT ![n] = h]
  BY <1>2, <1>5, <1>6, <1>7 DEF LinkType, fr
<1> HIDE DEF x
<1>9. x.free[n] = h /\ \A m \in (0 .. MAX_PAGES) \ {n} : x.free[m] = fr[m]
  BY <1>2, <1>8
<1>10. \A u \in Span \ {s} : /\ x.next[u] = IF u = a THEN s ELSE nx[u]
                             /\ x.prev[u] = IF u = b THEN s ELSE pv[u]
  BY <1>3, <1>4, <1>5, <1>6, <1>8
<1>11. x.next[s] = b /\ x.prev[s] = a
  BY <1>3, <1>4, <1>5, <1>6, <1>8
<1>12. /\ Redirects(nx, x.next, a, s, Span \ {s})
       /\ Redirects(pv, x.prev, b, s, Span \ {s})
  BY <1>10 DEF Redirects
<1>13. LinkedIn(k, x, n, s, a, b)
  BY <1>8, <1>9, <1>11, <1>12 DEF LinkedIn, nx, pv, fr, h
<1> QED
  BY <1>1, <1>13

(* push_front: the new span points at the old head and the head back.      *)
LEMMA PushIs ==
    ASSUME NEW k \in LinkType, NEW c \in Class, NEW s \in Span, k.list[c] # s
    PROVE  LET x == push_front(k, c, s) IN
           /\ x \in LinkType /\ x.free = k.free
           /\ \A u \in Span \ {s} : x.next[u] = k.next[u]
           /\ Redirects(k.prev, x.prev, k.list[c], s, Span \ {s})
           /\ x.next[s] = k.list[c] /\ x.prev[s] = NULL
           /\ x.list[c] = s
           /\ \A d \in Class \ {c} : x.list[d] = k.list[d]
<1> DEFINE nx == k.next
           pv == k.prev
           ls == k.list
           n1 == [nx EXCEPT ![s] = ls[c]]
           p1 == [pv EXCEPT ![s] = NULL]
           p2 == point(p1, ls[c], s)
           l1 == [ls EXCEPT ![c] = s]
           x == [k EXCEPT !.next = n1, !.prev = p2, !.list = l1]
<1>1. x = push_front(k, c, s)
  BY DEF push_front
<1>2. /\ nx \in Pointers /\ pv \in Pointers
      /\ ls \in [Class -> Span \cup {NULL}] /\ ls[c] # s
  BY LinkFields
<1> HIDE DEF nx, pv, ls
<1>3. n1 \in Pointers /\ \A u \in Span : n1[u] = IF u = s THEN ls[c] ELSE nx[u]
  BY <1>2 DEF Pointers
<1>4. p1 \in Pointers /\ \A u \in Span : p1[u] = IF u = s THEN NULL ELSE pv[u]
  BY <1>2 DEF Pointers
<1>5. /\ l1 \in [Class -> Span \cup {NULL}]
      /\ l1[c] = s /\ \A d \in Class \ {c} : l1[d] = ls[d]
  BY <1>2
<1> HIDE DEF n1, p1, l1
<1>6. p2 \in Pointers /\ \A u \in Span : p2[u] = IF u = ls[c] THEN s ELSE p1[u]
  <2>1. ls[c] \in Span \cup {NULL} /\ s \in Span \cup {NULL} /\ p1 \in Pointers
    BY <1>2, <1>4
  <2> QED
    BY <2>1, PageHeapAssumption DEF point, Pointers
<1> HIDE DEF p2
<1>7. /\ x \in LinkType /\ x.next = n1 /\ x.prev = p2 /\ x.list = l1
      /\ x.free = k.free
  BY <1>3, <1>5, <1>6 DEF LinkType
<1> HIDE DEF x
<1>8. \A u \in Span \ {s} : /\ x.next[u] = nx[u]
                            /\ x.prev[u] = IF u = ls[c] THEN s ELSE pv[u]
  BY <1>3, <1>4, <1>6, <1>7
<1>9. x.next[s] = ls[c] /\ x.prev[s] = NULL
  BY <1>2, <1>3, <1>4, <1>6, <1>7
<1>10. Redirects(pv, x.prev, ls[c], s, Span \ {s})
  BY <1>8 DEF Redirects
<1> QED
  BY <1>1, <1>5, <1>7, <1>8, <1>9, <1>10 DEF nx, pv, ls

-----------------------------------------------------------------------------
(* The free lists together: E has an entry for every span on one of them,  *)
(* with the number of the list and the start of the span.                  *)

EntriesOK(E, r) ==
    /\ E \subseteq (0 .. MAX_PAGES) \X Span \X Nat
    /\ \A e \in E : r[e[2]] = e[3]
    /\ \A e, f \in E : e[2] = f[2] \/ e[3] = f[3] => e = f

ListAt(E, n) == {e[2] : e \in {f \in E : f[1] = n}}

SpansIn(E) == {e[2] : e \in E}

Chained(k, E, r) ==
    /\ k \in LinkType
    /\ \A n \in 0 .. MAX_PAGES :
          Sorted(ListAt(E, n), r, k.next, k.prev, k.free[n])

LEMMA SortedSame ==
    ASSUME NEW F, NEW r, NEW q, NEW nx, NEW pv, NEW nx2, NEW pv2, NEW head,
           Ranked(F, r), Sorted(F, r, nx, pv, head),
           \A u \in F : nx2[u] = nx[u] /\ pv2[u] = pv[u] /\ q[u] = r[u]
    PROVE  Sorted(F, q, nx2, pv2, head)
<1>1. \A a, b : Gap(F, r, a, b) => Gap(F, q, a, b)
  BY DEF Gap
<1> QED
  BY <1>1 DEF Sorted

LEMMA EntriesRanked ==
    ASSUME NEW E, NEW r, EntriesOK(E, r), NEW n
    PROVE  ListAt(E, n) \subseteq Span /\ Ranked(ListAt(E, n), r)
<1>1. \A e \in E : e[1] \in 0 .. MAX_PAGES /\ e[2] \in Span /\ e[3] \in Nat
  BY DEF EntriesOK
<1>2. ListAt(E, n) \subseteq Span
  BY <1>1 DEF ListAt
<1>3. NULL \notin ListAt(E, n)
  BY <1>2, PageHeapAssumption
<1>4. \A u \in ListAt(E, n) : \E e \in E : e[2] = u /\ r[u] = e[3]
  BY DEF ListAt, EntriesOK
<1>5. \A u \in ListAt(E, n) : r[u] \in Nat
  BY <1>1, <1>4
<1>6. ASSUME NEW u \in ListAt(E, n), NEW v \in ListAt(E, n), r[u] = r[v]
      PROVE  u = v
  <2>1. PICK e \in E : e[2] = u /\ r[u] = e[3]
    BY <1>4
  <2>2. PICK f \in E : f[2] = v /\ r[v] = f[3]
    BY <1>4
  <2>3. e = f
    BY <1>6, <2>1, <2>2 DEF EntriesOK
  <2> QED
    BY <2>1, <2>2, <2>3
<1> QED
  BY <1>2, <1>3, <1>5, <1>6 DEF Ranked

LEMMA FewerEntries ==
    ASSUME NEW E, NEW r, EntriesOK(E, r), NEW D, D \subseteq E
    PROVE  EntriesOK(D, r)
BY DEF EntriesOK

(* free_list_remove takes one entry away.                                  *)
LEMMA TakeChained ==
    ASSUME NEW E, NEW r, EntriesOK(E, r), NEW k, Chained(k, E, r), NEW e \in E
    PROVE  LET x == free_list_remove(k, e[1], e[2])
           IN  Chained(x, E \ {e}, r) /\ Framed(k, x, SpansIn(E))
<1> DEFINE n == e[1]
           s == e[2]
           x == free_list_remove(k, n, s)
           nx == k.next
           pv == k.prev
           nx2 == x.next
           pv2 == x.prev
<1>1. n \in 0 .. MAX_PAGES /\ s \in Span /\ k \in LinkType
  BY DEF EntriesOK, Chained
<1>2. /\ x \in LinkType /\ x.list = k.list
      /\ Redirects(nx, nx2, pv[s], nx[s], Span \ {s})
      /\ Redirects(pv, pv2, nx[s], pv[s], Span \ {s})
      /\ x.free[n] = IF pv[s] = NULL THEN nx[s] ELSE k.free[n]
      /\ \A m \in (0 .. MAX_PAGES) \ {n} : x.free[m] = k.free[m]
  BY <1>1, RemoveIs
<1>3. s \in ListAt(E, n)
  BY DEF ListAt
<1>4. ListAt(E \ {e}, n) = ListAt(E, n) \ {s}
  BY DEF ListAt, EntriesOK
<1>5. \A m \in (0 .. MAX_PAGES) \ {n} : ListAt(E \ {e}, m) = ListAt(E, m)
  BY DEF ListAt
<1>6. \A m \in (0 .. MAX_PAGES) \ {n} : ListAt(E, m) \cap ListAt(E, n) = {}
  BY DEF ListAt, EntriesOK
<1>7. /\ Ranked(ListAt(E, n), r) /\ ListAt(E, n) \subseteq Span
      /\ Sorted(ListAt(E, n), r, nx, pv, k.free[n])
  BY <1>1, EntriesRanked DEF Chained
<1> HIDE DEF n, s, x, nx, pv, nx2, pv2
<1>8. Sorted(ListAt(E, n) \ {s}, r, nx2, pv2, x.free[n])
  <2>1. ListAt(E, n) \ {s} \subseteq Span \ {s}
    BY <1>7
  <2>2. Redirects(nx, nx2, pv[s], nx[s], ListAt(E, n) \ {s})
    BY <1>2, <2>1, RedirectsFewer
  <2>3. Redirects(pv, pv2, nx[s], pv[s], ListAt(E, n) \ {s})
    BY <1>2, <2>1, RedirectsFewer
  <2> QED
    BY <1>2, <1>3, <1>7, <2>2, <2>3, RemoveSorted
<1>9. /\ nx[s] \in ListAt(E, n) \cup {NULL}
      /\ pv[s] \in ListAt(E, n) \cup {NULL}
  BY <1>3, <1>7 DEF Sorted, Gap
<1>10. \A u \in Span \ ListAt(E, n) : nx2[u] = nx[u] /\ pv2[u] = pv[u]
  BY <1>2, <1>3, <1>9, PageHeapAssumption DEF Redirects
<1>11. ASSUME NEW m \in (0 .. MAX_PAGES) \ {n}
       PROVE  Sorted(ListAt(E, m), r, nx2, pv2, x.free[m])
  <2>1. /\ Ranked(ListAt(E, m), r) /\ ListAt(E, m) \subseteq Span
        /\ Sorted(ListAt(E, m), r, nx, pv, k.free[m])
    BY EntriesRanked DEF Chained, nx, pv
  <2>2. \A u \in ListAt(E, m) : nx2[u] = nx[u] /\ pv2[u] = pv[u]
    BY <1>6, <1>10, <2>1
  <2>3. Sorted(ListAt(E, m), r, nx2, pv2, k.free[m])
    BY <2>1, <2>2, SortedSame
  <2> QED
    BY <1>2, <2>3
<1>12. Chained(x, E \ {e}, r)
  BY <1>2, <1>4, <1>5, <1>8, <1>11 DEF Chained, nx2, pv2
<1>13. Framed(k, x, SpansIn(E))
  <2>1. ListAt(E, n) \subseteq SpansIn(E)
    BY DEF ListAt, SpansIn
  <2> QED
    BY <1>2, <1>10, <2>1 DEF Framed, nx, pv, nx2, pv2
<1> QED
  BY <1>12, <1>13 DEF n, s, x

Starts(record) == [u \in Span |-> record[u].start]

(* free_list_insert finds the gap and links the span in.                   *)
LEMMA InsertPlaces ==
    ASSUME NEW E, NEW record, EntriesOK(E, Starts(record)), NEW k,
           Chained(k, E, Starts(record)), NEW n \in 0 .. MAX_PAGES,
           NEW s \in Span, record[s].start \in Nat
    PROVE  \E a, b : /\ free_list_insert(k, n, s, record) = Placed(k, n, s, a, b)
                     /\ Gap(ListAt(E, n), Starts(record), a, b)
                     /\ a # NULL => Starts(record)[a] <= Starts(record)[s]
                     /\ b # NULL => Starts(record)[s] < Starts(record)[b]
<1> DEFINE r == Starts(record)
           F == ListAt(E, n)
           nx == k.next
           pv == k.prev
           first == k.free[n]
           at == along(nx, first)
           stops == {i \in DOMAIN at : at[i] = NULL \/ starts_behind(at[i], s, record)}
           i == Min(stops)
           before == IF i = 0 THEN NULL ELSE at[i - 1]
           x == record[s].start
<1>1. /\ F \subseteq Span /\ Ranked(F, r)
      /\ Sorted(F, r, nx, pv, first)
  BY EntriesRanked DEF Chained
<1>2. r[s] = x /\ \A u \in F : r[u] = record[u].start
  BY <1>1 DEF Starts
<1>4. free_list_insert(k, n, s, record) = Placed(k, n, s, before, at[i])
  BY DEF free_list_insert, Placed
<1> HIDE DEF r, F, nx, pv, first
<1>3. /\ DOMAIN at = 0 .. Cardinality(Span)
      /\ \A m \in 0 .. Cardinality(Span) : at[m] \in F \cup {NULL}
  BY <1>1, WalkSorted
<1> HIDE DEF at
<1>5. stops = {j \in DOMAIN at : at[j] = NULL \/ x < r[at[j]]}
  <2>1. \A j \in DOMAIN at : at[j] # NULL =>
            (starts_behind(at[j], s, record) <=> x < r[at[j]])
    BY <1>2, <1>3 DEF starts_behind
  <2> QED
    BY <2>1
<1> HIDE DEF stops, i, x
<1>6. x \in Nat
  BY DEF x
<1>7. /\ Gap(F, r, before, at[i])
      /\ before # NULL => r[before] <= x
      /\ at[i] # NULL => x < r[at[i]]
  <2>1. at = along(nx, first)
    BY DEF at
  <2>2. i = Min(stops)
    BY DEF i
  <2> QED
    BY <1>1, <1>5, <1>6, <2>1, <2>2, StopFound
<1> HIDE DEF before
<1> QED
  BY <1>2, <1>4, <1>7 DEF r, F

(* It adds one entry.                                                      *)
LEMMA PutChained ==
    ASSUME NEW E, NEW e, e \notin E, NEW record,
           EntriesOK(E \cup {e}, Starts(record)), NEW k,
           Chained(k, E, Starts(record))
    PROVE  LET x == free_list_insert(k, e[1], e[2], record)
           IN  /\ Chained(x, E \cup {e}, Starts(record))
               /\ Framed(k, x, SpansIn(E \cup {e}))
<1> DEFINE n == e[1]
           s == e[2]
           x == free_list_insert(k, n, s, record)
           r == Starts(record)
           F == ListAt(E, n)
           G == E \cup {e}
           nx == k.next
           pv == k.prev
           nx2 == x.next
           pv2 == x.prev
<1>1. n \in 0 .. MAX_PAGES /\ s \in Span /\ e[3] \in Nat /\ k \in LinkType
  BY DEF EntriesOK, Chained
<1>2. r[s] = e[3] /\ r[s] = record[s].start
  BY <1>1 DEF EntriesOK, Starts
<1>3. EntriesOK(E, r)
  BY FewerEntries
<1>4. \A m \in 0 .. MAX_PAGES : s \notin ListAt(E, m)
  BY DEF ListAt, EntriesOK
<1>5. ListAt(G, n) = F \cup {s}
  BY DEF ListAt
<1>6. \A m \in (0 .. MAX_PAGES) \ {n} : ListAt(G, m) = ListAt(E, m)
  BY DEF ListAt
<1>7. \A m \in (0 .. MAX_PAGES) \ {n} : ListAt(E, m) \cap F = {}
  BY DEF ListAt, EntriesOK
<1>8. Ranked(F \cup {s}, r) /\ F \subseteq Span
  BY <1>5, EntriesRanked
<1>9. ListAt(G, n) \subseteq SpansIn(G)
  BY DEF ListAt, SpansIn
<1>10. PICK a, b : /\ x = Placed(k, n, s, a, b)
                   /\ Gap(F, r, a, b)
                   /\ a # NULL => r[a] <= r[s]
                   /\ b # NULL => r[s] < r[b]
  BY <1>1, <1>2, <1>3, InsertPlaces
<1> HIDE DEF n, s, r, F
<1>11. /\ a \in F \cup {NULL} /\ b \in F \cup {NULL} /\ s \notin F /\ s # NULL
  BY <1>1, <1>4, <1>10, PageHeapAssumption DEF Gap, F
<1>12. a # NULL => r[a] < r[s]
  BY <1>8, <1>10, <1>11 DEF Ranked
<1>13. a \in Span \cup {NULL} /\ b \in Span \cup {NULL} /\ a # s /\ b # s
  BY <1>8, <1>11
<1> HIDE DEF x
<1>14. /\ x \in LinkType /\ x.list = k.list
       /\ Redirects(nx, nx2, a, s, Span \ {s})
       /\ Redirects(pv, pv2, b, s, Span \ {s})
       /\ nx2[s] = b /\ pv2[s] = a
       /\ x.free[n] = IF a = NULL THEN s ELSE k.free[n]
       /\ \A m \in (0 .. MAX_PAGES) \ {n} : x.free[m] = k.free[m]
  <2>1. LinkedIn(k, x, n, s, a, b)
    BY <1>1, <1>10, <1>13, PlacedIs
  <2> QED
    BY <2>1 DEF LinkedIn
<1> HIDE DEF nx, pv, nx2, pv2
<1>15. Sorted(F \cup {s}, r, nx2, pv2, x.free[n])
  <2>1. Sorted(F, r, nx, pv, k.free[n])
    BY <1>1 DEF Chained, F, r, nx, pv
  <2>2. F \subseteq Span \ {s}
    BY <1>8, <1>11
  <2>3. Redirects(nx, nx2, a, s, F) /\ Redirects(pv, pv2, b, s, F)
    BY <1>14, <2>2, RedirectsFewer
  <2> QED
    BY <1>8, <1>10, <1>11, <1>12, <1>14, <2>1, <2>3, InsertSorted
<1>16. \A u \in Span \ (F \cup {s}) : nx2[u] = nx[u] /\ pv2[u] = pv[u]
  <2> TAKE u \in Span \ (F \cup {s})
  <2>1. u # a /\ u # b /\ u \in Span \ {s}
    BY <1>11, PageHeapAssumption
  <2> QED
    BY <1>14, <2>1 DEF Redirects
<1>17. ASSUME NEW m \in (0 .. MAX_PAGES) \ {n}
       PROVE  Sorted(ListAt(E, m), r, nx2, pv2, x.free[m])
  <2>1. /\ Ranked(ListAt(E, m), r) /\ ListAt(E, m) \subseteq Span
        /\ Sorted(ListAt(E, m), r, nx, pv, k.free[m])
    BY <1>3, EntriesRanked DEF Chained, r, nx, pv
  <2>2. \A u \in ListAt(E, m) : u \in Span \ (F \cup {s})
    BY <1>4, <1>7, <2>1
  <2>3. \A u \in ListAt(E, m) : nx2[u] = nx[u] /\ pv2[u] = pv[u]
    BY <1>16, <2>2
  <2>4. Sorted(ListAt(E, m), r, nx2, pv2, k.free[m])
    BY <2>1, <2>3, SortedSame
  <2> QED
    BY <1>14, <2>4
<1>18. Chained(x, G, r)
  <2> HIDE DEF G
  <2> QED
    BY <1>5, <1>6, <1>14, <1>15, <1>17 DEF Chained, nx2, pv2
<1>19. Framed(k, x, SpansIn(G))
  BY <1>5, <1>9, <1>14, <1>16 DEF Framed, nx, pv, nx2, pv2
<1> QED
  BY <1>18, <1>19 DEF n, s, x, r

-----------------------------------------------------------------------------
(* Taking and putting many spans *)

AllTaken(k, S) == FoldSet(LAMBDA e, x : free_list_remove(x, e[1], e[2]), k, S)

AllPut(k, S, record) ==
    FoldSet(LAMBDA e, x : free_list_insert(x, e[1], e[2], record), k, S)

(* One step of either, and of the two operations on span lists.            *)
Relinked(how, a, e, x) ==
    CASE how = "put" -> free_list_insert(x, e[1], e[2], a)
      [] how = "take" -> free_list_remove(x, e[1], e[2])
      [] how = "push" -> push_front(x, a, e)
      [] how = "unlink" -> unlink(x, a, e)

RelinkedAll(how, record, k, s, f) ==
    IF s = {} THEN k
    ELSE LET e == CHOOSE e \in s : TRUE
         IN  Relinked(how, record, e, f[s \ {e}])

(* f gives the result for every subset of S.                               *)
IsFold(how, record, k, S, f) ==
    f = [s \in SUBSET S |-> RelinkedAll(how, record, k, s, f)]

LEMMA FoldUnique ==
    ASSUME NEW how, NEW record, NEW k, NEW S, NEW T, NEW f, NEW g,
           IsFold(how, record, k, S, f), IsFold(how, record, k, T, g)
    PROVE  \A s \in SUBSET (S \cap T) : IsFiniteSet(s) => f[s] = g[s]
<1> DEFINE U == S \cap T
           P == {s \in SUBSET U : f[s] = g[s]}
<1>1. \A s \in SUBSET U : /\ f[s] = RelinkedAll(how, record, k, s, f)
                          /\ g[s] = RelinkedAll(how, record, k, s, g)
  BY DEF IsFold
<1>2. {} \in P
  BY <1>1 DEF RelinkedAll
<1>3. ASSUME NEW s \in SUBSET U, s # {}, \A e \in s : s \ {e} \in P
      PROVE  s \in P
  <2> DEFINE e == CHOOSE e \in s : TRUE
  <2>1. e \in s
    BY <1>3
  <2>2. f[s \ {e}] = g[s \ {e}]
    BY <1>3, <2>1
  <2> QED
    BY <1>1, <1>3, <2>2 DEF RelinkedAll
<1> HIDE DEF P
<1>4. \A s \in SUBSET U : IsFiniteSet(s) => s \in P
  BY <1>2, <1>3, SubsetInduction
<1> QED
  BY <1>4 DEF P

LEMMA FoldExists ==
    ASSUME NEW how, NEW record, NEW k, NEW U
    PROVE  \A S \in SUBSET U : IsFiniteSet(S) =>
              \E f : IsFold(how, record, k, S, f)
<1> DEFINE Is(S, f) == IsFold(how, record, k, S, f)
           Step(s, f) == RelinkedAll(how, record, k, s, f)
           P == {S \in SUBSET U : \A T \in SUBSET S : \E f : Is(T, f)}
<1>0. ASSUME NEW s, NEW f, NEW g, \A e \in s : f[s \ {e}] = g[s \ {e}]
      PROVE  Step(s, f) = Step(s, g)
  <2>1. CASE s = {}
    BY <2>1 DEF RelinkedAll
  <2>2. CASE s # {}
    <3>1. (CHOOSE e \in s : TRUE) \in s
      BY <2>2
    <3> QED
      BY <1>0, <2>2, <3>1 DEF RelinkedAll
  <2> QED
    BY <2>1, <2>2
<1>1. {} \in P
  <2>1. Is({}, [s \in SUBSET {} |-> k])
    BY DEF IsFold, RelinkedAll
  <2> QED
    BY <2>1
<1>2. ASSUME NEW S \in SUBSET U, IsFiniteSet(S), S # {},
             \A x \in S : S \ {x} \in P
      PROVE  S \in P
  <2>1. ASSUME NEW T \in SUBSET S, T # S PROVE \E f : Is(T, f)
    <3>1. PICK x \in S : x \notin T
      BY <2>1
    <3>2. T \in SUBSET (S \ {x}) /\ S \ {x} \in P
      BY <3>1, <1>2
    <3> QED
      BY <3>2
  <2> DEFINE Fun(T) == CHOOSE f : Is(T, f)
             low == [s \in SUBSET S |-> Fun(s)[s]]
             f == [s \in SUBSET S |-> Step(s, low)]
  <2>2. ASSUME NEW s \in SUBSET S, s # S PROVE low[s] = Step(s, low)
    <3>1. Is(s, Fun(s))
      BY <2>1, <2>2
    <3>2. low[s] = Step(s, Fun(s))
      BY <3>1, <2>2 DEF IsFold
    <3>3. ASSUME NEW e \in s PROVE Fun(s)[s \ {e}] = low[s \ {e}]
      <4>1. s \ {e} \in SUBSET S /\ s \ {e} # S /\ IsFiniteSet(s \ {e})
        BY <1>2, FS_Subset
      <4>2. Is(s \ {e}, Fun(s \ {e}))
        BY <2>1, <4>1
      <4> HIDE DEF Fun
      <4>3. Fun(s)[s \ {e}] = Fun(s \ {e})[s \ {e}]
        BY <3>1, <4>1, <4>2, FoldUnique
      <4> QED
        BY <4>1, <4>3
    <3> HIDE DEF low, Fun
    <3>4. Step(s, Fun(s)) = Step(s, low)
      BY <1>0, <3>3
    <3> QED
      BY <3>2, <3>4
  <2>3. ASSUME NEW s \in SUBSET S PROVE f[s] = Step(s, f)
    <3>1. \A e \in s : f[s \ {e}] = low[s \ {e}]
      <4> TAKE e \in s
      <4>1. s \ {e} \in SUBSET S /\ s \ {e} # S
        OBVIOUS
      <4>2. low[s \ {e}] = Step(s \ {e}, low)
        BY <2>2, <4>1
      <4> QED
        BY <4>1, <4>2
    <3>2. f[s] = Step(s, low)
      OBVIOUS
    <3> HIDE DEF f, low
    <3>3. Step(s, f) = Step(s, low)
      BY <1>0, <3>1
    <3> QED
      BY <3>2, <3>3
  <2>4. Is(S, f)
    <3>1. f = [s \in SUBSET S |-> f[s]]
      OBVIOUS
    <3> HIDE DEF f
    <3> QED
      BY <2>3, <3>1 DEF IsFold
  <2> QED
    BY <2>1, <2>4
<1> HIDE DEF P
<1>3. \A S \in SUBSET U : IsFiniteSet(S) => S \in P
  BY <1>1, <1>2, SubsetInduction
<1> QED
  BY <1>3 DEF P

Fold(how, record, k, S) == (CHOOSE f : IsFold(how, record, k, S, f))[S]

(* The result for S is one step from the result for a set with one         *)
(* element less.                                                           *)
LEMMA FoldStep ==
    ASSUME NEW how, NEW record, NEW k, NEW S, IsFiniteSet(S)
    PROVE  /\ S = {} => Fold(how, record, k, S) = k
           /\ S # {} => \E e \in S :
                Fold(how, record, k, S) =
                    Relinked(how, record, e, Fold(how, record, k, S \ {e}))
<1> DEFINE Fun(T) == CHOOSE f : IsFold(how, record, k, T, f)
<1>1. ASSUME NEW T \in SUBSET S PROVE IsFold(how, record, k, T, Fun(T))
  <2>1. IsFiniteSet(T)
    BY FS_Subset
  <2> QED
    BY <2>1, FoldExists
<1>2. Fun(S)[S] = RelinkedAll(how, record, k, S, Fun(S))
  <2>1. IsFold(how, record, k, S, Fun(S))
    BY <1>1
  <2> HIDE DEF Fun
  <2> QED
    BY <2>1 DEF IsFold
<1>3. CASE S = {}
  BY <1>2, <1>3 DEF RelinkedAll, Fold
<1>4. CASE S # {}
  <2> DEFINE e == CHOOSE e \in S : TRUE
  <2>1. e \in S
    BY <1>4
  <2> HIDE DEF Fun
  <2>2. Fun(S)[S] = Relinked(how, record, e, Fun(S)[S \ {e}])
    BY <1>2, <1>4 DEF RelinkedAll
  <2> HIDE DEF e
  <2>3. Fun(S)[S \ {e}] = Fun(S \ {e})[S \ {e}]
    <3>1. /\ IsFold(how, record, k, S, Fun(S))
          /\ IsFold(how, record, k, S \ {e}, Fun(S \ {e}))
      BY <1>1
    <3>2. IsFiniteSet(S \ {e}) /\ S \ {e} \in SUBSET (S \cap (S \ {e}))
      BY FS_Subset
    <3> QED
      BY <3>1, <3>2, FoldUnique
  <2>4. /\ Fold(how, record, k, S) = Fun(S)[S]
        /\ Fold(how, record, k, S \ {e}) = Fun(S \ {e})[S \ {e}]
    BY DEF Fold, Fun
  <2> QED
    BY <1>4, <2>1, <2>2, <2>3, <2>4
<1> QED
  BY <1>3, <1>4

TakenAll(k, s, f) ==
    IF s = {} THEN k
    ELSE LET e == CHOOSE e \in s : TRUE
         IN  free_list_remove(f[s \ {e}], e[1], e[2])

IsTaken(k, S, f) == f = [s \in SUBSET S |-> TakenAll(k, s, f)]

LEMMA TakenIsFold ==
    ASSUME NEW k, NEW S, IsFiniteSet(S)
    PROVE  AllTaken(k, S) = Fold("take", NULL, k, S)
<1> DEFINE f == CHOOSE f : IsTaken(k, S, f)
           g == CHOOSE g : IsFold("take", NULL, k, S, g)
<1>1. AllTaken(k, S) = f[S]
  BY DEF AllTaken, FoldSet, MapThenFoldSet, IsTaken, TakenAll
<1>2. \A s, h : TakenAll(k, s, h) = RelinkedAll("take", NULL, k, s, h)
  BY DEF TakenAll, RelinkedAll, Relinked
<1>3. \A h : IsTaken(k, S, h) <=> IsFold("take", NULL, k, S, h)
  BY <1>2 DEF IsTaken, IsFold
<1>4. IsFold("take", NULL, k, S, g)
  BY FoldExists
<1>5. IsFold("take", NULL, k, S, f)
  BY <1>3, <1>4
<1> HIDE DEF f, g
<1>6. f[S] = g[S]
  BY <1>4, <1>5, FoldUnique
<1> QED
  BY <1>1, <1>6 DEF Fold, g

PutAll(k, record, s, f) ==
    IF s = {} THEN k
    ELSE LET e == CHOOSE e \in s : TRUE
         IN  free_list_insert(f[s \ {e}], e[1], e[2], record)

IsPut(k, record, S, f) == f = [s \in SUBSET S |-> PutAll(k, record, s, f)]

LEMMA PutIsFold ==
    ASSUME NEW k, NEW record, NEW S, IsFiniteSet(S)
    PROVE  AllPut(k, S, record) = Fold("put", record, k, S)
<1> DEFINE f == CHOOSE f : IsPut(k, record, S, f)
           g == CHOOSE g : IsFold("put", record, k, S, g)
<1>1. AllPut(k, S, record) = f[S]
  BY DEF AllPut, FoldSet, MapThenFoldSet, IsPut, PutAll
<1>2. \A s, h : PutAll(k, record, s, h) = RelinkedAll("put", record, k, s, h)
  BY DEF PutAll, RelinkedAll, Relinked
<1>3. \A h : IsPut(k, record, S, h) <=> IsFold("put", record, k, S, h)
  BY <1>2 DEF IsPut, IsFold
<1>4. IsFold("put", record, k, S, g)
  BY FoldExists
<1>5. IsFold("put", record, k, S, f)
  BY <1>3, <1>4
<1> HIDE DEF f, g
<1>6. f[S] = g[S]
  BY <1>4, <1>5, FoldUnique
<1> QED
  BY <1>1, <1>6 DEF Fold, g

LEMMA FramedTwice ==
    ASSUME NEW k, NEW x, NEW y, NEW V, Framed(k, x, V), Framed(x, y, V)
    PROVE  Framed(k, y, V)
BY DEF Framed

LEMMA FramedMore ==
    ASSUME NEW k, NEW x, NEW V, Framed(k, x, V), NEW W, V \subseteq W
    PROVE  Framed(k, x, W)
BY DEF Framed

(* Taking the entries of S, in whatever order.                             *)
LEMMA TakeAllChained ==
    ASSUME NEW E, NEW r, EntriesOK(E, r), NEW k, Chained(k, E, r),
           NEW S, S \subseteq E, IsFiniteSet(S)
    PROVE  LET x == AllTaken(k, S)
           IN  Chained(x, E \ S, r) /\ Framed(k, x, SpansIn(E))
<1> DEFINE x(T) == Fold("take", NULL, k, T)
           P == {T \in SUBSET S : /\ Chained(x(T), E \ T, r)
                                  /\ Framed(k, x(T), SpansIn(E))}
<1>1. {} \in P
  <2>1. x({}) = k
    BY FS_EmptySet, FoldStep
  <2>2. E \ {} = E /\ Framed(k, k, SpansIn(E))
    BY DEF Framed
  <2> QED
    BY <2>1, <2>2
<1>2. ASSUME NEW T \in SUBSET S, IsFiniteSet(T), T # {},
             \A e \in T : T \ {e} \in P
      PROVE  T \in P
  <2>1. PICK e \in T : x(T) = Relinked("take", NULL, e, x(T \ {e}))
    BY <1>2, FoldStep
  <2> DEFINE y == x(T \ {e})
             D == E \ (T \ {e})
  <2>2. Chained(y, D, r) /\ Framed(k, y, SpansIn(E))
    BY <1>2
  <2>3. x(T) = free_list_remove(y, e[1], e[2])
    BY <2>1 DEF Relinked
  <2>4. e \in D /\ D \ {e} = E \ T /\ D \subseteq E
    OBVIOUS
  <2> HIDE DEF x, D
  <2>5. EntriesOK(D, r)
    BY <2>4, FewerEntries
  <2>6. Chained(x(T), D \ {e}, r) /\ Framed(y, x(T), SpansIn(D))
    BY <2>2, <2>3, <2>4, <2>5, TakeChained
  <2>7. SpansIn(D) \subseteq SpansIn(E)
    BY <2>4 DEF SpansIn
  <2>8. Framed(k, x(T), SpansIn(E))
    BY <2>2, <2>6, <2>7, FramedTwice, FramedMore
  <2> QED
    BY <2>4, <2>6, <2>8
<1> HIDE DEF P
<1>3. S \in P
  BY <1>1, <1>2, SubsetInduction
<1>4. x(S) = AllTaken(k, S)
  BY TakenIsFold
<1> QED
  BY <1>3, <1>4 DEF P

(* Putting the entries of S, in whatever order.                            *)
LEMMA PutAllChained ==
    ASSUME NEW E, NEW S, IsFiniteSet(S), E \cap S = {}, NEW record,
           EntriesOK(E \cup S, Starts(record)), NEW k,
           Chained(k, E, Starts(record))
    PROVE  LET x == AllPut(k, S, record)
           IN  /\ Chained(x, E \cup S, Starts(record))
               /\ Framed(k, x, SpansIn(E \cup S))
<1> DEFINE x(T) == Fold("put", record, k, T)
           r == Starts(record)
           V == SpansIn(E \cup S)
           P == {T \in SUBSET S : Chained(x(T), E \cup T, r) /\ Framed(k, x(T), V)}
<1>1. {} \in P
  <2>1. x({}) = k
    BY FS_EmptySet, FoldStep
  <2>2. E \cup {} = E /\ Framed(k, k, V)
    BY DEF Framed
  <2> QED
    BY <2>1, <2>2
<1>2. ASSUME NEW T \in SUBSET S, IsFiniteSet(T), T # {},
             \A e \in T : T \ {e} \in P
      PROVE  T \in P
  <2>1. PICK e \in T : x(T) = Relinked("put", record, e, x(T \ {e}))
    BY <1>2, FoldStep
  <2> DEFINE y == x(T \ {e})
             D == E \cup (T \ {e})
  <2>2. Chained(y, D, r) /\ Framed(k, y, V)
    BY <1>2
  <2>3. x(T) = free_list_insert(y, e[1], e[2], record)
    BY <2>1 DEF Relinked
  <2>4. e \notin D /\ D \cup {e} = E \cup T /\ D \cup {e} \subseteq E \cup S
    OBVIOUS
  <2> HIDE DEF x, D
  <2>5. EntriesOK(D \cup {e}, r)
    BY <2>4, FewerEntries
  <2>6. Chained(x(T), D \cup {e}, r) /\ Framed(y, x(T), SpansIn(D \cup {e}))
    BY <2>2, <2>3, <2>4, <2>5, PutChained
  <2>7. SpansIn(D \cup {e}) \subseteq V
    BY <2>4 DEF SpansIn
  <2> HIDE DEF V
  <2>8. Framed(k, x(T), V)
    BY <2>2, <2>6, <2>7, FramedTwice, FramedMore
  <2> QED
    BY <2>4, <2>6, <2>8
<1> HIDE DEF P
<1>3. S \in P
  BY <1>1, <1>2, SubsetInduction
<1>4. x(S) = AllPut(k, S, record)
  BY PutIsFold
<1> QED
  BY <1>3, <1>4 DEF P

-----------------------------------------------------------------------------
(* The entries of a page heap *)

EntriesOf(h) ==
    UNION {{<<n, s, h.span[s].start>> : s \in h.free_lists[n]} :
              n \in 0 .. MAX_PAGES}

(* Spans that start on the same page are the same span.                    *)
LEMMA SameStart ==
    ASSUME NEW h, Good(h, {}), NEW s \in Span, NEW t \in Span,
           h.span[s].live, h.span[t].live, h.span[s].start = h.span[t].start
    PROVE  s = t
<1> DEFINE p == h.span[s].start
<1>1. /\ p \in Nat /\ h.span[s].num_pages \in Nat /\ h.span[t].num_pages \in Nat
  BY SpanFields DEF Good
<1>2. /\ p >= 1 /\ h.span[s].num_pages >= 1 /\ h.span[t].num_pages >= 1
      /\ p + h.span[s].num_pages - 1 <= NumPages
  BY DEF Good, LengthsOK
<1>3. p \in Page
  BY <1>1, <1>2, PageHeapAssumption DEF Page
<1>4. p \in PagesOf(h, s) /\ p \in PagesOf(h, t)
  BY <1>1, <1>2 DEF PagesOf
<1>5. h.page_map[p] = s /\ h.page_map[p] = t
  BY <1>3, <1>4 DEF Good, MapOK
<1> QED
  BY <1>5

LEMMA EntriesGood ==
    ASSUME NEW h, Good(h, {})
    PROVE  /\ EntriesOK(EntriesOf(h), Starts(h.span))
           /\ IsFiniteSet(EntriesOf(h))
           /\ \A n \in 0 .. MAX_PAGES : ListAt(EntriesOf(h), n) = h.free_lists[n]
           /\ \A s \in SpansIn(EntriesOf(h)) : ~HeldIn(h, s)
<1> DEFINE E == EntriesOf(h)
<1>1. /\ h \in HeapType
      /\ \A n \in 0 .. MAX_PAGES : \A s \in h.free_lists[n] :
            /\ s \in Span /\ h.span[s].live /\ h.span[s].is_free
            /\ h.span[s].num_pages = n
  BY DEF Good, ListsOK, HeapType
<1>2. ASSUME NEW e \in E
      PROVE  /\ e \in (0 .. MAX_PAGES) \X Span \X Nat
             /\ e = <<e[1], e[2], e[3]>>
             /\ h.span[e[2]].start = e[3]
             /\ e[2] \in Span /\ h.span[e[2]].live /\ h.span[e[2]].is_free
             /\ h.span[e[2]].num_pages = e[1]
             /\ e[1] \in 0 .. MAX_PAGES /\ e[2] \in h.free_lists[e[1]]
  <2>0. PICK n \in 0 .. MAX_PAGES :
            \E s \in h.free_lists[n] : e = <<n, s, h.span[s].start>>
    BY DEF EntriesOf
  <2>1. PICK s \in h.free_lists[n] : e = <<n, s, h.span[s].start>>
    BY <2>0
  <2>2. s \in Span /\ h.span[s].start \in Nat
    BY <1>1, SpanFields
  <2> QED
    BY <1>1, <2>1, <2>2
<1>3. ASSUME NEW e \in E, NEW f \in E, e[2] = f[2] \/ e[3] = f[3]
      PROVE  e = f
  <2>1. e[2] = f[2]
    BY <1>2, <1>3, SameStart
  <2>2. e[1] = f[1] /\ e[3] = f[3]
    BY <1>2, <2>1
  <2> QED
    BY <1>2, <2>1, <2>2
<1>4. \A e \in E : Starts(h.span)[e[2]] = e[3]
  BY <1>2 DEF Starts
<1>5. E \subseteq (0 .. MAX_PAGES) \X Span \X Nat
  BY <1>2
<1>6. EntriesOK(E, Starts(h.span))
  <2> HIDE DEF E
  <2> QED
    BY <1>3, <1>4, <1>5 DEF EntriesOK
<1>7. IsFiniteSet(E)
  <2> DEFINE f == [e \in E |-> e[2]]
  <2>1. f \in [E -> Span]
    BY <1>2
  <2>2. f \in Injection(E, Span)
    BY <1>3, <2>1 DEF Injection, IsInjective
  <2> HIDE DEF f
  <2> QED
    BY <2>2, SpanListsAssumption, FS_Injection
<1>8. ASSUME NEW n \in 0 .. MAX_PAGES PROVE ListAt(E, n) = h.free_lists[n]
  <2>1. ASSUME NEW s \in ListAt(E, n) PROVE s \in h.free_lists[n]
    BY <1>2 DEF ListAt
  <2>2. ASSUME NEW s \in h.free_lists[n] PROVE s \in ListAt(E, n)
    <3>1. <<n, s, h.span[s].start>> \in E
      BY DEF EntriesOf
    <3> QED
      BY <3>1 DEF ListAt
  <2> QED
    BY <2>1, <2>2
<1>9. \A s \in SpansIn(E) : ~HeldIn(h, s)
  BY <1>2 DEF SpansIn, HeldIn
<1> QED
  BY <1>6, <1>7, <1>8, <1>9

LEMMA ListedIs ==
    /\ Listed = EntriesOf(Heap) /\ Listed' = EntriesOf(Heap')
    /\ Heap.span = span /\ Heap'.span = span'
    /\ Heap.free_lists = free_lists /\ Heap'.free_lists = free_lists'
BY DEF Listed, EntriesOf, Heap

(* Spans on a span list have their pointers to themselves.                 *)
LEMMA ListedGood ==
    ASSUME IInv
    PROVE  /\ EntriesOK(Listed, Starts(span)) /\ IsFiniteSet(Listed)
           /\ \A n \in 0 .. MAX_PAGES : ListAt(Listed, n) = free_lists[n]
           /\ \A s \in Span : Held(s) => s \notin SpansIn(Listed)
<1>1. Good(Heap, {})
  BY DEF IInv
<1> QED
  BY <1>1, EntriesGood, ListedIs, HeldFields

LEMMA ListedGoodNext ==
    ASSUME IInv'
    PROVE  /\ EntriesOK(Listed', Starts(span')) /\ IsFiniteSet(Listed')
           /\ \A n \in 0 .. MAX_PAGES : ListAt(Listed', n) = free_lists'[n]
           /\ \A s \in Span : Held(s)' => s \notin SpansIn(Listed')
<1>1. Good(Heap', {})
  BY DEF IInv
<1> QED
  BY <1>1, EntriesGood, ListedIs, HeldFields

(* What a step of the page heap does to the pointers: the free lists are   *)
(* sorted again, and a span that is free neither before nor after keeps    *)
(* its pointers.                                                           *)
LEMMA RelistedChained ==
    ASSUME IInv, IInv', NEW k, Chained(k, Listed, Starts(span))
    PROVE  /\ Chained(relisted(k), Listed', Starts(span'))
           /\ Framed(k, relisted(k), SpansIn(Listed) \cup SpansIn(Listed'))
<1> DEFINE was == Listed
           is == Listed'
           r == Starts(span)
           q == Starts(span')
           M == was \cap is
           x == AllTaken(k, was \ is)
           y == AllPut(x, is \ was, span')
           V == SpansIn(was) \cup SpansIn(is)
<1>1. /\ EntriesOK(was, r) /\ IsFiniteSet(was)
      /\ EntriesOK(is, q) /\ IsFiniteSet(is)
  BY ListedGood, ListedGoodNext
<1>2. y = relisted(k)
  BY DEF relisted, AllTaken, AllPut
<1> HIDE DEF was, is, r, q
<1>3. IsFiniteSet(was \ is) /\ IsFiniteSet(is \ was)
  BY <1>1, FS_Subset
<1>4. was \ (was \ is) = M /\ was \ is \subseteq was
  OBVIOUS
<1>5. Chained(k, was, r)
  BY DEF was, r
<1>6. Chained(x, M, r) /\ Framed(k, x, SpansIn(was))
  BY <1>1, <1>3, <1>4, <1>5, TakeAllChained
<1> HIDE DEF x
<1>7. Chained(x, M, q)
  <2>1. EntriesOK(M, r) /\ EntriesOK(M, q)
    BY <1>1, FewerEntries
  <2>2. ASSUME NEW n \in 0 .. MAX_PAGES
        PROVE  Sorted(ListAt(M, n), q, x.next, x.prev, x.free[n])
    <3>1. \A u \in ListAt(M, n) : q[u] = r[u]
      BY <2>1 DEF ListAt, EntriesOK
    <3>2. /\ Ranked(ListAt(M, n), r)
          /\ Sorted(ListAt(M, n), r, x.next, x.prev, x.free[n])
      BY <1>6, <2>1, EntriesRanked DEF Chained
    <3> QED
      BY <3>1, <3>2, SortedSame
  <2> QED
    BY <1>6, <2>2 DEF Chained
<1>8. M \cap (is \ was) = {} /\ M \cup (is \ was) = is
  OBVIOUS
<1>9. Chained(y, is, q) /\ Framed(x, y, SpansIn(is))
  <2>1. q = Starts(span') /\ EntriesOK(M \cup (is \ was), q)
    BY <1>1, <1>8 DEF q
  <2> HIDE DEF M
  <2> QED
    BY <1>3, <1>7, <1>8, <2>1, PutAllChained
<1>10. Framed(k, y, V)
  <2>1. Framed(k, x, V) /\ Framed(x, y, V)
    BY <1>6, <1>9, FramedMore
  <2> QED
    BY <2>1, FramedTwice
<1> QED
  BY <1>2, <1>9, <1>10 DEF was, is, q

-----------------------------------------------------------------------------
(* Span lists: the pointers lead along a sequence *)

Nth(l, i) == IF i \in DOMAIN l THEN l[i] ELSE NULL

(* The head and the pointers follow l.  What the first span points back    *)
(* at is left open.                                                        *)
Follows(k, c, l) ==
    /\ k.list[c] = Nth(l, 1)
    /\ \A i \in DOMAIN l : /\ k.next[l[i]] = Nth(l, i + 1)
                           /\ i # 1 => k.prev[l[i]] = l[i - 1]

FirstEnds(k, l) == 1 \in DOMAIN l => k.prev[l[1]] = NULL

(* The pointers of the spans of S are the same.                            *)
SamePointers(k, x, S) ==
    \A u \in S : x.next[u] = k.next[u] /\ x.prev[u] = k.prev[u]

LEMMA FollowsSame ==
    ASSUME NEW l, NEW S, ListOf(l, S), NEW k, NEW c, NEW x,
           x.list[c] = k.list[c], SamePointers(k, x, S)
    PROVE  /\ Follows(k, c, l) => Follows(x, c, l)
           /\ FirstEnds(k, l) => FirstEnds(x, l)
<1>1. \A i \in DOMAIN l : x.next[l[i]] = k.next[l[i]] /\ x.prev[l[i]] = k.prev[l[i]]
  BY DEF ListOf, SamePointers
<1> QED
  BY <1>1 DEF Follows, FirstEnds

LEMMA NthIs ==
    ASSUME NEW l, NEW S, ListOf(l, S)
    PROVE  /\ Len(l) \in Nat /\ DOMAIN l = 1 .. Len(l)
           /\ S \subseteq Span /\ NULL \notin S
           /\ \A i \in DOMAIN l : l[i] \in S
           /\ \A i : Nth(l, i) \in S \cup {NULL}
<1>1. l \in Seq(Span) /\ {l[i] : i \in DOMAIN l} = S
  BY DEF ListOf
<1>2. Len(l) \in Nat /\ DOMAIN l = 1 .. Len(l)
  BY <1>1, LenProperties
<1>3. \A i \in DOMAIN l : l[i] \in Span
  BY <1>1, <1>2, ElementOfSeq
<1>4. S \subseteq Span /\ NULL \notin S
  BY <1>1, <1>3, PageHeapAssumption
<1> QED
  BY <1>1, <1>2, <1>4 DEF Nth

(* push_front links a span in front.                                       *)
LEMMA PushFollows ==
    ASSUME NEW l, NEW S, ListOf(l, S), NEW k \in LinkType, NEW c \in Class,
           Follows(k, c, l), NEW s \in Span, s \notin S
    PROVE  LET x == push_front(k, c, s)
           IN  /\ x \in LinkType /\ x.free = k.free
               /\ Follows(x, c, <<s>> \o l) /\ FirstEnds(x, <<s>> \o l)
               /\ \A d \in Class \ {c} : x.list[d] = k.list[d]
               /\ SamePointers(k, x, Span \ (S \cup {s}))
<1> DEFINE x == push_front(k, c, s)
           g == <<s>> \o l
           n == Len(l)
           h == k.list[c]
           nx == k.next
           pv == k.prev
           nx2 == x.next
           pv2 == x.prev
<1>1. /\ n \in Nat /\ DOMAIN l = 1 .. n /\ S \subseteq Span /\ NULL \notin S
      /\ \A i \in DOMAIN l : l[i] \in S
      /\ \A i : Nth(l, i) \in S \cup {NULL}
  BY NthIs
<1>2. h = Nth(l, 1) /\ h # s
  BY <1>1, PageHeapAssumption DEF Follows
<1>3. /\ x \in LinkType /\ x.free = k.free
      /\ \A u \in Span \ {s} : nx2[u] = nx[u]
      /\ Redirects(pv, pv2, h, s, Span \ {s})
      /\ nx2[s] = h /\ pv2[s] = NULL
      /\ x.list[c] = s
      /\ \A d \in Class \ {c} : x.list[d] = k.list[d]
  BY <1>2, PushIs
<1>4. /\ DOMAIN g = 1 .. n + 1 /\ g[1] = s
      /\ \A i \in 1 .. n : g[i + 1] = l[i]
  <2>1. <<s>> \in Seq(Span) /\ Len(<<s>>) = 1 /\ <<s>>[1] = s /\ l \in Seq(Span)
    BY DEF ListOf
  <2>2. /\ g \in Seq(Span) /\ Len(g) = 1 + n
        /\ \A i \in 1 .. 1 + n : g[i] = IF i <= 1 THEN <<s>>[i] ELSE l[i - 1]
    BY <2>1, ConcatProperties
  <2>3. DOMAIN g = 1 .. n + 1
    BY <1>1, <2>2, LenProperties
  <2> HIDE DEF g, n
  <2>4. g[1] = s
    BY <1>1, <2>1, <2>2
  <2>5. ASSUME NEW i \in 1 .. n PROVE g[i + 1] = l[i]
    <3>1. i + 1 \in 1 .. 1 + n /\ ~(i + 1 <= 1) /\ (i + 1) - 1 = i
      BY <1>1
    <3> QED
      BY <2>2, <3>1
  <2> QED
    BY <2>3, <2>4, <2>5
<1>5. /\ \A i \in 1 .. n : nx[l[i]] = Nth(l, i + 1) /\ (i # 1 => pv[l[i]] = l[i - 1])
  BY <1>1 DEF Follows
<1>6. \A i, j \in 1 .. n : l[i] = l[j] => i = j
  BY <1>1 DEF ListOf
<1> HIDE DEF x, g, n, h, nx, pv, nx2, pv2
<1>7. \A i \in 1 .. n + 1 : Nth(g, i + 1) = Nth(l, i)
  <2> TAKE i \in 1 .. n + 1
  <2>1. CASE i \in 1 .. n
    <3>1. i + 1 \in 1 .. n + 1
      BY <1>1, <2>1
    <3> QED
      BY <1>1, <1>4, <2>1, <3>1 DEF Nth
  <2>2. CASE i = n + 1
    <3>1. i + 1 \notin 1 .. n + 1 /\ i \notin 1 .. n
      BY <1>1, <2>2
    <3> QED
      BY <1>1, <1>4, <3>1 DEF Nth
  <2> QED
    BY <1>1, <2>1, <2>2
<1>8. 1 \in 1 .. n + 1 /\ \A i \in 1 .. n + 1 : i # 1 => i - 1 \in 1 .. n
  BY <1>1
<1>9. ASSUME NEW i \in 1 .. n + 1
      PROVE  /\ nx2[g[i]] = Nth(g, i + 1)
             /\ i # 1 => pv2[g[i]] = g[i - 1]
  <2>1. CASE i = 1
    BY <1>2, <1>3, <1>4, <1>7, <2>1
  <2>2. CASE i # 1
    <3>1. PICK j \in 1 .. n : i = j + 1
      BY <1>1, <1>8, <2>2
    <3>2. g[i] = l[j] /\ l[j] \in S /\ l[j] \in Span \ {s} /\ i - 1 = j
      BY <1>1, <1>4, <3>1
    <3>3. nx2[g[i]] = Nth(g, i + 1)
      BY <1>3, <1>5, <1>7, <3>1, <3>2
    <3>4. CASE j = 1
      <4>1. h = l[j]
        BY <1>1, <1>2, <3>1, <3>4 DEF Nth
      <4>2. pv2[l[j]] = s
        BY <1>3, <3>2, <4>1 DEF Redirects
      <4> QED
        BY <1>4, <3>2, <3>3, <3>4, <4>2
    <3>5. CASE j # 1
      <4>1. l[j] # h
        <5>1. 1 \in 1 .. n
          BY <1>1
        <5> QED
          BY <1>1, <1>2, <1>6, <3>5, <5>1 DEF Nth
      <4>2. pv2[l[j]] = l[j - 1]
        BY <1>3, <1>5, <3>2, <3>5, <4>1 DEF Redirects
      <4>3. j - 1 \in 1 .. n /\ (j - 1) + 1 = j
        BY <1>1, <3>5
      <4>4. g[j] = l[j - 1]
        BY <1>4, <4>3
      <4> QED
        BY <3>2, <3>3, <4>2, <4>4
    <3> QED
      BY <3>4, <3>5
  <2> QED
    BY <2>1, <2>2
<1>10. x.list[c] = Nth(g, 1)
  BY <1>3, <1>4, <1>8 DEF Nth
<1>11. Follows(x, c, g)
  BY <1>4, <1>9, <1>10 DEF Follows, nx2, pv2
<1>12. FirstEnds(x, g)
  BY <1>3, <1>4 DEF FirstEnds, pv2
<1>13. SamePointers(k, x, Span \ (S \cup {s}))
  <2>1. \A u \in Span \ (S \cup {s}) : u # h
    BY <1>1, <1>2, PageHeapAssumption
  <2> QED
    BY <1>3, <2>1 DEF SamePointers, Redirects, nx, pv, nx2, pv2
<1> QED
  BY <1>3, <1>11, <1>12, <1>13 DEF x, g

(* unlink takes a span out, wherever in the list it is.                    *)
LEMMA UnlinkFollows ==
    ASSUME NEW l, NEW S, ListOf(l, S), NEW k \in LinkType, NEW c \in Class,
           Follows(k, c, l), FirstEnds(k, l), NEW s \in S
    PROVE  LET x == unlink(k, c, s)
               g == list_without(l, s)
           IN  /\ x \in LinkType /\ x.free = k.free
               /\ Follows(x, c, g) /\ FirstEnds(x, g)
               /\ \A d \in Class \ {c} : x.list[d] = k.list[d]
               /\ SamePointers(k, x, Span \ S)
<1> DEFINE x == unlink(k, c, s)
           g == list_without(l, s)
           n == Len(l)
           nx == k.next
           pv == k.prev
           nx2 == x.next
           pv2 == x.prev
           a == pv[s]
           b == nx[s]
<1>1. /\ n \in Nat /\ DOMAIN l = 1 .. n /\ S \subseteq Span /\ NULL \notin S
      /\ \A i \in DOMAIN l : l[i] \in S
      /\ \A i : Nth(l, i) \in S \cup {NULL}
  BY NthIs
<1>2. /\ x \in LinkType /\ x.free = k.free
      /\ Redirects(nx, nx2, a, b, Span \ {s})
      /\ Redirects(pv, pv2, b, a, Span \ {s})
      /\ x.list[c] = IF a = NULL THEN b ELSE k.list[c]
      /\ \A d \in Class \ {c} : x.list[d] = k.list[d]
  BY <1>1, UnlinkIs
<1>3. DOMAIN g = 1 .. n - 1
  BY WithoutAt
<1> HIDE DEF x, g, n
<1>4. PICK j \in 1 .. n : l[j] = s /\ DropsPlace(l, g, j)
  BY WithoutAt DEF g, n
<1>5. /\ l[j] = s
      /\ \A i \in 1 .. n - 1 : /\ i < j => g[i] = l[i]
                               /\ i >= j => g[i] = l[i + 1]
  BY <1>4 DEF DropsPlace, n
<1>6. /\ \A i \in 1 .. n : nx[l[i]] = Nth(l, i + 1) /\ (i # 1 => pv[l[i]] = l[i - 1])
      /\ k.list[c] = Nth(l, 1) /\ (1 \in 1 .. n => pv[l[1]] = NULL)
  BY <1>1 DEF Follows, FirstEnds
<1>7. \A i, m \in 1 .. n : l[i] = l[m] => i = m
  BY <1>1 DEF ListOf
<1>8. j \in Nat /\ 1 <= j /\ j <= n /\ n \in Nat
  BY <1>1, <1>5
<1> HIDE DEF nx, pv, nx2, pv2
<1>9. b = Nth(l, j + 1) /\ (j # 1 => a = l[j - 1]) /\ (j = 1 => a = NULL)
  BY <1>5, <1>6
<1> HIDE DEF a, b
<1>10. \A i \in 1 .. n : /\ l[i] \in S /\ l[i] \in Span /\ l[i] # NULL
                         /\ i # j => l[i] # s
  BY <1>1, <1>5, <1>7
(* Places of g and of l.                                                   *)
<1>11. \A i \in 1 .. n : i < j => Nth(l, i) = l[i] /\ (i + 1 < j => Nth(g, i + 1) = l[i + 1])
  <2> TAKE i \in 1 .. n
  <2> HAVE i < j
  <2>1. i + 1 < j => i + 1 \in 1 .. n - 1
    BY <1>8
  <2> QED
    BY <1>1, <1>3, <1>5, <2>1 DEF Nth
<1>12. \A i \in Nat : i >= j => Nth(g, i) = Nth(l, i + 1)
  <2> TAKE i \in Nat
  <2> HAVE i >= j
  <2>1. CASE i <= n - 1
    <3>1. i \in 1 .. n - 1 /\ i + 1 \in 1 .. n
      BY <1>8, <2>1
    <3> QED
      BY <1>1, <1>3, <1>5, <3>1 DEF Nth
  <2>2. CASE ~(i <= n - 1)
    <3>1. i \notin 1 .. n - 1 /\ i + 1 \notin 1 .. n
      BY <1>8, <2>2
    <3> QED
      BY <1>1, <1>3, <3>1 DEF Nth
  <2> QED
    BY <2>1, <2>2
<1>13. x.list[c] = Nth(g, 1)
  <2>1. CASE j = 1
    BY <1>2, <1>9, <1>12, <2>1
  <2>2. CASE j # 1
    <3>1. j - 1 \in 1 .. n /\ 1 \in 1 .. n - 1 /\ 1 < j /\ 1 \in 1 .. n
      BY <1>8, <2>2
    <3>2. a # NULL
      BY <1>9, <1>10, <2>2, <3>1
    <3>3. Nth(g, 1) = l[1] /\ Nth(l, 1) = l[1]
      BY <1>1, <1>3, <1>5, <3>1 DEF Nth
    <3> QED
      BY <1>2, <1>6, <3>2, <3>3
  <2> QED
    BY <2>1, <2>2
<1>14. ASSUME NEW i \in 1 .. n - 1, i < j
       PROVE  /\ nx2[g[i]] = Nth(g, i + 1)
              /\ i # 1 => pv2[g[i]] = g[i - 1]
              /\ i = 1 => pv2[g[i]] = NULL
  <2>1. i \in 1 .. n /\ g[i] = l[i] /\ l[i] \in Span \ {s} /\ i \in Nat
    BY <1>5, <1>8, <1>10, <1>14
  <2>2. nx2[l[i]] = Nth(g, i + 1)
    <3>1. CASE i = j - 1
      <4>1. l[i] = a /\ i + 1 = j /\ j \in Nat /\ j >= j
        BY <1>8, <1>9, <2>1, <3>1
      <4>2. Nth(g, i + 1) = b
        BY <1>9, <1>12, <4>1
      <4> QED
        BY <1>2, <2>1, <4>1, <4>2 DEF Redirects
    <3>2. CASE i # j - 1
      <4>1. i + 1 < j /\ i + 1 \in 1 .. n /\ (j # 1 => j - 1 \in 1 .. n)
        BY <1>8, <1>14, <3>2
      <4>2. l[i] # a
        BY <1>7, <1>9, <1>10, <2>1, <3>2, <4>1
      <4>3. nx2[l[i]] = Nth(l, i + 1)
        BY <1>2, <1>6, <2>1, <4>2 DEF Redirects
      <4> QED
        BY <1>11, <1>14, <2>1, <4>1, <4>3
    <3> QED
      BY <3>1, <3>2
  <2>3. l[i] # b
    <3>1. CASE j + 1 \in 1 .. n
      <4>1. b = l[j + 1] /\ i # j + 1
        BY <1>1, <1>8, <1>9, <1>14, <2>1, <3>1 DEF Nth
      <4> QED
        BY <1>7, <2>1, <3>1, <4>1
    <3>2. CASE j + 1 \notin 1 .. n
      BY <1>1, <1>9, <1>10, <2>1, <3>2 DEF Nth
    <3> QED
      BY <3>1, <3>2
  <2>4. pv2[l[i]] = pv[l[i]]
    BY <1>2, <2>1, <2>3 DEF Redirects
  <2>5. i # 1 => g[i - 1] = l[i - 1]
    <3> HAVE i # 1
    <3>1. i - 1 \in 1 .. n - 1 /\ i - 1 < j
      BY <1>8, <1>14, <2>1
    <3> QED
      BY <1>5, <3>1
  <2> QED
    BY <1>6, <2>1, <2>2, <2>4, <2>5
<1>15. ASSUME NEW i \in 1 .. n - 1, i >= j
       PROVE  /\ nx2[g[i]] = Nth(g, i + 1)
              /\ i # 1 => pv2[g[i]] = g[i - 1]
              /\ i = 1 => pv2[g[i]] = NULL
  <2>1. PICK m \in 1 .. n : m = i + 1
    BY <1>8
  <2>2. /\ g[i] = l[m] /\ l[m] \in Span \ {s} /\ i \in Nat /\ m # j /\ m # 1
        /\ i = m - 1
    BY <1>5, <1>8, <1>10, <1>15, <2>1
  <2>3. nx2[l[m]] = Nth(g, i + 1)
    <3>1. l[m] # a
      <4>1. j # 1 => j - 1 \in 1 .. n /\ j - 1 # m
        BY <1>8, <1>15, <2>1
      <4> QED
        BY <1>7, <1>9, <1>10, <2>2, <4>1
    <3>2. nx2[l[m]] = Nth(l, m + 1)
      BY <1>2, <1>6, <2>2, <3>1 DEF Redirects
    <3>3. i + 1 \in Nat /\ i + 1 >= j /\ m + 1 = (i + 1) + 1
      BY <1>8, <1>15, <2>1
    <3> QED
      BY <1>12, <3>2, <3>3
  <2>4. CASE i = j
    <3>1. b = l[m]
      BY <1>1, <1>9, <2>1, <2>4 DEF Nth
    <3>2. pv2[l[m]] = a
      BY <1>2, <2>2, <3>1 DEF Redirects
    <3>3. i # 1 => g[i - 1] = l[i - 1]
      <4> HAVE i # 1
      <4>1. i - 1 \in 1 .. n - 1 /\ i - 1 < j
        BY <1>8, <2>2, <2>4
      <4> QED
        BY <1>5, <4>1
    <3> QED
      BY <1>9, <2>2, <2>3, <2>4, <3>2, <3>3
  <2>5. CASE i # j
    <3>1. i - 1 \in 1 .. n - 1 /\ i - 1 >= j /\ (i - 1) + 1 = i /\ i # 1
      BY <1>8, <1>15, <2>5
    <3>2. l[m] # b
      <4>1. CASE j + 1 \in 1 .. n
        <5>1. b = l[j + 1] /\ m # j + 1
          BY <1>1, <1>8, <1>9, <2>1, <2>5, <4>1 DEF Nth
        <5> QED
          BY <1>7, <2>1, <4>1, <5>1
      <4>2. CASE j + 1 \notin 1 .. n
        BY <1>1, <1>9, <1>10, <2>1, <4>2 DEF Nth
      <4> QED
        BY <4>1, <4>2
    <3>3. pv2[l[m]] = l[m - 1]
      BY <1>2, <1>6, <2>2, <3>2 DEF Redirects
    <3>4. g[i - 1] = l[i]
      BY <1>5, <3>1
    <3> QED
      BY <2>2, <2>3, <3>1, <3>3, <3>4
  <2> QED
    BY <2>4, <2>5
<1>16. \A i \in 1 .. n - 1 : i < j \/ i >= j
  BY <1>8
<1>17. Follows(x, c, g) /\ FirstEnds(x, g)
  BY <1>3, <1>13, <1>14, <1>15, <1>16 DEF Follows, FirstEnds, nx2, pv2
<1>18. SamePointers(k, x, Span \ S)
  <2>1. a \in S \cup {NULL} /\ b \in S \cup {NULL}
    <3>1. j # 1 => j - 1 \in 1 .. n
      BY <1>8
    <3> QED
      BY <1>1, <1>9, <3>1
  <2>2. \A u \in Span \ S : u # a /\ u # b /\ u \in Span \ {s}
    BY <2>1, PageHeapAssumption
  <2> QED
    BY <1>2, <2>2 DEF SamePointers, Redirects, nx, pv, nx2, pv2
<1> QED
  BY <1>2, <1>17, <1>18 DEF x, g

(* The destructor moves on to the next span and clears the one it leaves.  *)
LeftBehind(k, c, s) ==
    [k EXCEPT !.list[c] = k.next[s], !.next[s] = NULL, !.prev[s] = NULL]

(* s is the first span of l, g the others.                                 *)
Leads(l, s, g) == l # <<>> /\ s = Head(l) /\ g = Tail(l)

LEMMA LeaveFollows ==
    ASSUME NEW l, NEW S, ListOf(l, S), NEW s, NEW g, Leads(l, s, g),
           NEW k \in LinkType, NEW c \in Class, Follows(k, c, l)
    PROVE  LET x == LeftBehind(k, c, s)
           IN  /\ x \in LinkType /\ x.free = k.free
               /\ k.list[c] = s
               /\ Follows(x, c, g)
               /\ \A d \in Class \ {c} : x.list[d] = k.list[d]
               /\ SamePointers(k, x, Span \ S)
<1> DEFINE n == Len(l)
           x == LeftBehind(k, c, s)
           nx == k.next
           pv == k.prev
           ls == k.list
           n1 == [nx EXCEPT ![s] = NULL]
           p1 == [pv EXCEPT ![s] = NULL]
           l1 == [ls EXCEPT ![c] = nx[s]]
<1>1. /\ n \in Nat /\ DOMAIN l = 1 .. n /\ S \subseteq Span /\ NULL \notin S
      /\ \A i \in DOMAIN l : l[i] \in S
      /\ \A i : Nth(l, i) \in S \cup {NULL}
  BY NthIs
<1>2. n >= 1 /\ s = l[1] /\ DOMAIN g = 1 .. n - 1 /\ \A i \in 1 .. n - 1 : g[i] = l[i + 1]
  <2>1. l \in Seq(Span)
    BY DEF ListOf
  <2>2. n >= 1 /\ s = l[1]
    BY <1>1, <2>1, EmptySeq DEF Leads
  <2>3. /\ g \in Seq(Span) /\ Len(g) = n - 1
        /\ \A i \in 1 .. Len(g) : g[i] = l[i + 1]
    BY <2>1, HeadTailProperties DEF Leads
  <2> HIDE DEF n
  <2> QED
    BY <2>2, <2>3, LenProperties
<1>3. /\ nx \in Pointers /\ pv \in Pointers
      /\ ls \in [Class -> Span \cup {NULL}]
  BY LinkFields
<1>4. s \in S /\ s \in Span /\ nx[s] \in Span \cup {NULL}
  BY <1>1, <1>2, <1>3 DEF Pointers
<1>5. /\ \A i \in 1 .. n : nx[l[i]] = Nth(l, i + 1) /\ (i # 1 => pv[l[i]] = l[i - 1])
      /\ ls[c] = Nth(l, 1)
  BY <1>1 DEF Follows
<1>6. \A i, m \in 1 .. n : l[i] = l[m] => i = m
  BY <1>1 DEF ListOf
<1>7. x = [k EXCEPT !.list = l1, !.next = n1, !.prev = p1]
  BY DEF LeftBehind
<1> HIDE DEF n, nx, pv, ls
<1>8. /\ n1 \in Pointers /\ \A u \in Span : n1[u] = IF u = s THEN NULL ELSE nx[u]
      /\ p1 \in Pointers /\ \A u \in Span : p1[u] = IF u = s THEN NULL ELSE pv[u]
      /\ l1 \in [Class -> Span \cup {NULL}]
      /\ l1[c] = nx[s] /\ \A d \in Class \ {c} : l1[d] = ls[d]
  BY <1>3, <1>4 DEF Pointers
<1> HIDE DEF n1, p1, l1, x
<1>9. /\ x \in LinkType /\ x.free = k.free
      /\ x.next = n1 /\ x.prev = p1 /\ x.list = l1
  BY <1>7, <1>8 DEF LinkType
<1>10. \A u \in Span \ {s} : n1[u] = nx[u] /\ p1[u] = pv[u]
  BY <1>8
<1>11. ASSUME NEW i \in 1 .. n PROVE Nth(g, i) = Nth(l, i + 1)
  <2>1. CASE i <= n - 1
    <3>1. i \in 1 .. n - 1 /\ i + 1 \in 1 .. n
      BY <1>1, <2>1
    <3> QED
      BY <1>1, <1>2, <3>1 DEF Nth
  <2>2. CASE ~(i <= n - 1)
    <3>1. i \notin 1 .. n - 1 /\ i + 1 \notin 1 .. n
      BY <1>1, <2>2
    <3> QED
      BY <1>1, <1>2, <3>1 DEF Nth
  <2> QED
    BY <2>1, <2>2
<1>12. 1 \in 1 .. n /\ 1 + 1 = 2
  BY <1>1, <1>2
<1>13. x.list[c] = Nth(g, 1)
  BY <1>2, <1>5, <1>8, <1>9, <1>11, <1>12
<1>14. ls[c] = s
  BY <1>1, <1>2, <1>5, <1>12 DEF Nth
<1>15. ASSUME NEW i \in 1 .. n - 1
       PROVE  x.next[g[i]] = Nth(g, i + 1) /\ (i # 1 => x.prev[g[i]] = g[i - 1])
  <2>1. PICK m \in 1 .. n : m = i + 1
    BY <1>1
  <2>2. g[i] = l[m] /\ m # 1 /\ m - 1 = i
    BY <1>1, <1>2, <2>1
  <2>3. l[m] \in Span \ {s}
    BY <1>1, <1>2, <1>6, <1>12, <2>2
  <2>4. x.next[l[m]] = Nth(l, m + 1) /\ x.prev[l[m]] = l[i]
    BY <1>5, <1>9, <1>10, <2>2, <2>3
  <2>5. Nth(g, i + 1) = Nth(l, m + 1)
    BY <1>11, <2>1
  <2>6. i # 1 => g[i - 1] = l[i]
    <3> HAVE i # 1
    <3>1. i - 1 \in 1 .. n - 1 /\ (i - 1) + 1 = i
      BY <1>1
    <3> QED
      BY <1>2, <3>1
  <2> QED
    BY <2>2, <2>4, <2>5, <2>6
<1>16. Follows(x, c, g)
  BY <1>2, <1>13, <1>15 DEF Follows
<1>17. SamePointers(k, x, Span \ S)
  <2>1. \A u \in Span \ S : u \in Span \ {s}
    BY <1>4
  <2> QED
    BY <1>9, <1>10, <2>1 DEF SamePointers, nx, pv
<1> QED
  BY <1>8, <1>9, <1>14, <1>16, <1>17 DEF x, ls

-----------------------------------------------------------------------------
(* One step, one span *)

AllPushed(k, c, S) == FoldSet(LAMBDA s, x : push_front(x, c, s), k, S)

AllUnlinked(k, c, S) == FoldSet(LAMBDA s, x : unlink(x, c, s), k, S)

PushedAll(k, c, s, f) ==
    IF s = {} THEN k
    ELSE LET e == CHOOSE e \in s : TRUE IN push_front(f[s \ {e}], c, e)

IsPushed(k, c, S, f) == f = [s \in SUBSET S |-> PushedAll(k, c, s, f)]

UnlinkedAll(k, c, s, f) ==
    IF s = {} THEN k
    ELSE LET e == CHOOSE e \in s : TRUE IN unlink(f[s \ {e}], c, e)

IsUnlinked(k, c, S, f) == f = [s \in SUBSET S |-> UnlinkedAll(k, c, s, f)]

LEMMA FoldOne ==
    ASSUME NEW how, NEW a, NEW k, NEW s
    PROVE  /\ IsFiniteSet({}) /\ IsFiniteSet({s})
           /\ Fold(how, a, k, {}) = k
           /\ Fold(how, a, k, {s}) = Relinked(how, a, s, k)
<1>1. IsFiniteSet({}) /\ IsFiniteSet({s}) /\ {s} # {} /\ {s} \ {s} = {}
  BY FS_EmptySet, FS_Singleton
<1>2. Fold(how, a, k, {}) = k
  BY <1>1, FoldStep
<1>3. \E e \in {s} : Fold(how, a, k, {s}) =
                         Relinked(how, a, e, Fold(how, a, k, {s} \ {e}))
  BY <1>1, FoldStep
<1> QED
  BY <1>1, <1>2, <1>3

LEMMA PushedOne ==
    ASSUME NEW k, NEW c, NEW s
    PROVE  AllPushed(k, c, {}) = k /\ AllPushed(k, c, {s}) = push_front(k, c, s)
<1>1. ASSUME NEW S, IsFiniteSet(S) PROVE AllPushed(k, c, S) = Fold("push", c, k, S)
  <2> DEFINE f == CHOOSE f : IsPushed(k, c, S, f)
             g == CHOOSE g : IsFold("push", c, k, S, g)
  <2>1. AllPushed(k, c, S) = f[S]
    BY DEF AllPushed, FoldSet, MapThenFoldSet, IsPushed, PushedAll
  <2>2. \A T, h : PushedAll(k, c, T, h) = RelinkedAll("push", c, k, T, h)
    BY DEF PushedAll, RelinkedAll, Relinked
  <2>3. \A h : IsPushed(k, c, S, h) <=> IsFold("push", c, k, S, h)
    BY <2>2 DEF IsPushed, IsFold
  <2>4. IsFold("push", c, k, S, g)
    BY <1>1, FoldExists
  <2>5. IsFold("push", c, k, S, f)
    BY <2>3, <2>4
  <2> HIDE DEF f, g
  <2>6. f[S] = g[S]
    BY <1>1, <2>4, <2>5, FoldUnique
  <2> QED
    BY <2>1, <2>6 DEF Fold, g
<1>2. Relinked("push", c, s, k) = push_front(k, c, s)
  BY DEF Relinked
<1> QED
  BY <1>1, <1>2, FoldOne

LEMMA UnlinkedOne ==
    ASSUME NEW k, NEW c, NEW s
    PROVE  AllUnlinked(k, c, {}) = k /\ AllUnlinked(k, c, {s}) = unlink(k, c, s)
<1>1. ASSUME NEW S, IsFiniteSet(S)
      PROVE  AllUnlinked(k, c, S) = Fold("unlink", c, k, S)
  <2> DEFINE f == CHOOSE f : IsUnlinked(k, c, S, f)
             g == CHOOSE g : IsFold("unlink", c, k, S, g)
  <2>1. AllUnlinked(k, c, S) = f[S]
    BY DEF AllUnlinked, FoldSet, MapThenFoldSet, IsUnlinked, UnlinkedAll
  <2>2. \A T, h : UnlinkedAll(k, c, T, h) = RelinkedAll("unlink", c, k, T, h)
    BY DEF UnlinkedAll, RelinkedAll, Relinked
  <2>3. \A h : IsUnlinked(k, c, S, h) <=> IsFold("unlink", c, k, S, h)
    BY <2>2 DEF IsUnlinked, IsFold
  <2>4. IsFold("unlink", c, k, S, g)
    BY <1>1, FoldExists
  <2>5. IsFold("unlink", c, k, S, f)
    BY <2>3, <2>4
  <2> HIDE DEF f, g
  <2>6. f[S] = g[S]
    BY <1>1, <2>4, <2>5, FoldUnique
  <2> QED
    BY <2>1, <2>6 DEF Fold, g
<1>2. Relinked("unlink", c, s, k) = unlink(k, c, s)
  BY DEF Relinked
<1> QED
  BY <1>1, <1>2, FoldOne

-----------------------------------------------------------------------------
(* The inductive invariant *)

(* The free lists are sorted, and the pointers of every span list follow   *)
(* its sequence; until the destructors run, its first span points back at  *)
(* nothing.                                                                *)
LinkInv ==
    /\ Chained(Links, Listed, Starts(span))
    /\ \A c \in Class : /\ Follows(Links, c, cfl[c].span_list)
                        /\ ~tearing => FirstEnds(Links, cfl[c].span_list)

LEMMA LinksBecome ==
    ASSUME NEW k \in LinkType, BecomesLinks(k)
    PROVE  Links' = k
BY DEF BecomesLinks, LinkType, Links

(* Pointers that no free span uses may change.                             *)
LEMMA ChainedSame ==
    ASSUME NEW E, NEW r, EntriesOK(E, r), NEW k, Chained(k, E, r),
           NEW x \in LinkType, x.free = k.free, SamePointers(k, x, SpansIn(E))
    PROVE  Chained(x, E, r)
<1>1. ASSUME NEW n \in 0 .. MAX_PAGES
      PROVE  Sorted(ListAt(E, n), r, x.next, x.prev, x.free[n])
  <2>1. ListAt(E, n) \subseteq SpansIn(E)
    BY DEF ListAt, SpansIn
  <2>2. \A u \in ListAt(E, n) : x.next[u] = k.next[u] /\ x.prev[u] = k.prev[u]
    BY <2>1 DEF SamePointers
  <2>3. /\ Ranked(ListAt(E, n), r)
        /\ Sorted(ListAt(E, n), r, k.next, k.prev, k.free[n])
    BY EntriesRanked DEF Chained
  <2> QED
    BY <2>2, <2>3, SortedSame
<1> QED
  BY <1>1 DEF Chained

(* The lists of the invariant.                                             *)
LEMMA ListsAre ==
    ASSUME ListsInv, NEW c \in Class
    PROVE  /\ ListOf(cfl[c].span_list, SpanListOf(c))
           /\ \A s \in SpanListOf(c) : s \in Span /\ Held(s)
           /\ \A d \in Class \ {c} : SpanListOf(c) \cap SpanListOf(d) = {}
<1>1. cfl[c] \in ListType
  BY DEF ListsInv, ListsTyped
<1>2. ListOf(cfl[c].span_list, SpanListOf(c))
  BY <1>1 DEF ListOf, ListType, SpanListOf, ListsInv, SpanOwnership
<1> QED
  BY <1>2, Owned DEF ListsInv

LEMMA ListsAreNext ==
    ASSUME ListsInv', NEW c \in Class
    PROVE  /\ ListOf(cfl'[c].span_list, SpanListOf(c)')
           /\ \A s \in SpanListOf(c)' : s \in Span /\ Held(s)'
           /\ \A d \in Class \ {c} : SpanListOf(c)' \cap SpanListOf(d)' = {}
<1>1. cfl'[c] \in ListType
  BY DEF ListsInv, ListsTyped
<1>2. ListOf(cfl'[c].span_list, SpanListOf(c)')
  BY <1>1 DEF ListOf, ListType, SpanListOf, ListsInv, SpanOwnership
<1>3. UNION {SpanListOf(d)' : d \in Class} = {s \in Span : Held(s)'}
  BY DEF ListsInv, SpanOwnership
<1>4. \A s \in SpanListOf(c)' : s \in Span /\ Held(s)'
  BY <1>3
<1>5. \A d \in Class \ {c} : SpanListOf(c)' \cap SpanListOf(d)' = {}
  BY DEF ListsInv, SpanOwnership
<1> QED
  BY <1>2, <1>4, <1>5

(* What the page heap does leaves the pointers of held spans alone.        *)
LEMMA HeapRelinks ==
    ASSUME ListsInv, ListsInv', NEW k, Chained(k, Listed, Starts(span))
    PROVE  LET x == relisted(k)
           IN  /\ x \in LinkType /\ Chained(x, Listed', Starts(span'))
               /\ x.list = k.list
               /\ SamePointers(k, x, {u \in Span : Held(u) /\ Held(u)'})
<1> DEFINE x == relisted(k)
<1>1. IInv /\ IInv'
  BY DEF ListsInv
<1>2. /\ Chained(x, Listed', Starts(span'))
      /\ Framed(k, x, SpansIn(Listed) \cup SpansIn(Listed'))
  BY <1>1, RelistedChained
<1>3. \A u \in Span : /\ Held(u) => u \notin SpansIn(Listed)
                      /\ Held(u)' => u \notin SpansIn(Listed')
  BY <1>1, ListedGood, ListedGoodNext
<1> HIDE DEF x
<1>4. x \in LinkType
  BY <1>2 DEF Chained
<1>5. SamePointers(k, x, {u \in Span : Held(u) /\ Held(u)'})
  BY <1>2, <1>3 DEF Framed, SamePointers
<1> QED
  BY <1>2, <1>4, <1>5 DEF Framed, x

(* So a list that keeps its spans is still linked, if it was in k.         *)
LEMMA ListKept ==
    ASSUME ListsInv, ListsInv', NEW k, Chained(k, Listed, Starts(span)),
           NEW l, NEW S, ListOf(l, S), S \subseteq {u \in Span : Held(u) /\ Held(u)'},
           NEW c \in Class
    PROVE  LET x == relisted(k)
           IN  /\ Follows(k, c, l) => Follows(x, c, l)
               /\ FirstEnds(k, l) => FirstEnds(x, l)
<1> DEFINE x == relisted(k)
<1>1. x.list = k.list /\ SamePointers(k, x, {u \in Span : Held(u) /\ Held(u)'})
  BY HeapRelinks
<1>2. SamePointers(k, x, S) /\ x.list[c] = k.list[c]
  BY <1>1 DEF SamePointers
<1> HIDE DEF x
<1>3. /\ Follows(k, c, l) => Follows(x, c, l)
      /\ FirstEnds(k, l) => FirstEnds(x, l)
  BY <1>2, FollowsSame
<1> QED
  BY <1>3 DEF x

-----------------------------------------------------------------------------
(* The actions *)

(* allocate leaves its list alone or puts one new span in front of it.     *)
LEMMA AllocateLists ==
    ASSUME ListsInv, NEW c \in Class, allocate(c)
    PROVE  /\ ~tearing /\ tearing' = tearing
           /\ \A d \in Class \ {c} : cfl'[d] = cfl[d]
           /\ \/ cfl'[c].span_list = cfl[c].span_list
              \/ \E s \in Span : /\ s \notin SpanListOf(c)
                                 /\ cfl'[c].span_list = <<s>> \o cfl[c].span_list
<1>1. cfl \in [Class -> ListType] /\ cfl[c] \in ListType
  BY DEF ListsInv, ListsTyped
<1>2. ~tearing /\ tearing' = tearing
  BY DEF allocate
<1>3. ASSUME NEW s, NEW l, NEW o, NEW p, take_object(c, s, l, o, p)
      PROVE  /\ \A d \in Class \ {c} : cfl'[d] = cfl[d]
             /\ l \in ListType => cfl'[c].span_list = l.span_list
  <2>1. PICK m \in {l, [l EXCEPT !.num_free = (l.num_free +
               ((IF o.freelist = <<>> THEN populate_span(o, SizeClasses[c].size)
                 ELSE o).num_free_objects - o.num_free_objects)) - 1]} :
            cfl' = [cfl EXCEPT ![c] = m]
    BY <1>3 DEF take_object
  <2>2. cfl'[c] = m /\ \A d \in Class \ {c} : cfl'[d] = cfl[d]
    BY <1>1, <2>1
  <2>3. l \in ListType => m.span_list = l.span_list
    BY <2>1 DEF ListType
  <2> QED
    BY <2>2, <2>3
<1>4. CASE allocate_from_list(c)
  <2> DEFINE s == chosen_span(c)
             l == [cfl[c] EXCEPT !.current_span = s]
  <2>1. s # NULL /\ take_object(c, s, l, carved[s], span[s].start)
    BY <1>4 DEF allocate_from_list
  <2>2. s \in SpanListOf(c)
    BY <1>2, <2>1, ChosenSpan
  <2>3. s \in Span
    BY <2>2, Owned DEF ListsInv
  <2> HIDE DEF s
  <2>4. l \in ListType /\ l.span_list = cfl[c].span_list
    BY <1>1, <2>3 DEF ListType
  <2> QED
    BY <1>2, <1>3, <2>1, <2>4
<1>5. ASSUME NEW ret \in Span, allocate_after_fetch(c, ret)
      PROVE  /\ \A d \in Class \ {c} : cfl'[d] = cfl[d]
             /\ ret \notin SpanListOf(c)
             /\ cfl'[c].span_list = <<ret>> \o cfl[c].span_list
  <2> DEFINE size == SizeClasses[c].size
             pages == SizeClasses[c].pages
             o == [NotCarved EXCEPT !.total_objects =
                      object_count(span'[ret].num_pages, size)]
             f == <<ret>> \o cfl[c].span_list
             l == [cfl[c] EXCEPT !.span_list = f, !.current_span = ret]
  <2>0. ret # NULL
    BY PageHeapAssumption
  <2>1. /\ size # 0 /\ allocate_span(pages, size, ret)
        /\ take_object(c, ret, l, o, span'[ret].start)
    BY <1>5, <2>0 DEF allocate_after_fetch
  <2>2. size \in Sizes
    BY ConstantTypes
  <2>3. ~Held(ret)
    BY <2>0, <2>1, <2>2, FetchStep DEF ListsInv, Fetched
  <2>4. ret \notin SpanListOf(c)
    BY <2>3, Owned DEF ListsInv
  <2>5. f \in Seq(Span)
    <3>1. cfl[c].span_list \in Seq(Span) /\ <<ret>> \in Seq(Span)
      BY <1>1 DEF ListType
    <3> QED
      BY <3>1, ConcatProperties
  <2> HIDE DEF f, o
  <2>6. l \in ListType /\ l.span_list = f
    BY <1>1, <2>5 DEF ListType
  <2> HIDE DEF l
  <2> QED
    BY <1>3, <2>1, <2>4, <2>6 DEF f
<1>6. CASE allocate_after_fetch(c, NULL)
  <2>1. cfl' = [cfl EXCEPT ![c].current_span = NULL]
    BY <1>6 DEF allocate_after_fetch
  <2> QED
    BY <1>1, <1>2, <2>1 DEF ListType
<1> QED
  BY <1>2, <1>4, <1>5, <1>6 DEF allocate

LEMMA SameLists ==
    ASSUME ListsInv, ListsInv', LinkInv, NEW d \in Class,
           cfl'[d].span_list = cfl[d].span_list
    PROVE  /\ ListOf(cfl[d].span_list, SpanListOf(d))
           /\ SpanListOf(d)' = SpanListOf(d)
           /\ SpanListOf(d) \subseteq {u \in Span : Held(u) /\ Held(u)'}
<1>1. SpanListOf(d)' = SpanListOf(d)
  BY DEF SpanListOf
<1> QED
  BY <1>1, ListsAre, ListsAreNext

(* Nothing fetched, nothing released: only the page heap moves pointers.   *)
LEMMA QuietLinks ==
    ASSUME ListsInv, ListsInv', LinkInv, tearing' = tearing,
           \A d \in Class : cfl'[d].span_list = cfl[d].span_list,
           Links' = relisted(Links)
    PROVE  LinkInv'
<1>1. Chained(Links, Listed, Starts(span))
  BY DEF LinkInv
<1>2. Chained(relisted(Links), Listed', Starts(span'))
  BY <1>1, HeapRelinks
<1>3. ASSUME NEW d \in Class
      PROVE  /\ Follows(relisted(Links), d, cfl'[d].span_list)
             /\ ~tearing => FirstEnds(relisted(Links), cfl'[d].span_list)
  <2>1. /\ ListOf(cfl[d].span_list, SpanListOf(d))
        /\ SpanListOf(d) \subseteq {u \in Span : Held(u) /\ Held(u)'}
    BY SameLists
  <2>2. /\ Follows(Links, d, cfl[d].span_list)
        /\ ~tearing => FirstEnds(Links, cfl[d].span_list)
    BY DEF LinkInv
  <2> QED
    BY <1>1, <2>1, <2>2, ListKept
<1> QED
  BY <1>2, <1>3 DEF LinkInv

LEMMA AllocateLinks ==
    ASSUME ListsInv, ListsInv', LinkInv, NEW c \in Class, linked_allocate(c)
    PROVE  LinkInv'
<1> DEFINE y == relisted(Links)
           l == cfl[c].span_list
<1>1. allocate(c) /\ BecomesLinks(AllPushed(y, c, fetched(c)))
  BY DEF linked_allocate, AllPushed
<1>2. /\ ~tearing /\ tearing' = tearing /\ \A d \in Class \ {c} : cfl'[d] = cfl[d]
      /\ \/ cfl'[c].span_list = l
         \/ \E s \in Span : s \notin SpanListOf(c) /\ cfl'[c].span_list = <<s>> \o l
  BY <1>1, AllocateLists
<1>3. Range(l) = SpanListOf(c) /\ Range(cfl'[c].span_list) = SpanListOf(c)'
  BY DEF Range, SpanListOf
<1>4. Chained(Links, Listed, Starts(span))
  BY DEF LinkInv
<1>5. y \in LinkType /\ Chained(y, Listed', Starts(span'))
  BY <1>4, HeapRelinks
<1>6. CASE cfl'[c].span_list = l
  <2>1. fetched(c) = {}
    BY <1>6 DEF fetched
  <2>2. Links' = y
    BY <1>1, <1>5, <2>1, PushedOne, LinksBecome
  <2>3. \A d \in Class : cfl'[d].span_list = cfl[d].span_list
    BY <1>2, <1>6
  <2> QED
    BY <1>2, <2>2, <2>3, QuietLinks
<1>7. ASSUME NEW s \in Span, s \notin SpanListOf(c), cfl'[c].span_list = <<s>> \o l
      PROVE  LinkInv'
  <2> DEFINE S == SpanListOf(c)
             x == push_front(y, c, s)
  <2>1. ListOf(l, S) /\ \A u \in S : u \in Span /\ Held(u)
    BY ListsAre
  <2>2. ListOf(<<s>> \o l, S \cup {s})
    BY <1>7, <2>1, FrontLinks
  <2>3. SpanListOf(c)' = S \cup {s}
    BY <1>7, <2>2 DEF SpanListOf, ListOf
  <2>4. fetched(c) = {s}
    BY <1>3, <1>7, <2>3 DEF fetched
  <2>5. S \subseteq {u \in Span : Held(u) /\ Held(u)'}
    BY <2>1, <2>3, ListsAreNext
  <2>6. Follows(y, c, l)
    BY <1>4, <2>1, <2>5, ListKept DEF LinkInv
  <2> HIDE DEF y, S
  <2>7. /\ x \in LinkType /\ x.free = y.free
        /\ Follows(x, c, <<s>> \o l) /\ FirstEnds(x, <<s>> \o l)
        /\ \A d \in Class \ {c} : x.list[d] = y.list[d]
        /\ SamePointers(y, x, Span \ (S \cup {s}))
    BY <1>5, <1>7, <2>1, <2>6, PushFollows DEF S
  <2>8. Links' = x
    BY <1>1, <2>4, <2>7, PushedOne, LinksBecome
  <2> HIDE DEF x, l
  <2>9. Chained(x, Listed', Starts(span'))
    <3>1. IInv'
      BY DEF ListsInv
    <3>2. EntriesOK(Listed', Starts(span'))
      BY <3>1, ListedGoodNext
    <3>3. SpansIn(Listed') \subseteq Span \ (S \cup {s})
      <4>1. SpansIn(Listed') \subseteq Span
        BY <3>2 DEF SpansIn, EntriesOK
      <4>2. \A u \in S \cup {s} : u \in Span /\ Held(u)'
        BY <2>3, ListsAreNext
      <4> QED
        BY <3>1, <4>1, <4>2, ListedGoodNext
    <3>4. SamePointers(y, x, SpansIn(Listed'))
      BY <2>7, <3>3 DEF SamePointers
    <3> QED
      BY <1>5, <2>7, <3>2, <3>4, ChainedSame
  <2>10. ASSUME NEW d \in Class
         PROVE  Follows(x, d, cfl'[d].span_list) /\ FirstEnds(x, cfl'[d].span_list)
    <3>1. CASE d = c
      BY <1>7, <2>7, <3>1 DEF l
    <3>2. CASE d # c
      <4> DEFINE m == cfl[d].span_list
      <4>1. cfl'[d].span_list = m
        BY <1>2, <3>2
      <4>2. /\ ListOf(m, SpanListOf(d)) /\ SpanListOf(d)' = SpanListOf(d)
            /\ SpanListOf(d) \subseteq {u \in Span : Held(u) /\ Held(u)'}
        BY <4>1, SameLists
      <4>3. Follows(Links, d, m) /\ FirstEnds(Links, m)
        BY <1>2 DEF LinkInv
      <4> HIDE DEF m
      <4>4. Follows(y, d, m) /\ FirstEnds(y, m)
        BY <1>4, <4>2, <4>3, ListKept DEF y
      <4>5. SpanListOf(d) \cap (S \cup {s}) = {}
        BY <2>3, <3>2, <4>2, ListsAreNext
      <4>6. SamePointers(y, x, SpanListOf(d)) /\ x.list[d] = y.list[d]
        BY <2>7, <3>2, <4>2, <4>5 DEF SamePointers
      <4> QED
        BY <4>1, <4>2, <4>4, <4>6, FollowsSame
    <3> QED
      BY <3>1, <3>2
  <2> QED
    BY <2>8, <2>9, <2>10 DEF LinkInv
<1> QED
  BY <1>2, <1>6, <1>7

(* A list gives up a span: k has the pointers once the span is unlinked,   *)
(* and then the page heap takes the span back.                             *)
LEMMA ReleaseLinks ==
    ASSUME ListsInv, ListsInv', LinkInv, NEW c \in Class, tearing' = tearing,
           \A d \in Class \ {c} : cfl'[d].span_list = cfl[d].span_list,
           NEW k \in LinkType, k.free = Links.free,
           Follows(k, c, cfl'[c].span_list),
           ~tearing => FirstEnds(k, cfl'[c].span_list),
           \A d \in Class \ {c} : k.list[d] = Links.list[d],
           SamePointers(Links, k, Span \ SpanListOf(c)),
           SpanListOf(c)' \subseteq SpanListOf(c),
           Links' = relisted(k)
    PROVE  LinkInv'
<1>1. Chained(Links, Listed, Starts(span)) /\ IInv
  BY DEF LinkInv, ListsInv
<1>2. \A u \in SpanListOf(c) : u \in Span /\ Held(u)
  BY ListsAre
<1>3. EntriesOK(Listed, Starts(span))
  BY <1>1, ListedGood
<1>4. Chained(k, Listed, Starts(span))
  <2>1. SpansIn(Listed) \subseteq Span \ SpanListOf(c)
    <3>1. SpansIn(Listed) \subseteq Span
      BY <1>3 DEF SpansIn, EntriesOK
    <3> QED
      BY <1>1, <1>2, <3>1, ListedGood
  <2>2. SamePointers(Links, k, SpansIn(Listed))
    BY <2>1 DEF SamePointers
  <2> QED
    BY <1>1, <1>3, <2>2, ChainedSame
<1>5. Chained(relisted(k), Listed', Starts(span'))
  BY <1>4, HeapRelinks
<1>6. ASSUME NEW d \in Class
      PROVE  /\ Follows(relisted(k), d, cfl'[d].span_list)
             /\ ~tearing => FirstEnds(relisted(k), cfl'[d].span_list)
  <2> DEFINE m == cfl'[d].span_list
  <2>1. CASE d = c
    <3>1. ListOf(m, SpanListOf(c)') /\ \A u \in SpanListOf(c)' : u \in Span /\ Held(u)'
      BY <2>1, ListsAreNext
    <3>2. SpanListOf(c)' \subseteq {u \in Span : Held(u) /\ Held(u)'}
      BY <1>2, <3>1
    <3>3. Follows(k, d, m) /\ (~tearing => FirstEnds(k, m))
      BY <2>1
    <3> HIDE DEF m
    <3>4. /\ Follows(relisted(k), d, m)
          /\ ~tearing => FirstEnds(relisted(k), m)
      BY <1>4, <3>1, <3>2, <3>3, ListKept
    <3> QED
      BY <3>4 DEF m
  <2>2. CASE d # c
    <3>1. m = cfl[d].span_list
      BY <2>2
    <3>2. /\ ListOf(m, SpanListOf(d))
          /\ SpanListOf(d) \subseteq {u \in Span : Held(u) /\ Held(u)'}
      BY <3>1, SameLists
    <3>3. Follows(Links, d, m) /\ (~tearing => FirstEnds(Links, m))
      BY <3>1 DEF LinkInv
    <3>4. SpanListOf(d) \cap SpanListOf(c) = {}
      BY <2>2, ListsAre
    <3> HIDE DEF m
    <3>5. SamePointers(Links, k, SpanListOf(d)) /\ k.list[d] = Links.list[d]
      BY <2>2, <3>2, <3>4 DEF SamePointers
    <3>6. Follows(k, d, m) /\ (~tearing => FirstEnds(k, m))
      BY <3>2, <3>3, <3>5, FollowsSame
    <3>7. /\ Follows(relisted(k), d, m)
          /\ ~tearing => FirstEnds(relisted(k), m)
      BY <1>4, <3>2, <3>6, ListKept
    <3> QED
      BY <3>7 DEF m
  <2> QED
    BY <2>1, <2>2
<1> QED
  BY <1>5, <1>6 DEF LinkInv

LEMMA DeallocateLinks ==
    ASSUME ListsInv, ListsInv', LinkInv, NEW t \in Thread, linked_deallocate(t)
    PROVE  LinkInv'
<1>1. deallocate_locked(t) /\ pending[t] # NoCall /\ tearing' = tearing
  BY DEF linked_deallocate, deallocate_locked
<1>2. ~tearing
  BY <1>1 DEF ListsInv, Quiet
<1>3. PICK c \in Class : c = pending[t].class
  BY <1>1, CallTypes DEF ListsInv
<1>4. PICK s \in Span : s = pending[t].span
  BY <1>1, CallTypes DEF ListsInv
<1> DEFINE l == cfl[c].span_list
           S == SpanListOf(c)
<1>5. BecomesLinks(relisted(AllUnlinked(Links, c, released(c))))
  <2>1. BecomesLinks(relisted(AllUnlinked(Links, pending[t].class,
                                          released(pending[t].class))))
    BY DEF linked_deallocate, AllUnlinked
  <2> QED
    BY <1>3, <2>1
<1>6. c \in Class /\ s \in S
  BY <1>3, <1>4, <1>1, <1>2, CallObject
<1>7. cfl \in [Class -> ListType] /\ cfl[c] \in ListType
  BY <1>6 DEF ListsInv, ListsTyped
<1>8. /\ \A d \in Class \ {c} : cfl'[d] = cfl[d]
      /\ \/ cfl'[c].span_list = l
         \/ cfl'[c].span_list = list_without(l, s)
  <2> DEFINE m == [cfl[c] EXCEPT !.num_free = @ + 1]
  <2>1. \E o : cfl' \in {[cfl EXCEPT ![c] = unlinked(m, s, o)],
                         [cfl EXCEPT ![c] = m]}
    BY <1>3, <1>4, <1>1 DEF deallocate_locked
  <2>2. PICK o : cfl' \in {[cfl EXCEPT ![c] = unlinked(m, s, o)],
                           [cfl EXCEPT ![c] = m]}
    BY <2>1
  <2>3. m.span_list = l
    BY <1>7 DEF ListType
  <2>4. unlinked(m, s, o).span_list = list_without(l, s)
    BY <1>7 DEF unlinked, ListType
  <2> HIDE DEF m
  <2>5. /\ \A d \in Class \ {c} : cfl'[d] = cfl[d]
        /\ cfl'[c] \in {unlinked(m, s, o), m}
    BY <1>6, <1>7, <2>2
  <2> QED
    BY <2>3, <2>4, <2>5
<1>9. Range(l) = S /\ Range(cfl'[c].span_list) = SpanListOf(c)'
  BY DEF Range, SpanListOf
<1>10. Chained(Links, Listed, Starts(span)) /\ Links \in LinkType
  BY DEF LinkInv, Chained
<1>11. CASE cfl'[c].span_list = l
  <2>1. released(c) = {}
    BY <1>11 DEF released
  <2>2. Links' = relisted(Links)
    <3>1. relisted(Links) \in LinkType
      BY <1>10, HeapRelinks
    <3> QED
      BY <1>5, <2>1, <3>1, UnlinkedOne, LinksBecome
  <2>3. \A d \in Class : cfl'[d].span_list = cfl[d].span_list
    BY <1>8, <1>11
  <2> QED
    BY <1>1, <2>2, <2>3, QuietLinks
<1>12. CASE cfl'[c].span_list = list_without(l, s)
  <2> DEFINE k == unlink(Links, c, s)
  <2>1. ListOf(l, S) /\ \A u \in S : u \in Span /\ Held(u)
    BY <1>6, ListsAre
  <2>2. ListOf(list_without(l, s), S \ {s})
    BY <1>6, <2>1, WithoutLinks
  <2>3. SpanListOf(c)' = S \ {s}
    BY <1>12, <2>2 DEF SpanListOf, ListOf
  <2>4. released(c) = {s}
    BY <1>6, <1>9, <2>3 DEF released
  <2>5. Follows(Links, c, l) /\ FirstEnds(Links, l)
    BY <1>2, <1>6 DEF LinkInv
  <2>6. /\ k \in LinkType /\ k.free = Links.free
        /\ Follows(k, c, list_without(l, s)) /\ FirstEnds(k, list_without(l, s))
        /\ \A d \in Class \ {c} : k.list[d] = Links.list[d]
        /\ SamePointers(Links, k, Span \ S)
    BY <1>6, <1>10, <2>1, <2>5, UnlinkFollows
  <2>7. AllUnlinked(Links, c, released(c)) = k
    BY <2>4, UnlinkedOne
  <2> HIDE DEF k, l
  <2>8. Chained(k, Listed, Starts(span))
    <3>1. IInv
      BY DEF ListsInv
    <3>2. SpansIn(Listed) \subseteq Span
      BY <3>1, ListedGood DEF SpansIn, EntriesOK
    <3>3. SpansIn(Listed) \subseteq Span \ S
      BY <2>1, <3>1, <3>2, ListedGood
    <3>4. SamePointers(Links, k, SpansIn(Listed))
      BY <2>6, <3>3 DEF SamePointers
    <3> QED
      BY <1>10, <2>6, <3>1, <3>4, ListedGood, ChainedSame
  <2>9. Links' = relisted(k)
    <3>1. relisted(k) \in LinkType
      BY <2>8, HeapRelinks
    <3> QED
      BY <1>5, <2>7, <3>1, LinksBecome
  <2> QED
    BY <1>1, <1>6, <1>8, <1>12, <2>3, <2>6, <2>9, ReleaseLinks
<1> QED
  BY <1>8, <1>11, <1>12

LEMMA DestructorLinks ==
    ASSUME ListsInv, ListsInv', LinkInv, NEW c \in Class, linked_destructor_step(c)
    PROVE  LinkInv'
<1> DEFINE l == cfl[c].span_list
           S == SpanListOf(c)
           k == LeftBehind(Links, c, list_head[c])
<1>1. /\ tearing /\ tearing' = tearing /\ l # <<>>
      /\ cfl' = [cfl EXCEPT ![c] = IF Len(@.span_list) = 1 THEN NewList
                                   ELSE [@ EXCEPT !.span_list = Tail(l)]]
      /\ BecomesLinks(relisted(k))
  BY DEF linked_destructor_step, destructor_step, LeftBehind, Links
<1>2. cfl \in [Class -> ListType] /\ cfl[c] \in ListType /\ l \in Seq(Span)
  BY DEF ListsInv, ListsTyped, ListType
<1>3. cfl'[c].span_list = Tail(l) /\ \A d \in Class \ {c} : cfl'[d] = cfl[d]
  <2>1. CASE Len(l) = 1
    <3>1. Tail(l) = <<>>
      <4>1. Tail(l) \in Seq(Span) /\ Len(Tail(l)) = 0
        BY <1>1, <1>2, <2>1, HeadTailProperties
      <4> QED
        BY <4>1, EmptySeq
    <3>2. cfl' = [cfl EXCEPT ![c] = NewList]
      BY <1>1, <2>1
    <3> QED
      BY <1>2, <3>1, <3>2 DEF NewList
  <2>2. CASE Len(l) # 1
    <3>1. cfl' = [cfl EXCEPT ![c].span_list = Tail(l)]
      BY <1>1, <2>2
    <3> QED
      BY <1>2, <3>1 DEF ListType
  <2> QED
    BY <2>1, <2>2
<1>4. ListOf(l, S) /\ \A u \in S : u \in Span /\ Held(u)
  BY ListsAre
<1>5. /\ Chained(Links, Listed, Starts(span)) /\ Links \in LinkType
      /\ Follows(Links, c, l)
  BY DEF LinkInv, Chained
<1>6. /\ k \in LinkType /\ k.free = Links.free
      /\ Follows(k, c, Tail(l))
      /\ \A d \in Class \ {c} : k.list[d] = Links.list[d]
      /\ SamePointers(Links, k, Span \ S)
  <2> DEFINE s == list_head[c]
             h == Head(l)
             g == Tail(l)
  <2>1. ListOf(l, S) /\ Leads(l, h, g) /\ Links.list[c] = s
    BY <1>1, <1>4 DEF Leads, Links
  <2>2. s = h
    <3>1. 1 \in DOMAIN l /\ h = l[1]
      BY <1>1, <1>2, EmptySeq, LenProperties
    <3>2. Links.list[c] = Nth(l, 1)
      BY <1>5 DEF Follows
    <3> QED
      BY <2>1, <3>1, <3>2 DEF Nth
  <2> HIDE DEF s, h, g, l
  <2>3. Leads(l, s, g)
    BY <2>1, <2>2
  <2>4. /\ k \in LinkType /\ k.free = Links.free
        /\ Follows(k, c, g)
        /\ \A d \in Class \ {c} : k.list[d] = Links.list[d]
        /\ SamePointers(Links, k, Span \ S)
    BY <1>5, <2>1, <2>3, LeaveFollows DEF s
  <2> HIDE DEF k
  <2> QED
    BY <2>4 DEF g
<1>7. SpanListOf(c)' \subseteq S
  <2>1. \A i \in DOMAIN Tail(l) : i + 1 \in DOMAIN l /\ Tail(l)[i] = l[i + 1]
    BY <1>1, <1>2
  <2> HIDE DEF l
  <2>2. ASSUME NEW u \in {Tail(l)[i] : i \in DOMAIN Tail(l)}
        PROVE  u \in {l[i] : i \in DOMAIN l}
    BY <2>1
  <2> QED
    BY <1>3, <2>2 DEF SpanListOf, l
<1> HIDE DEF k, l
<1>8. Chained(k, Listed, Starts(span))
  <2>1. IInv
    BY DEF ListsInv
  <2>2. SpansIn(Listed) \subseteq Span
    BY <2>1, ListedGood DEF SpansIn, EntriesOK
  <2>3. SpansIn(Listed) \subseteq Span \ S
    BY <1>4, <2>1, <2>2, ListedGood
  <2>4. SamePointers(Links, k, SpansIn(Listed))
    BY <1>6, <2>3 DEF SamePointers
  <2> QED
    BY <1>5, <1>6, <2>1, <2>4, ListedGood, ChainedSame
<1>9. Links' = relisted(k)
  <2>1. relisted(k) \in LinkType
    BY <1>8, HeapRelinks
  <2> QED
    BY <1>1, <2>1, LinksBecome
<1> QED
  BY <1>1, <1>3, <1>6, <1>7, <1>9, ReleaseLinks

(* Lists that are all empty.                                               *)
LEMMA NothingLinked ==
    ASSUME NEW k \in LinkType, \A n \in 0 .. MAX_PAGES : k.free[n] = NULL,
           NEW r
    PROVE  /\ Chained(k, {}, r)
           /\ \A c \in Class : k.list[c] = NULL =>
                 Follows(k, c, <<>>) /\ FirstEnds(k, <<>>)
<1>1. \A n : ListAt({}, n) = {}
  BY DEF ListAt
<1>2. \A n \in 0 .. MAX_PAGES : Sorted(ListAt({}, n), r, k.next, k.prev, k.free[n])
  BY <1>1 DEF Sorted, Gap
<1>3. DOMAIN <<>> = {}
  OBVIOUS
<1> QED
  BY <1>2, <1>3 DEF Chained, Follows, FirstEnds, Nth

LEMMA UnmapLinks ==
    ASSUME ListsInv, LinkInv, linked_page_heap_destructor
    PROVE  LinkInv'
<1>1. /\ \A n \in 0 .. MAX_PAGES : free_lists'[n] = {}
      /\ \A c \in Class : cfl[c].span_list = <<>> /\ cfl' = cfl /\ tearing' = tearing
      /\ BecomesLinks([next |-> Unlinked, prev |-> Unlinked,
                       free |-> [n \in 0 .. MAX_PAGES |-> NULL],
                       list |-> list_head])
  BY DEF linked_page_heap_destructor, page_heap_destructor, destroy
<1>2. Listed' = {}
  BY <1>1 DEF Listed
<1>3. Links \in LinkType /\ \A c \in Class : Follows(Links, c, cfl[c].span_list)
  BY DEF LinkInv, Chained
<1>4. list_head \in [Class -> Span \cup {NULL}]
  BY <1>3 DEF LinkType, Links
<1>5. /\ Links' \in LinkType /\ \A n \in 0 .. MAX_PAGES : Links'.free[n] = NULL
      /\ Links'.list = list_head
  BY <1>1, <1>4 DEF BecomesLinks, Links, LinkType, Pointers, Unlinked
<1>6. ASSUME NEW c \in Class PROVE Links'.list[c] = NULL
  <2>1. Links.list[c] = Nth(<<>>, 1)
    BY <1>1, <1>3 DEF Follows
  <2> QED
    BY <1>5, <2>1 DEF Nth, Links
<1>7. /\ Chained(Links', {}, Starts(span'))
      /\ \A c \in Class : Follows(Links', c, <<>>) /\ FirstEnds(Links', <<>>)
  BY <1>5, <1>6, NothingLinked
<1> QED
  BY <1>1, <1>2, <1>7 DEF LinkInv

(* A step that moves no span leaves the pointers alone.                    *)
LEMMA StillLinked ==
    ASSUME LinkInv, UNCHANGED <<phvars, cfl, linkvars>>, ~tearing' => ~tearing
    PROVE  LinkInv'
<1>1. Links' = Links /\ Listed' = Listed /\ span' = span /\ cfl' = cfl
  BY DEF Links, Listed, phvars, vars, linkvars
<1> QED
  BY <1>1 DEF LinkInv

LEMMA InitLinks == LinkedInit => ListsInv /\ LinkInv
<1> SUFFICES ASSUME LinkedInit PROVE ListsInv /\ LinkInv
  OBVIOUS
<1>1. ListsInit
  BY DEF LinkedInit
<1>2. ListsInv
  BY <1>1, ListsInitInv
<1>3. Listed = {}
  <2>1. \A n \in 0 .. MAX_PAGES : free_lists[n] = {}
    BY <1>1 DEF ListsInit, Init
  <2> QED
    BY <2>1 DEF Listed
<1>4. /\ Links \in LinkType /\ \A n \in 0 .. MAX_PAGES : Links.free[n] = NULL
      /\ \A c \in Class : Links.list[c] = NULL
  BY DEF LinkedInit, Links, LinkType, Pointers, Unlinked
<1>5. \A c \in Class : cfl[c].span_list = <<>>
  BY <1>1 DEF ListsInit, NewList
<1>6. /\ Chained(Links, {}, Starts(span))
      /\ \A c \in Class : Follows(Links, c, <<>>) /\ FirstEnds(Links, <<>>)
  BY <1>4, NothingLinked
<1> QED
  BY <1>2, <1>3, <1>5, <1>6 DEF LinkInv

LEMMA LinkedStep == ListsInv /\ LinkInv /\ [LinkedNext]_linkedvars => ListsInv' /\ LinkInv'
<1> SUFFICES ASSUME ListsInv, LinkInv, [LinkedNext]_linkedvars
             PROVE  ListsInv' /\ LinkInv'
  OBVIOUS
<1>1. [ListsNext]_listvars
  BY DEF LinkedNext, linked_allocate, linked_deallocate, linked_destructor_step,
         linked_page_heap_destructor, ListsNext, linkedvars
<1>2. ListsInv'
  BY <1>1, ListsStep
<1>3. ASSUME NEW t \in Thread, NEW c \in Class, NEW ptr \in held[c],
             deallocate_lookup(t, c, ptr), UNCHANGED linkvars
      PROVE  LinkInv'
  <2>1. UNCHANGED <<phvars, cfl, tearing>>
    BY <1>3 DEF deallocate_lookup
  <2> QED
    BY <1>3, <2>1, StillLinked
<1>4. ASSUME begin_teardown, UNCHANGED linkvars PROVE LinkInv'
  <2>1. UNCHANGED <<phvars, cfl>> /\ ~tearing
    BY <1>4 DEF begin_teardown
  <2> QED
    BY <1>4, <2>1, StillLinked
<1>5. CASE UNCHANGED linkedvars
  <2>1. UNCHANGED <<phvars, cfl, linkvars>>
    BY <1>5 DEF linkedvars, listvars, phvars, vars
  <2>2. tearing' = tearing
    BY <1>5 DEF linkedvars, listvars
  <2> QED
    BY <1>2, <2>1, <2>2, StillLinked
<1>6. CASE LinkedNext
  BY <1>2, <1>3, <1>4, <1>6, AllocateLinks, DeallocateLinks, DestructorLinks,
     UnmapLinks DEF LinkedNext
<1> QED
  BY <1>2, <1>5, <1>6

-----------------------------------------------------------------------------
(* What the pointers show *)

LEMMA FreeListsReached == ListsInv /\ LinkInv => FreeListsLinked
<1> SUFFICES ASSUME ListsInv, LinkInv, NEW n \in 0 .. MAX_PAGES
             PROVE  LET first == free_head[n]
                    IN  /\ Reached(first) = free_lists[n]
                        /\ first # NULL => prev[first] = NULL
                        /\ BackAndForth(first)
                        /\ \A s \in free_lists[n] :
                              next[s] # NULL => span[s].start < span[next[s]].start
  BY DEF FreeListsLinked
<1> DEFINE F == free_lists[n]
           r == Starts(span)
           first == free_head[n]
<1>1. /\ EntriesOK(Listed, r) /\ ListAt(Listed, n) = F
      /\ Sorted(F, r, next, prev, first)
  <2>1. IInv /\ Chained(Links, Listed, r)
    BY DEF ListsInv, LinkInv
  <2> QED
    BY <2>1, ListedGood DEF Chained, Links
<1>2. F \subseteq Span /\ Ranked(F, r)
  BY <1>1, EntriesRanked
<1>3. \A u \in F : r[u] = span[u].start
  BY <1>2 DEF Starts
<1>4. Reached(first) = F
  BY <1>1, <1>2, AllReached DEF Reached
<1> HIDE DEF F, r, first
<1>5. first # NULL => prev[first] = NULL
  <2> HAVE first # NULL
  <2>1. first \in F /\ Gap(F, r, NULL, first)
    BY <1>1 DEF Sorted, Gap
  <2>2. Gap(F, r, prev[first], first)
    BY <1>1, <2>1 DEF Sorted
  <2> QED
    BY <1>2, <2>1, <2>2, GapBelow
<1>6. ASSUME NEW s \in F, next[s] # NULL
      PROVE  prev[next[s]] = s /\ span[s].start < span[next[s]].start
  <2>1. Gap(F, r, s, next[s]) /\ next[s] \in F /\ s # NULL
    BY <1>1, <1>2, <1>6 DEF Sorted, Gap, Ranked
  <2>2. Gap(F, r, prev[next[s]], next[s])
    BY <1>1, <2>1 DEF Sorted
  <2>3. prev[next[s]] = s
    BY <1>2, <2>1, <2>2, GapBelow
  <2>4. r[s] < r[next[s]]
    BY <1>6, <2>1 DEF Gap
  <2> QED
    BY <1>3, <2>1, <2>3, <2>4
<1> QED
  BY <1>4, <1>5, <1>6 DEF BackAndForth, F, first

(* A list has no more spans than there are.                                *)
LEMMA ListFits ==
    ASSUME NEW l, NEW S, ListOf(l, S)
    PROVE  Len(l) <= Cardinality(Span)
<1> DEFINE f == [i \in 1 .. Len(l) |-> l[i]]
<1>1. Len(l) \in Nat /\ DOMAIN l = 1 .. Len(l) /\ \A i \in DOMAIN l : l[i] \in Span
  BY NthIs
<1>2. f \in Injection(1 .. Len(l), Span)
  BY <1>1 DEF Injection, IsInjective, ListOf
<1> HIDE DEF f
<1>3. Cardinality(1 .. Len(l)) <= Cardinality(Span)
  BY <1>2, SpanListsAssumption, FS_Injection
<1>4. Cardinality(1 .. Len(l)) = Len(l)
  BY <1>1, FS_Interval
<1> QED
  BY <1>3, <1>4

(* The walk meets the spans of the list in their order, then the end.      *)
LEMMA WalkFollows ==
    ASSUME NEW l, NEW S, ListOf(l, S), NEW k, NEW c, Follows(k, c, l)
    PROVE  LET at == along(k.next, k.list[c])
           IN  \A i \in 0 .. Cardinality(Span) : at[i] = Nth(l, i + 1)
<1> DEFINE at == along(k.next, k.list[c])
           N == Cardinality(Span)
           K == {i \in Nat : i <= N => at[i] = Nth(l, i + 1)}
<1>1. /\ N \in Nat /\ at[0] = k.list[c]
      /\ \A n \in 1 .. N : at[n] = IF at[n - 1] = NULL THEN NULL
                                   ELSE k.next[at[n - 1]]
  BY Along
<1>2. /\ Len(l) \in Nat /\ DOMAIN l = 1 .. Len(l) /\ \A i \in DOMAIN l : l[i] # NULL
  BY NthIs
<1> HIDE DEF at, N
<1>3. 0 \in K
  <2>1. 0 + 1 = 1 /\ k.list[c] = Nth(l, 1)
    BY DEF Follows
  <2> QED
    BY <1>1, <2>1
<1>4. ASSUME NEW i \in Nat, i \in K PROVE i + 1 \in K
  <2> SUFFICES ASSUME i + 1 <= N PROVE at[i + 1] = Nth(l, (i + 1) + 1)
    OBVIOUS
  <2>1. /\ at[i] = Nth(l, i + 1)
        /\ at[i + 1] = IF at[i] = NULL THEN NULL ELSE k.next[at[i]]
    <3>1. i + 1 \in 1 .. N /\ (i + 1) - 1 = i /\ i <= N
      BY <1>1
    <3> QED
      BY <1>1, <1>4, <3>1
  <2>2. CASE i + 1 \in DOMAIN l
    <3>1. at[i] = l[i + 1] /\ l[i + 1] # NULL
      BY <1>2, <2>1, <2>2 DEF Nth
    <3>2. k.next[l[i + 1]] = Nth(l, (i + 1) + 1)
      BY <2>2 DEF Follows
    <3> QED
      BY <2>1, <3>1, <3>2
  <2>3. CASE i + 1 \notin DOMAIN l
    <3>1. (i + 1) + 1 \notin DOMAIN l
      BY <1>2, <2>3
    <3> QED
      BY <2>1, <2>3, <3>1 DEF Nth
  <2> QED
    BY <2>2, <2>3
<1>5. Nat \subseteq K
  <2> HIDE DEF K
  <2> QED
    BY <1>3, <1>4, NumberInduction
<1>6. \A i \in 0 .. N : i \in Nat /\ i <= N
  BY <1>1
<1> QED
  BY <1>5, <1>6 DEF at, N

LEMMA SpanListsReached == ListsInv /\ LinkInv => SpanListsLinked
<1> SUFFICES ASSUME ListsInv, LinkInv, NEW c \in Class
             PROVE  LET first == list_head[c]
                        list  == cfl[c].span_list
                        at    == along(next, first)
                    IN  /\ at[Len(list)] = NULL
                        /\ \A i \in DOMAIN list : at[i - 1] = list[i]
                        /\ BackAndForth(first)
                        /\ first # NULL /\ ~tearing => prev[first] = NULL
  BY DEF SpanListsLinked
<1> DEFINE first == list_head[c]
           list  == cfl[c].span_list
           at    == along(next, first)
           N     == Cardinality(Span)
           S     == SpanListOf(c)
<1>1. ListOf(list, S)
  BY ListsAre
<1>2. /\ Follows(Links, c, list) /\ (~tearing => FirstEnds(Links, list))
      /\ Links.next = next /\ Links.prev = prev /\ Links.list[c] = first
  BY DEF LinkInv, Links
<1>3. /\ Len(list) \in Nat /\ DOMAIN list = 1 .. Len(list)
      /\ \A i \in DOMAIN list : list[i] # NULL
  BY <1>1, NthIs
<1> HIDE DEF list, first, S
<1>4. /\ N \in Nat /\ DOMAIN at = 0 .. N /\ Len(list) <= N
      /\ \A i \in 0 .. N : at[i] = Nth(list, i + 1)
  BY <1>1, <1>2, Along, ListFits, WalkFollows
<1> HIDE DEF at, N
<1>5. at[Len(list)] = NULL
  <2>1. Len(list) \in 0 .. N /\ Len(list) + 1 \notin DOMAIN list
    BY <1>3, <1>4
  <2> QED
    BY <1>4, <2>1 DEF Nth
<1>6. ASSUME NEW i \in DOMAIN list PROVE at[i - 1] = list[i]
  <2>1. i - 1 \in 0 .. N /\ (i - 1) + 1 = i
    BY <1>3, <1>4
  <2> QED
    BY <1>4, <2>1 DEF Nth
<1>7. ASSUME NEW s \in Range(at) \ {NULL}, next[s] # NULL
      PROVE  prev[next[s]] = s
  <2>1. PICK j \in 0 .. N : s = at[j]
    BY <1>4 DEF Range
  <2>2. PICK i \in DOMAIN list : s = list[i]
    BY <1>4, <1>7, <2>1 DEF Nth
  <2>3. next[s] = Nth(list, i + 1)
    BY <1>2, <2>2 DEF Follows
  <2>4. i + 1 \in DOMAIN list /\ next[s] = list[i + 1]
    BY <1>7, <2>3 DEF Nth
  <2>5. i + 1 # 1 /\ (i + 1) - 1 = i
    BY <1>3
  <2> QED
    BY <1>2, <2>2, <2>4, <2>5 DEF Follows
<1>8. first # NULL /\ ~tearing => prev[first] = NULL
  <2> HAVE first # NULL /\ ~tearing
  <2>1. first = Nth(list, 1) /\ FirstEnds(Links, list)
    BY <1>2 DEF Follows
  <2>2. 1 \in DOMAIN list /\ first = list[1]
    BY <2>1 DEF Nth
  <2> QED
    BY <1>2, <2>1, <2>2 DEF FirstEnds
<1> QED
  BY <1>5, <1>6, <1>7, <1>8 DEF BackAndForth, Reached, at, first, list

(* Every run of the central free lists keeps the pointers of all lists     *)
(* right, though the two owners of a span share its one pair of pointers:  *)
(* whatever is fetched, released, split and merged, and also while the     *)
(* destructor walks a list and leaves pointers into freed spans behind,    *)
(* following next gives the free spans of each length, sorted by start,    *)
(* and the spans of each class, latest first, and prev leads back.         *)
THEOREM ListsStayLinked == LinkedSpec => []ListsLinked
<1>1. LinkedSpec => [](ListsInv /\ LinkInv)
  BY InitLinks, LinkedStep, PTL DEF LinkedSpec
<1>2. ListsInv /\ LinkInv => ListsLinked
  BY FreeListsReached, SpanListsReached DEF ListsLinked
<1> QED
  BY <1>1, <1>2, PTL

=============================================================================
