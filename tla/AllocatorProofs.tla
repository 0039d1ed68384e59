-------------------------- MODULE AllocatorProofs --------------------------
(***************************************************************************)
(* Proofs about Allocator, for any number of threads, CPUs and objects and *)
(* any capacities: objects are neither lost nor duplicated on their way    *)
(* through the caches, and users get what AllocatorSpec promises.          *)
(***************************************************************************)
EXTENDS Allocator, SequenceTheorems, TLAPS

-----------------------------------------------------------------------------
(* Sequences without duplicates, and the sets of their elements *)

LEMMA InRange ==
    ASSUME NEW S, NEW s \in Seq(S)
    PROVE  \A i \in 1 .. Len(s) : s[i] \in Range(s)
<1>1. DOMAIN s = 1 .. Len(s)
  BY LenProperties
<1>2. \A i \in DOMAIN s : s[i] \in Range(s)
  BY Zenon DEF Range
<1> QED
  BY <1>1, <1>2, Zenon

LEMMA RangeIndex ==
    ASSUME NEW S, NEW s \in Seq(S)
    PROVE  \A x \in Range(s) : \E i \in 1 .. Len(s) : x = s[i]
<1>1. DOMAIN s = 1 .. Len(s)
  BY LenProperties
<1>2. \A x \in Range(s) : \E i \in DOMAIN s : x = s[i]
  BY Zenon DEF Range
<1> QED
  BY <1>1, <1>2, Zenon

LEMMA InjectiveSeq ==
    ASSUME NEW S, NEW s \in Seq(S)
    PROVE  IsInjective(s) <=>
             \A i, j \in 1 .. Len(s) : s[i] = s[j] => i = j
BY LenProperties DEF IsInjective

LEMMA EmptyRange == Range(<<>>) = {} /\ IsInjective(<<>>)
BY DEF Range, IsInjective

(* t is the elements m .. n of s.                                          *)
Slice(s, t, m, n) ==
    /\ Len(t) = n - m + 1
    /\ \A i \in 1 .. n - m + 1 : t[i] = s[m + i - 1]

LEMMA SubSlice ==
    ASSUME NEW S, NEW s \in Seq(S), NEW m \in 1 .. Len(s) + 1,
           NEW n \in m - 1 .. Len(s)
    PROVE  SubSeq(s, m, n) \in Seq(S) /\ Slice(s, SubSeq(s, m, n), m, n)
<1>1. Len(s) \in Nat /\ m \in Int /\ n \in Int
  BY LenProperties
<1>2. \A i \in m .. n : i \in 1 .. Len(s)
  BY <1>1
<1>3. \A i \in m .. n : s[i] \in S
  BY <1>2, ElementOfSeq
<1>4. /\ SubSeq(s, m, n) \in Seq(S)
      /\ Len(SubSeq(s, m, n)) = IF m <= n THEN n - m + 1 ELSE 0
      /\ \A i \in 1 .. n - m + 1 : SubSeq(s, m, n)[i] = s[m + i - 1]
  BY <1>1, <1>3, SubSeqProperties
<1>5. (IF m <= n THEN n - m + 1 ELSE 0) = n - m + 1
  BY <1>1
<1> QED
  BY <1>4, <1>5 DEF Slice

(* A part of a sequence without duplicates has none either.                *)
LEMMA SliceRange ==
    ASSUME NEW S, NEW s \in Seq(S), NEW t \in Seq(S), NEW m \in 1 .. Len(s) + 1,
           NEW n \in m - 1 .. Len(s), Slice(s, t, m, n)
    PROVE  /\ \A i \in m .. n : s[i] \in Range(t)
           /\ \A x \in Range(t) : \E i \in m .. n : x = s[i]
           /\ IsInjective(s) => IsInjective(t)
<1>1. Len(s) \in Nat /\ m \in Int /\ n \in Int
  BY LenProperties
<1>2. \A i \in 1 .. n - m + 1 : t[i] = s[m + i - 1] /\ m + i - 1 \in 1 .. Len(s)
  BY <1>1 DEF Slice
<1>3. ASSUME NEW i \in m .. n PROVE s[i] \in Range(t)
  <2>1. i - m + 1 \in 1 .. n - m + 1 /\ m + (i - m + 1) - 1 = i
    BY <1>1
  <2>2. t[i - m + 1] = s[i]
    BY <1>2, <2>1
  <2> QED
    BY <2>1, <2>2, InRange, RangeIndex DEF Slice
<1>4. ASSUME NEW x \in Range(t) PROVE \E i \in m .. n : x = s[i]
  <2>1. PICK i \in 1 .. n - m + 1 : x = t[i]
    BY InRange, RangeIndex DEF Slice
  <2>2. x = s[m + i - 1] /\ m + i - 1 \in m .. n
    BY <1>1, <1>2, <2>1
  <2> QED
    BY <2>2
<1>5. ASSUME IsInjective(s) PROVE IsInjective(t)
  <2> SUFFICES ASSUME NEW i \in 1 .. n - m + 1, NEW j \in 1 .. n - m + 1,
                      t[i] = t[j]
               PROVE  i = j
    BY InjectiveSeq DEF Slice
  <2>1. s[m + i - 1] = s[m + j - 1]
    BY <1>2
  <2>2. m + i - 1 = m + j - 1
    BY <1>2, <1>5, <2>1, InjectiveSeq
  <2> QED
    BY <1>1, <2>2
<1> QED
  BY <1>3, <1>4, <1>5

(* s without its last element x.                                           *)
Popped(S, s, x, t) ==
    /\ t \in Seq(S)
    /\ Len(t) = Len(s) - 1
    /\ x \in Range(s)
    /\ x \in S
    /\ IsInjective(s) => IsInjective(t) /\ Range(t) = Range(s) \ {x}

LEMMA PopProperties ==
    ASSUME NEW S, NEW s \in Seq(S), s # <<>>
    PROVE  Popped(S, s, Top(s), Front(s))
<1> DEFINE n == Len(s)
<1>1. n \in Nat \ {0} /\ \A i \in 1 .. n : s[i] \in S
  BY EmptySeq, LenProperties
<1>2. Front(s) \in Seq(S) /\ Slice(s, Front(s), 1, n - 1)
  BY <1>1, SubSlice DEF Front
<1>3. Top(s) = s[n] /\ Top(s) \in S /\ Top(s) \in Range(s)
  BY <1>1, InRange, RangeIndex DEF Top
<1>4. /\ \A i \in 1 .. n - 1 : s[i] \in Range(Front(s))
      /\ \A x \in Range(Front(s)) : \E i \in 1 .. n - 1 : x = s[i]
      /\ IsInjective(s) => IsInjective(Front(s))
  <2>1. 1 \in 1 .. Len(s) + 1 /\ n - 1 \in 1 - 1 .. Len(s)
    BY <1>1
  <2> QED
    BY <1>2, <2>1, SliceRange
<1>5. ASSUME IsInjective(s) PROVE Range(Front(s)) = Range(s) \ {Top(s)}
  <2>1. ASSUME NEW x \in Range(Front(s)) PROVE x \in Range(s) \ {Top(s)}
    <3>1. PICK i \in 1 .. n - 1 : x = s[i]
      BY <1>4
    <3>2. i \in 1 .. n /\ i # n /\ n \in 1 .. n
      BY <1>1
    <3> QED
      BY <1>3, <1>5, <3>1, <3>2, InjectiveSeq, InRange, RangeIndex
  <2>2. ASSUME NEW x \in Range(s) \ {Top(s)} PROVE x \in Range(Front(s))
    <3>1. PICK i \in 1 .. n : x = s[i]
      BY InRange, RangeIndex
    <3>2. i \in 1 .. n - 1
      BY <1>1, <1>3, <3>1
    <3> QED
      BY <1>4, <3>1, <3>2
  <2> QED
    BY <2>1, <2>2
<1>6. Len(Front(s)) = Len(s) - 1
  BY <1>1, <1>2 DEF Slice
<1> QED
  BY <1>2, <1>3, <1>4, <1>5, <1>6 DEF Popped

(* s with x on top of it.                                                  *)
Pushed(S, s, x, t) ==
    /\ t \in Seq(S)
    /\ Len(t) = Len(s) + 1
    /\ Range(t) = Range(s) \cup {x}
    /\ IsInjective(s) /\ x \notin Range(s) => IsInjective(t)

LEMMA PushProperties ==
    ASSUME NEW S, NEW s \in Seq(S), NEW x \in S
    PROVE  Pushed(S, s, x, Append(s, x))
<1> DEFINE t == Append(s, x)
<1> DEFINE n == Len(s)
<1>1. /\ t \in Seq(S) /\ n \in Nat /\ Len(t) = n + 1
      /\ \A i \in 1 .. n : t[i] = s[i]
      /\ t[n + 1] = x
  BY AppendProperties, LenProperties
<1> HIDE DEF t
<1>2. ASSUME NEW y \in Range(t) PROVE y \in Range(s) \cup {x}
  <2>1. PICK i \in 1 .. n + 1 : y = t[i]
    BY <1>1, InRange, RangeIndex
  <2>2. i \in 1 .. n \/ i = n + 1
    BY <1>1
  <2> QED
    BY <1>1, <2>1, <2>2, InRange, RangeIndex
<1>3. ASSUME NEW y \in Range(s) \cup {x} PROVE y \in Range(t)
  <2>1. \E i \in 1 .. n + 1 : y = t[i]
    <3>1. CASE y = x
      BY <1>1, <3>1
    <3>2. CASE y \in Range(s)
      <4>1. PICK i \in 1 .. n : y = s[i]
        BY <3>2, InRange, RangeIndex
      <4> QED
        BY <1>1, <4>1
    <3> QED
      BY <3>1, <3>2
  <2> QED
    BY <1>1, <2>1, InRange, RangeIndex
<1>4. ASSUME IsInjective(s), x \notin Range(s) PROVE IsInjective(t)
  <2> SUFFICES ASSUME NEW i \in 1 .. n + 1, NEW j \in 1 .. n + 1, t[i] = t[j]
               PROVE  i = j
    BY <1>1, InjectiveSeq
  <2>1. \A k \in 1 .. n + 1 : k \in 1 .. n \/ k = n + 1
    BY <1>1
  <2>2. \A k \in 1 .. n : t[k] = s[k] /\ t[k] # x
    BY <1>1, <1>4, InRange, RangeIndex
  <2>3. i \in 1 .. n <=> j \in 1 .. n
    BY <1>1, <2>1, <2>2
  <2> QED
    BY <1>1, <1>4, <2>1, <2>2, <2>3, InjectiveSeq
<1> QED
  BY <1>1, <1>2, <1>3, <1>4 DEF Pushed, t

LEMMA TailProperties ==
    ASSUME NEW S, NEW s \in Seq(S), s # <<>>
    PROVE  Popped(S, s, Head(s), Tail(s))
<1> DEFINE n == Len(s)
<1>1. n \in Nat \ {0} /\ \A i \in 1 .. n : s[i] \in S
  BY EmptySeq, LenProperties
<1>2. 2 \in 1 .. Len(s) + 1 /\ n \in 2 - 1 .. Len(s)
  BY <1>1
<1>3. Tail(s) \in Seq(S) /\ Slice(s, Tail(s), 2, n)
  BY <1>2, SubSlice, TailIsSubSeq
<1>4. Head(s) = s[1] /\ 1 \in 1 .. n
  BY <1>1
<1>5. Head(s) \in S /\ Head(s) \in Range(s)
  BY <1>1, <1>4, InRange
<1>6. /\ \A i \in 2 .. n : s[i] \in Range(Tail(s))
      /\ \A x \in Range(Tail(s)) : \E i \in 2 .. n : x = s[i]
      /\ IsInjective(s) => IsInjective(Tail(s))
  BY <1>2, <1>3, SliceRange
<1>7. ASSUME IsInjective(s) PROVE Range(Tail(s)) = Range(s) \ {Head(s)}
  <2>1. ASSUME NEW x \in Range(Tail(s)) PROVE x \in Range(s) \ {Head(s)}
    <3>1. PICK i \in 2 .. n : x = s[i]
      BY <1>6
    <3>2. i \in 1 .. n /\ i # 1
      BY <1>1
    <3> QED
      BY <1>4, <1>7, <3>1, <3>2, InjectiveSeq, InRange
  <2>2. ASSUME NEW x \in Range(s) \ {Head(s)} PROVE x \in Range(Tail(s))
    <3>1. PICK i \in 1 .. n : x = s[i]
      BY RangeIndex
    <3>2. i \in 2 .. n
      BY <1>1, <1>4, <3>1
    <3> QED
      BY <1>6, <3>1, <3>2
  <2> QED
    BY <2>1, <2>2
<1>8. Len(Tail(s)) = Len(s) - 1
  BY <1>1, <1>3 DEF Slice
<1> QED
  BY <1>3, <1>5, <1>6, <1>7, <1>8 DEF Popped

(* s cut into p and q.                                                     *)
Cut(S, s, p, q) ==
    /\ p \in Seq(S)
    /\ q \in Seq(S)
    /\ Len(p) + Len(q) = Len(s)
    /\ Range(p) \cup Range(q) = Range(s)
    /\ IsInjective(s) => /\ IsInjective(p)
                         /\ IsInjective(q)
                         /\ Range(p) \cap Range(q) = {}

LEMMA CutProperties ==
    ASSUME NEW S, NEW s \in Seq(S), NEW k \in 0 .. Len(s)
    PROVE  /\ Cut(S, s, SubSeq(s, 1, k), SubSeq(s, k + 1, Len(s)))
           /\ Len(SubSeq(s, 1, k)) = k
<1> DEFINE n == Len(s)
<1> DEFINE p == SubSeq(s, 1, k)
<1> DEFINE q == SubSeq(s, k + 1, n)
<1>1. n \in Nat /\ k \in Nat /\ k <= n
  BY LenProperties
<1>2. /\ 1 \in 1 .. Len(s) + 1 /\ k \in 1 - 1 .. Len(s)
      /\ k + 1 \in 1 .. Len(s) + 1 /\ n \in (k + 1) - 1 .. Len(s)
  BY <1>1
<1>3. p \in Seq(S) /\ Slice(s, p, 1, k)
  BY <1>2, SubSlice
<1>4. q \in Seq(S) /\ Slice(s, q, k + 1, n)
  BY <1>2, SubSlice
<1> HIDE DEF p, q
<1>5. /\ \A i \in 1 .. k : s[i] \in Range(p)
      /\ \A x \in Range(p) : \E i \in 1 .. k : x = s[i]
      /\ IsInjective(s) => IsInjective(p)
  BY <1>2, <1>3, SliceRange
<1>6. /\ \A i \in k + 1 .. n : s[i] \in Range(q)
      /\ \A x \in Range(q) : \E i \in k + 1 .. n : x = s[i]
      /\ IsInjective(s) => IsInjective(q)
  BY <1>2, <1>4, SliceRange
<1>7. /\ \A i \in 1 .. k : i \in 1 .. n
      /\ \A i \in k + 1 .. n : i \in 1 .. n
      /\ \A i \in 1 .. n : i \in 1 .. k \/ i \in k + 1 .. n
      /\ \A i \in 1 .. k : i \notin k + 1 .. n
  BY <1>1
<1>8. Range(p) \cup Range(q) = Range(s)
  <2>1. ASSUME NEW x \in Range(s) PROVE x \in Range(p) \cup Range(q)
    <3>1. PICK i \in 1 .. n : x = s[i]
      BY RangeIndex
    <3> QED
      BY <1>5, <1>6, <1>7, <3>1
  <2>2. ASSUME NEW x \in Range(p) \cup Range(q) PROVE x \in Range(s)
    <3>1. PICK i \in 1 .. n : x = s[i]
      BY <1>5, <1>6, <1>7
    <3> QED
      BY <3>1, InRange
  <2> QED
    BY <2>1, <2>2
<1>9. ASSUME IsInjective(s) PROVE Range(p) \cap Range(q) = {}
  <2> SUFFICES ASSUME NEW x \in Range(p), x \in Range(q) PROVE FALSE
    OBVIOUS
  <2>1. PICK i \in 1 .. k : x = s[i]
    BY <1>5
  <2>2. PICK j \in k + 1 .. n : x = s[j]
    BY <1>6
  <2>3. i \in 1 .. n /\ j \in 1 .. n /\ i # j
    BY <1>1
  <2> QED
    BY <1>9, <2>1, <2>2, <2>3, InjectiveSeq
<1>10. Len(p) = k /\ Len(p) + Len(q) = n
  BY <1>1, <1>3, <1>4 DEF Slice
<1> QED
  BY <1>3, <1>4, <1>5, <1>6, <1>8, <1>9, <1>10 DEF Cut, p, q

(* s followed by t.                                                        *)
Joined(S, s, t, u) ==
    /\ u \in Seq(S)
    /\ Len(u) = Len(s) + Len(t)
    /\ Range(u) = Range(s) \cup Range(t)
    /\ IsInjective(s) /\ IsInjective(t) /\ Range(s) \cap Range(t) = {} =>
          IsInjective(u)

LEMMA JoinProperties ==
    ASSUME NEW S, NEW s \in Seq(S), NEW t \in Seq(S)
    PROVE  Joined(S, s, t, s \o t)
<1> DEFINE u == s \o t
<1> DEFINE m == Len(s)
<1> DEFINE n == Len(t)
<1>1. m \in Nat /\ n \in Nat
  BY LenProperties
<1>2. /\ u \in Seq(S)
      /\ Len(u) = m + n
      /\ \A i \in 1 .. m + n : u[i] = IF i <= m THEN s[i] ELSE t[i - m]
  BY ConcatProperties
<1> HIDE DEF u
<1>3. \A i \in 1 .. m : i \in 1 .. m + n /\ u[i] = s[i]
  BY <1>1, <1>2
<1>4. \A i \in 1 .. n : i + m \in 1 .. m + n /\ u[i + m] = t[i]
  <2> TAKE i \in 1 .. n
  <2>1. i + m \in 1 .. m + n /\ ~(i + m <= m) /\ i + m - m = i
    BY <1>1
  <2> QED
    BY <1>2, <2>1
<1>5. \A i \in 1 .. m + n :
          \/ i \in 1 .. m
          \/ \E j \in 1 .. n : i = j + m
  <2> TAKE i \in 1 .. m + n
  <2>1. i \in 1 .. m \/ (i - m \in 1 .. n /\ i = (i - m) + m)
    BY <1>1
  <2> QED
    BY <2>1
<1>6. Range(u) = Range(s) \cup Range(t)
  <2>1. ASSUME NEW x \in Range(u) PROVE x \in Range(s) \cup Range(t)
    <3>1. PICK i \in 1 .. m + n : x = u[i]
      BY <1>2, RangeIndex
    <3>2. CASE i \in 1 .. m
      BY <1>3, <3>1, <3>2, InRange
    <3>3. CASE \E j \in 1 .. n : i = j + m
      <4>1. PICK j \in 1 .. n : i = j + m
        BY <3>3
      <4> QED
        BY <1>4, <3>1, <4>1, InRange
    <3> QED
      BY <1>5, <3>2, <3>3
  <2>2. ASSUME NEW x \in Range(s) PROVE x \in Range(u)
    <3>1. PICK i \in 1 .. m : x = s[i]
      BY RangeIndex
    <3> QED
      BY <1>2, <1>3, <3>1, InRange
  <2>3. ASSUME NEW x \in Range(t) PROVE x \in Range(u)
    <3>1. PICK i \in 1 .. n : x = t[i]
      BY RangeIndex
    <3> QED
      BY <1>2, <1>4, <3>1, InRange
  <2> QED
    BY <2>1, <2>2, <2>3
<1>7. ASSUME IsInjective(s), IsInjective(t), Range(s) \cap Range(t) = {},
             NEW i \in 1 .. m + n, NEW j \in 1 .. m + n, u[i] = u[j]
      PROVE  i = j
  <2>1. \A a \in 1 .. m : u[a] = s[a] /\ u[a] \in Range(s)
    BY <1>3, InRange
  <2>2. \A a \in 1 .. n : u[a + m] = t[a] /\ u[a + m] \in Range(t)
    BY <1>4, InRange
  <2>3. CASE i \in 1 .. m /\ j \in 1 .. m
    BY <1>7, <2>1, <2>3, InjectiveSeq
  <2>4. CASE i \notin 1 .. m /\ j \notin 1 .. m
    <3>1. PICK a \in 1 .. n : i = a + m
      BY <1>5, <2>4
    <3>2. PICK b \in 1 .. n : j = b + m
      BY <1>5, <2>4
    <3>3. t[a] = t[b]
      BY <1>7, <2>2, <3>1, <3>2
    <3> QED
      BY <1>7, <3>1, <3>2, <3>3, InjectiveSeq
  <2>5. CASE i \in 1 .. m <=> j \notin 1 .. m
    <3>1. \A a \in 1 .. m + n : a \notin 1 .. m => u[a] \in Range(t)
      BY <1>5, <2>2
    <3> QED
      BY <1>7, <2>1, <2>5, <3>1
  <2> QED
    BY <2>3, <2>4, <2>5
<1> QED
  BY <1>2, <1>6, <1>7, InjectiveSeq DEF Joined, u

-----------------------------------------------------------------------------
(* Types, and what a thread has in hand at each point of its call: the     *)
(* local mem holds an object exactly while a result is waiting to be       *)
(* returned or an argument to be put away, and the local batch is empty    *)
(* where the code goes on as if it were.                                   *)

NoResult == {"idle", "fast_pop", "refill", "allocate_batch", "refilled"}
EmptyHanded == {"idle", "fast_pop", "refill", "fast_push", "push_again"}

InHand(t) ==
    /\ pc[t] \in NoResult <=> mem[t] = NULL
    /\ pc[t] \in EmptyHanded => batch[t] = <<>>

Typed == TypeOK /\ \A t \in Thread : InHand(t)

LEMMA InitTyped == Init => Typed
BY AllocatorAssumption, TransferCacheAssumption, EmptySeq
   DEF Init, Typed, TypeOK, InHand, NoResult, EmptyHanded, Label

(* The highest CPU of a mask is a natural number, so there are as many     *)
(* slabs as that, and one.                                                 *)
LEMMA SlabsFor == \A mask \in Masks : slabs_for(mask) \in Nat
<1> SUFFICES ASSUME NEW mask \in Masks, mask # {}
             PROVE  Max(mask) \in Nat
  BY DEF slabs_for
<1>1. mask \subseteq Nat /\ \E c \in mask : \A d \in mask : c >= d
  BY AllocatorAssumption
<1>2. Max(mask) \in mask
  BY <1>1 DEF Max
<1> QED
  BY <1>1, <1>2

(* What the slab operations do to the stack of a CPU.                      *)
LEMMA PushedSlab ==
    ASSUME Typed, NEW c \in CPU, NEW p \in Object, slab_push(c, p)
    PROVE  /\ stack' \in [CPU -> Seq(Object)]
           /\ \A d \in CPU : Len(stack'[d]) <= Capacity
<1>1. stack \in [CPU -> Seq(Object)] /\ \A d \in CPU : Len(stack[d]) <= Capacity
  BY DEF Typed, TypeOK
<1>2. Pushed(Object, stack[c], p, Append(stack[c], p))
  BY <1>1, PushProperties
<1>3. /\ stack' = [stack EXCEPT ![c] = Append(stack[c], p)]
      /\ Len(stack[c]) < Capacity
  BY DEF slab_push
<1>4. Append(stack[c], p) \in Seq(Object) /\ Len(Append(stack[c], p)) <= Capacity
  <2>1. Len(stack[c]) \in Nat /\ Capacity \in Nat
    BY <1>1, LenProperties, AllocatorAssumption
  <2> QED
    BY <1>2, <1>3, <2>1 DEF Pushed
<1> HIDE DEF slab_push
<1> QED
  BY <1>1, <1>3, <1>4

LEMMA PoppedSlab ==
    ASSUME Typed, NEW c \in CPU, slab_pop(c)
    PROVE  /\ stack' \in [CPU -> Seq(Object)]
           /\ \A d \in CPU : Len(stack'[d]) <= Capacity
           /\ Top(stack[c]) \in Object
<1>1. stack \in [CPU -> Seq(Object)] /\ \A d \in CPU : Len(stack[d]) <= Capacity
  BY DEF Typed, TypeOK
<1>2. /\ stack' = [stack EXCEPT ![c] = Front(stack[c])]
      /\ stack[c] # <<>>
  BY DEF slab_pop
<1>3. Popped(Object, stack[c], Top(stack[c]), Front(stack[c]))
  BY <1>1, <1>2, PopProperties
<1>4. Front(stack[c]) \in Seq(Object) /\ Len(Front(stack[c])) <= Capacity
  <2>1. Len(stack[c]) \in Nat /\ Capacity \in Nat /\ Len(stack[c]) <= Capacity
    BY <1>1, LenProperties, AllocatorAssumption
  <2> QED
    BY <1>3, <2>1 DEF Popped
<1>5. Top(stack[c]) \in Object
  BY <1>3 DEF Popped
<1> QED
  BY <1>1, <1>2, <1>4, <1>5

(* The first element of a batch goes, or its last one.                     *)
LEMMA PoppedBatch ==
    ASSUME Typed, NEW t \in Thread, batch[t] # <<>>
    PROVE  /\ Popped(Object, batch[t], Top(batch[t]), Front(batch[t]))
           /\ Popped(Object, batch[t], Head(batch[t]), Tail(batch[t]))
BY PopProperties, TailProperties DEF Typed, TypeOK

LEMMA PoppedFits ==
    ASSUME NEW s \in Seq(Object), NEW x, NEW r, Popped(Object, s, x, r),
           Len(s) <= batch_size
    PROVE  r \in Seq(Object) /\ Len(r) <= batch_size /\ x \in Object
<1>1. Len(s) \in Nat /\ batch_size \in Nat
  BY LenProperties, AllocatorAssumption
<1> QED
  BY <1>1 DEF Popped

LEMMA PushedFits ==
    ASSUME NEW s \in Seq(Object), NEW x \in Object, Len(s) < batch_size
    PROVE  Append(s, x) \in Seq(Object) /\ Len(Append(s, x)) <= batch_size
<1>1. Pushed(Object, s, x, Append(s, x))
  BY PushProperties
<1>2. Len(s) \in Nat /\ batch_size \in Nat
  BY LenProperties, AllocatorAssumption
<1> QED
  BY <1>1, <1>2 DEF Pushed

(* The transfer cache: what RemoveRange takes and leaves is a cut of the   *)
(* slots, what InsertRange takes and leaves a cut of the batch.            *)
LEMMA RemoveCuts ==
    ASSUME NEW s \in Seq(Object)
    PROVE  /\ Cut(Object, s, RemoveRange(s, batch_size), removed(s, batch_size))
           /\ Len(removed(s, batch_size)) <= batch_size
<1> DEFINE k == Len(s) - to_remove(s, batch_size)
<1>1. Len(s) \in Nat /\ batch_size \in Nat
  BY LenProperties, AllocatorAssumption
<1>2. k \in 0 .. Len(s) /\ Len(s) - k <= batch_size /\ k \in Int
  BY <1>1 DEF to_remove, Fewer
<1>3. /\ RemoveRange(s, batch_size) = SubSeq(s, 1, k)
      /\ removed(s, batch_size) = SubSeq(s, k + 1, Len(s))
  BY DEF RemoveRange, removed
<1> HIDE DEF k
<1>4. /\ Cut(Object, s, SubSeq(s, 1, k), SubSeq(s, k + 1, Len(s)))
      /\ Len(SubSeq(s, 1, k)) = k
  BY <1>2, CutProperties
<1>5. Len(removed(s, batch_size)) = Len(s) - k
  <2>1. k + Len(removed(s, batch_size)) = Len(s)
    BY <1>3, <1>4 DEF Cut
  <2>2. removed(s, batch_size) \in Seq(Object)
    BY <1>3, <1>4 DEF Cut
  <2>3. Len(removed(s, batch_size)) \in Nat
    BY <2>2, LenProperties
  <2> QED
    BY <1>1, <1>2, <2>1, <2>3
<1> QED
  BY <1>2, <1>3, <1>4, <1>5

LEMMA InsertCuts ==
    ASSUME NEW s \in Seq(Object), NEW b \in Seq(Object),
           Len(s) <= TRANSFER_CACHE_CAPACITY
    PROVE  \E p \in Seq(Object) :
               /\ Cut(Object, b, p, not_inserted(s, b))
               /\ Joined(Object, s, p, InsertRange(s, b))
               /\ Len(s) + Len(p) <= TRANSFER_CACHE_CAPACITY
               /\ Len(not_inserted(s, b)) <= Len(b)
<1> DEFINE k == to_insert(s, Len(b))
<1> DEFINE p == SubSeq(b, 1, k)
<1>1. Len(s) \in Nat /\ Len(b) \in Nat /\ TRANSFER_CACHE_CAPACITY \in Nat
  BY LenProperties, TransferCacheAssumption
<1>2. k \in 0 .. Len(b) /\ Len(s) + k <= TRANSFER_CACHE_CAPACITY
  BY <1>1 DEF to_insert, Fewer
<1>3. /\ InsertRange(s, b) = s \o p
      /\ not_inserted(s, b) = SubSeq(b, k + 1, Len(b))
  BY DEF InsertRange, not_inserted
<1>4. Cut(Object, b, p, SubSeq(b, k + 1, Len(b))) /\ Len(p) = k
  <2> HIDE DEF k
  <2> QED
    BY <1>2, CutProperties
<1> HIDE DEF k, p
<1>5. p \in Seq(Object) /\ not_inserted(s, b) \in Seq(Object)
  BY <1>3, <1>4 DEF Cut
<1>6. Joined(Object, s, p, InsertRange(s, b))
  BY <1>3, <1>5, JoinProperties
<1>7. Len(not_inserted(s, b)) <= Len(b)
  <2>1. k + Len(not_inserted(s, b)) = Len(b)
    BY <1>3, <1>4 DEF Cut
  <2>2. Len(not_inserted(s, b)) \in Nat
    BY <1>5, LenProperties
  <2> QED
    BY <1>1, <1>2, <2>1, <2>2
<1> QED
  BY <1>2, <1>3, <1>4, <1>5, <1>6, <1>7

AllocateStep(t, c) ==
    \/ call_allocate(t) \/ fast_pop(t, c) \/ refill_from_cache(t)
    \/ cfl_allocate(t) \/ cfl_allocate_done(t) \/ refill_result(t)
    \/ publish(t, c) \/ publish_done(t)

DeallocateStep(t, c) ==
    \/ insert_range(t) \/ cfl_deallocate(t) \/ cfl_deallocate_done(t)
    \/ \E o \in users[t] : call_deallocate(t, o)
    \/ \E u \in Thread, o \in users[t] : hand_over(t, u, o)
    \/ fast_push(t, c) \/ drain(t, c) \/ drain_done(t)
    \/ push_again(t, c)

(* A thread's step is one of these, on some CPU.                           *)
LEMMA SomeStep ==
    ASSUME NEW t \in Thread, running(t)
    PROVE  \E c \in CPU : AllocateStep(t, c) \/ DeallocateStep(t, c)
<1>1. PICK d \in CPU : TRUE
  BY AllocatorAssumption
<1>2. CASE \E c \in CPU : \/ fast_pop(t, c) \/ publish(t, c) \/ fast_push(t, c)
                          \/ drain(t, c) \/ push_again(t, c)
  <2>1. PICK c \in CPU : \/ fast_pop(t, c) \/ publish(t, c) \/ fast_push(t, c)
                         \/ drain(t, c) \/ push_again(t, c)
    BY <1>2, Zenon
  <2>2. AllocateStep(t, c) \/ DeallocateStep(t, c)
    BY <2>1, Zenon DEF AllocateStep, DeallocateStep
  <2> QED
    BY <2>2
<1>3. CASE ~ \E c \in CPU : \/ fast_pop(t, c) \/ publish(t, c) \/ fast_push(t, c)
                            \/ drain(t, c) \/ push_again(t, c)
  <2>1. AllocateStep(t, d) \/ DeallocateStep(t, d)
    BY <1>3, Zenon DEF running, step, AllocateStep, DeallocateStep
  <2> QED
    BY <2>1
<1> QED
  BY <1>2, <1>3

(* Every step of an allocate keeps the types.                              *)
LEMMA AllocateTyped ==
    ASSUME Typed, NEW t \in Thread, NEW c \in CPU, UNCHANGED slab_count,
           AllocateStep(t, c)
    PROVE  Typed'
<1> USE AllocatorAssumption DEF Typed, TypeOK, InHand, NoResult, EmptyHanded, Label
<1>1. CASE call_allocate(t)
  BY <1>1 DEF call_allocate, Goto
<1>2. CASE fast_pop(t, c)
  <2>1. CASE slab_pop(c) /\ return_object(t, Top(stack[c]))
    <3>1. /\ stack' \in [CPU -> Seq(Object)]
          /\ \A d \in CPU : Len(stack'[d]) <= Capacity
          /\ Top(stack[c]) \in Object
      BY <2>1, PoppedSlab
    <3> QED
      BY <1>2, <2>1, <3>1, EmptySeq DEF fast_pop, return_object, SetBatch, Goto
  <2>2. CASE slab_pop_fails(c) /\ Goto(t, "refill") /\ UNCHANGED <<users, mem, batch>>
    BY <1>2, <2>2 DEF fast_pop, slab_pop_fails, Goto
  <2> QED
    BY <1>2, <2>1, <2>2 DEF fast_pop
<1>3. CASE refill_from_cache(t)
  <2>1. /\ Cut(Object, slots, RemoveRange(slots, batch_size), removed(slots, batch_size))
        /\ Len(removed(slots, batch_size)) <= batch_size
    BY RemoveCuts
  <2>2. /\ RemoveRange(slots, batch_size) \in Seq(Object)
        /\ removed(slots, batch_size) \in Seq(Object)
        /\ Len(RemoveRange(slots, batch_size)) <= TRANSFER_CACHE_CAPACITY
    <3>1. /\ RemoveRange(slots, batch_size) \in Seq(Object)
          /\ removed(slots, batch_size) \in Seq(Object)
          /\ Len(RemoveRange(slots, batch_size)) + Len(removed(slots, batch_size))
                 = Len(slots)
      BY <2>1 DEF Cut
    <3>2. /\ Len(RemoveRange(slots, batch_size)) \in Nat
          /\ Len(removed(slots, batch_size)) \in Nat
      BY <3>1, LenProperties
    <3> QED
      BY <3>1, <3>2, TransferCacheAssumption
  <2> QED
    BY <1>3, <2>1, <2>2 DEF refill_from_cache, SetBatch, Goto
<1>4. CASE cfl_allocate(t)
  <2>1. PICK o \in central : /\ central' = central \ {o}
                             /\ SetBatch(t, Append(batch[t], o))
    BY <1>4 DEF cfl_allocate
  <2>2. /\ Append(batch[t], o) \in Seq(Object)
        /\ Len(Append(batch[t], o)) <= batch_size
    BY <1>4, PushedFits DEF cfl_allocate
  <2> QED
    BY <1>4, <2>1, <2>2 DEF cfl_allocate, SetBatch
<1>5. CASE cfl_allocate_done(t)
  BY <1>5 DEF cfl_allocate_done, Goto
<1>6. CASE refill_result(t)
  <2>1. CASE batch[t] = <<>>
    <3>1. /\ users' = [users EXCEPT ![t] = users[t]]
          /\ mem' = [mem EXCEPT ![t] = NULL]
          /\ batch' = [batch EXCEPT ![t] = <<>>]
          /\ pc' = [pc EXCEPT ![t] = "idle"]
          /\ UNCHANGED <<stack, slots, central, call>>
      BY <1>6, <2>1 DEF refill_result, return_object, SetBatch, Goto
    <3>2. <<>> \in Seq(Object) /\ Len(<<>>) <= batch_size
      BY EmptySeq
    <3> QED
      BY <3>1, <3>2
  <2>2. CASE batch[t] # <<>>
    <3>1. /\ Front(batch[t]) \in Seq(Object) /\ Len(Front(batch[t])) <= batch_size
          /\ Top(batch[t]) \in Object
      BY <2>2, PoppedBatch, PoppedFits
    <3>2. /\ pc[t] = "refilled"
          /\ mem' = [mem EXCEPT ![t] = Top(batch[t])]
          /\ batch' = [batch EXCEPT ![t] = Front(batch[t])]
          /\ pc' = [pc EXCEPT ![t] = "publish"]
          /\ UNCHANGED <<stack, slots, central, users, call>>
      BY <1>6, <2>2 DEF refill_result, take_result, SetBatch, Goto
    <3> QED
      BY <3>1, <3>2
  <2> QED
    BY <2>1, <2>2
<1>7. CASE publish(t, c)
  <2>1. /\ Front(batch[t]) \in Seq(Object) /\ Len(Front(batch[t])) <= batch_size
        /\ Top(batch[t]) \in Object
    BY <1>7, PoppedBatch, PoppedFits DEF publish
  <2>2. CASE slab_push(c, Top(batch[t])) /\ SetBatch(t, Front(batch[t])) /\ UNCHANGED pc
    BY <1>7, <2>1, <2>2, PushedSlab DEF publish, SetBatch
  <2>3. CASE slab_push_fails(c) /\ Goto(t, "insert_range") /\ UNCHANGED batch
    BY <1>7, <2>3 DEF publish, slab_push_fails, Goto
  <2> QED
    BY <1>7, <2>2, <2>3 DEF publish
<1>8. CASE publish_done(t)
  BY <1>8, EmptySeq DEF publish_done, return_object, SetBatch, Goto
<1> QED
  BY <1>1, <1>2, <1>3, <1>4, <1>5, <1>6, <1>7, <1>8 DEF AllocateStep

LEMMA HandedOver ==
    ASSUME NEW f \in [Thread -> SUBSET Object], NEW t \in Thread,
           NEW u \in Thread, NEW o \in f[t]
    PROVE  [f EXCEPT ![t] = @ \ {o}, ![u] = @ \cup {o}]
               \in [Thread -> SUBSET Object]
<1> DEFINE g == [f EXCEPT ![t] = @ \ {o}]
<1>1. g \in [Thread -> SUBSET Object]
  BY Zenon
<1>2. o \in Object
  OBVIOUS
<1>3. [f EXCEPT ![t] = @ \ {o}, ![u] = @ \cup {o}] = [g EXCEPT ![u] = @ \cup {o}]
  OBVIOUS
<1> HIDE DEF g
<1>4. g[u] \cup {o} \in SUBSET Object
  BY <1>1, <1>2
<1>5. [g EXCEPT ![u] = @ \cup {o}] \in [Thread -> SUBSET Object]
  BY <1>1, <1>4
<1> QED
  BY <1>3, <1>5

(* Every step of release_batch and of a deallocate keeps the types.        *)
LEMMA DeallocateTyped ==
    ASSUME Typed, NEW t \in Thread, NEW c \in CPU, UNCHANGED slab_count,
           DeallocateStep(t, c)
    PROVE  Typed'
<1> USE AllocatorAssumption DEF Typed, TypeOK, InHand, NoResult, EmptyHanded, Label
<1>1. CASE insert_range(t)
  <2>1. PICK p \in Seq(Object) :
            /\ Cut(Object, batch[t], p, not_inserted(slots, batch[t]))
            /\ Joined(Object, slots, p, InsertRange(slots, batch[t]))
            /\ Len(slots) + Len(p) <= TRANSFER_CACHE_CAPACITY
            /\ Len(not_inserted(slots, batch[t])) <= Len(batch[t])
    BY InsertCuts
  <2>2. /\ InsertRange(slots, batch[t]) \in Seq(Object)
        /\ Len(InsertRange(slots, batch[t])) <= TRANSFER_CACHE_CAPACITY
    BY <2>1 DEF Joined
  <2>3. /\ not_inserted(slots, batch[t]) \in Seq(Object)
        /\ Len(not_inserted(slots, batch[t])) <= batch_size
    <3>1. not_inserted(slots, batch[t]) \in Seq(Object)
      BY <2>1 DEF Cut
    <3>2. Len(not_inserted(slots, batch[t])) \in Nat /\ Len(batch[t]) \in Nat
      BY <3>1, LenProperties
    <3> QED
      BY <2>1, <3>1, <3>2
  <2> QED
    BY <1>1, <2>2, <2>3 DEF insert_range, SetBatch, Goto
<1>2. CASE cfl_deallocate(t)
  <2>1. /\ Tail(batch[t]) \in Seq(Object) /\ Len(Tail(batch[t])) <= batch_size
        /\ Head(batch[t]) \in Object
    BY <1>2, PoppedBatch, PoppedFits DEF cfl_deallocate
  <2> QED
    BY <1>2, <2>1 DEF cfl_deallocate, SetBatch
<1>3. CASE cfl_deallocate_done(t)
  BY <1>3 DEF cfl_deallocate_done, after_release, Goto
<1>4. CASE \E o \in users[t] : call_deallocate(t, o)
  <2>1. PICK o \in users[t] : call_deallocate(t, o)
    BY <1>4
  <2> QED
    BY <2>1 DEF call_deallocate, Goto
<1>5. CASE \E u \in Thread, o \in users[t] : hand_over(t, u, o)
  <2>1. PICK u \in Thread, o \in users[t] : hand_over(t, u, o)
    BY <1>5
  <2>2. users' = [users EXCEPT ![t] = @ \ {o}, ![u] = @ \cup {o}]
    BY <2>1 DEF hand_over
  <2>3. users' \in [Thread -> SUBSET Object]
    BY <2>2, HandedOver
  <2> QED
    BY <2>1, <2>3 DEF hand_over
<1>6. CASE fast_push(t, c)
  <2>1. mem[t] \in Object
    BY <1>6 DEF fast_push
  <2>2. CASE slab_push(c, mem[t]) /\ return_nothing(t)
    BY <1>6, <2>1, <2>2, PushedSlab DEF fast_push, return_nothing, Goto
  <2>3. CASE slab_push_fails(c) /\ Goto(t, "drain") /\ UNCHANGED mem
    BY <1>6, <2>3 DEF fast_push, slab_push_fails, Goto
  <2> QED
    BY <1>6, <2>2, <2>3 DEF fast_push
<1>7. CASE drain(t, c)
  <2>1. CASE slab_pop(c) /\ SetBatch(t, Append(batch[t], Top(stack[c]))) /\ UNCHANGED pc
    <3>1. Top(stack[c]) \in Object
      BY <2>1, PoppedSlab
    <3>2. /\ Append(batch[t], Top(stack[c])) \in Seq(Object)
          /\ Len(Append(batch[t], Top(stack[c]))) <= batch_size
      BY <1>7, <3>1, PushedFits DEF drain, drain_more
    <3> QED
      BY <1>7, <2>1, <3>2, PoppedSlab DEF drain, SetBatch
  <2>2. CASE /\ slab_pop_fails(c) /\ UNCHANGED batch
             /\ Goto(t, IF batch[t] = <<>> THEN "push_again" ELSE "insert_range")
    BY <1>7, <2>2 DEF drain, slab_pop_fails, Goto
  <2> QED
    BY <1>7, <2>1, <2>2 DEF drain
<1>8. CASE drain_done(t)
  BY <1>8 DEF drain_done, Goto
<1>9. CASE push_again(t, c)
  <2>1. mem[t] \in Object
    BY <1>9 DEF push_again
  <2>2. CASE slab_push(c, mem[t]) /\ UNCHANGED central
    BY <1>9, <2>1, <2>2, PushedSlab DEF push_again, return_nothing, Goto
  <2>3. CASE slab_push_fails(c) /\ central' = central \cup {mem[t]}
    BY <1>9, <2>1, <2>3 DEF push_again, slab_push_fails, return_nothing, Goto
  <2> QED
    BY <1>9, <2>2, <2>3 DEF push_again
<1> QED
  BY <1>1, <1>2, <1>3, <1>4, <1>5, <1>6, <1>7, <1>8, <1>9 DEF DeallocateStep

LEMMA NextTyped == Typed /\ [Next]_vars => Typed'
<1> SUFFICES ASSUME Typed, [Next]_vars PROVE Typed'
  OBVIOUS
<1>1. CASE UNCHANGED vars
  BY <1>1 DEF vars, Typed, TypeOK, InHand
<1>2. CASE \E mask \in Masks : constructor(mask)
  <2>1. PICK mask \in Masks : constructor(mask)
    BY <1>2
  <2>2. slab_count' \in Nat
    BY <2>1, SlabsFor DEF constructor
  <2> QED
    BY <2>1, <2>2 DEF constructor, Typed, TypeOK, InHand
<1>3. CASE \E t \in Thread : running(t)
  <2>1. PICK t \in Thread : running(t)
    BY <1>3
  <2>2. UNCHANGED slab_count
    BY <2>1 DEF running
  <2>3. PICK c \in CPU : AllocateStep(t, c) \/ DeallocateStep(t, c)
    BY <2>1, SomeStep
  <2> QED
    BY <2>2, <2>3, AllocateTyped, DeallocateTyped
<1> QED
  BY <1>1, <1>2, <1>3 DEF Next

(* The types hold in every reachable state, and no slab, transfer cache or *)
(* local batch array is ever filled beyond its bound, whatever the threads *)
(* do and however often they migrate.                                      *)
THEOREM TypeCorrect == Spec => []TypeOK
<1>1. Typed => TypeOK
  BY DEF Typed
<1> QED
  BY <1>1, InitTyped, NextTyped, PTL DEF Spec

-----------------------------------------------------------------------------
(* One place for every object.  Every step that moves objects takes a set  *)
(* of them from one place and adds it to another.                          *)

AtCentral == <<"central", NULL>>
AtSlots == <<"slots", NULL>>
AtSlab(c) == <<"slab", c>>
AtBatch(t) == <<"batch", t>>
AtMem(t) == <<"mem", t>>
AtUser(t) == <<"user", t>>

LEMMA PlaceCases ==
    ASSUME NEW j \in Place
    PROVE  \/ j = AtCentral
           \/ j = AtSlots
           \/ \E c \in CPU : j = AtSlab(c)
           \/ \E t \in Thread : j = AtBatch(t) \/ j = AtMem(t) \/ j = AtUser(t)
BY DEF Place, AtCentral, AtSlots, AtSlab, AtBatch, AtMem, AtUser

LEMMA Places ==
    /\ AtCentral \in Place
    /\ AtSlots \in Place
    /\ \A c \in CPU : AtSlab(c) \in Place
    /\ \A t \in Thread : AtBatch(t) \in Place /\ AtMem(t) \in Place /\ AtUser(t) \in Place
BY DEF Place, AtCentral, AtSlots, AtSlab, AtBatch, AtMem, AtUser

LEMMA PlacesDiffer ==
    /\ AtCentral # AtSlots
    /\ \A c \in CPU, t \in Thread :
          AtSlab(c) \notin {AtCentral, AtSlots, AtBatch(t), AtMem(t), AtUser(t)}
    /\ \A t \in Thread :
          /\ AtBatch(t) \notin {AtCentral, AtSlots, AtMem(t), AtUser(t)}
          /\ AtMem(t) \notin {AtCentral, AtSlots, AtUser(t)}
    /\ \A t, u \in Thread : t # u => AtUser(t) # AtUser(u)
BY DEF AtCentral, AtSlots, AtSlab, AtBatch, AtMem, AtUser

HoldsAre ==
    /\ Holds(AtCentral) = central
    /\ Holds(AtSlots) = Range(slots)
    /\ \A c \in CPU : Holds(AtSlab(c)) = Range(stack[c])
    /\ \A t \in Thread : /\ Holds(AtBatch(t)) = Range(batch[t])
                         /\ Holds(AtMem(t)) = {mem[t]} \ {NULL}
                         /\ Holds(AtUser(t)) = users[t]

LEMMA HoldsValue == HoldsAre /\ HoldsAre'
BY DEF HoldsAre, Holds, AtCentral, AtSlots, AtSlab, AtBatch, AtMem, AtUser

(* A step that changes the contents of no place but those in A.            *)
Touches(A) ==
    /\ central' = central \/ AtCentral \in A
    /\ slots' = slots \/ AtSlots \in A
    /\ \A c \in CPU : stack'[c] = stack[c] \/ AtSlab(c) \in A
    /\ \A t \in Thread : /\ batch'[t] = batch[t] \/ AtBatch(t) \in A
                         /\ mem'[t] = mem[t] \/ AtMem(t) \in A
                         /\ users'[t] = users[t] \/ AtUser(t) \in A

LEMMA Untouched ==
    ASSUME NEW A, Touches(A)
    PROVE  \A j \in Place \ A : Holds(j)' = Holds(j)
<1> SUFFICES ASSUME NEW j \in Place \ A PROVE Holds(j)' = Holds(j)
  OBVIOUS
<1>1. HoldsAre /\ HoldsAre'
  BY HoldsValue
<1>2. CASE j = AtCentral
  BY <1>1, <1>2 DEF HoldsAre, Touches
<1>3. CASE j = AtSlots
  BY <1>1, <1>3 DEF HoldsAre, Touches
<1>4. CASE \E c \in CPU : j = AtSlab(c)
  BY <1>1, <1>4 DEF HoldsAre, Touches
<1>5. CASE \E t \in Thread : j = AtBatch(t) \/ j = AtMem(t) \/ j = AtUser(t)
  <2>1. PICK t \in Thread : j = AtBatch(t) \/ j = AtMem(t) \/ j = AtUser(t)
    BY <1>5
  <2>2. CASE j = AtBatch(t)
    <3>1. batch'[t] = batch[t]
      BY <2>2 DEF Touches
    <3>2. Holds(j) = Range(batch[t]) /\ Holds(j)' = Range(batch'[t])
      BY <1>1, <2>2 DEF HoldsAre
    <3> QED
      BY <3>1, <3>2
  <2>3. CASE j = AtMem(t)
    <3>1. mem'[t] = mem[t]
      BY <2>3 DEF Touches
    <3>2. Holds(j) = {mem[t]} \ {NULL} /\ Holds(j)' = {mem'[t]} \ {NULL}
      BY <1>1, <2>3 DEF HoldsAre
    <3> QED
      BY <3>1, <3>2
  <2>4. CASE j = AtUser(t)
    BY <1>1, <2>4 DEF HoldsAre, Touches
  <2> QED
    BY <2>1, <2>2, <2>3, <2>4
<1> QED
  BY <1>2, <1>3, <1>4, <1>5, PlaceCases

(* M goes from place a to place b.                                         *)
Moves(a, b, M) ==
    /\ a \in Place
    /\ b \in Place
    /\ a # b
    /\ M \subseteq Holds(a)
    /\ Holds(a)' = Holds(a) \ M
    /\ Holds(b)' = Holds(b) \cup M
    /\ Touches({a, b})

LEMMA MoveKeepsPartition ==
    ASSUME Partitioned, NEW a, NEW b, NEW M, Moves(a, b, M)
    PROVE  Partitioned'
<1> SUFFICES ASSUME NEW o \in Object
             PROVE  \E k \in Place : \A j \in Place : o \in Holds(j)' <=> j = k
  BY DEF Partitioned
<1>1. PICK k \in Place : \A j \in Place : o \in Holds(j) <=> j = k
  BY DEF Partitioned
<1>2. \A j \in Place \ {a, b} : Holds(j)' = Holds(j)
  BY Untouched DEF Moves
<1>3. CASE o \in M
  <2>1. k = a
    BY <1>1, <1>3 DEF Moves
  <2>2. \A j \in Place : o \in Holds(j)' <=> j = b
    BY <1>1, <1>2, <1>3, <2>1 DEF Moves
  <2> QED
    BY <2>2 DEF Moves
<1>4. CASE o \notin M
  <2>1. \A j \in Place : o \in Holds(j)' <=> j = k
    BY <1>1, <1>2, <1>4 DEF Moves
  <2> QED
    BY <2>1
<1> QED
  BY <1>3, <1>4

LEMMA NoMoveKeepsPartition ==
    ASSUME Partitioned, Touches({})
    PROVE  Partitioned'
<1>1. \A j \in Place : Holds(j)' = Holds(j)
  BY Untouched
<1> QED
  BY <1>1 DEF Partitioned

(* What one place holds no other place holds.                              *)
LEMMA Elsewhere ==
    ASSUME Partitioned, NEW a \in Place, NEW b \in Place, a # b,
           NEW o \in Object, o \in Holds(a)
    PROVE  o \notin Holds(b)
BY DEF Partitioned

(* The caches stay free of duplicates when the ones a step changes do.     *)
LEMMA KeepsNoDuplicates ==
    ASSUME NoDuplicates,
           slots' = slots \/ IsInjective(slots'),
           \A c \in CPU : stack'[c] = stack[c] \/ IsInjective(stack'[c]),
           \A t \in Thread : batch'[t] = batch[t] \/ IsInjective(batch'[t])
    PROVE  NoDuplicates'
BY DEF NoDuplicates

LEMMA Unmoved ==
    ASSUME OnePlace, UNCHANGED <<stack, slots, central, users, batch, mem>>
    PROVE  OnePlace'
<1>1. Touches({})
  BY DEF Touches
<1>2. NoDuplicates'
  BY KeepsNoDuplicates DEF OnePlace
<1> QED
  BY <1>1, <1>2, NoMoveKeepsPartition DEF OnePlace

LEMMA FastPopOnePlace ==
    ASSUME Typed, OnePlace, NEW t \in Thread, NEW c \in CPU, fast_pop(t, c)
    PROVE  OnePlace'
<1> DEFINE p == Top(stack[c])
<1>1. CASE slab_pop(c) /\ return_object(t, p)
  <2>1. stack[c] \in Seq(Object) /\ stack[c] # <<>> /\ IsInjective(stack[c])
    BY <1>1 DEF slab_pop, Typed, TypeOK, OnePlace, NoDuplicates
  <2>2. Popped(Object, stack[c], p, Front(stack[c]))
    BY <2>1, PopProperties
  <2> HIDE DEF p
  <2>3. p \in Object /\ p # NULL
    BY <2>2, AllocatorAssumption DEF Popped
  <2>4. batch[t] = <<>> /\ mem[t] = NULL
    BY DEF fast_pop, Typed, InHand, NoResult, EmptyHanded
  <2>5. /\ stack' = [stack EXCEPT ![c] = Front(stack[c])]
        /\ users' = [users EXCEPT ![t] = users[t] \cup {p}]
        /\ batch' = batch
        /\ mem' = mem
        /\ UNCHANGED <<slots, central>>
    BY <1>1, <2>3, <2>4 DEF fast_pop, slab_pop, return_object, SetBatch, Typed, TypeOK
  <2>6. /\ stack'[c] = Front(stack[c])
        /\ \A d \in CPU \ {c} : stack'[d] = stack[d]
        /\ users'[t] = users[t] \cup {p}
        /\ \A u \in Thread \ {t} : users'[u] = users[u]
    BY <2>5 DEF Typed, TypeOK
  <2>7. Moves(AtSlab(c), AtUser(t), {p})
    <3>1. Touches({AtSlab(c), AtUser(t)})
      BY <2>5, <2>6 DEF Touches
    <3> QED
      BY <2>1, <2>2, <2>6, <3>1, HoldsValue, Places, PlacesDiffer
         DEF Moves, HoldsAre, Popped
  <2>8. NoDuplicates'
    BY <2>1, <2>2, <2>5, <2>6, KeepsNoDuplicates DEF OnePlace, Popped
  <2> QED
    BY <2>7, <2>8, MoveKeepsPartition DEF OnePlace
<1>2. CASE slab_pop_fails(c) /\ Goto(t, "refill") /\ UNCHANGED <<users, mem, batch>>
  BY <1>2, Unmoved DEF fast_pop, slab_pop_fails
<1> QED
  BY <1>1, <1>2 DEF fast_pop

LEMMA RefillOnePlace ==
    ASSUME Typed, OnePlace, NEW t \in Thread, refill_from_cache(t)
    PROVE  OnePlace'
<1> DEFINE got == removed(slots, batch_size)
<1> DEFINE rest == RemoveRange(slots, batch_size)
<1>1. slots \in Seq(Object) /\ IsInjective(slots)
  BY DEF Typed, TypeOK, OnePlace, NoDuplicates
<1>2. Cut(Object, slots, rest, got)
  BY <1>1, RemoveCuts
<1>3. slots' = rest /\ batch' = [batch EXCEPT ![t] = got]
      /\ UNCHANGED <<stack, central, users, mem>>
  BY DEF refill_from_cache, SetBatch
<1> HIDE DEF got, rest
<1>4. batch[t] = <<>>
  BY DEF refill_from_cache, Typed, InHand, EmptyHanded
<1>5. batch'[t] = got /\ \A u \in Thread \ {t} : batch'[u] = batch[u]
  BY <1>3 DEF Typed, TypeOK
<1>6. Moves(AtSlots, AtBatch(t), Range(got))
  <2>1. Touches({AtSlots, AtBatch(t)})
    BY <1>3, <1>5 DEF Touches
  <2>2. /\ Range(got) \subseteq Range(slots)
        /\ Range(slots') = Range(slots) \ Range(got)
        /\ Range(batch'[t]) = Range(batch[t]) \cup Range(got)
    BY <1>1, <1>2, <1>3, <1>4, <1>5, EmptyRange DEF Cut
  <2> QED
    BY <2>1, <2>2, HoldsValue, Places, PlacesDiffer DEF Moves, HoldsAre
<1>7. NoDuplicates'
  BY <1>1, <1>2, <1>3, <1>5, KeepsNoDuplicates DEF OnePlace, Cut
<1> QED
  BY <1>6, <1>7, MoveKeepsPartition DEF OnePlace

LEMMA CflAllocateOnePlace ==
    ASSUME Typed, OnePlace, NEW t \in Thread, cfl_allocate(t)
    PROVE  OnePlace'
<1>1. PICK o \in central : /\ central' = central \ {o}
                           /\ SetBatch(t, Append(batch[t], o))
  BY DEF cfl_allocate
<1>2. batch[t] \in Seq(Object) /\ o \in Object /\ IsInjective(batch[t])
  BY DEF Typed, TypeOK, OnePlace, NoDuplicates
<1>3. Pushed(Object, batch[t], o, Append(batch[t], o))
  BY <1>2, PushProperties
<1>4. /\ batch'[t] = Append(batch[t], o)
      /\ \A u \in Thread \ {t} : batch'[u] = batch[u]
      /\ UNCHANGED <<stack, slots, users, mem>>
  BY <1>1 DEF cfl_allocate, SetBatch, Typed, TypeOK
<1>5. Moves(AtCentral, AtBatch(t), {o})
  <2>1. Touches({AtCentral, AtBatch(t)})
    BY <1>4 DEF Touches
  <2> QED
    BY <1>1, <1>3, <1>4, <2>1, HoldsValue, Places, PlacesDiffer
       DEF Moves, HoldsAre, Pushed
<1>6. o \notin Range(batch[t])
  BY <1>2, Elsewhere, HoldsValue, Places, PlacesDiffer DEF OnePlace, HoldsAre
<1>7. NoDuplicates'
  BY <1>2, <1>3, <1>4, <1>6, KeepsNoDuplicates DEF OnePlace, Pushed
<1> QED
  BY <1>5, <1>7, MoveKeepsPartition DEF OnePlace

LEMMA RefillResultOnePlace ==
    ASSUME Typed, OnePlace, NEW t \in Thread, refill_result(t)
    PROVE  OnePlace'
<1>1. mem[t] = NULL /\ batch[t] \in Seq(Object) /\ IsInjective(batch[t])
  BY DEF refill_result, Typed, TypeOK, InHand, NoResult, OnePlace, NoDuplicates
<1>2. CASE batch[t] = <<>>
  <2>1. /\ return_object(t, NULL)
        /\ UNCHANGED <<stack, slots, central>>
    BY <1>2 DEF refill_result
  <2>2. UNCHANGED <<users, batch, mem>>
    BY <1>1, <1>2, <2>1 DEF return_object, SetBatch, Typed, TypeOK
  <2> QED
    BY <2>1, <2>2, Unmoved
<1>3. CASE batch[t] # <<>>
  <2> DEFINE p == Top(batch[t])
  <2>1. Popped(Object, batch[t], p, Front(batch[t]))
    BY <1>1, <1>3, PopProperties
  <2>2. /\ mem'[t] = p
        /\ batch'[t] = Front(batch[t])
        /\ \A u \in Thread \ {t} : mem'[u] = mem[u] /\ batch'[u] = batch[u]
        /\ UNCHANGED <<stack, slots, central, users>>
    BY <1>3 DEF refill_result, take_result, SetBatch, Typed, TypeOK
  <2> HIDE DEF p
  <2>3. p # NULL
    BY <2>1, AllocatorAssumption DEF Popped
  <2>4. Moves(AtBatch(t), AtMem(t), {p})
    <3>1. Touches({AtBatch(t), AtMem(t)})
      BY <2>2 DEF Touches
    <3>2. {mem'[t]} \ {NULL} = ({mem[t]} \ {NULL}) \cup {p}
      BY <1>1, <2>2, <2>3
    <3> QED
      BY <1>1, <2>1, <2>2, <3>1, <3>2, HoldsValue, Places, PlacesDiffer
         DEF Moves, HoldsAre, Popped
  <2>5. NoDuplicates'
    BY <1>1, <2>1, <2>2, KeepsNoDuplicates DEF OnePlace, Popped
  <2> QED
    BY <2>4, <2>5, MoveKeepsPartition DEF OnePlace
<1> QED
  BY <1>2, <1>3

LEMMA PublishOnePlace ==
    ASSUME Typed, OnePlace, NEW t \in Thread, NEW c \in CPU, publish(t, c)
    PROVE  OnePlace'
<1> DEFINE p == Top(batch[t])
<1>1. CASE slab_push(c, p) /\ SetBatch(t, Front(batch[t])) /\ UNCHANGED pc
  <2>1. /\ batch[t] \in Seq(Object) /\ batch[t] # <<>> /\ IsInjective(batch[t])
        /\ stack[c] \in Seq(Object) /\ IsInjective(stack[c])
    BY DEF publish, Typed, TypeOK, OnePlace, NoDuplicates
  <2>2. Popped(Object, batch[t], p, Front(batch[t]))
    BY <2>1, PopProperties
  <2>3. /\ stack'[c] = Append(stack[c], p)
        /\ \A d \in CPU \ {c} : stack'[d] = stack[d]
        /\ batch'[t] = Front(batch[t])
        /\ \A u \in Thread \ {t} : batch'[u] = batch[u]
        /\ UNCHANGED <<slots, central, users, mem>>
    BY <1>1 DEF publish, slab_push, SetBatch, Typed, TypeOK
  <2> HIDE DEF p
  <2>4. p \in Object /\ p \in Range(batch[t])
    BY <2>2 DEF Popped
  <2>5. Pushed(Object, stack[c], p, Append(stack[c], p))
    BY <2>1, <2>4, PushProperties
  <2>6. Moves(AtBatch(t), AtSlab(c), {p})
    <3>1. Touches({AtBatch(t), AtSlab(c)})
      BY <2>3 DEF Touches
    <3> QED
      BY <2>1, <2>2, <2>3, <2>5, <3>1, HoldsValue, Places, PlacesDiffer
         DEF Moves, HoldsAre, Popped, Pushed
  <2>7. p \notin Range(stack[c])
    BY <2>4, Elsewhere, HoldsValue, Places, PlacesDiffer DEF OnePlace, HoldsAre
  <2>8. NoDuplicates'
    BY <2>1, <2>2, <2>3, <2>5, <2>7, KeepsNoDuplicates DEF OnePlace, Popped, Pushed
  <2> QED
    BY <2>6, <2>8, MoveKeepsPartition DEF OnePlace
<1>2. CASE slab_push_fails(c) /\ Goto(t, "insert_range") /\ UNCHANGED batch
  BY <1>2, Unmoved DEF publish, slab_push_fails
<1> QED
  BY <1>1, <1>2 DEF publish

LEMMA PublishDoneOnePlace ==
    ASSUME Typed, OnePlace, NEW t \in Thread, publish_done(t)
    PROVE  OnePlace'
<1>1. mem[t] \in Object /\ mem[t] # NULL /\ batch[t] = <<>>
  BY DEF publish_done, Typed, TypeOK, InHand, NoResult
<1>2. /\ users'[t] = users[t] \cup {mem[t]}
      /\ mem'[t] = NULL
      /\ \A u \in Thread \ {t} : users'[u] = users[u] /\ mem'[u] = mem[u]
      /\ batch' = batch
      /\ UNCHANGED <<stack, slots, central>>
  BY <1>1 DEF publish_done, return_object, SetBatch, Typed, TypeOK
<1>3. Moves(AtMem(t), AtUser(t), {mem[t]})
  <2>1. Touches({AtMem(t), AtUser(t)})
    BY <1>2 DEF Touches
  <2> QED
    BY <1>1, <1>2, <2>1, HoldsValue, Places, PlacesDiffer DEF Moves, HoldsAre
<1>4. NoDuplicates'
  BY <1>2, KeepsNoDuplicates DEF OnePlace
<1> QED
  BY <1>3, <1>4, MoveKeepsPartition DEF OnePlace

LEMMA InsertRangeOnePlace ==
    ASSUME Typed, OnePlace, NEW t \in Thread, insert_range(t)
    PROVE  OnePlace'
<1> DEFINE rest == not_inserted(slots, batch[t])
<1> DEFINE joined == InsertRange(slots, batch[t])
<1>1. /\ slots \in Seq(Object) /\ IsInjective(slots)
      /\ batch[t] \in Seq(Object) /\ IsInjective(batch[t])
      /\ Len(slots) <= TRANSFER_CACHE_CAPACITY
  BY DEF Typed, TypeOK, OnePlace, NoDuplicates
<1>2. PICK p \in Seq(Object) : /\ Cut(Object, batch[t], p, rest)
                               /\ Joined(Object, slots, p, joined)
  BY <1>1, InsertCuts
<1>3. /\ slots' = joined
      /\ batch'[t] = rest
      /\ \A u \in Thread \ {t} : batch'[u] = batch[u]
      /\ UNCHANGED <<stack, central, users, mem>>
  BY DEF insert_range, SetBatch, Typed, TypeOK
<1> HIDE DEF rest, joined
<1>4. /\ Range(p) \subseteq Range(batch[t])
      /\ Range(rest) = Range(batch[t]) \ Range(p)
      /\ IsInjective(p) /\ IsInjective(rest)
      /\ Range(joined) = Range(slots) \cup Range(p)
  BY <1>1, <1>2 DEF Cut, Joined
<1>5. Moves(AtBatch(t), AtSlots, Range(p))
  <2>1. Touches({AtBatch(t), AtSlots})
    BY <1>3 DEF Touches
  <2> QED
    BY <1>3, <1>4, <2>1, HoldsValue, Places, PlacesDiffer DEF Moves, HoldsAre
<1>6. Range(slots) \cap Range(p) = {}
  <2> SUFFICES ASSUME NEW x \in Range(p), x \in Range(slots) PROVE FALSE
    OBVIOUS
  <2>1. x \in Range(batch[t])
    BY <1>4
  <2>2. x \in Object
    BY <1>1, <2>1, RangeIndex, ElementOfSeq
  <2> QED
    BY <2>1, <2>2, Elsewhere, HoldsValue, Places, PlacesDiffer DEF OnePlace, HoldsAre
<1>7. NoDuplicates'
  BY <1>1, <1>2, <1>3, <1>4, <1>6, KeepsNoDuplicates DEF OnePlace, Joined
<1> QED
  BY <1>5, <1>7, MoveKeepsPartition DEF OnePlace

LEMMA CflDeallocateOnePlace ==
    ASSUME Typed, OnePlace, NEW t \in Thread, cfl_deallocate(t)
    PROVE  OnePlace'
<1> DEFINE p == Head(batch[t])
<1>1. batch[t] \in Seq(Object) /\ batch[t] # <<>> /\ IsInjective(batch[t])
  BY DEF cfl_deallocate, Typed, TypeOK, OnePlace, NoDuplicates
<1>2. Popped(Object, batch[t], p, Tail(batch[t]))
  BY <1>1, TailProperties
<1>3. /\ central' = central \cup {p}
      /\ batch'[t] = Tail(batch[t])
      /\ \A u \in Thread \ {t} : batch'[u] = batch[u]
      /\ UNCHANGED <<stack, slots, users, mem>>
  BY DEF cfl_deallocate, SetBatch, Typed, TypeOK
<1> HIDE DEF p
<1>4. Moves(AtBatch(t), AtCentral, {p})
  <2>1. Touches({AtBatch(t), AtCentral})
    BY <1>3 DEF Touches
  <2> QED
    BY <1>1, <1>2, <1>3, <2>1, HoldsValue, Places, PlacesDiffer
       DEF Moves, HoldsAre, Popped
<1>5. NoDuplicates'
  BY <1>1, <1>2, <1>3, KeepsNoDuplicates DEF OnePlace, Popped
<1> QED
  BY <1>4, <1>5, MoveKeepsPartition DEF OnePlace

LEMMA CallDeallocateOnePlace ==
    ASSUME Typed, OnePlace, NEW t \in Thread, NEW o \in users[t],
           call_deallocate(t, o)
    PROVE  OnePlace'
<1>1. mem[t] = NULL /\ o \in Object /\ o # NULL
  BY AllocatorAssumption
     DEF call_deallocate, Typed, TypeOK, InHand, NoResult
<1>2. /\ users'[t] = users[t] \ {o}
      /\ mem'[t] = o
      /\ \A u \in Thread \ {t} : users'[u] = users[u] /\ mem'[u] = mem[u]
      /\ UNCHANGED <<stack, slots, central, batch>>
  BY DEF call_deallocate, Typed, TypeOK
<1>3. Moves(AtUser(t), AtMem(t), {o})
  <2>1. Touches({AtUser(t), AtMem(t)})
    BY <1>2 DEF Touches
  <2>2. {mem'[t]} \ {NULL} = ({mem[t]} \ {NULL}) \cup {o}
    BY <1>1, <1>2
  <2> QED
    BY <1>2, <2>1, <2>2, HoldsValue, Places, PlacesDiffer DEF Moves, HoldsAre
<1>4. NoDuplicates'
  BY <1>2, KeepsNoDuplicates DEF OnePlace
<1> QED
  BY <1>3, <1>4, MoveKeepsPartition DEF OnePlace

LEMMA HandOverOnePlace ==
    ASSUME Typed, OnePlace, NEW t \in Thread, NEW u \in Thread,
           NEW o \in users[t], hand_over(t, u, o)
    PROVE  OnePlace'
<1>1. /\ t # u
      /\ users'[t] = users[t] \ {o}
      /\ users'[u] = users[u] \cup {o}
      /\ \A v \in Thread \ {t, u} : users'[v] = users[v]
      /\ UNCHANGED <<stack, slots, central, batch, mem>>
  BY DEF hand_over, Typed, TypeOK
<1>2. Moves(AtUser(t), AtUser(u), {o})
  <2>1. Touches({AtUser(t), AtUser(u)})
    BY <1>1 DEF Touches
  <2> QED
    BY <1>1, <2>1, HoldsValue, Places, PlacesDiffer DEF Moves, HoldsAre
<1>3. NoDuplicates'
  BY <1>1, KeepsNoDuplicates DEF OnePlace
<1> QED
  BY <1>2, <1>3, MoveKeepsPartition DEF OnePlace

(* A push of mem[t], from fast_push or from push_again.                    *)
LEMMA PushMemOnePlace ==
    ASSUME Typed, OnePlace, NEW t \in Thread, NEW c \in CPU,
           mem[t] # NULL, slab_push(c, mem[t]), return_nothing(t),
           UNCHANGED <<slots, central, users, batch>>
    PROVE  OnePlace'
<1>1. mem[t] \in Object /\ stack[c] \in Seq(Object) /\ IsInjective(stack[c])
  BY DEF Typed, TypeOK, OnePlace, NoDuplicates
<1>2. Pushed(Object, stack[c], mem[t], Append(stack[c], mem[t]))
  BY <1>1, PushProperties
<1>3. /\ stack'[c] = Append(stack[c], mem[t])
      /\ \A d \in CPU \ {c} : stack'[d] = stack[d]
      /\ mem'[t] = NULL
      /\ \A u \in Thread \ {t} : mem'[u] = mem[u]
  BY DEF slab_push, return_nothing, Typed, TypeOK
<1>4. Moves(AtMem(t), AtSlab(c), {mem[t]})
  <2>1. Touches({AtMem(t), AtSlab(c)})
    BY <1>3 DEF Touches
  <2> QED
    BY <1>2, <1>3, <2>1, HoldsValue, Places, PlacesDiffer DEF Moves, HoldsAre, Pushed
<1>5. mem[t] \notin Range(stack[c])
  BY <1>1, Elsewhere, HoldsValue, Places, PlacesDiffer DEF OnePlace, HoldsAre
<1>6. NoDuplicates'
  BY <1>1, <1>2, <1>3, <1>5, KeepsNoDuplicates DEF OnePlace, Pushed
<1> QED
  BY <1>4, <1>6, MoveKeepsPartition DEF OnePlace

LEMMA PushesOnePlace ==
    ASSUME Typed, OnePlace, NEW t \in Thread, NEW c \in CPU,
           fast_push(t, c) \/ push_again(t, c)
    PROVE  OnePlace'
<1>1. mem[t] # NULL /\ mem[t] \in Object
  BY DEF fast_push, push_again, Typed, TypeOK, InHand, NoResult
<1>2. CASE fast_push(t, c)
  <2>1. CASE slab_push(c, mem[t]) /\ return_nothing(t)
    BY <1>1, <1>2, <2>1, PushMemOnePlace DEF fast_push
  <2>2. CASE slab_push_fails(c) /\ Goto(t, "drain") /\ UNCHANGED mem
    BY <1>2, <2>2, Unmoved DEF fast_push, slab_push_fails
  <2> QED
    BY <1>2, <2>1, <2>2 DEF fast_push
<1>3. CASE push_again(t, c)
  <2>1. CASE slab_push(c, mem[t]) /\ UNCHANGED central
    BY <1>1, <1>3, <2>1, PushMemOnePlace DEF push_again
  <2>2. CASE slab_push_fails(c) /\ central' = central \cup {mem[t]}
    <3>1. /\ mem'[t] = NULL
          /\ \A u \in Thread \ {t} : mem'[u] = mem[u]
          /\ UNCHANGED <<stack, slots, users, batch>>
      BY <1>3, <2>2 DEF push_again, slab_push_fails, return_nothing, Typed, TypeOK
    <3>2. Moves(AtMem(t), AtCentral, {mem[t]})
      <4>1. Touches({AtMem(t), AtCentral})
        BY <2>2, <3>1 DEF Touches
      <4> QED
        BY <1>1, <2>2, <3>1, <4>1, HoldsValue, Places, PlacesDiffer DEF Moves, HoldsAre
    <3>3. NoDuplicates'
      BY <3>1, KeepsNoDuplicates DEF OnePlace
    <3> QED
      BY <3>2, <3>3, MoveKeepsPartition DEF OnePlace
  <2> QED
    BY <1>3, <2>1, <2>2 DEF push_again
<1> QED
  BY <1>2, <1>3

LEMMA DrainOnePlace ==
    ASSUME Typed, OnePlace, NEW t \in Thread, NEW c \in CPU, drain(t, c)
    PROVE  OnePlace'
<1> DEFINE p == Top(stack[c])
<1>1. CASE slab_pop(c) /\ SetBatch(t, Append(batch[t], p)) /\ UNCHANGED pc
  <2>1. /\ stack[c] \in Seq(Object) /\ stack[c] # <<>> /\ IsInjective(stack[c])
        /\ batch[t] \in Seq(Object) /\ IsInjective(batch[t])
    BY <1>1 DEF slab_pop, Typed, TypeOK, OnePlace, NoDuplicates
  <2>2. Popped(Object, stack[c], p, Front(stack[c]))
    BY <2>1, PopProperties
  <2>3. /\ stack'[c] = Front(stack[c])
        /\ \A d \in CPU \ {c} : stack'[d] = stack[d]
        /\ batch'[t] = Append(batch[t], p)
        /\ \A u \in Thread \ {t} : batch'[u] = batch[u]
        /\ UNCHANGED <<slots, central, users, mem>>
    BY <1>1 DEF drain, slab_pop, SetBatch, Typed, TypeOK
  <2> HIDE DEF p
  <2>4. p \in Object /\ p \in Range(stack[c])
    BY <2>2 DEF Popped
  <2>5. Pushed(Object, batch[t], p, Append(batch[t], p))
    BY <2>1, <2>4, PushProperties
  <2>6. Moves(AtSlab(c), AtBatch(t), {p})
    <3>1. Touches({AtSlab(c), AtBatch(t)})
      BY <2>3 DEF Touches
    <3> QED
      BY <2>1, <2>2, <2>3, <2>5, <3>1, HoldsValue, Places, PlacesDiffer
         DEF Moves, HoldsAre, Popped, Pushed
  <2>7. p \notin Range(batch[t])
    BY <2>4, Elsewhere, HoldsValue, Places, PlacesDiffer DEF OnePlace, HoldsAre
  <2>8. NoDuplicates'
    BY <2>1, <2>2, <2>3, <2>5, <2>7, KeepsNoDuplicates DEF OnePlace, Popped, Pushed
  <2> QED
    BY <2>6, <2>8, MoveKeepsPartition DEF OnePlace
<1>2. CASE /\ slab_pop_fails(c) /\ UNCHANGED batch
           /\ Goto(t, IF batch[t] = <<>> THEN "push_again" ELSE "insert_range")
  BY <1>2, Unmoved DEF drain, slab_pop_fails
<1> QED
  BY <1>1, <1>2 DEF drain

IInv == Typed /\ OnePlace

LEMMA InitOnePlace == Init => OnePlace
<1> SUFFICES ASSUME Init PROVE OnePlace
  OBVIOUS
<1>1. HoldsAre
  BY HoldsValue
<1>2. \A j \in Place \ {AtCentral} : Holds(j) = {}
  <2> SUFFICES ASSUME NEW j \in Place \ {AtCentral} PROVE Holds(j) = {}
    OBVIOUS
  <2>1. CASE j = AtSlots
    BY <1>1, <2>1, EmptyRange DEF HoldsAre, Init
  <2>2. CASE \E c \in CPU : j = AtSlab(c)
    BY <1>1, <2>2, EmptyRange DEF HoldsAre, Init
  <2>3. CASE \E t \in Thread : j = AtBatch(t) \/ j = AtMem(t) \/ j = AtUser(t)
    BY <1>1, <2>3, EmptyRange DEF HoldsAre, Init
  <2> QED
    BY <2>1, <2>2, <2>3, PlaceCases
<1>3. Holds(AtCentral) = Object
  BY <1>1 DEF HoldsAre, Init
<1>4. Partitioned
  BY <1>2, <1>3, Places DEF Partitioned
<1>5. NoDuplicates
  BY EmptyRange DEF NoDuplicates, Init
<1> QED
  BY <1>4, <1>5 DEF OnePlace

LEMMA NextOnePlace == IInv /\ [Next]_vars => OnePlace'
<1> SUFFICES ASSUME Typed, OnePlace, [Next]_vars PROVE OnePlace'
  BY DEF IInv
<1>1. CASE UNCHANGED vars
  BY <1>1, Unmoved DEF vars
<1>2. CASE \E mask \in Masks : constructor(mask)
  BY <1>2, Unmoved DEF constructor
<1>3. CASE \E t \in Thread : running(t)
  <2>1. PICK t \in Thread : running(t)
    BY <1>3
  <2>2. PICK c \in CPU : AllocateStep(t, c) \/ DeallocateStep(t, c)
    BY <2>1, SomeStep
  <2>3. CASE call_allocate(t) \/ cfl_allocate_done(t) \/ cfl_deallocate_done(t)
             \/ drain_done(t)
    BY <2>3, Unmoved
       DEF call_allocate, cfl_allocate_done, cfl_deallocate_done, drain_done
  <2>4. CASE AllocateStep(t, c)
    BY <2>3, <2>4, FastPopOnePlace, RefillOnePlace, CflAllocateOnePlace,
       RefillResultOnePlace, PublishOnePlace, PublishDoneOnePlace
       DEF AllocateStep
  <2>5. CASE DeallocateStep(t, c)
    BY <2>3, <2>5, InsertRangeOnePlace, CflDeallocateOnePlace,
       CallDeallocateOnePlace, HandOverOnePlace, PushesOnePlace, DrainOnePlace
       DEF DeallocateStep
  <2> QED
    BY <2>2, <2>4, <2>5
<1> QED
  BY <1>1, <1>2, <1>3 DEF Next

LEMMA Invariant == Spec => []IInv
<1>1. Init => IInv
  BY InitTyped, InitOnePlace DEF IInv
<1>2. IInv /\ [Next]_vars => IInv'
  BY NextTyped, NextOnePlace DEF IInv
<1> QED
  BY <1>1, <1>2, PTL DEF Spec

(* On every path of allocate and deallocate, overflow and failure included,*)
(* and however the threads interleave and migrate, an object of the class  *)
(* is in exactly one place: none is lost and none can be given out twice.  *)
THEOREM OnePlaceHolds == Spec => []OnePlace
<1>1. IInv => OnePlace
  BY DEF IInv
<1> QED
  BY <1>1, Invariant, PTL

-----------------------------------------------------------------------------
(* The promise to the users *)

(* An object that comes from somewhere else is with no user.               *)
LEMMA HeldByNobody ==
    ASSUME Partitioned, NEW a \in Place, NEW o \in Object, o \in Holds(a),
           \A u \in Thread : a # AtUser(u)
    PROVE  \A u \in Thread : o \notin users[u]
<1> TAKE u \in Thread
<1>1. o \notin Holds(AtUser(u))
  BY Places, Elsewhere
<1> QED
  BY <1>1, HoldsValue DEF HoldsAre

LEMMA AllocateMaps ==
    ASSUME IInv, NEW t \in Thread, NEW a \in Place, NEW o \in Object,
           o \in Holds(a), \A u \in Thread : a # AtUser(u),
           users' = [users EXCEPT ![t] = users[t] \cup {o}]
    PROVE  User!SpecNext
<1>1. \A u \in Thread : o \notin users[u]
  BY HeldByNobody DEF IInv, OnePlace
<1>2. User!Allocate(t, o)
  BY <1>1 DEF User!Allocate
<1> QED
  BY <1>2 DEF User!SpecNext

LEMMA NextMaps == IInv /\ [Next]_vars => [User!SpecNext]_users
<1> SUFFICES ASSUME IInv, [Next]_vars PROVE User!SpecNext \/ UNCHANGED users
  OBVIOUS
<1>1. Typed /\ OnePlace /\ TypeOK
  BY DEF IInv, Typed
<1>2. CASE UNCHANGED vars
  BY <1>2 DEF vars
<1>3. CASE \E mask \in Masks : constructor(mask)
  BY <1>3 DEF constructor
<1>4. CASE \E t \in Thread : running(t)
  <2>1. PICK t \in Thread : running(t)
    BY <1>4
  <2>2. PICK c \in CPU : AllocateStep(t, c) \/ DeallocateStep(t, c)
    BY <2>1, SomeStep
  <2>3. CASE fast_pop(t, c)
    <3>1. CASE slab_pop(c) /\ return_object(t, Top(stack[c]))
      <4>1. Popped(Object, stack[c], Top(stack[c]), Front(stack[c]))
        BY <1>1, <3>1, PopProperties DEF slab_pop, TypeOK
      <4>2. Top(stack[c]) \in Object /\ Top(stack[c]) # NULL
        BY <4>1, AllocatorAssumption DEF Popped
      <4>3. Top(stack[c]) \in Holds(AtSlab(c))
        BY <4>1, HoldsValue DEF HoldsAre, Popped
      <4>4. \A u \in Thread : AtSlab(c) # AtUser(u)
        BY PlacesDiffer
      <4>5. users' = [users EXCEPT ![t] = users[t] \cup {Top(stack[c])}]
        BY <3>1, <4>2 DEF return_object
      <4> QED
        BY <4>2, <4>3, <4>4, <4>5, Places, AllocateMaps
    <3>2. CASE slab_pop_fails(c) /\ Goto(t, "refill") /\ UNCHANGED <<users, mem, batch>>
      BY <3>2
    <3> QED
      BY <2>3, <3>1, <3>2 DEF fast_pop
  <2>4. CASE publish_done(t)
    <3>1. mem[t] \in Object /\ mem[t] # NULL
      BY <1>1, <2>4 DEF publish_done, Typed, TypeOK, InHand, NoResult
    <3>2. mem[t] \in Holds(AtMem(t))
      BY <3>1, HoldsValue DEF HoldsAre
    <3>3. \A u \in Thread : AtMem(t) # AtUser(u)
      BY DEF AtMem, AtUser
    <3>4. users' = [users EXCEPT ![t] = users[t] \cup {mem[t]}]
      BY <2>4, <3>1 DEF publish_done, return_object
    <3> QED
      BY <3>1, <3>2, <3>3, <3>4, Places, AllocateMaps
  <2>5. CASE refill_result(t)
    <3>1. CASE batch[t] = <<>>
      BY <1>1, <2>5, <3>1 DEF refill_result, return_object, TypeOK
    <3>2. CASE batch[t] # <<>>
      BY <2>5, <3>2 DEF refill_result
    <3> QED
      BY <3>1, <3>2
  <2>6. CASE \E o \in users[t] : call_deallocate(t, o)
    <3>1. PICK o \in users[t] : call_deallocate(t, o)
      BY <2>6
    <3>2. o \in Object /\ User!Deallocate(t, o)
      BY <1>1, <3>1 DEF call_deallocate, User!Deallocate, TypeOK
    <3> QED
      BY <3>2 DEF User!SpecNext
  <2>7. CASE \E u \in Thread, o \in users[t] : hand_over(t, u, o)
    <3>1. PICK u \in Thread, o \in users[t] : hand_over(t, u, o)
      BY <2>7
    <3>2. o \in Object /\ User!HandOver(t, u, o)
      BY <1>1, <3>1 DEF hand_over, User!HandOver, TypeOK
    <3> QED
      BY <3>2 DEF User!SpecNext
  <2>8. CASE \/ call_allocate(t) \/ refill_from_cache(t) \/ cfl_allocate(t)
             \/ cfl_allocate_done(t) \/ publish(t, c) \/ insert_range(t)
             \/ cfl_deallocate(t) \/ cfl_deallocate_done(t) \/ fast_push(t, c)
             \/ drain(t, c) \/ drain_done(t) \/ push_again(t, c)
    BY <2>8 DEF call_allocate, refill_from_cache, cfl_allocate, cfl_allocate_done,
       publish, insert_range, cfl_deallocate, cfl_deallocate_done, fast_push,
       drain, drain_done, push_again
  <2> QED
    BY <2>2, <2>3, <2>4, <2>5, <2>6, <2>7, <2>8 DEF AllocateStep, DeallocateStep
<1> QED
  BY <1>2, <1>3, <1>4 DEF Next

(* Allocator implements AllocatorSpec: allocate returns an object nobody   *)
(* holds, and an object stays with the thread that got it, through every   *)
(* step of the other threads, until a user frees it or hands it over.      *)
THEOREM UserPromiseKept == Spec => KeepsUserPromise
<1>1. Init => User!SpecInit
  BY DEF Init, User!SpecInit
<1> QED
  BY <1>1, Invariant, NextMaps, PTL DEF Spec, KeepsUserPromise, User!UserSpec

=============================================================================
