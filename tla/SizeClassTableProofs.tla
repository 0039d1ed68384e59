------------------------ MODULE SizeClassTableProofs ------------------------
(***************************************************************************)
(* The two binary searches are right for every table of sorted rows and    *)
(* every request, and the slabs are laid out right for every table, every  *)
(* MAX_SLAB_POINTERS and any number of CPUs.                               *)
(***************************************************************************)
EXTENDS SizeClassTable, WellFoundedInduction, TLAPS

Row == 0 .. NUM_SIZE_CLASSES - 1

Size(i) == SizeClasses[i].size

(* The table as the proofs use it.                                         *)
LEMMA Table ==
    /\ NUM_SIZE_CLASSES \in Nat /\ NUM_SIZE_CLASSES >= 2
    /\ \A i \in Row : Size(i) \in Nat
    /\ \A i, j \in Row : i < j => Size(i) < Size(j)
    /\ Class \subseteq Row
    /\ Requests \subseteq Nat
<1>1. NUM_SIZE_CLASSES \in Nat /\ NUM_SIZE_CLASSES >= 2
  BY SizeClassTableAssumption
<1>2. Row = Class \cup {0}
  BY <1>1 DEF Row, Class
<1>3. \A i \in Row : Size(i) \in Nat
  BY <1>2, SizeClassTableAssumption DEF Size
<1>4. \A i, j \in Row : i < j => Size(i) < Size(j)
  <2> SUFFICES ASSUME NEW i \in Row, NEW j \in Row, i < j
               PROVE  Size(i) < Size(j)
    OBVIOUS
  <2>1. j \in Class /\ i \in 0 .. j - 1
    BY <1>1 DEF Row, Class
  <2> QED
    BY <2>1, SizeClassTableAssumption DEF Size
<1> QED
  BY <1>1, <1>2, <1>3, <1>4, SizeClassTableAssumption

(* A class that fits and has no smaller one that does is the smallest.     *)
LEMMA SmallestIs ==
    ASSUME NEW size \in Nat, NEW i \in Class, Fits(i, size),
           \A j \in Class : Fits(j, size) => i <= j
    PROVE  Smallest(size) = i
<1> DEFINE P(k) == Fits(k, size) /\ \A j \in Class : Fits(j, size) => k <= j
           c == CHOOSE k \in Class : P(k)
<1>1. Smallest(size) = c
  BY DEF Smallest
<1>2. c \in Class /\ P(c)
  <2>1. \E k \in Class : P(k)
    OBVIOUS
  <2> HIDE DEF P
  <2> QED
    BY <2>1
<1>3. c <= i /\ i <= c
  BY <1>2
<1> HIDE DEF c
<1> QED
  BY <1>1, <1>2, <1>3 DEF Class

LEMMA NoneFits ==
    ASSUME NEW size \in Nat, \A j \in Class : ~Fits(j, size)
    PROVE  Smallest(size) = 0
BY DEF Smallest

-----------------------------------------------------------------------------
(* The state of a search for key over the rows from first on: the rows     *)
(* below lo are too small, and hi is large enough, unless it is the last   *)
(* row, which only round_size_class still has to compare.                  *)
Searching(first, key) ==
    /\ lo \in first .. NUM_SIZE_CLASSES - 1
    /\ hi \in lo .. NUM_SIZE_CLASSES - 1
    /\ \A i \in first .. lo - 1 : Size(i) < key
    /\ hi < NUM_SIZE_CLASSES - 1 => Size(hi) >= key

IInv ==
    /\ TypeOK
    /\ pc = "round" => Searching(1, in)
    /\ pc = "refused" => Smallest(in) = 0
    /\ pc \in {"held", "index", "found"} =>
          class \in Class /\ class = Smallest(in)
    /\ pc = "index" => Searching(0, Size(class))
    /\ pc = "found" => idx = class

(* One turn keeps what the search knows.                                   *)
LEMMA TurnSearches ==
    ASSUME NEW first \in {0, 1}, NEW key \in Nat, Searching(first, key),
           search_turn(key)
    PROVE  Searching(first, key)'
<1> DEFINE N == NUM_SIZE_CLASSES
           mid == lo + (hi - lo) \div 2
<1>1. N \in Nat /\ N >= 2 /\ lo \in first .. N - 1 /\ hi \in lo .. N - 1 /\ lo < hi
  BY Table DEF Searching, search_turn
<1>2. mid \in lo .. hi - 1
  BY <1>1
<1>3. mid \in Row /\ first .. mid \subseteq Row
  BY <1>1, <1>2 DEF Row
<1>4. CASE Size(mid) < key
  <2>1. lo' = mid + 1 /\ hi' = hi
    BY <1>4 DEF search_turn, Size
  <2>2. \A i \in first .. mid : Size(i) < key
    <3> SUFFICES ASSUME NEW i \in first .. mid PROVE Size(i) < key
      OBVIOUS
    <3>1. i = mid \/ (i < mid /\ i \in Row)
      BY <1>1, <1>2, <1>3
    <3>2. i \in Row /\ Size(i) \in Nat /\ Size(mid) \in Nat
      BY <1>3, Table
    <3> HIDE DEF mid
    <3>3. Size(i) <= Size(mid)
      BY <1>3, <3>1, <3>2, Table
    <3> QED
      BY <1>4, <3>2, <3>3
  <2> HIDE DEF mid
  <2>3. lo' \in first .. N - 1 /\ hi' \in lo' .. N - 1
    BY <1>1, <1>2, <2>1
  <2>4. \A i \in first .. lo' - 1 : Size(i) < key
    BY <1>1, <1>2, <2>1, <2>2
  <2> QED
    BY <2>1, <2>3, <2>4 DEF Searching
<1>5. CASE ~(Size(mid) < key)
  <2>1. lo' = lo /\ hi' = mid
    BY <1>5 DEF search_turn, Size
  <2>2. Size(mid) \in Nat
    BY <1>3, Table
  <2> HIDE DEF mid
  <2>3. lo' \in first .. N - 1 /\ hi' \in lo' .. N - 1
    BY <1>1, <1>2, <2>1
  <2> QED
    BY <1>5, <2>1, <2>2, <2>3 DEF Searching
<1> QED
  BY <1>4, <1>5

LEMMA InitIInv == Init => IInv
BY Table DEF Init, IInv, TypeOK

(* allocate begins: with the smallest class for a request of 0 bytes, with *)
(* a search otherwise.                                                     *)
LEMMA RoundBegins ==
    ASSUME IInv, NEW size \in Requests, round_begin(size)
    PROVE  IInv'
<1>1. size \in Nat /\ 1 \in Class
  BY Table DEF Class
<1>2. CASE size = 0
  <2>1. Fits(1, size) /\ \A j \in Class : Fits(j, size) => 1 <= j
    BY <1>1, <1>2, Table DEF Fits, Class, Row, Size
  <2>2. Smallest(size) = 1
    BY <1>1, <2>1, SmallestIs
  <2>3. /\ in' = size /\ class' = 1 /\ pc' = "held"
        /\ UNCHANGED <<lo, hi, limit, idx>>
    BY <1>2 DEF round_begin
  <2>4. TypeOK'
    BY <2>3, Table DEF IInv, TypeOK
  <2>5. pc' = "held" /\ class' \in Class /\ class' = Smallest(in)'
    BY <1>1, <2>2, <2>3
  <2> QED
    BY <2>4, <2>5 DEF IInv
<1>3. CASE size # 0
  <2>1. /\ in' = size /\ pc' = "round" /\ lo' = 1 /\ hi' = NUM_SIZE_CLASSES - 1
        /\ UNCHANGED <<limit, class, idx>>
    BY <1>3 DEF round_begin
  <2>2. TypeOK'
    BY <2>1, Table DEF IInv, TypeOK
  <2>3. Searching(1, in)'
    BY <2>1, Table DEF Searching
  <2> QED
    BY <2>1, <2>2, <2>3 DEF IInv
<1> QED
  BY <1>2, <1>3

LEMMA RoundTurns == ASSUME IInv, round_turn PROVE IInv'
<1>1. pc = "round" /\ Searching(1, in) /\ in \in Nat
  BY Table DEF round_turn, IInv, TypeOK
<1>2. Searching(1, in)'
  <2>1. PICK key \in Nat : key = in
    BY <1>1
  <2>2. Searching(1, key)'
    BY <1>1, <2>1, TurnSearches DEF round_turn
  <2> QED
    BY <2>1, <2>2 DEF round_turn, Searching
<1>3. TypeOK'
  BY <1>2, Table DEF IInv, TypeOK, round_turn, Searching
<1> QED
  BY <1>1, <1>2, <1>3 DEF IInv, round_turn

(* The search of allocate ends on the smallest class that fits, or on the  *)
(* last one when none does.                                                *)
LEMMA RoundEnds == ASSUME IInv, round_end PROVE IInv'
<1> DEFINE N == NUM_SIZE_CLASSES
<1>1. /\ pc = "round" /\ Searching(1, in) /\ in \in Nat /\ lo = hi
      /\ lo \in 1 .. N - 1 /\ N \in Nat
  BY Table DEF round_end, IInv, TypeOK, Searching
<1>2. \A j \in Class : Size(j) \in Nat
  BY Table
<1>3. \A j \in Class : j < lo => ~Fits(j, in)
  BY <1>1, <1>2 DEF Searching, Fits, Size, Class
<1>4. lo \in Class /\ Size(lo) \in Nat
  BY <1>1, <1>2 DEF Class
<1>5. CASE Size(lo) >= in
  <2>1. Smallest(in) = lo
    <3>1. Fits(lo, in)
      BY <1>4, <1>5 DEF Fits, Size
    <3>2. \A j \in Class : Fits(j, in) => lo <= j
      BY <1>1, <1>3 DEF Class
    <3> QED
      BY <1>1, <1>4, <3>1, <3>2, SmallestIs
  <2>2. class' = lo /\ pc' = "held" /\ UNCHANGED <<limit, in, lo, hi, idx>>
    BY <1>5 DEF round_end, Size
  <2>3. TypeOK'
    BY <2>2 DEF IInv, TypeOK
  <2> QED
    BY <1>4, <2>1, <2>2, <2>3 DEF IInv
<1>6. CASE ~(Size(lo) >= in)
  <2>1. lo = N - 1
    BY <1>1, <1>4, <1>6 DEF Searching
  <2>2. \A j \in Class : ~Fits(j, in)
    BY <1>1, <1>3, <1>4, <1>6, <2>1 DEF Class, Fits, Size
  <2>3. Smallest(in) = 0
    BY <1>1, <2>2, NoneFits
  <2>4. class' = 0 /\ pc' = "refused" /\ UNCHANGED <<limit, in, lo, hi, idx>>
    BY <1>6 DEF round_end, Size
  <2>5. TypeOK'
    BY <2>4, Table DEF IInv, TypeOK
  <2> QED
    BY <2>3, <2>4, <2>5 DEF IInv
<1> QED
  BY <1>5, <1>6

(* The search of deallocate: the last row is as large as any class.        *)
LEMMA IndexBegins == ASSUME IInv, index_begin PROVE IInv'
<1>1. /\ lo' = 0 /\ hi' = NUM_SIZE_CLASSES - 1 /\ pc = "held" /\ pc' = "index"
      /\ UNCHANGED <<limit, in, class, idx>>
  BY DEF index_begin
<1>2. Searching(0, Size(class))'
  BY <1>1, Table DEF Searching
<1>3. TypeOK'
  BY <1>1, Table DEF IInv, TypeOK
<1> QED
  BY <1>1, <1>2, <1>3 DEF IInv

LEMMA IndexTurns == ASSUME IInv, index_turn PROVE IInv'
<1>1. /\ pc = "index" /\ class \in Class /\ Searching(0, Size(class))
      /\ search_turn(Size(class))
      /\ UNCHANGED <<limit, pc, in, class, idx>>
  BY DEF index_turn, IInv, Size
<1>2. PICK key \in Nat : key = Size(class)
  BY <1>1, Table
<1>3. Searching(0, key)'
  BY <1>1, <1>2, TurnSearches
<1>4. Searching(0, Size(class))'
  BY <1>1, <1>2, <1>3 DEF Searching, Size
<1>5. TypeOK'
  BY <1>1, <1>3, Table DEF IInv, TypeOK, Searching
<1> QED
  BY <1>1, <1>4, <1>5 DEF IInv

LEMMA IndexEnds == ASSUME IInv, index_end PROVE IInv'
<1>1. /\ pc = "index" /\ class \in Class /\ Searching(0, Size(class)) /\ lo = hi
      /\ idx' = lo /\ pc' = "found" /\ UNCHANGED <<limit, in, lo, hi, class>>
  <2>1. pc = "index" /\ lo >= hi
    BY DEF index_end
  <2>2. class \in Class /\ Searching(0, Size(class))
    BY <2>1 DEF IInv
  <2>3. lo = hi
    BY <2>1, <2>2, Table DEF Searching
  <2> QED
    BY <2>1, <2>2, <2>3 DEF index_end
<1>2. lo \in Row /\ class \in Row
  BY <1>1, Table DEF Searching, Row
<1>3. ~(class < lo)
  <2> SUFFICES ASSUME class < lo PROVE FALSE
    OBVIOUS
  <2>1. class \in 0 .. lo - 1
    BY <1>2, Table DEF Row
  <2>2. Size(class) < Size(class) /\ Size(class) \in Nat
    BY <1>1, <1>2, <2>1, Table DEF Searching
  <2> QED
    BY <2>2
<1>4. ~(lo < class)
  <2> SUFFICES ASSUME lo < class PROVE FALSE
    OBVIOUS
  <2>1. Size(lo) < Size(class) /\ Size(lo) \in Nat /\ Size(class) \in Nat
    BY <1>2, Table
  <2>2. hi < NUM_SIZE_CLASSES - 1
    BY <1>1, <1>2, Table DEF Row
  <2> QED
    BY <1>1, <2>1, <2>2 DEF Searching
<1>6. lo = class
  BY <1>2, <1>3, <1>4, Table DEF Row
<1>5. TypeOK'
  BY <1>1 DEF IInv, TypeOK
<1> QED
  BY <1>1, <1>5, <1>6 DEF IInv

LEMMA NextIInv == IInv /\ [Next]_vars => IInv'
<1> SUFFICES ASSUME IInv, [Next]_vars PROVE IInv'
  OBVIOUS
<1>1. CASE refused \/ found
  BY <1>1, Table DEF refused, found, call_ends, IInv, TypeOK
<1>2. CASE UNCHANGED vars
  BY <1>2 DEF vars, IInv, TypeOK, Searching, Smallest, Fits
<1> QED
  BY <1>1, <1>2, RoundBegins, RoundTurns, RoundEnds, IndexBegins, IndexTurns,
     IndexEnds DEF Next

(* The searches of round_size_class and size_class_to_idx close in on the  *)
(* smallest class that fits: it never leaves the rows between lo and hi.   *)
THEOREM Invariant == Spec => []IInv
BY InitIInv, NextIInv, PTL DEF Spec

(* Every index the searches use is a row of the table.                     *)
THEOREM TypeCorrect == Spec => []TypeOK
<1>1. IInv => TypeOK
  BY DEF IInv
<1> QED
  BY <1>1, Invariant, PTL

(* For every sorted table and every request, allocate uses the smallest    *)
(* class that fits and deallocate finds the same class again.              *)
THEOREM RoundsUpCorrect == Spec => []RoundsUp
<1>1. IInv => RoundsUp
  BY DEF IInv, RoundsUp
<1> QED
  BY <1>1, Invariant, PTL

-----------------------------------------------------------------------------
(* Sums over the table.  A recursive function is shown to exist, and a     *)
(* fact about all its values to hold, by induction over a set of numbers.  *)

LEMMA LeastNumber ==
    ASSUME NEW S \in SUBSET Nat, S # {}
    PROVE  \E n \in S : \A k \in S : n <= k
<1> DEFINE R == OpToRel(<, Nat)
<1>1. IsWellFoundedOn(R, Nat)
  BY NatLessThanWellFounded
<1>2. \A x, y \in Nat : x < y => <<x, y>> \in R
  BY DEF OpToRel
<1> HIDE DEF R
<1>3. PICK n \in S : \A k \in S : ~(<<k, n>> \in R)
  BY <1>1, WFMin
<1>4. \A k \in S : ~(k < n)
  BY <1>2, <1>3
<1> QED
  BY <1>3, <1>4

LEMMA NumberInduction ==
    ASSUME NEW S, 0 \in S, \A n \in Nat : n \in S => n + 1 \in S
    PROVE  Nat \subseteq S
<1> SUFFICES ASSUME Nat \ S # {} PROVE FALSE
  OBVIOUS
<1>1. PICK n \in Nat \ S : \A k \in Nat \ S : n <= k
  BY LeastNumber
<1>2. n # 0 /\ n - 1 \in Nat /\ n - 1 \in S
  BY <1>1
<1> QED
  BY <1>1, <1>2

(* f[n] is the sum of the first n values of v, from v[1] on.               *)
IsPrefixSum(k, v, f) ==
    f = [n \in 0 .. k |-> IF n = 0 THEN 0 ELSE f[n - 1] + v[n]]

LEMMA PrefixSumExists ==
    ASSUME NEW k \in Nat, NEW v
    PROVE  \E f : IsPrefixSum(k, v, f)
<1> DEFINE K == {j \in Nat : \E f : IsPrefixSum(j, v, f)}
<1>1. 0 \in K
  <2>1. IsPrefixSum(0, v, [n \in 0 .. 0 |-> 0])
    BY DEF IsPrefixSum
  <2> QED
    BY <2>1
<1>2. ASSUME NEW j \in Nat, j \in K PROVE j + 1 \in K
  <2>1. PICK f : IsPrefixSum(j, v, f)
    BY <1>2
  <2> DEFINE g == [n \in 0 .. j + 1 |->
                      IF n = j + 1 THEN f[j] + v[n] ELSE f[n]]
  <2>2. \A n \in 0 .. j : f[n] = IF n = 0 THEN 0 ELSE f[n - 1] + v[n]
    BY <2>1 DEF IsPrefixSum
  <2>3. ASSUME NEW n \in 0 .. j + 1
        PROVE  g[n] = IF n = 0 THEN 0 ELSE g[n - 1] + v[n]
    <3>1. CASE n = 0
      BY <2>2, <3>1
    <3>2. CASE n # 0 /\ n # j + 1
      <4>1. n - 1 \in 0 .. j + 1 /\ n - 1 # j + 1 /\ n \in 0 .. j
        BY <3>2
      <4>2. g[n] = f[n] /\ g[n - 1] = f[n - 1]
        BY <3>2, <4>1
      <4> QED
        BY <2>2, <3>2, <4>1, <4>2
    <3>3. CASE n = j + 1
      <4>1. n # 0 /\ n - 1 = j /\ j \in 0 .. j + 1 /\ j # j + 1
        BY <3>3
      <4>2. g[n] = f[j] + v[n] /\ g[n - 1] = f[j]
        BY <3>3, <4>1
      <4> QED
        BY <4>1, <4>2
    <3> QED
      BY <3>1, <3>2, <3>3
  <2>4. g = [n \in 0 .. j + 1 |-> g[n]]
    OBVIOUS
  <2> HIDE DEF g
  <2>5. g = [n \in 0 .. j + 1 |-> IF n = 0 THEN 0 ELSE g[n - 1] + v[n]]
    BY <2>3, <2>4
  <2>6. IsPrefixSum(j + 1, v, g)
    BY <2>5 DEF IsPrefixSum
  <2> QED
    BY <2>6
<1>3. Nat \subseteq K
  <2> HIDE DEF K
  <2> QED
    BY <1>1, <1>2, NumberInduction
<1> QED
  BY <1>3

(* The sums of natural numbers grow, and none is below what it adds last.  *)
LEMMA PrefixSumGrows ==
    ASSUME NEW k \in Nat, NEW v, \A n \in 1 .. k : v[n] \in Nat,
           NEW f, IsPrefixSum(k, v, f)
    PROVE  /\ f[0] = 0
           /\ \A n \in 1 .. k : f[n] = f[n - 1] + v[n]
           /\ \A n \in 0 .. k : f[n] \in Nat
           /\ \A m, n \in 0 .. k : m <= n => f[m] <= f[n]
<1>1. f[0] = 0 /\ \A n \in 1 .. k : f[n] = f[n - 1] + v[n]
  BY DEF IsPrefixSum
<1> DEFINE N == {n \in Nat : n <= k =>
                    \A m \in 0 .. n : f[m] \in Nat /\ f[m] <= f[n]}
<1>2. 0 \in N
  BY <1>1
<1>3. ASSUME NEW n \in Nat, n \in N PROVE n + 1 \in N
  <2> SUFFICES ASSUME n + 1 <= k
               PROVE  \A m \in 0 .. n + 1 : f[m] \in Nat /\ f[m] <= f[n + 1]
    OBVIOUS
  <2>1. f[n] \in Nat /\ \A m \in 0 .. n : f[m] \in Nat /\ f[m] <= f[n]
    BY <1>3
  <2>2. n + 1 \in 1 .. k /\ (n + 1) - 1 = n
    OBVIOUS
  <2>3. f[n + 1] = f[n] + v[n + 1] /\ v[n + 1] \in Nat
    BY <1>1, <2>2
  <2>4. f[n + 1] \in Nat /\ f[n] <= f[n + 1]
    BY <2>1, <2>3
  <2>5. ASSUME NEW m \in 0 .. n + 1 PROVE f[m] \in Nat /\ f[m] <= f[n + 1]
    <3>1. m = n + 1 \/ m \in 0 .. n
      OBVIOUS
    <3> QED
      BY <2>1, <2>3, <2>4, <3>1
  <2> QED
    BY <2>5
<1>4. Nat \subseteq N
  <2> HIDE DEF N
  <2> QED
    BY <1>2, <1>3, NumberInduction
<1>5. ASSUME NEW n \in 0 .. k
      PROVE  \A m \in 0 .. n : f[m] \in Nat /\ f[m] <= f[n]
  <2>1. n \in Nat /\ n <= k
    OBVIOUS
  <2> QED
    BY <1>4, <2>1
<1>6. ASSUME NEW m \in 0 .. k, NEW n \in 0 .. k, m <= n PROVE f[m] <= f[n]
  <2>1. m \in 0 .. n
    BY <1>6
  <2> QED
    BY <1>5, <2>1
<1>7. ASSUME NEW n \in 0 .. k PROVE f[n] \in Nat
  <2>1. n \in 0 .. n
    OBVIOUS
  <2> QED
    BY <1>5, <2>1
<1> QED
  BY <1>1, <1>6, <1>7

-----------------------------------------------------------------------------
(* The layout of the slabs *)

Batch(i) == SizeClasses[i].batch_size

LEMMA Rows ==
    /\ Class = 1 .. NUM_SIZE_CLASSES - 1
    /\ \A i \in Class :
          /\ Size(i) \in Nat /\ Size(i) > 0
          /\ Batch(i) \in Nat /\ Batch(i) > 0
          /\ SizeClasses[i].byte_budget \in Nat
<1>1. \A i \in Class : 0 \in Row /\ i \in Row /\ 0 < i
  BY Table DEF Row, Class
<1>2. \A i \in Class : Size(i) \in Nat /\ Size(0) \in Nat /\ Size(0) < Size(i)
  BY <1>1, Table
<1>3. \A i \in Class : Size(i) > 0
  BY <1>2
<1> QED
  BY <1>2, <1>3, SizeClassTableAssumption DEF Class, Batch

LEMMA RoundDown ==
    ASSUME NEW n \in Nat, NEW batch \in Nat, batch > 0
    PROVE  LET cap == AtLeast(round_down(n, batch), batch)
           IN  /\ cap \in Nat /\ cap >= batch /\ cap % batch = 0
               /\ cap <= n \/ cap = batch
<1> DEFINE q == n \div batch
           r == q * batch
<1>1. q \in Nat
  OBVIOUS
<1>2. r <= n
  OBVIOUS
<1> HIDE DEF q
<1>3. r \in Nat
  BY <1>1
<1>4. r % batch = 0
  BY <1>1
<1>5. round_down(n, batch) = r
  BY DEF round_down, q
<1> HIDE DEF r
<1>6. batch % batch = 0
  OBVIOUS
<1> QED
  BY <1>2, <1>3, <1>4, <1>5, <1>6 DEF AtLeast

(* What a budget pays for is whole batches, and no more than its bytes.    *)
LEMMA RawCapacity ==
    ASSUME NEW i \in Class
    PROVE  /\ raw_capacity(i) \in Nat
           /\ raw_capacity(i) >= Batch(i)
           /\ raw_capacity(i) % Batch(i) = 0
           /\ \/ raw_capacity(i) <= SizeClasses[i].byte_budget
              \/ raw_capacity(i) = Batch(i)
<1> DEFINE budget == SizeClasses[i].byte_budget
           n == budget \div Size(i)
<1>1. /\ Size(i) \in Nat /\ Size(i) > 0 /\ budget \in Nat
      /\ Batch(i) \in Nat /\ Batch(i) > 0
  BY Rows
<1>2. raw_capacity(i) = AtLeast(round_down(n, Batch(i)), Batch(i))
  BY DEF raw_capacity, Size, Batch
<1> HIDE DEF budget
<1>3. n \in Nat /\ n <= budget
  BY <1>1
<1> HIDE DEF n
<1>4. LET cap == AtLeast(round_down(n, Batch(i)), Batch(i))
      IN  /\ cap \in Nat /\ cap >= Batch(i) /\ cap % Batch(i) = 0
          /\ cap <= n \/ cap = Batch(i)
  BY <1>1, <1>3, RoundDown
<1> QED
  BY <1>1, <1>2, <1>3, <1>4 DEF budget

LEMMA TotalRaw ==
    /\ total_raw \in Nat /\ total_raw > 0
<1> DEFINE N == NUM_SIZE_CLASSES - 1
           v == [i \in Class |-> raw_capacity(i)]
           P(f) == f = [i \in 0 .. N |->
                           IF i = 0 THEN 0 ELSE f[i - 1] + raw_capacity(i)]
<1>1. N \in Nat /\ N >= 1 /\ Class = 1 .. N
  BY Table, Rows
<1>2. \A n \in 1 .. N : v[n] \in Nat /\ v[n] = raw_capacity(n)
  BY <1>1, RawCapacity
<1> HIDE DEF v
<1>3. \E f : IsPrefixSum(N, v, f)
  BY <1>1, PrefixSumExists
<1>4. \A f : IsPrefixSum(N, v, f) <=> P(f)
  <2> TAKE f
  <2>1. [i \in 0 .. N |-> IF i = 0 THEN 0 ELSE f[i - 1] + v[i]] =
        [i \in 0 .. N |-> IF i = 0 THEN 0 ELSE f[i - 1] + raw_capacity(i)]
    <3>1. \A i \in 0 .. N : i = 0 \/ i \in 1 .. N
      BY <1>1
    <3>2. \A i \in 0 .. N :
             (IF i = 0 THEN 0 ELSE f[i - 1] + v[i]) =
             (IF i = 0 THEN 0 ELSE f[i - 1] + raw_capacity(i))
      BY <1>2, <3>1
    <3> QED
      BY <3>2
  <2> QED
    BY <2>1 DEF IsPrefixSum
<1>5. total = CHOOSE f : P(f)
  BY DEF total
<1> HIDE DEF P
<1>6. IsPrefixSum(N, v, total)
  BY <1>3, <1>4, <1>5
<1>7. /\ total[0] = 0
      /\ \A n \in 1 .. N : total[n] = total[n - 1] + v[n]
      /\ \A n \in 0 .. N : total[n] \in Nat
  BY <1>1, <1>2, <1>6, PrefixSumGrows
<1>8. total[N] = total[N - 1] + v[N] /\ total[N - 1] \in Nat /\ total[N] \in Nat
      /\ N \in Class
  BY <1>1, <1>7
<1>9. v[N] \in Nat /\ v[N] > 0
  <2>1. v[N] = raw_capacity(N) /\ v[N] \in Nat
    BY <1>1, <1>2
  <2>2. raw_capacity(N) >= Batch(N) /\ Batch(N) \in Nat /\ Batch(N) > 0
    BY <1>8, RawCapacity, Rows
  <2> QED
    BY <2>1, <2>2
<1>10. total_raw = total[N]
  BY DEF total_raw
<1> QED
  BY <1>8, <1>9, <1>10

(* Scaling down leaves whole batches, at least one, and adds none.         *)
LEMMA Capacity ==
    ASSUME NEW i \in Class, NEW max \in Limits
    PROVE  /\ capacity(i, max) \in Nat
           /\ capacity(i, max) >= Batch(i)
           /\ capacity(i, max) % Batch(i) = 0
           /\ capacity(i, max) <= raw_capacity(i)
<1> DEFINE raw == raw_capacity(i)
           n == (raw * max) \div total_raw
<1>1. /\ raw \in Nat /\ raw >= Batch(i) /\ raw % Batch(i) = 0
      /\ Batch(i) \in Nat /\ Batch(i) > 0
  BY RawCapacity, Rows
<1>2. total_raw \in Nat /\ total_raw > 0 /\ max \in Nat
  BY TotalRaw, SizeClassTableAssumption
<1>3. i # 0
  BY Rows, Table
<1> HIDE DEF raw
<1>4. CASE ~(total_raw > max)
  <2>1. capacity(i, max) = raw
    BY <1>3, <1>4 DEF capacity, raw
  <2> QED
    BY <1>1, <2>1 DEF raw
<1>5. CASE total_raw > max
  <2>1. raw * max \in Nat /\ raw * max <= raw * total_raw
    BY <1>1, <1>2, <1>5
  <2>2. n \in Nat /\ n <= raw
    <3> DEFINE product == raw * max
    <3>1. product \in Nat /\ product <= raw * total_raw
      BY <2>1
    <3> HIDE DEF product
    <3>2. product \div total_raw \in Nat /\ product \div total_raw <= raw
      BY <1>1, <1>2, <3>1
    <3> QED
      BY <3>2 DEF product
  <2>3. capacity(i, max) = AtLeast(round_down(n, Batch(i)), Batch(i))
    BY <1>3, <1>5 DEF capacity, scaled_capacity, Batch, raw
  <2> HIDE DEF n
  <2>4. LET cap == AtLeast(round_down(n, Batch(i)), Batch(i))
        IN  /\ cap \in Nat /\ cap >= Batch(i) /\ cap % Batch(i) = 0
            /\ cap <= n \/ cap = Batch(i)
    BY <1>1, <2>2, RoundDown
  <2> QED
    BY <1>1, <2>2, <2>3, <2>4 DEF raw
<1> QED
  BY <1>4, <1>5

(* The offsets are the prefix sums of the capacities.                      *)
LEMMA Offsets ==
    ASSUME NEW max \in Limits
    PROVE  /\ \A i \in Row : offsets[max][i + 1] = offsets[max][i] + capacity(i, max)
           /\ \A i \in 0 .. NUM_SIZE_CLASSES : offsets[max][i] \in Nat
           /\ \A i, j \in 0 .. NUM_SIZE_CLASSES :
                 i <= j => offsets[max][i] <= offsets[max][j]
<1> DEFINE N == NUM_SIZE_CLASSES
           v == [i \in 1 .. N |-> capacity(i - 1, max)]
           P(f) == f = [i \in 0 .. N |->
                           IF i = 0 THEN 0 ELSE f[i - 1] + capacity(i - 1, max)]
           s == CHOOSE f : P(f)
<1>1. N \in Nat /\ N >= 2 /\ Class = 1 .. N - 1
  BY Table, Rows
<1>2. ASSUME NEW n \in 1 .. N
      PROVE  v[n] \in Nat /\ v[n] = capacity(n - 1, max)
  <2>1. n - 1 = 0 \/ n - 1 \in Class
    BY <1>1
  <2>2. capacity(0, max) = 0
    BY DEF capacity
  <2>3. \A k : k = 0 \/ k \in Class => capacity(k, max) \in Nat
    BY <2>2, Capacity
  <2> QED
    BY <2>1, <2>3
<1> HIDE DEF v
<1>3. \E f : IsPrefixSum(N, v, f)
  BY <1>1, PrefixSumExists
<1>4. \A f : IsPrefixSum(N, v, f) <=> P(f)
  <2> TAKE f
  <2>1. [i \in 0 .. N |-> IF i = 0 THEN 0 ELSE f[i - 1] + v[i]] =
        [i \in 0 .. N |-> IF i = 0 THEN 0 ELSE f[i - 1] + capacity(i - 1, max)]
    <3>1. \A i \in 0 .. N : i = 0 \/ i \in 1 .. N
      BY <1>1
    <3>2. \A i \in 0 .. N :
             (IF i = 0 THEN 0 ELSE f[i - 1] + v[i]) =
             (IF i = 0 THEN 0 ELSE f[i - 1] + capacity(i - 1, max))
      BY <1>2, <3>1
    <3> QED
      BY <3>2
  <2> QED
    BY <2>1 DEF IsPrefixSum
<1>5. offsets[max] = s
  BY DEF offsets
<1> HIDE DEF P
<1>6. IsPrefixSum(N, v, offsets[max])
  BY <1>3, <1>4, <1>5
<1> HIDE DEF s
<1>7. /\ \A n \in 1 .. N : offsets[max][n] = offsets[max][n - 1] + v[n]
      /\ \A n \in 0 .. N : offsets[max][n] \in Nat
      /\ \A m, n \in 0 .. N : m <= n => offsets[max][m] <= offsets[max][n]
  BY <1>1, <1>2, <1>6, PrefixSumGrows
<1>8. ASSUME NEW i \in Row
      PROVE  offsets[max][i + 1] = offsets[max][i] + capacity(i, max)
  <2>1. i + 1 \in 1 .. N /\ (i + 1) - 1 = i
    BY <1>1 DEF Row
  <2> QED
    BY <1>2, <1>7, <2>1
<1> QED
  BY <1>7, <1>8

LEMMA ClassCapacity ==
    ASSUME NEW i \in Class, NEW max \in Limits
    PROVE  class_capacity(i, max) = capacity(i, max)
<1>1. i \in Row /\ i \in 0 .. NUM_SIZE_CLASSES
  BY Table DEF Row
<1>2. offsets[max][i + 1] = offsets[max][i] + capacity(i, max)
      /\ offsets[max][i] \in Nat /\ capacity(i, max) \in Nat
  BY <1>1, Offsets, Capacity
<1> QED
  BY <1>2 DEF class_capacity

(* For every table and every limit, a class has room for whole batches, at *)
(* least for one, and its slots can be counted: no matter how far the      *)
(* capacities are scaled down, refilling a slab and draining it works in   *)
(* whole batches (config.hpp, compute_slab_offsets).                       *)
THEOREM SlicesHoldBatches == Spec => []SliceHoldsBatches
<1>1. IInv => SliceHoldsBatches
  <2> SUFFICES ASSUME IInv, pc = "held"
               PROVE  LET cap   == class_capacity(class, limit)
                          batch == SizeClasses[class].batch_size
                      IN  /\ cap >= batch
                          /\ cap % batch = 0
                          /\ cap < 2 ^ (8 * CountBytes)
    BY DEF SliceHoldsBatches
  <2> DEFINE cap == class_capacity(class, limit)
             raw == raw_capacity(class)
             budget == SizeClasses[class].byte_budget
  <2>1. class \in Class /\ limit \in Limits
    BY DEF IInv, TypeOK
  <2>2. /\ cap \in Nat /\ cap >= Batch(class) /\ cap % Batch(class) = 0
        /\ cap <= raw
    BY <2>1, ClassCapacity, Capacity
  <2>3. /\ raw \in Nat /\ Batch(class) \in Nat /\ budget \in Nat
        /\ raw <= budget \/ raw = Batch(class)
    BY <2>1, RawCapacity, Rows
  <2>4. /\ Batch(class) <= MAX_BATCH_SIZE /\ MAX_BATCH_SIZE \in Nat
        /\ MAX_BATCH_SIZE < 2 ^ (8 * CountBytes)
        /\ budget < 2 ^ (8 * CountBytes)
    BY <2>1, SizeClassFieldsAssumption DEF Batch
  <2> HIDE DEF cap, raw, budget
  <2>5. cap <= budget \/ cap <= MAX_BATCH_SIZE
    BY <2>2, <2>3, <2>4
  <2>6. cap < 2 ^ (8 * CountBytes)
    <3>1. 8 * CountBytes \in Nat
      BY SizeClassTableAssumption
    <3> QED
      BY <2>2, <2>3, <2>4, <2>5, <3>1
  <2> QED
    BY <2>2, <2>6 DEF cap, Batch
<1> QED
  BY <1>1, Invariant, PTL

-----------------------------------------------------------------------------
(* The bytes of the slabs *)

LEMMA AlignUp ==
    ASSUME NEW value \in Nat, NEW alignment \in Nat, alignment > 0
    PROVE  align_up(value, alignment) \in Nat /\ value <= align_up(value, alignment)
<1> DEFINE n == value + alignment - 1
<1>1. n \in Nat
  OBVIOUS
<1>2. align_up(value, alignment) = (n \div alignment) * alignment
  BY DEF align_up
<1> HIDE DEF n
<1>3. n \div alignment \in Nat
  BY <1>1
<1>4. n < (n \div alignment) * alignment + alignment
  BY <1>1
<1>5. (n \div alignment) * alignment \in Nat
  BY <1>3
<1> QED
  BY <1>2, <1>4, <1>5 DEF n

LEMMA Times ==
    ASSUME NEW a \in Nat, NEW b \in Nat, NEW k \in Nat
    PROVE  a * k \in Nat /\ (a <= b => a * k <= b * k)
           /\ (a + b) * k = a * k + b * k
OBVIOUS

(* The slab of a CPU ends before that of the next one begins.              *)
LEMMA Stride ==
    ASSUME NEW max \in Limits
    PROVE  /\ SLAB_POINTERS_OFFSET \in Nat
           /\ NUM_SIZE_CLASSES * CountBytes <= SLAB_POINTERS_OFFSET
           /\ SLAB_STRIDE_BYTES(max) \in Nat
           /\ SLAB_POINTERS_OFFSET
                 + offsets[max][NUM_SIZE_CLASSES] * PointerBytes
                    <= SLAB_STRIDE_BYTES(max)
<1>1. /\ NUM_SIZE_CLASSES \in Nat /\ CountBytes \in Nat /\ PointerBytes \in Nat
      /\ CACHE_LINE_SIZE \in Nat /\ CACHE_LINE_SIZE > 0
  BY SizeClassTableAssumption
<1>2. NUM_SIZE_CLASSES * CountBytes \in Nat
  BY <1>1, Times
<1>3. /\ SLAB_POINTERS_OFFSET \in Nat
      /\ NUM_SIZE_CLASSES * CountBytes <= SLAB_POINTERS_OFFSET
  BY <1>1, <1>2, AlignUp DEF SLAB_POINTERS_OFFSET
<1>4. offsets[max][NUM_SIZE_CLASSES] \in Nat
  <2>1. NUM_SIZE_CLASSES \in 0 .. NUM_SIZE_CLASSES
    BY <1>1
  <2> QED
    BY <2>1, Offsets
<1> DEFINE bytes == offsets[max][NUM_SIZE_CLASSES] * PointerBytes
<1>5. bytes \in Nat
  BY <1>1, <1>4, Times
<1> HIDE DEF bytes
<1>6. SLAB_POINTERS_OFFSET + bytes \in Nat
  BY <1>3, <1>5
<1>7. SLAB_STRIDE_BYTES(max) = align_up(SLAB_POINTERS_OFFSET + bytes, CACHE_LINE_SIZE)
  BY DEF SLAB_STRIDE_BYTES, bytes
<1>8. /\ SLAB_STRIDE_BYTES(max) \in Nat
      /\ SLAB_POINTERS_OFFSET + bytes <= SLAB_STRIDE_BYTES(max)
  BY <1>1, <1>6, <1>7, AlignUp
<1> QED
  BY <1>3, <1>8 DEF bytes

(* Inside its slab, a class has its slots behind all counts, and slots and *)
(* counts follow the order of the classes.                                 *)
LEMMA Places ==
    ASSUME NEW max \in Limits, NEW c \in CPU, NEW i \in Class
    PROVE  /\ c * SLAB_STRIDE_BYTES(max) \in Nat
           /\ count_bytes(c, i, max) =
                 <<c * SLAB_STRIDE_BYTES(max) + i * CountBytes,
                   c * SLAB_STRIDE_BYTES(max) + (i * CountBytes + CountBytes)>>
           /\ slice_bytes(c, i, max) =
                 <<c * SLAB_STRIDE_BYTES(max)
                      + (SLAB_POINTERS_OFFSET + offsets[max][i] * PointerBytes),
                   c * SLAB_STRIDE_BYTES(max)
                      + (SLAB_POINTERS_OFFSET
                            + offsets[max][i + 1] * PointerBytes)>>
<1> DEFINE base == c * SLAB_STRIDE_BYTES(max)
           low == offsets[max][i]
           high == offsets[max][i + 1]
<1>1. /\ c \in Nat /\ i \in Nat /\ SLAB_STRIDE_BYTES(max) \in Nat
      /\ SLAB_POINTERS_OFFSET \in Nat
      /\ CountBytes \in Nat /\ PointerBytes \in Nat
  BY Stride, Rows, Table, SizeClassTableAssumption
<1>2. base \in Nat
  BY <1>1, Times
<1>3. get_slabs(c, max) = base
  BY DEF get_slabs
<1>4. low \in Nat /\ high \in Nat /\ low <= high
  <2>1. i \in 0 .. NUM_SIZE_CLASSES /\ i + 1 \in 0 .. NUM_SIZE_CLASSES /\ i <= i + 1
    BY Rows, Table
  <2> QED
    BY <2>1, Offsets
<1>5. class_capacity(i, max) = high - low
  BY DEF class_capacity
<1> HIDE DEF base, low, high
<1>6. i * CountBytes \in Nat
  BY <1>1, Times
<1>7. count_bytes(c, i, max) =
         <<base + i * CountBytes, base + (i * CountBytes + CountBytes)>>
  BY <1>1, <1>2, <1>3, <1>6 DEF count_bytes
<1>8. high - low \in Nat /\ low + (high - low) = high
  BY <1>4
<1>9. /\ low * PointerBytes \in Nat /\ (high - low) * PointerBytes \in Nat
      /\ high * PointerBytes = low * PointerBytes + (high - low) * PointerBytes
  BY <1>1, <1>4, <1>8, Times
<1>10. slice_bytes(c, i, max) =
          <<base + SLAB_POINTERS_OFFSET + low * PointerBytes,
            base + SLAB_POINTERS_OFFSET + low * PointerBytes
               + (high - low) * PointerBytes>>
  BY <1>3, <1>5 DEF slice_bytes, low
<1>11. slice_bytes(c, i, max) =
          <<base + (SLAB_POINTERS_OFFSET + low * PointerBytes),
            base + (SLAB_POINTERS_OFFSET + high * PointerBytes)>>
  BY <1>1, <1>2, <1>9, <1>10
<1> QED
  BY <1>2, <1>7, <1>11 DEF base, low, high

LEMMA Inside ==
    ASSUME NEW max \in Limits, NEW i \in Class
    PROVE  /\ i * CountBytes \in Nat
           /\ i * CountBytes + CountBytes <= SLAB_POINTERS_OFFSET
           /\ offsets[max][i] * PointerBytes \in Nat
           /\ offsets[max][i + 1] * PointerBytes \in Nat
           /\ SLAB_POINTERS_OFFSET + offsets[max][i + 1] * PointerBytes
                 <= SLAB_STRIDE_BYTES(max)
<1> DEFINE N == NUM_SIZE_CLASSES
           all == offsets[max][N]
           high == offsets[max][i + 1]
<1>1. /\ i \in Nat /\ N \in Nat /\ i + 1 <= N /\ i + 1 \in Nat
      /\ CountBytes \in Nat /\ PointerBytes \in Nat
  BY Rows, Table, SizeClassTableAssumption
<1>2. /\ i * CountBytes \in Nat
      /\ (i + 1) * CountBytes <= N * CountBytes
      /\ (i + 1) * CountBytes = i * CountBytes + CountBytes
      /\ N * CountBytes \in Nat
  BY <1>1, Times
<1>3. /\ SLAB_POINTERS_OFFSET \in Nat /\ N * CountBytes <= SLAB_POINTERS_OFFSET
      /\ SLAB_STRIDE_BYTES(max) \in Nat
      /\ SLAB_POINTERS_OFFSET + all * PointerBytes <= SLAB_STRIDE_BYTES(max)
  BY Stride
<1>4. /\ high \in Nat /\ all \in Nat /\ high <= all /\ offsets[max][i] \in Nat
  <2>1. i \in 0 .. N /\ i + 1 \in 0 .. N /\ N \in 0 .. N
    BY <1>1
  <2> QED
    BY <1>1, <2>1, Offsets
<1> HIDE DEF all, high
<1>5. /\ high * PointerBytes \in Nat /\ all * PointerBytes \in Nat
      /\ high * PointerBytes <= all * PointerBytes
      /\ offsets[max][i] * PointerBytes \in Nat
  BY <1>1, <1>4, Times
<1>6. SLAB_POINTERS_OFFSET + high * PointerBytes <= SLAB_STRIDE_BYTES(max)
  BY <1>3, <1>5
<1>7. i * CountBytes + CountBytes <= SLAB_POINTERS_OFFSET
  BY <1>1, <1>2, <1>3
<1> QED
  BY <1>2, <1>5, <1>6, <1>7 DEF high

(* What lies inside the slabs of two CPUs does not meet.                   *)
LEMMA SlabsApart ==
    ASSUME NEW c \in Nat, NEW d \in Nat, c # d, NEW s \in Nat,
           NEW x \in Nat, NEW y \in Nat, y <= s,
           NEW u \in Nat, NEW w \in Nat, w <= s
    PROVE  Apart(<<c * s + x, c * s + y>>, <<d * s + u, d * s + w>>)
<1>1. ASSUME NEW a \in Nat, NEW b \in Nat, a < b PROVE a * s + s <= b * s
  <2>1. a + 1 \in Nat /\ a + 1 <= b
    BY <1>1
  <2>2. (a + 1) * s <= b * s /\ (a + 1) * s = a * s + 1 * s
    BY <2>1, Times
  <2> QED
    BY <2>2
<1>2. c * s \in Nat /\ d * s \in Nat
  BY Times
<1>3. c * s + s <= d * s \/ d * s + s <= c * s
  BY <1>1
<1> QED
  BY <1>2, <1>3 DEF Apart

LEMMA InOneSlab ==
    ASSUME NEW base \in Nat, NEW x \in Nat, NEW y \in Nat, NEW u \in Nat,
           NEW w \in Nat, y <= u \/ w <= x
    PROVE  Apart(<<base + x, base + y>>, <<base + u, base + w>>)
BY DEF Apart

(* The slabs are laid out right for every table, every limit and any       *)
(* number of CPUs: the count and the slots of a class share no byte with   *)
(* those of another class or of another CPU (slabs.hpp, SLAB_STRIDE_BYTES  *)
(* and the offsets the restartable sections compute their addresses from). *)
THEOREM SlicesStayDisjoint == Spec => []SlicesDisjoint
<1>1. IInv => SlicesDisjoint
  <2> SUFFICES ASSUME IInv, pc = "held", NEW c \in CPU, NEW d \in CPU,
                      NEW i \in Class, <<c, class>> # <<d, i>>
               PROVE  /\ Apart(slice_bytes(c, class, limit),
                               slice_bytes(d, i, limit))
                      /\ Apart(slice_bytes(c, class, limit),
                               count_bytes(d, i, limit))
                      /\ Apart(count_bytes(c, class, limit),
                               count_bytes(d, i, limit))
    BY DEF SlicesDisjoint
  <2> DEFINE k == class
             s == SLAB_STRIDE_BYTES(limit)
             p == SLAB_POINTERS_OFFSET
             slot(n) == offsets[limit][n] * PointerBytes
  <2>1. k \in Class /\ limit \in Limits /\ c \in Nat /\ d \in Nat
        /\ CountBytes \in Nat /\ PointerBytes \in Nat
    BY SizeClassTableAssumption DEF IInv, TypeOK
  <2>2. s \in Nat /\ p \in Nat
    BY <2>1, Stride
  <2>3. \A n \in Class :
           /\ n * CountBytes \in Nat /\ n * CountBytes + CountBytes \in Nat
           /\ n * CountBytes + CountBytes <= p
           /\ slot(n) \in Nat /\ slot(n + 1) \in Nat
           /\ p + slot(n) \in Nat /\ p + slot(n + 1) \in Nat
           /\ p + slot(n + 1) <= s
    BY <2>1, <2>2, Inside
  <2>4. /\ slice_bytes(c, k, limit) =
              <<c * s + (p + slot(k)), c * s + (p + slot(k + 1))>>
        /\ slice_bytes(d, i, limit) =
              <<d * s + (p + slot(i)), d * s + (p + slot(i + 1))>>
        /\ count_bytes(c, k, limit) =
              <<c * s + k * CountBytes, c * s + (k * CountBytes + CountBytes)>>
        /\ count_bytes(d, i, limit) =
              <<d * s + i * CountBytes, d * s + (i * CountBytes + CountBytes)>>
    BY <2>1, Places
  <2>5. ASSUME NEW a \in Class, NEW b \in Class, a < b
        PROVE  /\ slot(a + 1) <= slot(b)
               /\ a * CountBytes + CountBytes <= b * CountBytes
    <3>1. /\ a + 1 \in Nat /\ b \in Nat /\ a \in Nat /\ a + 1 <= b
          /\ a + 1 \in 0 .. NUM_SIZE_CLASSES /\ b \in 0 .. NUM_SIZE_CLASSES
      BY <2>5, Rows, Table
    <3>2. /\ offsets[limit][a + 1] \in Nat /\ offsets[limit][b] \in Nat
          /\ offsets[limit][a + 1] <= offsets[limit][b]
      BY <2>1, <3>1, Offsets
    <3>3. slot(a + 1) <= slot(b)
      BY <2>1, <3>2, Times
    <3>4. (a + 1) * CountBytes <= b * CountBytes
          /\ (a + 1) * CountBytes = a * CountBytes + 1 * CountBytes
      BY <2>1, <3>1, Times
    <3> QED
      BY <2>1, <3>3, <3>4
  <2> DEFINE k0 == k * CountBytes
             k1 == k * CountBytes + CountBytes
             k2 == p + slot(k)
             k3 == p + slot(k + 1)
             i0 == i * CountBytes
             i1 == i * CountBytes + CountBytes
             i2 == p + slot(i)
             i3 == p + slot(i + 1)
  <2>6. /\ k0 \in Nat /\ k1 \in Nat /\ k2 \in Nat /\ k3 \in Nat
        /\ i0 \in Nat /\ i1 \in Nat /\ i2 \in Nat /\ i3 \in Nat
        /\ k1 <= s /\ k3 <= s /\ i1 <= s /\ i3 <= s /\ i1 <= k2
    <3> HIDE DEF s, p, slot, k
    <3> QED
      BY <2>1, <2>2, <2>3
  <2>7. k # i => (k1 <= i0 \/ i1 <= k0) /\ (k3 <= i2 \/ i3 <= k2)
    <3> SUFFICES ASSUME k # i
                 PROVE  (k1 <= i0 \/ i1 <= k0) /\ (k3 <= i2 \/ i3 <= k2)
      OBVIOUS
    <3>1. k < i \/ i < k
      BY <2>1, Rows, Table
    <3>2. \/ slot(k + 1) <= slot(i) /\ k1 <= i0
          \/ slot(i + 1) <= slot(k) /\ i1 <= k0
      BY <2>1, <2>5, <3>1
    <3> HIDE DEF s, p, slot, k
    <3> QED
      BY <2>1, <2>2, <2>3, <3>2
  <2>8. /\ slice_bytes(c, k, limit) = <<c * s + k2, c * s + k3>>
        /\ slice_bytes(d, i, limit) = <<d * s + i2, d * s + i3>>
        /\ count_bytes(c, k, limit) = <<c * s + k0, c * s + k1>>
        /\ count_bytes(d, i, limit) = <<d * s + i0, d * s + i1>>
    BY <2>4
  <2> HIDE DEF s, p, slot, k0, k1, k2, k3, i0, i1, i2, i3
  <2>9. CASE c # d
    <3>1. /\ Apart(<<c * s + k2, c * s + k3>>, <<d * s + i2, d * s + i3>>)
          /\ Apart(<<c * s + k2, c * s + k3>>, <<d * s + i0, d * s + i1>>)
          /\ Apart(<<c * s + k0, c * s + k1>>, <<d * s + i0, d * s + i1>>)
      BY <2>1, <2>2, <2>6, <2>9, SlabsApart
    <3> QED
      BY <2>8, <3>1
  <2>10. CASE c = d
    <3> DEFINE base == c * s
    <3>1. base \in Nat
      BY <2>1, <2>2, Times
    <3> HIDE DEF base
    <3>2. k # i
      BY <2>10
    <3>3. /\ Apart(<<base + k2, base + k3>>, <<base + i2, base + i3>>)
          /\ Apart(<<base + k2, base + k3>>, <<base + i0, base + i1>>)
          /\ Apart(<<base + k0, base + k1>>, <<base + i0, base + i1>>)
      BY <2>6, <2>7, <3>1, <3>2, InOneSlab
    <3> QED
      BY <2>8, <2>10, <3>3 DEF base
  <2> QED
    BY <2>9, <2>10
<1> QED
  BY <1>1, Invariant, PTL

=============================================================================
