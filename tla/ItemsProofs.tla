---------------------------- MODULE ItemsProofs -----------------------------
(***************************************************************************)
(* Proofs about items: those that decay, for any items, types, times,      *)
(* changes of types and number of buckets; then what containers hold, for  *)
(* any containers, capacities, players and windows.                        *)
(***************************************************************************)
EXTENDS Decay, Containers, FiniteSetTheorems, WellFoundedInduction, TLAPS

\* The numbers that contain 0 and with every number the next.
LEMMA AllNumbers ==
  ASSUME NEW Q \in SUBSET Nat, 0 \in Q, \A n \in Q : n + 1 \in Q
  PROVE  Q = Nat
<1> SUFFICES ASSUME Nat \ Q # {} PROVE FALSE
  OBVIOUS
<1>1. PICK x \in Nat \ Q : \A y \in Nat \ Q : ~(<<y, x>> \in OpToRel(<, Nat))
  BY NatLessThanWellFounded, WFMin
<1>2. x # 0
  OBVIOUS
<1>3. x - 1 \in Nat /\ x - 1 < x /\ (x - 1) + 1 = x
  BY <1>2
<1>4. <<x - 1, x>> \in OpToRel(<, Nat)
  BY <1>3 DEF OpToRel
<1>5. x - 1 \in Q
  BY <1>1, <1>3, <1>4
<1> QED BY <1>3, <1>5

\* The greatest of the first numbers is one of them.
LEMMA Greatest ==
  ASSUME NEW n \in Nat, NEW T \in SUBSET (1..n), T # {}
  PROVE  Max(T) \in T
<1> DEFINE B == {k \in Nat : \A y \in T : y <= k}
<1>1. n \in B
  OBVIOUS
<1>2. PICK k \in B : \A y \in B : ~(<<y, k>> \in OpToRel(<, Nat))
  BY <1>1, NatLessThanWellFounded, WFMin
<1>3. k \in T
  <2> SUFFICES ASSUME k \notin T PROVE FALSE
    OBVIOUS
  <2>1. k # 0
    <3>1. PICK y \in T : TRUE
      OBVIOUS
    <3> QED BY <3>1
  <2>2. k - 1 \in Nat /\ k - 1 < k
    BY <2>1
  <2>3. k - 1 \in B
    BY <2>2
  <2>4. <<k - 1, k>> \in OpToRel(<, Nat)
    BY <2>2 DEF OpToRel
  <2> QED BY <1>2, <2>3, <2>4
<1>4. \A y \in T : k >= y
  OBVIOUS
<1>5. \E x \in T : \A y \in T : x >= y
  BY <1>3, <1>4
<1> QED BY <1>5 DEF Max

\* As is the last of those numbers, if it is among them.
LEMMA TopOfNumbers ==
  ASSUME NEW k \in Nat, NEW T \in SUBSET (1..k), k \in T
  PROVE  Max(T) = k
<1>1. \A y \in T : y \in Int /\ k >= y
  OBVIOUS
<1>2. \E x \in T : \A y \in T : x >= y
  BY <1>1
<1>3. Max(T) \in T /\ \A y \in T : Max(T) >= y
  BY <1>2 DEF Max
<1>4. Max(T) \in Int /\ k >= Max(T) /\ Max(T) >= k
  BY <1>1, <1>3
<1> HIDE DEF Max
<1> QED BY <1>4

-----------------------------------------------------------------------------
(* What the folds over lists compute.                                      *)

\* The entry of i is sorted into a bucket, after the last one b.
SortsTo(d, b) == IF d >= Buckets THEN b ELSE (b + 1 + d) % Buckets
SortEntry(r, i, b) ==
  LET n == IF Duration(r, i) >= Buckets THEN b
           ELSE (b + 1 + Duration(r, i)) % Buckets
  IN  [r EXCEPT !.bucket[n] = Append(@, i)]

\* The listings are summed up list by list.
AddsUp(r, lists, i, n) ==
  r[0] = 0 /\ \A k \in 1..n : r[k] = r[k - 1] + Times(lists[k], i)
LEMMA TotalsAdd ==
  ASSUME NEW s, NEW i, NEW lists, lists = Lists(s), NEW n \in Nat, DOMAIN lists = 1..n
  PROVE  \E r : AddsUp(r, lists, i, n) /\ Listings(s, i) = r[n]
<1> DEFINE E(f, S) == [T \in SUBSET S |-> IF T = {} THEN 0
                                   ELSE f[T \ {Max(T)}] + Times(lists[Max(T)], i)]
           Q == {k \in Nat : \E f : f = E(f, 1..k)}
           iter == CHOOSE f : f = E(f, DOMAIN lists)
           r == [k \in 0..n |-> iter[1..k]]
<1>1. Listings(s, i) = iter[DOMAIN lists]
  BY DEF Listings, FoldLeft, MapThenFoldSet
<1>2. 0 \in Q
  <2> DEFINE f == [T \in SUBSET (1..0) |-> 0]
  <2>1. f = E(f, 1..0)
    OBVIOUS
  <2> QED BY <2>1
<1>3. ASSUME NEW k \in Q PROVE k + 1 \in Q
  <2>0. k \in Nat
    OBVIOUS
  <2>1. PICK f : f = E(f, 1..k)
    OBVIOUS
  <2> DEFINE S == 1..(k + 1)
             g == [T \in SUBSET S |->
                     IF T = {} THEN 0
                     ELSE IF k + 1 \in T THEN f[T \ {k + 1}] + Times(lists[k + 1], i) ELSE f[T]]
  <2>2. ASSUME NEW T \in SUBSET (1..k) PROVE T \in SUBSET S /\ g[T] = f[T]
    <3>1. T \in SUBSET S /\ k + 1 \notin T
      OBVIOUS
    <3>2. T = {} => f[T] = 0
      BY <2>1
    <3> QED BY <3>1, <3>2
  <2>3. ASSUME NEW T \in SUBSET S, T # {}
        PROVE  g[T] = g[T \ {Max(T)}] + Times(lists[Max(T)], i)
    <3>1. CASE k + 1 \in T
      <4>1. Max(T) = k + 1
        BY <3>1, TopOfNumbers
      <4>2. T \ {k + 1} \in SUBSET (1..k)
        OBVIOUS
      <4>3. g[T \ {k + 1}] = f[T \ {k + 1}]
        BY <2>2, <4>2
      <4>4. g[T] = f[T \ {k + 1}] + Times(lists[k + 1], i)
        BY <2>3, <3>1
      <4> HIDE DEF g
      <4> QED BY <4>1, <4>3, <4>4
    <3>2. CASE k + 1 \notin T
      <4>1. T \in SUBSET (1..k) /\ T \ {Max(T)} \in SUBSET (1..k)
        <5> HIDE DEF Q, g
        <5>1. \A j \in T : j \in 1..k
          BY <2>0, <3>2
        <5> QED BY <5>1
      <4>2. g[T] = f[T] /\ g[T \ {Max(T)}] = f[T \ {Max(T)}]
        BY <2>2, <4>1
      <4>3. f[T] = f[T \ {Max(T)}] + Times(lists[Max(T)], i)
        BY <2>1, <2>3, <4>1
      <4> HIDE DEF g
      <4> QED BY <4>2, <4>3
    <3> QED BY <3>1, <3>2
  <2>4. g[{}] = 0 /\ {} \in SUBSET S /\ g = [T \in SUBSET S |-> g[T]]
    OBVIOUS
  <2> HIDE DEF g
  <2>5. ASSUME NEW T \in SUBSET S
        PROVE  g[T] = IF T = {} THEN 0 ELSE g[T \ {Max(T)}] + Times(lists[Max(T)], i)
    BY <2>3, <2>4
  <2>6. g = E(g, S)
    BY <2>4, <2>5, Zenon
  <2> HIDE DEF E
  <2> QED BY <2>6
<1>4. n \in Q
  BY <1>2, <1>3, AllNumbers
<1>5. iter = E(iter, DOMAIN lists)
  BY <1>4
<1> HIDE DEF iter
<1>6. iter[{}] = 0
  <2>1. {} \in SUBSET (DOMAIN lists)
    OBVIOUS
  <2> QED BY <1>5, <2>1, Zenon
<1>7. ASSUME NEW k \in 1..n PROVE r[k] = r[k - 1] + Times(lists[k], i)
  <2>1. 1..k \in SUBSET (1..n) /\ 1..k # {} /\ k \in 1..k /\ k \in Nat /\ k - 1 \in 0..n
    <3> HIDE DEF r, Q, E
    <3>1. k \in Nat /\ k >= 1 /\ k <= n /\ k - 1 \in 0..n /\ k \in 1..k
      OBVIOUS
    <3>2. 1..k \subseteq 1..n
      BY <3>1
    <3> QED BY <3>1, <3>2
  <2>2. Max(1..k) = k
    BY <2>1, TopOfNumbers
  <2>3. (1..k) \ {k} = 1..(k - 1)
    OBVIOUS
  <2>4. iter[1..k] = iter[(1..k) \ {Max(1..k)}] + Times(lists[Max(1..k)], i)
    BY <1>5, <2>1
  <2>5. r[k] = iter[1..k] /\ r[k - 1] = iter[1..(k - 1)]
    BY <2>1
  <2> HIDE DEF r
  <2> QED BY <2>2, <2>3, <2>4, <2>5
<1>8. r[0] = 0 /\ Listings(s, i) = r[n]
  <2>1. 1..0 = {} /\ r[0] = iter[1..0] /\ r[n] = iter[1..n]
    OBVIOUS
  <2> QED BY <2>1, <1>1, <1>6
<1> HIDE DEF r
<1> QED BY <1>7, <1>8 DEF AddsUp

\* Entries are sorted one by one,
SortsAll(r, s, b, q, n) ==
  r[0] = [s EXCEPT !.fresh = <<>>] /\ \A k \in 1..n : r[k] = SortEntry(r[k - 1], q[k], b)
LEMMA SortsInTurn ==
  ASSUME NEW s, NEW b, NEW q, q = s.fresh, NEW n \in Nat, DOMAIN q = 1..n
  PROVE  \E r : SortsAll(r, s, b, q, n) /\ Sort(s, b) = r[n]
<1> DEFINE E(f, S) == [T \in SUBSET S |-> IF T = {} THEN [s EXCEPT !.fresh = <<>>]
                                   ELSE SortEntry(f[T \ {Max(T)}], q[Max(T)], b)]
           Q == {k \in Nat : \E f : f = E(f, 1..k)}
           iter == CHOOSE f : f = E(f, DOMAIN q)
           r == [k \in 0..n |-> iter[1..k]]
<1>1. Sort(s, b) = iter[DOMAIN q]
  BY DEF Sort, SortEntry, FoldLeft, MapThenFoldSet
<1>2. 0 \in Q
  <2> DEFINE f == [T \in SUBSET (1..0) |-> [s EXCEPT !.fresh = <<>>]]
  <2>1. f = E(f, 1..0)
    OBVIOUS
  <2> QED BY <2>1
<1>3. ASSUME NEW k \in Q PROVE k + 1 \in Q
  <2>0. k \in Nat
    OBVIOUS
  <2>1. PICK f : f = E(f, 1..k)
    OBVIOUS
  <2> DEFINE S == 1..(k + 1)
             g == [T \in SUBSET S |->
                     IF T = {} THEN [s EXCEPT !.fresh = <<>>]
                     ELSE IF k + 1 \in T THEN SortEntry(f[T \ {k + 1}], q[k + 1], b) ELSE f[T]]
  <2>2. ASSUME NEW T \in SUBSET (1..k) PROVE T \in SUBSET S /\ g[T] = f[T]
    <3>1. T \in SUBSET S /\ k + 1 \notin T
      OBVIOUS
    <3>2. T = {} => f[T] = [s EXCEPT !.fresh = <<>>]
      BY <2>1
    <3> QED BY <3>1, <3>2
  <2>3. ASSUME NEW T \in SUBSET S, T # {}
        PROVE  g[T] = SortEntry(g[T \ {Max(T)}], q[Max(T)], b)
    <3>1. CASE k + 1 \in T
      <4>1. Max(T) = k + 1
        BY <3>1, TopOfNumbers
      <4>2. T \ {k + 1} \in SUBSET (1..k)
        OBVIOUS
      <4>3. g[T \ {k + 1}] = f[T \ {k + 1}]
        BY <2>2, <4>2
      <4>4. g[T] = SortEntry(f[T \ {k + 1}], q[k + 1], b)
        BY <2>3, <3>1
      <4> HIDE DEF g
      <4> QED BY <4>1, <4>3, <4>4
    <3>2. CASE k + 1 \notin T
      <4>1. T \in SUBSET (1..k) /\ T \ {Max(T)} \in SUBSET (1..k)
        <5> HIDE DEF Q, g
        <5>1. \A j \in T : j \in 1..k
          BY <2>0, <3>2
        <5> QED BY <5>1
      <4>2. g[T] = f[T] /\ g[T \ {Max(T)}] = f[T \ {Max(T)}]
        BY <2>2, <4>1
      <4>3. f[T] = SortEntry(f[T \ {Max(T)}], q[Max(T)], b)
        BY <2>1, <2>3, <4>1
      <4> HIDE DEF g
      <4> QED BY <4>2, <4>3
    <3> QED BY <3>1, <3>2
  <2>4. g[{}] = [s EXCEPT !.fresh = <<>>] /\ {} \in SUBSET S /\ g = [T \in SUBSET S |-> g[T]]
    OBVIOUS
  <2> HIDE DEF g
  <2>5. ASSUME NEW T \in SUBSET S
        PROVE  g[T] = IF T = {} THEN [s EXCEPT !.fresh = <<>>]
                      ELSE SortEntry(g[T \ {Max(T)}], q[Max(T)], b)
    BY <2>3, <2>4
  <2>6. g = E(g, S)
    BY <2>4, <2>5, Zenon
  <2> HIDE DEF E
  <2> QED BY <2>6
<1>4. n \in Q
  BY <1>2, <1>3, AllNumbers
<1>5. iter = E(iter, DOMAIN q)
  BY <1>4
<1> HIDE DEF iter
<1>6. iter[{}] = [s EXCEPT !.fresh = <<>>]
  <2>1. {} \in SUBSET (DOMAIN q)
    OBVIOUS
  <2> QED BY <1>5, <2>1, Zenon
<1>7. ASSUME NEW k \in 1..n PROVE r[k] = SortEntry(r[k - 1], q[k], b)
  <2>1. 1..k \in SUBSET (1..n) /\ 1..k # {} /\ k \in 1..k /\ k \in Nat /\ k - 1 \in 0..n
    <3> HIDE DEF r, Q, E
    <3>1. k \in Nat /\ k >= 1 /\ k <= n /\ k - 1 \in 0..n /\ k \in 1..k
      OBVIOUS
    <3>2. 1..k \subseteq 1..n
      BY <3>1
    <3> QED BY <3>1, <3>2
  <2>2. Max(1..k) = k
    BY <2>1, TopOfNumbers
  <2>3. (1..k) \ {k} = 1..(k - 1)
    OBVIOUS
  <2>4. iter[1..k] = SortEntry(iter[(1..k) \ {Max(1..k)}], q[Max(1..k)], b)
    BY <1>5, <2>1
  <2>5. r[k] = iter[1..k] /\ r[k - 1] = iter[1..(k - 1)]
    BY <2>1
  <2> HIDE DEF r
  <2> QED BY <2>2, <2>3, <2>4, <2>5
<1>8. r[0] = [s EXCEPT !.fresh = <<>>] /\ Sort(s, b) = r[n]
  <2>1. 1..0 = {} /\ r[0] = iter[1..0] /\ r[n] = iter[1..n]
    OBVIOUS
  <2> QED BY <2>1, <1>1, <1>6
<1> HIDE DEF r
<1> QED BY <1>7, <1>8 DEF SortsAll

\* references are given up one by one,
ReleasesAll(r, w, q, n) ==
  r[0] = w /\ \A k \in 1..n : r[k] = Released(r[k - 1], q[k])
LEMMA ReleasesInTurn ==
  ASSUME NEW w, NEW q, NEW n \in Nat, DOMAIN q = 1..n
  PROVE  \E r : ReleasesAll(r, w, q, n) /\ FoldLeft(Released, w, q) = r[n]
<1> DEFINE E(f, S) == [T \in SUBSET S |-> IF T = {} THEN w
                                   ELSE Released(f[T \ {Max(T)}], q[Max(T)])]
           Q == {k \in Nat : \E f : f = E(f, 1..k)}
           iter == CHOOSE f : f = E(f, DOMAIN q)
           r == [k \in 0..n |-> iter[1..k]]
<1>1. FoldLeft(Released, w, q) = iter[DOMAIN q]
  BY DEF FoldLeft, MapThenFoldSet
<1>2. 0 \in Q
  <2> DEFINE f == [T \in SUBSET (1..0) |-> w]
  <2>1. f = E(f, 1..0)
    OBVIOUS
  <2> QED BY <2>1
<1>3. ASSUME NEW k \in Q PROVE k + 1 \in Q
  <2>0. k \in Nat
    OBVIOUS
  <2>1. PICK f : f = E(f, 1..k)
    OBVIOUS
  <2> DEFINE S == 1..(k + 1)
             g == [T \in SUBSET S |->
                     IF T = {} THEN w
                     ELSE IF k + 1 \in T THEN Released(f[T \ {k + 1}], q[k + 1]) ELSE f[T]]
  <2>2. ASSUME NEW T \in SUBSET (1..k) PROVE T \in SUBSET S /\ g[T] = f[T]
    <3>1. T \in SUBSET S /\ k + 1 \notin T
      OBVIOUS
    <3>2. T = {} => f[T] = w
      BY <2>1
    <3> QED BY <3>1, <3>2
  <2>3. ASSUME NEW T \in SUBSET S, T # {}
        PROVE  g[T] = Released(g[T \ {Max(T)}], q[Max(T)])
    <3>1. CASE k + 1 \in T
      <4>1. Max(T) = k + 1
        BY <3>1, TopOfNumbers
      <4>2. T \ {k + 1} \in SUBSET (1..k)
        OBVIOUS
      <4>3. g[T \ {k + 1}] = f[T \ {k + 1}]
        BY <2>2, <4>2
      <4>4. g[T] = Released(f[T \ {k + 1}], q[k + 1])
        BY <2>3, <3>1
      <4> HIDE DEF g
      <4> QED BY <4>1, <4>3, <4>4
    <3>2. CASE k + 1 \notin T
      <4>1. T \in SUBSET (1..k) /\ T \ {Max(T)} \in SUBSET (1..k)
        <5> HIDE DEF Q, g
        <5>1. \A j \in T : j \in 1..k
          BY <2>0, <3>2
        <5> QED BY <5>1
      <4>2. g[T] = f[T] /\ g[T \ {Max(T)}] = f[T \ {Max(T)}]
        BY <2>2, <4>1
      <4>3. f[T] = Released(f[T \ {Max(T)}], q[Max(T)])
        BY <2>1, <2>3, <4>1
      <4> HIDE DEF g
      <4> QED BY <4>2, <4>3
    <3> QED BY <3>1, <3>2
  <2>4. g[{}] = w /\ {} \in SUBSET S /\ g = [T \in SUBSET S |-> g[T]]
    OBVIOUS
  <2> HIDE DEF g
  <2>5. ASSUME NEW T \in SUBSET S
        PROVE  g[T] = IF T = {} THEN w ELSE Released(g[T \ {Max(T)}], q[Max(T)])
    BY <2>3, <2>4
  <2>6. g = E(g, S)
    BY <2>4, <2>5, Zenon
  <2> HIDE DEF E
  <2> QED BY <2>6
<1>4. n \in Q
  BY <1>2, <1>3, AllNumbers
<1>5. iter = E(iter, DOMAIN q)
  BY <1>4
<1> HIDE DEF iter
<1>6. iter[{}] = w
  <2>1. {} \in SUBSET (DOMAIN q)
    OBVIOUS
  <2> QED BY <1>5, <2>1, Zenon
<1>7. ASSUME NEW k \in 1..n PROVE r[k] = Released(r[k - 1], q[k])
  <2>1. 1..k \in SUBSET (1..n) /\ 1..k # {} /\ k \in 1..k /\ k \in Nat /\ k - 1 \in 0..n
    <3> HIDE DEF r, Q, E
    <3>1. k \in Nat /\ k >= 1 /\ k <= n /\ k - 1 \in 0..n /\ k \in 1..k
      OBVIOUS
    <3>2. 1..k \subseteq 1..n
      BY <3>1
    <3> QED BY <3>1, <3>2
  <2>2. Max(1..k) = k
    BY <2>1, TopOfNumbers
  <2>3. (1..k) \ {k} = 1..(k - 1)
    OBVIOUS
  <2>4. iter[1..k] = Released(iter[(1..k) \ {Max(1..k)}], q[Max(1..k)])
    BY <1>5, <2>1
  <2>5. r[k] = iter[1..k] /\ r[k - 1] = iter[1..(k - 1)]
    BY <2>1
  <2> HIDE DEF r
  <2> QED BY <2>2, <2>3, <2>4, <2>5
<1>8. r[0] = w /\ FoldLeft(Released, w, q) = r[n]
  <2>1. 1..0 = {} /\ r[0] = iter[1..0] /\ r[n] = iter[1..n]
    OBVIOUS
  <2> QED BY <2>1, <1>1, <1>6
<1> HIDE DEF r
<1> QED BY <1>7, <1>8 DEF ReleasesAll

\* and entries of a bucket checked one by one.
ChecksAll(r, w, b, q, n) ==
  r[0] = w /\ \A k \in 1..n : r[k] = CheckEntry(r[k - 1], q[k], b)
LEMMA ChecksInTurn ==
  ASSUME NEW s, NEW b, NEW w, w = Older(s), NEW q, q = s.bucket[b],
         NEW n \in Nat, DOMAIN q = 1..n
  PROVE  \E r : ChecksAll(r, w, b, q, n) /\ Checks(s, b) = r[n]
<1> DEFINE E(f, S) == [T \in SUBSET S |-> IF T = {} THEN w
                                   ELSE CheckEntry(f[T \ {Max(T)}], q[Max(T)], b)]
           Q == {k \in Nat : \E f : f = E(f, 1..k)}
           iter == CHOOSE f : f = E(f, DOMAIN q)
           r == [k \in 0..n |-> iter[1..k]]
<1>1. Checks(s, b) = iter[DOMAIN q]
  BY DEF Checks, FoldLeft, MapThenFoldSet
<1>2. 0 \in Q
  <2> DEFINE f == [T \in SUBSET (1..0) |-> w]
  <2>1. f = E(f, 1..0)
    OBVIOUS
  <2> QED BY <2>1
<1>3. ASSUME NEW k \in Q PROVE k + 1 \in Q
  <2>0. k \in Nat
    OBVIOUS
  <2>1. PICK f : f = E(f, 1..k)
    OBVIOUS
  <2> DEFINE S == 1..(k + 1)
             g == [T \in SUBSET S |->
                     IF T = {} THEN w
                     ELSE IF k + 1 \in T THEN CheckEntry(f[T \ {k + 1}], q[k + 1], b) ELSE f[T]]
  <2>2. ASSUME NEW T \in SUBSET (1..k) PROVE T \in SUBSET S /\ g[T] = f[T]
    <3>1. T \in SUBSET S /\ k + 1 \notin T
      OBVIOUS
    <3>2. T = {} => f[T] = w
      BY <2>1
    <3> QED BY <3>1, <3>2
  <2>3. ASSUME NEW T \in SUBSET S, T # {}
        PROVE  g[T] = CheckEntry(g[T \ {Max(T)}], q[Max(T)], b)
    <3>1. CASE k + 1 \in T
      <4>1. Max(T) = k + 1
        BY <3>1, TopOfNumbers
      <4>2. T \ {k + 1} \in SUBSET (1..k)
        OBVIOUS
      <4>3. g[T \ {k + 1}] = f[T \ {k + 1}]
        BY <2>2, <4>2
      <4>4. g[T] = CheckEntry(f[T \ {k + 1}], q[k + 1], b)
        BY <2>3, <3>1
      <4> HIDE DEF g
      <4> QED BY <4>1, <4>3, <4>4
    <3>2. CASE k + 1 \notin T
      <4>1. T \in SUBSET (1..k) /\ T \ {Max(T)} \in SUBSET (1..k)
        <5> HIDE DEF Q, g
        <5>1. \A j \in T : j \in 1..k
          BY <2>0, <3>2
        <5> QED BY <5>1
      <4>2. g[T] = f[T] /\ g[T \ {Max(T)}] = f[T \ {Max(T)}]
        BY <2>2, <4>1
      <4>3. f[T] = CheckEntry(f[T \ {Max(T)}], q[Max(T)], b)
        BY <2>1, <2>3, <4>1
      <4> HIDE DEF g
      <4> QED BY <4>2, <4>3
    <3> QED BY <3>1, <3>2
  <2>4. g[{}] = w /\ {} \in SUBSET S /\ g = [T \in SUBSET S |-> g[T]]
    OBVIOUS
  <2> HIDE DEF g
  <2>5. ASSUME NEW T \in SUBSET S
        PROVE  g[T] = IF T = {} THEN w ELSE CheckEntry(g[T \ {Max(T)}], q[Max(T)], b)
    BY <2>3, <2>4
  <2>6. g = E(g, S)
    BY <2>4, <2>5, Zenon
  <2> HIDE DEF E
  <2> QED BY <2>6
<1>4. n \in Q
  BY <1>2, <1>3, AllNumbers
<1>5. iter = E(iter, DOMAIN q)
  BY <1>4
<1> HIDE DEF iter
<1>6. iter[{}] = w
  <2>1. {} \in SUBSET (DOMAIN q)
    OBVIOUS
  <2> QED BY <1>5, <2>1, Zenon
<1>7. ASSUME NEW k \in 1..n PROVE r[k] = CheckEntry(r[k - 1], q[k], b)
  <2>1. 1..k \in SUBSET (1..n) /\ 1..k # {} /\ k \in 1..k /\ k \in Nat /\ k - 1 \in 0..n
    <3> HIDE DEF r, Q, E
    <3>1. k \in Nat /\ k >= 1 /\ k <= n /\ k - 1 \in 0..n /\ k \in 1..k
      OBVIOUS
    <3>2. 1..k \subseteq 1..n
      BY <3>1
    <3> QED BY <3>1, <3>2
  <2>2. Max(1..k) = k
    BY <2>1, TopOfNumbers
  <2>3. (1..k) \ {k} = 1..(k - 1)
    OBVIOUS
  <2>4. iter[1..k] = CheckEntry(iter[(1..k) \ {Max(1..k)}], q[Max(1..k)], b)
    BY <1>5, <2>1
  <2>5. r[k] = iter[1..k] /\ r[k - 1] = iter[1..(k - 1)]
    BY <2>1
  <2> HIDE DEF r
  <2> QED BY <2>2, <2>3, <2>4, <2>5
<1>8. r[0] = w /\ Checks(s, b) = r[n]
  <2>1. 1..0 = {} /\ r[0] = iter[1..0] /\ r[n] = iter[1..n]
    OBVIOUS
  <2> QED BY <2>1, <1>1, <1>6
<1> HIDE DEF r
<1> QED BY <1>7, <1>8 DEF ChecksAll

-----------------------------------------------------------------------------
(* How often an item is on lists.                                          *)

\* Where item i is in a list.
SpotsOf(list, i) == {n \in DOMAIN list : list[n] = i}

\* It is there a number of times, and is there if that is not 0.
LEMMA TimesCount ==
  ASSUME NEW list \in Seq(Good), NEW i
  PROVE  /\ IsFiniteSet(SpotsOf(list, i)) /\ Times(list, i) = Cardinality(SpotsOf(list, i))
         /\ Times(list, i) \in Nat
         /\ Times(list, i) > 0 <=> \E n \in DOMAIN list : list[n] = i
<1>1. Len(list) \in Nat /\ DOMAIN list = 1..Len(list)
  OBVIOUS
<1>2. IsFiniteSet(1..Len(list))
  BY <1>1, FS_Interval
<1>3. IsFiniteSet(SpotsOf(list, i))
  BY <1>1, <1>2, FS_Subset DEF SpotsOf
<1>4. Times(list, i) = Cardinality(SpotsOf(list, i))
  BY DEF Times, SpotsOf
<1>5. Times(list, i) \in Nat /\ (Times(list, i) = 0 <=> SpotsOf(list, i) = {})
  BY <1>3, <1>4, FS_CardinalityType, FS_EmptySet
<1> QED BY <1>3, <1>4, <1>5 DEF SpotsOf

\* No item is on the empty list.
LEMMA TimesEmpty == ASSUME NEW i PROVE Times(<<>>, i) = 0
<1>1. {n \in DOMAIN <<>> : <<>>[n] = i} = {}
  OBVIOUS
<1> QED BY <1>1, FS_EmptySet DEF Times

\* An entry put to the back counts once.
LEMMA TimesAppend ==
  ASSUME NEW list \in Seq(Good), NEW x \in Good, NEW i
  PROVE  Times(Append(list, x), i) = Times(list, i) + (IF x = i THEN 1 ELSE 0)
<1> DEFINE l == Append(list, x)
           n == Len(list) + 1
<1>1. l \in Seq(Good) /\ Len(list) \in Nat /\ DOMAIN list = 1..Len(list) /\ DOMAIN l = 1..n
  OBVIOUS
<1>2. l[n] = x /\ \A k \in DOMAIN list : k # n /\ l[k] = list[k]
  OBVIOUS
<1>3. SpotsOf(l, i) = IF x = i THEN SpotsOf(list, i) \union {n} ELSE SpotsOf(list, i)
  <2> HIDE DEF l
  <2>1. \A k \in DOMAIN l : k \in DOMAIN list \/ k = n
    BY <1>1
  <2>2. \A k \in DOMAIN list : k \in DOMAIN l
    BY <1>1
  <2>3. n \in DOMAIN l
    BY <1>1
  <2> QED BY <1>2, <2>1, <2>2, <2>3 DEF SpotsOf
<1>4. n \notin SpotsOf(list, i)
  BY <1>2 DEF SpotsOf
<1> HIDE DEF l, n
<1>5. IsFiniteSet(SpotsOf(list, i)) /\ Times(list, i) = Cardinality(SpotsOf(list, i))
  BY TimesCount
<1>6. Times(l, i) = Cardinality(SpotsOf(l, i)) /\ Times(list, i) \in Nat
  BY <1>1, TimesCount
<1>7. CASE x = i
  <2>1. Cardinality(SpotsOf(list, i) \union {n}) = Cardinality(SpotsOf(list, i)) + 1
    BY <1>4, <1>5, FS_AddElement
  <2> QED BY <2>1, <1>3, <1>5, <1>6, <1>7 DEF l
<1>8. CASE x # i
  BY <1>3, <1>5, <1>6, <1>8 DEF l
<1> QED BY <1>7, <1>8

\* The first entry that is taken off counted once.
LEMMA TimesTail ==
  ASSUME NEW list \in Seq(Good), list # <<>>, NEW i
  PROVE  /\ Tail(list) \in Seq(Good) /\ Head(list) = list[1] /\ Head(list) \in Good
         /\ Len(list) \in Nat /\ Len(list) >= 1 /\ DOMAIN Tail(list) = 1..(Len(list) - 1)
         /\ \A n \in DOMAIN Tail(list) : n + 1 \in DOMAIN list /\ Tail(list)[n] = list[n + 1]
         /\ Times(list, i) = Times(Tail(list), i) + (IF Head(list) = i THEN 1 ELSE 0)
<1> DEFINE l == Tail(list)
           A == SpotsOf(list, i) \ {1}
           B == SpotsOf(l, i)
           f == [n \in B |-> n + 1]
<1>1. /\ l \in Seq(Good) /\ Head(list) = list[1] /\ Head(list) \in Good
      /\ Len(list) \in Nat /\ Len(list) >= 1
      /\ DOMAIN l = 1..(Len(list) - 1) /\ DOMAIN list = 1..Len(list)
  OBVIOUS
<1>2. \A n \in DOMAIN l : n + 1 \in DOMAIN list /\ l[n] = list[n + 1]
  OBVIOUS
<1> HIDE DEF l
<1>3. f \in Bijection(B, A)
  <2>1. \A n \in B : n \in Nat /\ n + 1 \in A
    BY <1>1, <1>2 DEF SpotsOf
  <2>2. \A m \in A : m \in Nat /\ m - 1 \in B /\ (m - 1) + 1 = m
    <3> TAKE m \in A
    <3>1. m \in 1..Len(list) /\ m # 1 /\ list[m] = i
      BY <1>1 DEF SpotsOf
    <3>2. m - 1 \in DOMAIN l /\ (m - 1) + 1 = m
      BY <1>1, <3>1
    <3>3. l[m - 1] = i
      BY <1>2, <3>1, <3>2
    <3> QED BY <3>1, <3>2, <3>3 DEF SpotsOf
  <2> HIDE DEF A, B
  <2>3. f \in [B -> A]
    BY <2>1
  <2>4. \A x, y \in B : f[x] = f[y] => x = y
    BY <2>1
  <2>5. \A m \in A : \E n \in B : f[n] = m
    BY <2>2
  <2> QED BY <2>3, <2>4, <2>5 DEF Bijection, Injection, Surjection, IsInjective
<1>4. IsFiniteSet(B) /\ Times(l, i) = Cardinality(B)
  BY <1>1, TimesCount
<1>5. Cardinality(A) = Cardinality(B)
  BY <1>3, <1>4, FS_Bijection DEF ExistsBijection
<1>6. /\ IsFiniteSet(SpotsOf(list, i)) /\ Times(list, i) = Cardinality(SpotsOf(list, i))
      /\ Times(list, i) \in Nat
  BY TimesCount
<1>7. Cardinality(A) = IF 1 \in SpotsOf(list, i) THEN Times(list, i) - 1 ELSE Times(list, i)
  BY <1>6, FS_RemoveElement
<1>8. 1 \in SpotsOf(list, i) <=> Head(list) = i
  BY <1>1 DEF SpotsOf
<1>9. Times(list, i) = Times(l, i) + (IF Head(list) = i THEN 1 ELSE 0)
  BY <1>4, <1>5, <1>6, <1>7, <1>8
<1> QED BY <1>1, <1>2, <1>9 DEF l

\* The types of the lists and of the items.
GoodHistory ==
  [burnt : Nat, full : Nat, stays : Nat,
   paused : BOOLEAN, doubled : BOOLEAN, spent : BOOLEAN]
GoodItem ==
  [type : Type \union {None}, duration : Nat \union {None}, decaying : BOOLEAN,
   placed : BOOLEAN, refs : Nat, history : GoodHistory]
Bucket == 0..(Buckets - 1)
GoodWorld ==
  [item : [Good -> GoodItem], bucket : [Bucket -> Seq(Good)],
   fresh : Seq(Good), freed : Seq(Good), early : BOOLEAN]

\* The lists, one by one.
LEMMA ListsAre ==
  ASSUME NEW s \in GoodWorld
  PROVE  /\ Buckets \in Nat /\ Buckets >= 1
         /\ DOMAIN Lists(s) = 1..(Buckets + 1)
         /\ Lists(s)[1] = s.fresh
         /\ \A n \in Bucket : Lists(s)[n + 2] = s.bucket[n]
         /\ \A k \in 1..(Buckets + 1) : Lists(s)[k] \in Seq(Good)
         /\ \A k \in 1..(Buckets + 1) : k = 1 \/ k - 2 \in Bucket
         /\ \A n \in Bucket : n + 2 \in 1..(Buckets + 1)
<1> DEFINE q == [b \in 1..Buckets |-> s.bucket[b - 1]]
<1>1. Buckets \in Nat /\ Buckets >= 1
  BY DecayAssumption
<1>2. s.fresh \in Seq(Good) /\ \A n \in Bucket : s.bucket[n] \in Seq(Good)
  BY DEF GoodWorld
<1>3. \A b \in 1..Buckets : b - 1 \in Bucket
  BY <1>1 DEF Bucket
<1>4. q \in Seq(Seq(Good)) /\ Len(q) = Buckets
  BY <1>1, <1>2, <1>3
<1>5. \A b \in 1..Buckets : q[b] = s.bucket[b - 1]
  OBVIOUS
<1> HIDE DEF q
<1>6. Lists(s) = <<s.fresh>> \o q
  BY DEF Lists, q
<1>7. DOMAIN Lists(s) = 1..(Buckets + 1) /\ Lists(s)[1] = s.fresh
  BY <1>1, <1>2, <1>4, <1>6
<1>8. \A b \in 1..Buckets : Lists(s)[b + 1] = q[b]
  BY <1>1, <1>2, <1>4, <1>6
<1>9. ASSUME NEW n \in Bucket
      PROVE  Lists(s)[n + 2] = s.bucket[n] /\ n + 2 \in 1..(Buckets + 1)
  <2>1. n + 1 \in 1..Buckets /\ (n + 1) - 1 = n /\ (n + 1) + 1 = n + 2
    BY <1>1 DEF Bucket
  <2>2. n + 2 \in 1..(Buckets + 1)
    BY <1>1 DEF Bucket
  <2> QED BY <1>5, <1>8, <2>1, <2>2
<1>10. ASSUME NEW k \in 1..(Buckets + 1)
       PROVE  Lists(s)[k] \in Seq(Good) /\ (k = 1 \/ k - 2 \in Bucket)
  <2>1. CASE k = 1
    BY <2>1, <1>2, <1>7
  <2>2. CASE k # 1
    <3>1. k - 2 \in Bucket /\ (k - 2) + 2 = k
      BY <1>1, <2>2 DEF Bucket
    <3> QED BY <3>1, <1>2, <1>9
  <2> QED BY <2>1, <2>2
<1> QED BY <1>1, <1>7, <1>9, <1>10

\* Worlds that differ in one list differ by what is on that list.
LEMMA ListingsDiffer ==
  ASSUME NEW s \in GoodWorld, NEW v \in GoodWorld, NEW i, NEW j \in 1..(Buckets + 1),
         \A k \in 1..(Buckets + 1) : k # j => Lists(v)[k] = Lists(s)[k]
  PROVE  /\ Listings(s, i) \in Nat /\ Listings(v, i) \in Nat
         /\ Listings(v, i) - Listings(s, i) = Times(Lists(v)[j], i) - Times(Lists(s)[j], i)
<1> DEFINE n == Buckets + 1
           ls == Lists(s)
           lv == Lists(v)
<1>1. n \in Nat /\ DOMAIN ls = 1..n /\ DOMAIN lv = 1..n /\ j \in 1..n
  BY ListsAre
<1>2. \A k \in 1..n : Times(ls[k], i) \in Nat /\ Times(lv[k], i) \in Nat
  BY ListsAre, TimesCount
<1>3. \A k \in 1..n : k # j => lv[k] = ls[k]
  OBVIOUS
<1> HIDE DEF n, ls, lv
<1>4. PICK p : AddsUp(p, ls, i, n) /\ Listings(s, i) = p[n]
  BY <1>1, TotalsAdd DEF ls
<1>5. PICK r : AddsUp(r, lv, i, n) /\ Listings(v, i) = r[n]
  BY <1>1, TotalsAdd DEF lv
<1> DEFINE Fits(k) == /\ p[k] \in Nat /\ r[k] \in Nat
                      /\ r[k] - p[k] = IF j <= k THEN Times(lv[j], i) - Times(ls[j], i) ELSE 0
           Q == {k \in Nat : k <= n => Fits(k)}
<1>6. 0 \in Q
  <2>1. ~(j <= 0)
    BY <1>1
  <2> QED BY <2>1, <1>4, <1>5 DEF AddsUp
<1>7. ASSUME NEW k \in Q PROVE k + 1 \in Q
  <2> SUFFICES ASSUME k + 1 <= n PROVE Fits(k + 1)
    OBVIOUS
  <2>1. k \in Nat /\ Fits(k) /\ k + 1 \in 1..n /\ (k + 1) - 1 = k
    BY <1>1
  <2>2. p[k + 1] = p[k] + Times(ls[k + 1], i) /\ r[k + 1] = r[k] + Times(lv[k + 1], i)
    BY <1>4, <1>5, <2>1 DEF AddsUp
  <2>3. Times(ls[k + 1], i) \in Nat /\ Times(lv[k + 1], i) \in Nat
    BY <1>2, <2>1
  <2>4. CASE j = k + 1
    BY <2>1, <2>2, <2>3, <2>4
  <2>5. CASE j # k + 1
    <3>1. lv[k + 1] = ls[k + 1]
      BY <1>3, <2>1, <2>5
    <3>2. j <= k + 1 <=> j <= k
      BY <1>1, <2>1, <2>5
    <3> QED BY <2>1, <2>2, <2>3, <3>1, <3>2
  <2> QED BY <2>4, <2>5
<1>8. Q = Nat
  BY <1>6, <1>7, AllNumbers
<1>9. Fits(n) /\ j <= n
  BY <1>1, <1>8
<1> QED BY <1>4, <1>5, <1>9 DEF ls, lv

\* The same lists list the same.
LEMMA SameListings ==
  ASSUME NEW s, NEW v, v.fresh = s.fresh, v.bucket = s.bucket, NEW i
  PROVE  Listings(v, i) = Listings(s, i)
  BY DEF Listings, Lists

\* An item is not listed if it is on none of the lists.
LEMMA Unlisted ==
  ASSUME NEW s \in GoodWorld, NEW i
  PROVE  /\ Listings(s, i) \in Nat
         /\ Listings(s, i) = 0 <=> /\ Times(s.fresh, i) = 0
                                   /\ \A n \in Bucket : Times(s.bucket[n], i) = 0
<1> DEFINE n == Buckets + 1
           ls == Lists(s)
<1>1. n \in Nat /\ DOMAIN ls = 1..n
  BY ListsAre
<1>2. \A k \in 1..n : Times(ls[k], i) \in Nat
  BY ListsAre, TimesCount
<1> HIDE DEF n, ls
<1>3. PICK p : AddsUp(p, ls, i, n) /\ Listings(s, i) = p[n]
  BY <1>1, TotalsAdd DEF ls
<1> DEFINE Fits(k) == p[k] \in Nat /\ (p[k] = 0 <=> \A j \in 1..k : Times(ls[j], i) = 0)
           Q == {k \in Nat : k <= n => Fits(k)}
<1>4. 0 \in Q
  BY <1>3 DEF AddsUp
<1>5. ASSUME NEW k \in Q PROVE k + 1 \in Q
  <2> SUFFICES ASSUME k + 1 <= n PROVE Fits(k + 1)
    OBVIOUS
  <2>1. k \in Nat /\ Fits(k) /\ k + 1 \in 1..n /\ (k + 1) - 1 = k
    BY <1>1
  <2>2. p[k + 1] = p[k] + Times(ls[k + 1], i) /\ Times(ls[k + 1], i) \in Nat
    BY <1>2, <1>3, <2>1 DEF AddsUp
  <2>3. p[k + 1] \in Nat /\ (p[k + 1] = 0 <=> p[k] = 0 /\ Times(ls[k + 1], i) = 0)
    BY <2>1, <2>2
  <2>4. \A j \in 1..(k + 1) : j \in 1..k \/ j = k + 1
    BY <2>1
  <2>5. k + 1 \in 1..(k + 1) /\ \A j \in 1..k : j \in 1..(k + 1)
    BY <2>1
  <2> QED BY <2>1, <2>3, <2>4, <2>5
<1>6. Q = Nat
  BY <1>4, <1>5, AllNumbers
<1>7. Fits(n)
  BY <1>1, <1>6
<1>8. (\A j \in 1..n : Times(ls[j], i) = 0) <=>
         /\ Times(s.fresh, i) = 0
         /\ \A m \in Bucket : Times(s.bucket[m], i) = 0
  <2>1. 1 \in 1..n /\ ls[1] = s.fresh
    BY ListsAre DEF n, ls
  <2>2. \A m \in Bucket : m + 2 \in 1..n /\ ls[m + 2] = s.bucket[m]
    BY ListsAre DEF n, ls
  <2>3. \A k \in 1..n : k = 1 \/ (k - 2 \in Bucket /\ (k - 2) + 2 = k)
    BY ListsAre DEF n, ls
  <2> QED BY <2>1, <2>2, <2>3
<1> QED BY <1>3, <1>7, <1>8

-----------------------------------------------------------------------------
(* When an entry comes up.                                                 *)

\* b is the last bucket, of which the first c entries are still to be checked.
TurnsTo(b, n) == ((n - b - 1) % Buckets) + 1
DueIn(b, c, n, p) == IF n = b /\ p <= c THEN 0 ELSE TurnsTo(b, n)
Comes(s, b, c, i, w) ==
  \E n \in Bucket, p \in Nat :
    p \in DOMAIN s.bucket[n] /\ s.bucket[n][p] = i /\ DueIn(b, c, n, p) = w

\* Buckets come up in turn.
LEMMA Turns ==
  ASSUME NEW b \in Bucket
  PROVE  /\ Buckets \in Nat /\ Buckets >= 1
         /\ b \in Nat /\ b < Buckets
         /\ \A n \in Bucket : TurnsTo(b, n) = IF n > b THEN n - b ELSE n - b + Buckets
         /\ \A n \in Bucket : TurnsTo(b, n) \in 1..Buckets
         /\ (b + 1) % Buckets \in Bucket
         /\ (b + 1) % Buckets = IF b + 1 = Buckets THEN 0 ELSE b + 1
         /\ \A d \in 0..(Buckets - 1) :
              /\ (b + d) % Buckets \in Bucket /\ (b + 1 + d) % Buckets \in Bucket
              /\ TurnsTo(b, (b + 1 + d) % Buckets) = d + 1
              /\ d > 0 => TurnsTo(b, (b + d) % Buckets) = d
<1>1. Buckets \in Nat /\ Buckets >= 1
  BY DecayAssumption
<1>2. b \in Nat /\ b < Buckets
  BY <1>1 DEF Bucket
<1>3. ASSUME NEW n \in Bucket
      PROVE  TurnsTo(b, n) = IF n > b THEN n - b ELSE n - b + Buckets
  <2>1. n \in Nat /\ n < Buckets
    BY <1>1 DEF Bucket
  <2>2. CASE n > b
    <3>1. n - b - 1 \in 0..(Buckets - 1)
      BY <1>1, <1>2, <2>1, <2>2
    <3>2. (n - b - 1) % Buckets = n - b - 1
      BY <1>1, <3>1
    <3> QED BY <1>2, <2>1, <2>2, <3>2 DEF TurnsTo
  <2>3. CASE ~(n > b)
    <3> DEFINE x == n - b - 1 + Buckets
    <3>1. x \in 0..(Buckets - 1) /\ n - b - 1 = x - Buckets
      BY <1>1, <1>2, <2>1, <2>3
    <3> HIDE DEF x
    <3>2. (x - Buckets) % Buckets = x
      BY <1>1, <3>1
    <3> QED BY <1>1, <1>2, <2>1, <2>3, <3>1, <3>2 DEF TurnsTo, x
  <2> QED BY <2>2, <2>3
<1>4. \A n \in Bucket : TurnsTo(b, n) \in 1..Buckets
  <2> TAKE n \in Bucket
  <2>1. n \in Nat /\ n < Buckets
    BY <1>1 DEF Bucket
  <2> QED BY <2>1, <1>1, <1>2, <1>3
<1>5. ASSUME NEW x \in Nat, x < Buckets + Buckets
      PROVE  /\ x % Buckets \in Bucket
             /\ x % Buckets = IF x < Buckets THEN x ELSE x - Buckets
  <2>1. CASE x < Buckets
    BY <1>1, <2>1 DEF Bucket
  <2>2. CASE ~(x < Buckets)
    <3> DEFINE y == x - Buckets
    <3>1. y \in 0..(Buckets - 1) /\ x = y + Buckets
      BY <1>1, <1>5, <2>2
    <3> HIDE DEF y
    <3>2. (y + Buckets) % Buckets = y
      BY <1>1, <3>1
    <3> QED BY <1>1, <3>1, <3>2, <2>2 DEF Bucket
  <2> QED BY <2>1, <2>2
<1>6. /\ (b + 1) % Buckets \in Bucket
      /\ (b + 1) % Buckets = IF b + 1 = Buckets THEN 0 ELSE b + 1
  <2>1. b + 1 \in Nat /\ b + 1 < Buckets + Buckets
    BY <1>1, <1>2
  <2> QED BY <1>1, <1>2, <1>5, <2>1
<1>7. ASSUME NEW d \in 0..(Buckets - 1)
      PROVE  /\ (b + d) % Buckets \in Bucket /\ (b + 1 + d) % Buckets \in Bucket
             /\ TurnsTo(b, (b + 1 + d) % Buckets) = d + 1
             /\ d > 0 => TurnsTo(b, (b + d) % Buckets) = d
  <2>1. d \in Nat /\ d < Buckets
    BY <1>1
  <2> DEFINE x == b + d
             y == b + 1 + d
  <2>2. x \in Nat /\ x < Buckets + Buckets /\ y \in Nat /\ y < Buckets + Buckets
    BY <1>1, <1>2, <2>1
  <2> HIDE DEF x, y
  <2>3. x % Buckets \in Bucket /\ x % Buckets = IF x < Buckets THEN x ELSE x - Buckets
    BY <1>5, <2>2
  <2>4. y % Buckets \in Bucket /\ y % Buckets = IF y < Buckets THEN y ELSE y - Buckets
    BY <1>5, <2>2
  <2>5. d > 0 => TurnsTo(b, x % Buckets) = d
    BY <1>1, <1>2, <1>3, <2>1, <2>3 DEF x
  <2>6. TurnsTo(b, y % Buckets) = d + 1
    BY <1>1, <1>2, <1>3, <2>1, <2>4 DEF y
  <2> QED BY <2>3, <2>4, <2>5, <2>6 DEF x, y
<1> QED BY <1>1, <1>2, <1>3, <1>4, <1>6, <1>7

\* What comes up comes up in at most a turn of the buckets, and is on a list.
LEMMA ComesSoon ==
  ASSUME NEW s \in GoodWorld, NEW b \in Bucket, NEW c, NEW i, NEW w, Comes(s, b, c, i, w)
  PROVE  w \in 0..Buckets /\ (c = 0 => w # 0) /\ Listings(s, i) # 0
<1>1. PICK n \in Bucket, p \in Nat :
        p \in DOMAIN s.bucket[n] /\ s.bucket[n][p] = i /\ DueIn(b, c, n, p) = w
  BY Zenon DEF Comes
<1>2. TurnsTo(b, n) \in 1..Buckets /\ Buckets \in Nat
  BY Turns
<1>3. w \in 0..Buckets
  BY <1>1, <1>2 DEF DueIn
<1>4. s.bucket[n] \in Seq(Good)
  BY DEF GoodWorld
<1>5. c = 0 => w # 0
  <2>1. p \in Nat /\ p >= 1
    BY <1>1, <1>4
  <2> QED BY <1>1, <1>2, <2>1 DEF DueIn
<1>6. Times(s.bucket[n], i) > 0
  BY <1>1, <1>4, TimesCount
<1> QED BY <1>3, <1>5, <1>6, Unlisted

\* The first entry of the bucket being checked is taken out.
LEMMA ComesTaken ==
  ASSUME NEW s \in GoodWorld, NEW v \in GoodWorld, NEW b \in Bucket, s.bucket[b] # <<>>,
         NEW c \in Nat, c >= 1, v.bucket = [s.bucket EXCEPT ![b] = Tail(@)], NEW i, NEW w
  PROVE  /\ Comes(v, b, c - 1, i, w) => Comes(s, b, c, i, w)
         /\ Comes(s, b, c, i, w) => Comes(v, b, c - 1, i, w) \/ (w = 0 /\ i = Head(s.bucket[b]))
         /\ Comes(s, b, c, Head(s.bucket[b]), 0)
<1> DEFINE q == s.bucket[b]
           r == v.bucket[b]
<1>1. /\ q \in Seq(Good) /\ r = Tail(q)
      /\ \A n \in Bucket : n # b => v.bucket[n] = s.bucket[n]
  BY DEF GoodWorld
<1>2. /\ Head(q) = q[1] /\ Len(q) \in Nat /\ Len(q) >= 1 /\ DOMAIN q = 1..Len(q)
      /\ DOMAIN r = 1..(Len(q) - 1)
      /\ \A p \in DOMAIN r : p \in Nat /\ p + 1 \in DOMAIN q /\ r[p] = q[p + 1]
  <2>1. q \in Seq(Good) /\ q # <<>> /\ r = Tail(q)
    BY <1>1
  <2> HIDE DEF q, r
  <2>2. /\ Head(q) = q[1] /\ Len(q) \in Nat /\ Len(q) >= 1 /\ DOMAIN r = 1..(Len(q) - 1)
        /\ \A p \in DOMAIN r : p + 1 \in DOMAIN q /\ r[p] = q[p + 1]
    BY <2>1, TimesTail
  <2>3. DOMAIN q = 1..Len(q)
    BY <2>1
  <2> QED BY <2>2, <2>3
<1> HIDE DEF q, r
<1>3. ASSUME Comes(v, b, c - 1, i, w) PROVE Comes(s, b, c, i, w)
  <2>1. PICK n \in Bucket, p \in Nat :
          p \in DOMAIN v.bucket[n] /\ v.bucket[n][p] = i /\ DueIn(b, c - 1, n, p) = w
    BY <1>3 DEF Comes
  <2>2. CASE n = b
    <3>1. p \in DOMAIN r /\ r[p] = i
      BY <2>1, <2>2 DEF r
    <3>2. p + 1 \in DOMAIN q /\ q[p + 1] = i
      BY <1>2, <3>1
    <3>3. DueIn(b, c, b, p + 1) = DueIn(b, c - 1, b, p)
      BY <1>2, <3>1 DEF DueIn
    <3> QED BY <2>1, <2>2, <3>2, <3>3 DEF Comes, q
  <2>3. CASE n # b
    <3>1. DueIn(b, c, n, p) = DueIn(b, c - 1, n, p) /\ v.bucket[n] = s.bucket[n]
      BY <1>1, <2>3 DEF DueIn
    <3> QED BY <2>1, <3>1 DEF Comes
  <2> QED BY <2>2, <2>3
<1>4. ASSUME Comes(s, b, c, i, w)
      PROVE  Comes(v, b, c - 1, i, w) \/ (w = 0 /\ i = Head(q))
  <2>1. PICK n \in Bucket, p \in Nat :
          p \in DOMAIN s.bucket[n] /\ s.bucket[n][p] = i /\ DueIn(b, c, n, p) = w
    BY <1>4 DEF Comes
  <2>2. CASE n = b
    <3>1. p \in DOMAIN q /\ q[p] = i
      BY <2>1, <2>2 DEF q
    <3>2. CASE p = 1
      BY <1>2, <2>1, <2>2, <3>1, <3>2 DEF DueIn
    <3>3. CASE p # 1
      <4>1. p - 1 \in Nat /\ p - 1 \in DOMAIN r /\ (p - 1) + 1 = p
        BY <1>2, <3>1, <3>3
      <4>2. r[p - 1] = i
        BY <1>2, <3>1, <4>1
      <4>3. DueIn(b, c - 1, b, p - 1) = DueIn(b, c, b, p)
        BY <1>2, <3>1 DEF DueIn
      <4> QED BY <2>1, <2>2, <4>1, <4>2, <4>3 DEF Comes, r
    <3> QED BY <3>2, <3>3
  <2>3. CASE n # b
    <3>1. DueIn(b, c, n, p) = DueIn(b, c - 1, n, p) /\ v.bucket[n] = s.bucket[n]
      BY <1>1, <2>3 DEF DueIn
    <3> QED BY <2>1, <3>1 DEF Comes
  <2> QED BY <2>2, <2>3
<1>5. Comes(s, b, c, Head(q), 0)
  <2>1. 1 \in DOMAIN s.bucket[b] /\ s.bucket[b][1] = Head(q) /\ DueIn(b, c, b, 1) = 0
    BY <1>2 DEF DueIn, q
  <2> QED BY <2>1 DEF Comes
<1> QED BY <1>3, <1>4, <1>5 DEF q

\* An entry is put to the back of a bucket.
Puts(s, v, n, x) == v.bucket = [s.bucket EXCEPT ![n] = Append(@, x)]
LEMMA ComesPut ==
  ASSUME NEW s \in GoodWorld, NEW v \in GoodWorld, NEW b \in Bucket, NEW n \in Bucket,
         NEW c \in Nat, c <= Len(s.bucket[b]), NEW x \in Good,
         Puts(s, v, n, x), NEW i, NEW w
  PROVE  Comes(v, b, c, i, w) <=> Comes(s, b, c, i, w) \/ (i = x /\ w = TurnsTo(b, n))
<1> DEFINE q == s.bucket[n]
           r == v.bucket[n]
           e == Len(q) + 1
<1>1. /\ q \in Seq(Good) /\ r = Append(q, x) /\ s.bucket[b] \in Seq(Good)
      /\ \A m \in Bucket : m # n => v.bucket[m] = s.bucket[m]
  BY DEF GoodWorld, Puts
<1>2. /\ Len(q) \in Nat /\ DOMAIN q = 1..Len(q) /\ DOMAIN r = 1..e /\ e \in Nat /\ e \in DOMAIN r
      /\ r[e] = x
      /\ \A p \in DOMAIN q : p \in DOMAIN r /\ r[p] = q[p]
      /\ \A p \in DOMAIN r : p \in DOMAIN q \/ p = e
  BY <1>1
<1>3. DueIn(b, c, n, e) = TurnsTo(b, n)
  <2>1. n = b => c < e
    BY <1>2
  <2> QED BY <1>2, <2>1 DEF DueIn
<1> HIDE DEF q, r, e
<1>4. ASSUME Comes(v, b, c, i, w) PROVE Comes(s, b, c, i, w) \/ (i = x /\ w = TurnsTo(b, n))
  <2>1. PICK m \in Bucket, p \in Nat :
          p \in DOMAIN v.bucket[m] /\ v.bucket[m][p] = i /\ DueIn(b, c, m, p) = w
    BY <1>4 DEF Comes
  <2>2. CASE m = n
    <3>1. p \in DOMAIN r /\ r[p] = i /\ DueIn(b, c, n, p) = w
      BY <2>1, <2>2 DEF r
    <3>2. CASE p = e
      BY <3>1, <3>2, <1>2, <1>3
    <3>3. CASE p \in DOMAIN q
      BY <3>1, <3>3, <1>2 DEF Comes, q
    <3> QED BY <3>1, <3>2, <3>3, <1>2
  <2>3. CASE m # n
    BY <1>1, <2>1, <2>3 DEF Comes
  <2> QED BY <2>2, <2>3
<1>5. ASSUME Comes(s, b, c, i, w) PROVE Comes(v, b, c, i, w)
  <2>1. PICK m \in Bucket, p \in Nat :
          p \in DOMAIN s.bucket[m] /\ s.bucket[m][p] = i /\ DueIn(b, c, m, p) = w
    BY <1>5 DEF Comes
  <2>2. p \in DOMAIN v.bucket[m] /\ v.bucket[m][p] = i
    BY <1>1, <1>2, <2>1 DEF q, r
  <2> QED BY <2>1, <2>2 DEF Comes
<1>6. ASSUME i = x, w = TurnsTo(b, n) PROVE Comes(v, b, c, i, w)
  <2>1. e \in Nat /\ e \in DOMAIN v.bucket[n] /\ v.bucket[n][e] = i /\ DueIn(b, c, n, e) = w
    BY <1>2, <1>3, <1>6 DEF r
  <2> QED BY <2>1 DEF Comes
<1> QED BY <1>4, <1>5, <1>6

\* A round begins: the next bucket comes up now, and any other a round sooner.
LEMMA ComesSooner ==
  ASSUME NEW s \in GoodWorld, NEW v \in GoodWorld, v.bucket = s.bucket, NEW b \in Bucket,
         NEW i, NEW w \in Nat
  PROVE  LET d == (b + 1) % Buckets
         IN  Comes(v, d, Len(s.bucket[d]), i, w) <=> Comes(s, b, 0, i, w + 1)
<1> DEFINE d == (b + 1) % Buckets
<1>1. d \in Bucket /\ d = (IF b + 1 = Buckets THEN 0 ELSE b + 1) /\ b \in Nat /\ b < Buckets
      /\ Buckets \in Nat
  <2>1. (b + 1) % Buckets \in Bucket /\ b \in Nat /\ b < Buckets /\ Buckets \in Nat
    BY Turns
  <2>2. (b + 1) % Buckets = IF b + 1 = Buckets THEN 0 ELSE b + 1
    BY Turns
  <2> QED BY <2>1, <2>2
<1> HIDE DEF d
<1>2. ASSUME NEW n \in Bucket, NEW p \in DOMAIN s.bucket[n]
      PROVE  DueIn(b, 0, n, p) = DueIn(d, Len(s.bucket[d]), n, p) + 1
  <2>1. n \in Nat /\ n < Buckets
    BY <1>1 DEF Bucket
  <2>2. s.bucket[n] \in Seq(Good)
    BY DEF GoodWorld
  <2>3. p \in Nat /\ p >= 1 /\ p <= Len(s.bucket[n])
    BY <2>2
  <2>4. /\ TurnsTo(b, n) = IF n > b THEN n - b ELSE n - b + Buckets
        /\ TurnsTo(d, n) = IF n > d THEN n - d ELSE n - d + Buckets
    BY <1>1, Turns
  <2>5. DueIn(b, 0, n, p) = TurnsTo(b, n)
    BY <2>3 DEF DueIn
  <2>6. CASE n = d
    BY <1>1, <2>1, <2>3, <2>4, <2>5, <2>6 DEF DueIn
  <2>7. CASE n # d
    <3>1. DueIn(d, Len(s.bucket[d]), n, p) = TurnsTo(d, n)
      BY <2>7 DEF DueIn
    <3> QED BY <1>1, <2>1, <2>4, <2>5, <2>7, <3>1
  <2> QED BY <2>6, <2>7
<1>3. ASSUME NEW n \in Bucket, NEW p \in DOMAIN s.bucket[n]
      PROVE  DueIn(d, Len(s.bucket[d]), n, p) \in Int
  <2>1. TurnsTo(d, n) \in Int
    BY <1>1, Turns
  <2> QED BY <2>1 DEF DueIn
<1>4. ASSUME Comes(v, d, Len(s.bucket[d]), i, w) PROVE Comes(s, b, 0, i, w + 1)
  <2>1. PICK n \in Bucket, p \in Nat :
          p \in DOMAIN s.bucket[n] /\ s.bucket[n][p] = i /\ DueIn(d, Len(s.bucket[d]), n, p) = w
    BY <1>4 DEF Comes
  <2>2. DueIn(b, 0, n, p) = w + 1
    BY <1>2, <2>1
  <2> QED BY <2>1, <2>2 DEF Comes
<1>5. ASSUME Comes(s, b, 0, i, w + 1) PROVE Comes(v, d, Len(s.bucket[d]), i, w)
  <2>1. PICK n \in Bucket, p \in Nat :
          p \in DOMAIN s.bucket[n] /\ s.bucket[n][p] = i /\ DueIn(b, 0, n, p) = w + 1
    BY <1>5 DEF Comes
  <2>2. DueIn(d, Len(s.bucket[d]), n, p) = w
    BY <1>2, <1>3, <2>1
  <2> QED BY <2>1, <2>2 DEF Comes
<1> QED BY <1>4, <1>5 DEF d

-----------------------------------------------------------------------------
(* What is true of an item in the game.                                    *)

\* What is left of a time d once its entry has come up.
Over(d) == IF d < Buckets THEN 0 ELSE d - Buckets
\* Its time still counts; the rounds it may burn; the round in which it has decayed,
\* if its entry comes up in w.
Timed(x) == ~x.history.spent /\ x.duration # None
Budget(x) == x.history.full + x.history.stays
Ends(x, w) == x.history.burnt + w + Over(x.duration)
HasTime(x) == x.history.burnt + x.duration <= Budget(x)
Allowed(x, w) == IF w = 0 /\ x.type \notin Decaying THEN Budget(x) ELSE Budget(x) + 1
EndsListed(s, b, c, i) ==
  \E w \in 0..Buckets : Comes(s, b, c, i, w) /\ Ends(s.item[i], w) <= Allowed(s.item[i], w)
EndsFresh(s, e, i) ==
  Times(s.fresh, i) > 0 /\ s.item[i].history.burnt + s.item[i].duration + e <= Budget(s.item[i])
\* It decays in time: e is 0 if this round has been counted already.
InTime(s, b, c, e, i) ==
  Timed(s.item[i]) =>
    /\ s.item[i].decaying => EndsListed(s, b, c, i) \/ EndsFresh(s, e, i)
    /\ ~s.item[i].decaying => HasTime(s.item[i])
\* An item that never paused is listed once while it decays, and not too early.
Steady(x) == Timed(x) /\ ~x.history.paused /\ ~x.history.doubled
Lasting(s, b, c, i) ==
  Steady(s.item[i]) =>
    /\ s.item[i].decaying => s.item[i].type \in Decaying /\ Listings(s, i) = 1
    /\ ~s.item[i].decaying => Listings(s, i) = 0
    /\ ~s.item[i].decaying \/ Times(s.fresh, i) > 0 =>
         s.item[i].history.burnt + s.item[i].duration >= s.item[i].history.full
    /\ \A w \in 0..Buckets : Comes(s, b, c, i, w) => Ends(s.item[i], w) >= s.item[i].history.full
Timely(s, b, c, e, i) ==
  /\ s.item[i].type \in Type
  /\ s.item[i].type \in Decaying => s.item[i].duration # None
  /\ InTime(s, b, c, e, i) /\ Lasting(s, b, c, i)

\* What is true of the lists and of all the items.
Mark(x) == IF x.placed THEN 1 ELSE 0
Referred(s) ==
  \A i \in Good : s.item[i].refs = Mark(s.item[i]) + Listings(s, i) + Times(s.freed, i)
OneHere(s) == \A i, j \in Good : s.item[i].placed /\ s.item[j].placed => i = j
Sound(s) == s \in GoodWorld /\ Referred(s) /\ OneHere(s) /\ ~s.early
\* If no item is in the game, none comes into it.
Nobody(s) == \A k \in Good : ~s.item[k].placed
StaysOut(s, v) == Nobody(s) => Nobody(v)
InGame(s, b, c, e) ==
  \A i \in Good : s.item[i].placed =>
    Timely(s, b, c, e, i) /\ (s.item[i].type \in Decaying => s.item[i].decaying)
GoodInv(s, b, c, e) == Sound(s) /\ InGame(s, b, c, e)

\* The parts of an item.
LEMMA ItemParts ==
  ASSUME NEW s \in GoodWorld, NEW i \in Good
  PROVE  LET x == s.item[i]
         IN  /\ x \in GoodItem /\ x.refs \in Nat /\ x.placed \in BOOLEAN /\ x.decaying \in BOOLEAN
             /\ x.type \in Type \union {None} /\ x.duration \in Nat \union {None}
             /\ x.history \in GoodHistory
             /\ x.history.burnt \in Nat /\ x.history.full \in Nat /\ x.history.stays \in Nat
             /\ x.history.paused \in BOOLEAN /\ x.history.doubled \in BOOLEAN
             /\ x.history.spent \in BOOLEAN
             /\ Listings(s, i) \in Nat /\ Times(s.fresh, i) \in Nat /\ Times(s.freed, i) \in Nat
<1>1. s.item[i] \in GoodItem /\ s.fresh \in Seq(Good) /\ s.freed \in Seq(Good)
  BY DEF GoodWorld
<1>2. Listings(s, i) \in Nat /\ Times(s.fresh, i) \in Nat /\ Times(s.freed, i) \in Nat
  BY <1>1, Unlisted, TimesCount
<1> QED BY <1>1, <1>2 DEF GoodItem, GoodHistory

\* What decays has a time of its own; what it decays into does not keep its time.
LEMMA Decays ==
  ASSUME NEW t \in Decaying
  PROVE  /\ t \in Type /\ DecayTime[t] \in Nat /\ DecayTime[t] > 0 /\ t \notin Keeping
         /\ DecayTo[t] = Vanishes \/ DecayTo[t] \in Type
         /\ DecayTo[t] \in Type => t \notin StopTime /\ DecayTo[t] # Vanishes
<1>1. t \in Type /\ DecayTo[t] # Lasts /\ DecayTime[t] > 0
  BY DEF Decaying
<1>2. DecayTime[t] \in Nat /\ DecayTo[t] \in Type \union {Vanishes, Lasts}
  BY <1>1, DecayAssumption
<1>3. t \notin Keeping
  BY <1>1, <1>2 DEF Keeping
<1>4. DecayTo[t] \in Type => t \notin StopTime /\ DecayTo[t] # Vanishes
  BY <1>1, DecayAssumption
<1> QED BY <1>1, <1>2, <1>3, <1>4

\* Who has no reference is not in the game and on no list.
LEMMA FreeIsFree ==
  ASSUME NEW s, Sound(s), NEW i \in Good, s.item[i].refs = 0
  PROVE  ~s.item[i].placed /\ Listings(s, i) = 0 /\ Times(s.freed, i) = 0
<1>1. s.item[i].placed \in BOOLEAN /\ Listings(s, i) \in Nat /\ Times(s.freed, i) \in Nat
  BY ItemParts DEF Sound
<1>2. 0 = Mark(s.item[i]) + Listings(s, i) + Times(s.freed, i)
  BY DEF Sound, Referred
<1>3. Mark(s.item[i]) \in Nat /\ (s.item[i].placed => Mark(s.item[i]) = 1)
  BY DEF Mark
<1> QED BY <1>1, <1>2, <1>3

\* Nothing changes for an item whose time is untouched.
SameTime(x, y) ==
  y.type = x.type /\ y.duration = x.duration /\ y.decaying = x.decaying /\ y.history = x.history
LEMMA Untouched ==
  ASSUME NEW s, NEW v, NEW b, NEW c, NEW d, NEW e, NEW i, SameTime(s.item[i], v.item[i]),
         \A w : Comes(v, b, d, i, w) <=> Comes(s, b, c, i, w),
         Listings(v, i) = Listings(s, i), Times(v.fresh, i) = Times(s.fresh, i)
  PROVE  Timely(s, b, c, e, i) => Timely(v, b, d, e, i)
<1> DEFINE x == s.item[i]
           y == v.item[i]
<1>1. y.type = x.type /\ y.duration = x.duration /\ y.decaying = x.decaying /\ y.history = x.history
  BY DEF SameTime
<1> HIDE DEF x, y
<1>2. /\ Budget(y) = Budget(x) /\ (Timed(y) <=> Timed(x)) /\ (Steady(y) <=> Steady(x))
      /\ HasTime(y) <=> HasTime(x)
      /\ \A w : Ends(y, w) = Ends(x, w) /\ Allowed(y, w) = Allowed(x, w)
  BY <1>1 DEF Budget, Timed, Steady, HasTime, Ends, Allowed
<1>3. EndsListed(s, b, c, i) => EndsListed(v, b, d, i)
  BY <1>2 DEF EndsListed, x, y
<1>4. EndsFresh(s, e, i) => EndsFresh(v, e, i)
  BY <1>1, <1>2 DEF EndsFresh, x, y
<1>5. InTime(s, b, c, e, i) => InTime(v, b, d, e, i)
  BY <1>1, <1>2, <1>3, <1>4 DEF InTime, x, y
<1>6. Lasting(s, b, c, i) => Lasting(v, b, d, i)
  BY <1>1, <1>2 DEF Lasting, x, y
<1> QED BY <1>1, <1>5, <1>6 DEF Timely, x, y

\* What begins to count its time, and is listed nowhere unless that is known, is timely.
Begins(s, i) ==
  LET x == s.item[i]
  IN  /\ x.type \in Type /\ (x.type \in Decaying => x.duration # None) /\ ~x.decaying
      /\ x.duration # None => x.history.burnt = 0 /\ x.duration = x.history.full
      /\ x.duration # None => x.history.doubled \/ Listings(s, i) = 0
LEMMA BeginsTimely ==
  ASSUME NEW s \in GoodWorld, NEW b \in Bucket, NEW c, NEW e, NEW i \in Good, Begins(s, i)
  PROVE  Timely(s, b, c, e, i)
<1> DEFINE x == s.item[i]
<1>1. x.history.full \in Nat /\ x.history.stays \in Nat
  BY ItemParts
<1>2. /\ x.type \in Type /\ (x.type \in Decaying => x.duration # None) /\ ~x.decaying
      /\ Timed(x) => x.history.burnt = 0 /\ x.duration = x.history.full
      /\ Steady(x) => Listings(s, i) = 0
  BY DEF Begins, Timed, Steady
<1>3. Timed(x) => HasTime(x) /\ x.history.burnt + x.duration >= x.history.full
  BY <1>1, <1>2 DEF HasTime, Budget
<1>4. InTime(s, b, c, e, i)
  BY <1>2, <1>3 DEF InTime
<1>5. Steady(x) => \A w : ~Comes(s, b, c, i, w)
  BY <1>2, ComesSoon
<1>6. Lasting(s, b, c, i)
  BY <1>2, <1>3, <1>5 DEF Lasting, Steady
<1> QED BY <1>2, <1>4, <1>6 DEF Timely

\* If the one item in the game is timely, all are.
LEMMA AllInGame ==
  ASSUME NEW s, Sound(s), NEW b, NEW c, NEW e, NEW i \in Good, s.item[i].placed,
         Timely(s, b, c, e, i), s.item[i].type \in Decaying => s.item[i].decaying
  PROVE  GoodInv(s, b, c, e)
  BY DEF GoodInv, InGame, Sound, OneHere

-----------------------------------------------------------------------------
(* What single changes keep.                                               *)

SameLists(s, v) == v.bucket = s.bucket /\ v.fresh = s.fresh
\* The lists tell how often and when items are listed.
LEMMA ListsTell ==
  ASSUME NEW s, NEW v, SameLists(s, v)
  PROVE  /\ \A j : Listings(v, j) = Listings(s, j) /\ Times(v.fresh, j) = Times(s.fresh, j)
         /\ \A b, c, j, w : Comes(v, b, c, j, w) <=> Comes(s, b, c, j, w)
<1>1. v.bucket = s.bucket /\ v.fresh = s.fresh
  BY DEF SameLists
<1>2. \A j : Listings(v, j) = Listings(s, j)
  BY <1>1, SameListings
<1>3. \A b, c, j, w : Comes(v, b, c, j, w) <=> Comes(s, b, c, j, w)
  BY <1>1 DEF Comes
<1> QED BY <1>1, <1>2, <1>3

\* An item is written anew, in the game or not as before.
Rewrites(s, v, i, x) ==
  /\ v.item[i] = x /\ \A j \in Good : j # i => v.item[j] = s.item[j]
  /\ SameLists(s, v) /\ v.freed = s.freed /\ v.early = s.early
LEMMA Rewriting ==
  ASSUME NEW s, Sound(s), NEW i \in Good, NEW x \in GoodItem, x.placed = s.item[i].placed,
         x.refs = s.item[i].refs, NEW v, v = [s EXCEPT !.item[i] = x]
  PROVE  Sound(v) /\ Rewrites(s, v, i, x)
<1>1. s \in GoodWorld
  BY DEF Sound
<1>2. v \in GoodWorld
  BY <1>1 DEF GoodWorld
<1>3. Rewrites(s, v, i, x)
  BY <1>1 DEF GoodWorld, Rewrites, SameLists
<1>4. \A j \in Good : v.item[j].placed = s.item[j].placed /\ v.item[j].refs = s.item[j].refs
  BY <1>3 DEF Rewrites
<1>5. \A j \in Good : Mark(v.item[j]) = Mark(s.item[j])
  BY <1>4 DEF Mark
<1>6. \A j : Listings(v, j) = Listings(s, j)
  BY <1>3, ListsTell DEF Rewrites
<1>7. Referred(v)
  BY <1>3, <1>4, <1>5, <1>6 DEF Sound, Referred, Rewrites
<1>8. OneHere(v) /\ ~v.early
  BY <1>3, <1>4 DEF Sound, OneHere, Rewrites
<1> QED BY <1>2, <1>3, <1>7, <1>8 DEF Sound

\* An item is put on the list of the new ones.
Entered(s, v, i) ==
  LET x == s.item[i]
      y == v.item[i]
  IN  /\ y \in GoodItem /\ y.refs = x.refs + 1 /\ y.decaying /\ y.placed = x.placed
      /\ y.type = x.type /\ y.duration = x.duration
      /\ y.history.burnt = x.history.burnt /\ y.history.full = x.history.full
      /\ y.history.stays = x.history.stays + 1 /\ y.history.spent = x.history.spent
      /\ y.history.paused = x.history.paused /\ y.history.doubled = x.history.doubled
      /\ \A j \in Good : j # i => v.item[j] = s.item[j]
      /\ v.bucket = s.bucket /\ v.fresh = Append(s.fresh, i) /\ v.freed = s.freed
      /\ v.early = s.early
LEMMA ListIs ==
  ASSUME NEW s \in GoodWorld, NEW i \in Good
  PROVE  List(s, i) \in GoodWorld /\ Entered(s, List(s, i), i)
<1> DEFINE x == s.item[i]
           h == [x.history EXCEPT !.stays = @ + 1]
           y == [x EXCEPT !.refs = @ + 1, !.decaying = TRUE, !.history = h]
<1>1. x \in GoodItem /\ x.refs \in Nat /\ x.history \in GoodHistory /\ x.history.stays \in Nat
  BY ItemParts
<1>2. List(s, i) = [s EXCEPT !.item[i] = y, !.fresh = Append(@, i)]
  <2>1. y = Started(x)
    <3> HIDE DEF x
    <3> QED BY <1>1 DEF Started, GoodItem, GoodHistory
  <2> HIDE DEF y
  <2> QED BY <2>1 DEF List
<1>3. /\ h \in GoodHistory /\ h.burnt = x.history.burnt /\ h.full = x.history.full
      /\ h.stays = x.history.stays + 1 /\ h.spent = x.history.spent
      /\ h.paused = x.history.paused /\ h.doubled = x.history.doubled
  BY <1>1 DEF GoodHistory
<1> HIDE DEF h
<1>4. /\ y \in GoodItem /\ y.refs = x.refs + 1 /\ y.decaying /\ y.placed = x.placed
      /\ y.type = x.type /\ y.duration = x.duration /\ y.history = h
  <2>1. h \in GoodHistory /\ x \in GoodItem /\ x.refs + 1 \in Nat
    BY <1>1, <1>3
  <2> HIDE DEF x
  <2>2. y \in GoodItem
    BY <2>1 DEF GoodItem
  <2> QED BY <2>1 DEF GoodItem
<1> HIDE DEF y
<1> DEFINE v == List(s, i)
<1>5. v \in GoodWorld
  <2>1. Append(s.fresh, i) \in Seq(Good)
    BY DEF GoodWorld
  <2> QED BY <1>2, <1>4, <2>1 DEF GoodWorld
<1>6. /\ v.item[i] = y /\ \A j \in Good : j # i => v.item[j] = s.item[j]
      /\ v.bucket = s.bucket /\ v.fresh = Append(s.fresh, i) /\ v.freed = s.freed
      /\ v.early = s.early
  BY <1>2 DEF GoodWorld
<1> HIDE DEF v
<1> QED BY <1>3, <1>4, <1>5, <1>6 DEF Entered, v

\* So that an item whose time is not over goes on in time.
LEMMA Listed ==
  ASSUME NEW s, Sound(s), NEW b \in Bucket, NEW c, NEW e \in {0, 1}, NEW i \in Good,
         s.item[i].placed, Timely(s, b, c, e, i), s.item[i].type \in Decaying,
         ~s.item[i].decaying
  PROVE  GoodInv(List(s, i), b, c, e)
<1> DEFINE v == List(s, i)
           x == s.item[i]
           y == v.item[i]
<1>1. s \in GoodWorld /\ v \in GoodWorld /\ Entered(s, v, i)
  BY ListIs DEF Sound
<1> HIDE DEF v
<1>2. /\ y \in GoodItem /\ y.refs = x.refs + 1 /\ y.decaying /\ y.placed = x.placed
      /\ y.type = x.type /\ y.duration = x.duration
      /\ y.history.burnt = x.history.burnt /\ y.history.full = x.history.full
      /\ y.history.stays = x.history.stays + 1 /\ y.history.spent = x.history.spent
      /\ y.history.paused = x.history.paused /\ y.history.doubled = x.history.doubled
      /\ \A j \in Good : j # i => v.item[j] = s.item[j]
      /\ v.bucket = s.bucket /\ v.fresh = Append(s.fresh, i) /\ v.freed = s.freed
      /\ v.early = s.early
  BY <1>1 DEF Entered
<1>3. s.fresh \in Seq(Good)
  BY <1>1 DEF GoodWorld
<1>4. ASSUME NEW j
      PROVE  /\ Times(v.fresh, j) = Times(s.fresh, j) + (IF i = j THEN 1 ELSE 0)
             /\ Listings(v, j) = Listings(s, j) + (IF i = j THEN 1 ELSE 0)
             /\ Times(s.fresh, j) \in Nat /\ Listings(s, j) \in Nat
  <2>1. Times(v.fresh, j) = Times(s.fresh, j) + (IF i = j THEN 1 ELSE 0)
    BY <1>2, <1>3, TimesAppend
  <2>2. /\ Lists(v)[1] = v.fresh /\ Lists(s)[1] = s.fresh /\ 1 \in 1..(Buckets + 1)
        /\ \A k \in 1..(Buckets + 1) : k # 1 => Lists(v)[k] = Lists(s)[k]
    <3>1. Buckets \in Nat
      BY DecayAssumption
    <3>2. /\ \A k \in 1..(Buckets + 1) : k = 1 \/ (k - 2 \in Bucket /\ (k - 2) + 2 = k)
          /\ \A n \in Bucket : Lists(s)[n + 2] = s.bucket[n] /\ Lists(v)[n + 2] = v.bucket[n]
          /\ Lists(v)[1] = v.fresh /\ Lists(s)[1] = s.fresh
      BY <1>1, <3>1, ListsAre
    <3>3. \A k \in 1..(Buckets + 1) : k # 1 => Lists(v)[k] = Lists(s)[k]
      BY <1>2, <3>2
    <3> QED BY <3>1, <3>2, <3>3
  <2>3. /\ Listings(s, j) \in Nat /\ Listings(v, j) \in Nat
        /\ Listings(v, j) - Listings(s, j) = Times(Lists(v)[1], j) - Times(Lists(s)[1], j)
    BY <1>1, <2>2, ListingsDiffer
  <2>4. Times(s.fresh, j) \in Nat
    BY <1>3, TimesCount
  <2> QED BY <2>1, <2>2, <2>3, <2>4
<1>5. \A k, j, w : Comes(v, b, k, j, w) <=> Comes(s, b, k, j, w)
  BY <1>2 DEF Comes
<1>6. Sound(v)
  <2>1. \A j \in Good : Mark(v.item[j]) = Mark(s.item[j]) /\ v.item[j].placed = s.item[j].placed
    BY <1>2 DEF Mark
  <2>2. \A j \in Good : v.item[j].refs = s.item[j].refs + (IF i = j THEN 1 ELSE 0)
    <3>1. \A j \in Good : s.item[j].refs \in Nat
      BY <1>1, ItemParts
    <3> QED BY <1>2, <3>1
  <2>3. ASSUME NEW j \in Good
        PROVE  v.item[j].refs = Mark(v.item[j]) + Listings(v, j) + Times(v.freed, j)
    <3>1. s.item[j].refs = Mark(s.item[j]) + Listings(s, j) + Times(s.freed, j)
      BY DEF Sound, Referred
    <3>2. Mark(s.item[j]) \in Nat /\ Times(s.freed, j) \in Nat /\ s.item[j].refs \in Nat
      BY <1>1, ItemParts DEF Mark
    <3> QED BY SMTT(30), <1>2, <1>4, <2>1, <2>2, <3>1, <3>2
  <2> QED BY <1>1, <1>2, <2>1, <2>3 DEF Sound, Referred, OneHere
<1>7. /\ x.history.burnt \in Nat /\ x.history.full \in Nat /\ x.history.stays \in Nat
      /\ x.duration \in Nat
  BY <1>1, ItemParts DEF Timely
<1>8. x.type \in Type /\ InTime(s, b, c, e, i) /\ Lasting(s, b, c, i) /\ x.duration # None
  BY DEF Timely
<1>9. Times(v.fresh, i) > 0
  BY <1>4
<1>10. InTime(v, b, c, e, i)
  <2> SUFFICES ASSUME Timed(y) PROVE EndsFresh(v, e, i)
    BY <1>2 DEF InTime
  <2>1. HasTime(x)
    BY <1>2, <1>8 DEF InTime, Timed
  <2>2. /\ y.history.burnt = x.history.burnt /\ y.duration = x.duration
        /\ y.history.full = x.history.full /\ y.history.stays = x.history.stays + 1
    BY <1>2
  <2>3. x.history.burnt + x.duration <= x.history.full + x.history.stays
    BY <2>1 DEF HasTime, Budget
  <2> HIDE DEF x, y
  <2>4. e \in Int /\ e <= 1
    OBVIOUS
  <2>5. y.history.burnt + y.duration + e <= Budget(y)
    BY <1>7, <2>2, <2>3, <2>4 DEF Budget
  <2> QED BY <1>9, <2>5 DEF EndsFresh, y
<1>11. Lasting(v, b, c, i)
  <2> SUFFICES ASSUME Steady(y) PROVE Lasting(v, b, c, i)
    BY DEF Lasting
  <2>1. Steady(x)
    BY <1>2 DEF Steady, Timed
  <2>2. Listings(s, i) = 0 /\ x.history.burnt + x.duration >= x.history.full
    BY <1>8, <2>1 DEF Lasting
  <2>3. Listings(v, i) = 1
    BY <1>4, <2>2
  <2>4. \A w : ~Comes(v, b, c, i, w)
    BY <1>1, <1>5, <2>2, ComesSoon
  <2> QED BY <1>2, <2>2, <2>3, <2>4 DEF Lasting
<1>12. Timely(v, b, c, e, i)
  BY <1>2, <1>8, <1>10, <1>11 DEF Timely
<1> QED BY <1>2, <1>6, <1>12, AllInGame DEF v

\* An item is taken out of the game, to be freed.
LEMMA RemovedIs ==
  ASSUME NEW s, Sound(s), NEW i \in Good, s.item[i].placed, NEW v, v = Removed(s, i)
  PROVE  /\ Sound(v) /\ SameLists(s, v) /\ \A j \in Good : ~v.item[j].placed
         /\ \A j \in Good : v.item[j].refs = s.item[j].refs
<1> DEFINE x == s.item[i]
           y == [x EXCEPT !.placed = FALSE]
<1>1. s \in GoodWorld /\ x \in GoodItem /\ s.freed \in Seq(Good)
  BY ItemParts DEF Sound, GoodWorld
<1>2. v = [s EXCEPT !.item[i] = y, !.freed = Append(@, i)]
  BY <1>1 DEF Removed, Freed, GoodWorld
<1>3. y \in GoodItem /\ ~y.placed /\ y.refs = x.refs
  <2> HIDE DEF x
  <2> QED BY <1>1 DEF GoodItem
<1> HIDE DEF y
<1>4. v \in GoodWorld
  <2>1. Append(s.freed, i) \in Seq(Good)
    BY <1>1
  <2> QED BY <1>1, <1>2, <1>3, <2>1 DEF GoodWorld
<1>5. /\ v.item[i] = y /\ \A j \in Good : j # i => v.item[j] = s.item[j]
      /\ v.bucket = s.bucket /\ v.fresh = s.fresh /\ v.freed = Append(s.freed, i)
      /\ v.early = s.early
  BY <1>1, <1>2 DEF GoodWorld
<1>6. \A j \in Good : j # i => ~s.item[j].placed
  BY DEF Sound, OneHere
<1>7. \A j \in Good : ~v.item[j].placed /\ v.item[j].refs = s.item[j].refs
  BY <1>3, <1>5, <1>6
<1>8. Referred(v)
  <2> SUFFICES ASSUME NEW j \in Good
               PROVE  v.item[j].refs = Mark(v.item[j]) + Listings(v, j) + Times(v.freed, j)
    BY DEF Referred
  <2>1. s.item[j].refs = Mark(s.item[j]) + Listings(s, j) + Times(s.freed, j)
    BY DEF Sound, Referred
  <2>2. Listings(v, j) = Listings(s, j)
    BY <1>5, SameListings
  <2>3. Times(v.freed, j) = Times(s.freed, j) + (IF i = j THEN 1 ELSE 0)
    BY <1>1, <1>5, TimesAppend
  <2>4. Mark(v.item[j]) = 0 /\ Mark(s.item[j]) = IF i = j THEN 1 ELSE 0
    BY <1>6, <1>7 DEF Mark
  <2>5. Listings(s, j) \in Nat /\ Times(s.freed, j) \in Nat
    BY <1>1, ItemParts
  <2> QED BY <1>7, <2>1, <2>2, <2>3, <2>4, <2>5
<1> QED BY <1>4, <1>5, <1>7, <1>8 DEF Sound, OneHere, SameLists

\* An item appears in a place that was free.
LEMMA Appearing ==
  ASSUME NEW s, Sound(s), \A j \in Good : ~s.item[j].placed, NEW i \in Good, s.item[i].refs = 0,
         NEW x \in GoodItem, x.placed, x.refs = 1, NEW v, v = [s EXCEPT !.item[i] = x]
  PROVE  Sound(v) /\ Rewrites(s, v, i, x) /\ Listings(v, i) = 0
<1>1. s \in GoodWorld /\ v \in GoodWorld
  BY DEF Sound, GoodWorld
<1>2. Rewrites(s, v, i, x)
  BY <1>1 DEF GoodWorld, Rewrites, SameLists
<1>3. \A j : Listings(v, j) = Listings(s, j)
  BY <1>2, ListsTell DEF Rewrites
<1>4. ~s.item[i].placed /\ Listings(s, i) = 0 /\ Times(s.freed, i) = 0
  BY FreeIsFree
<1>5. Referred(v)
  <2> SUFFICES ASSUME NEW j \in Good
               PROVE  v.item[j].refs = Mark(v.item[j]) + Listings(v, j) + Times(v.freed, j)
    BY DEF Referred
  <2>1. CASE j = i
    <3>1. v.item[j].refs = 1 /\ Mark(v.item[j]) = 1 /\ v.freed = s.freed
      BY <1>2, <2>1 DEF Rewrites, Mark
    <3> QED BY <1>3, <1>4, <2>1, <3>1
  <2>2. CASE j # i
    <3>1. v.item[j] = s.item[j] /\ v.freed = s.freed
      BY <1>2, <2>2 DEF Rewrites
    <3> QED BY <1>3, <3>1 DEF Sound, Referred
  <2> QED BY <2>1, <2>2
<1>6. OneHere(v) /\ ~v.early
  BY <1>2 DEF Sound, OneHere, Rewrites
<1> QED BY <1>1, <1>2, <1>3, <1>4, <1>5, <1>6 DEF Sound

\* A new item.
LEMMA NewGoodIs ==
  ASSUME NEW t \in Type, NEW x, x = NewGood(t)
  PROVE  /\ x \in GoodItem /\ x.placed /\ x.refs = 1 /\ x.type = t /\ ~x.decaying
         /\ x.duration = IF DecayTime[t] > 0 THEN DecayTime[t] ELSE None
         /\ x.history.burnt = 0 /\ x.history.full = DecayTime[t] /\ x.history.stays = 0
<1>1. DecayTime[t] \in Nat
  BY DecayAssumption
<1> DEFINE h == [NoHistory EXCEPT !.full = DecayTime[t]]
           d == IF DecayTime[t] > 0 THEN DecayTime[t] ELSE None
<1>2. h \in GoodHistory /\ h.burnt = 0 /\ h.full = DecayTime[t] /\ h.stays = 0
  BY <1>1 DEF NoHistory, GoodHistory
<1>3. d \in Nat \union {None}
  BY <1>1
<1>4. x = [type |-> t, duration |-> d, decaying |-> FALSE, placed |-> TRUE, refs |-> 1,
           history |-> h]
  BY DEF NewGood, NoGood
<1> HIDE DEF h
<1> QED BY <1>2, <1>3, <1>4 DEF GoodItem

\* As it begins to count its time, it is timely.
LEMMA NewBegins ==
  ASSUME NEW s \in GoodWorld, NEW i \in Good, NEW t \in Type, s.item[i] = NewGood(t),
         Listings(s, i) = 0
  PROVE  Begins(s, i)
<1> DEFINE x == s.item[i]
<1>1. /\ x.type = t /\ ~x.decaying
      /\ x.duration = (IF DecayTime[t] > 0 THEN DecayTime[t] ELSE None)
      /\ x.history.burnt = 0 /\ x.history.full = DecayTime[t]
  BY NewGoodIs
<1>2. t \in Decaying => DecayTime[t] \in Nat /\ DecayTime[t] > 0
  BY Decays
<1>3. t \in Decaying => x.duration # None
  BY <1>1, <1>2, DecayAssumption
<1> QED BY <1>1, <1>3 DEF Begins, Timed

-----------------------------------------------------------------------------
(* What changes of types keep.                                             *)

\* The three ways an item of x can become one of type t.
Unlike(t) == DecayTime[t] = 0 /\ t \notin Keeping
Renews(x, t) == DecayTime[t] > 0 /\ (x.type \notin StopTime \/ x.duration = None)
KeepsTime(x, y, t) ==
  /\ y.decaying = x.decaying /\ y.duration = x.duration
  /\ y.history.burnt = x.history.burnt /\ y.history.full = x.history.full
  /\ y.history.stays = x.history.stays /\ y.history.spent = x.history.spent
  /\ y.history.doubled = x.history.doubled
  /\ y.history.paused = (x.history.paused \/ (x.type \in Decaying /\ t \notin Decaying))
BecomesOf(x, y, t, listed) ==
  /\ y \in GoodItem /\ y.placed = x.placed /\ y.refs = x.refs /\ y.type = t
  /\ Unlike(t) => ~y.decaying /\ y.duration = None
  /\ Renews(x, t) =>
       /\ ~y.decaying /\ y.duration = DecayTime[t] /\ y.history.burnt = 0
       /\ y.history.full = DecayTime[t] /\ y.history.doubled = listed /\ ~y.history.spent
  /\ ~Unlike(t) /\ ~Renews(x, t) => KeepsTime(x, y, t)
LEMMA NewIDIs ==
  ASSUME NEW x \in GoodItem, NEW t \in Type, NEW listed \in BOOLEAN
  PROVE  BecomesOf(x, NewID(x, t, listed), t, listed)
<1> DEFINE y == NewID(x, t, listed)
<1>1. DecayTime[t] \in Nat /\ None \notin Nat
  BY DecayAssumption
<1>2. x.history \in GoodHistory
  BY DEF GoodItem
<1>3. CASE Unlike(t)
  <2>1. y = [x EXCEPT !.type = t, !.decaying = FALSE, !.duration = None]
    BY <1>3 DEF NewID, Unlike
  <2>2. /\ y \in GoodItem /\ y.placed = x.placed /\ y.refs = x.refs /\ y.type = t
        /\ ~y.decaying /\ y.duration = None
    BY <2>1 DEF GoodItem
  <2>3. ~Renews(x, t)
    BY <1>3 DEF Unlike, Renews
  <2> QED BY <1>3, <2>2, <2>3 DEF BecomesOf
<1>4. CASE Renews(x, t)
  <2> DEFINE h == [NoHistory EXCEPT !.full = DecayTime[t], !.doubled = listed]
  <2>1. y = [x EXCEPT !.type = t, !.decaying = FALSE, !.duration = DecayTime[t], !.history = h]
    BY <1>1, <1>4 DEF NewID, Renews
  <2>2. /\ h \in GoodHistory /\ h.burnt = 0 /\ h.full = DecayTime[t] /\ h.doubled = listed
        /\ ~h.spent
    BY <1>1 DEF NoHistory, GoodHistory
  <2> HIDE DEF h
  <2>3. /\ y \in GoodItem /\ y.placed = x.placed /\ y.refs = x.refs /\ y.type = t
        /\ ~y.decaying /\ y.duration = DecayTime[t] /\ y.history = h
    BY <1>1, <2>1, <2>2 DEF GoodItem
  <2>4. ~Unlike(t)
    BY <1>1, <1>4 DEF Unlike, Renews
  <2> QED BY <1>4, <2>2, <2>3, <2>4 DEF BecomesOf
<1>5. CASE ~Unlike(t) /\ ~Renews(x, t)
  <2> DEFINE p == x.history.paused \/ (x.type \in Decaying /\ t \notin Decaying)
             h == [x.history EXCEPT !.paused = p]
  <2>1. y = [x EXCEPT !.type = t, !.history = h]
    BY <1>1, <1>2, <1>5 DEF NewID, Unlike, Renews, GoodItem, GoodHistory
  <2>2. p \in BOOLEAN
    OBVIOUS
  <2> HIDE DEF p
  <2>3. /\ h \in GoodHistory /\ h.paused = p
        /\ h.burnt = x.history.burnt /\ h.full = x.history.full /\ h.stays = x.history.stays
        /\ h.spent = x.history.spent /\ h.doubled = x.history.doubled
    BY <1>2, <2>2 DEF GoodHistory
  <2> HIDE DEF h
  <2>4. /\ y \in GoodItem /\ y.placed = x.placed /\ y.refs = x.refs /\ y.type = t
        /\ y.decaying = x.decaying /\ y.duration = x.duration /\ y.history = h
    BY <2>1, <2>3 DEF GoodItem
  <2>5. KeepsTime(x, y, t)
    BY <2>3, <2>4 DEF KeepsTime, p
  <2> HIDE DEF y
  <2> QED BY <1>5, <2>4, <2>5 DEF BecomesOf, y
<1> QED BY <1>3, <1>4, <1>5

\* An item changes its type and stays the one it is.
LEMMA SetIDIs ==
  ASSUME NEW s, Sound(s), NEW i \in Good, s.item[i].placed, NEW t \in Type,
         NEW v, v = SetID(s, i, t)
  PROVE  /\ Sound(v) /\ Rewrites(s, v, i, v.item[i])
         /\ BecomesOf(s.item[i], v.item[i], t, Listings(s, i) > 0)
         /\ Unlike(t) \/ Renews(s.item[i], t) => Begins(v, i)
<1> DEFINE x == s.item[i]
           y == NewID(x, t, Listings(s, i) > 0)
<1>1. s \in GoodWorld /\ x \in GoodItem /\ Listings(s, i) \in Nat
  BY ItemParts DEF Sound
<1>2. BecomesOf(x, y, t, Listings(s, i) > 0)
  <2>1. (Listings(s, i) > 0) \in BOOLEAN
    OBVIOUS
  <2> QED BY <1>1, <2>1, NewIDIs
<1>3. v = [s EXCEPT !.item[i] = y]
  BY DEF SetID
<1> HIDE DEF y
<1>4. y \in GoodItem /\ y.placed = x.placed /\ y.refs = x.refs /\ y.type = t
  BY <1>2 DEF BecomesOf
<1>5. Sound(v) /\ Rewrites(s, v, i, y)
  BY <1>3, <1>4, Rewriting
<1>6. v.item[i] = y /\ Listings(v, i) = Listings(s, i)
  BY <1>5, ListsTell DEF Rewrites
<1>7. ASSUME Unlike(t) \/ Renews(x, t) PROVE Begins(v, i)
  <2>1. CASE Unlike(t)
    <3>1. ~y.decaying /\ y.duration = None
      BY <1>2, <2>1 DEF BecomesOf
    <3>2. t \notin Decaying
      BY <2>1, Decays DEF Unlike
    <3> QED BY <1>4, <1>6, <3>1, <3>2 DEF Begins, Timed, Steady
  <2>2. CASE Renews(x, t)
    <3>1. /\ ~y.decaying /\ y.duration = DecayTime[t] /\ y.history.burnt = 0
          /\ y.history.full = DecayTime[t] /\ y.history.doubled = (Listings(s, i) > 0)
      BY <1>2, <2>2 DEF BecomesOf
    <3>2. y.duration # None
      BY <3>1, DecayAssumption
    <3>3. y.history.doubled \/ Listings(v, i) = 0
      <4>1. ~y.history.doubled => ~(Listings(s, i) > 0)
        BY <3>1, Zenon
      <4> QED BY <1>1, <1>6, <4>1
    <3>4. y.type \in Type /\ ~y.decaying /\ y.history.burnt = 0 /\ y.duration = y.history.full
      BY <1>4, <3>1
    <3>5. v.item[i] = y
      BY <1>6
    <3> QED BY <3>2, <3>3, <3>4, <3>5 DEF Begins
  <2> QED BY <1>7, <2>1, <2>2
<1> QED BY <1>2, <1>5, <1>6, <1>7

\* Between rounds an item may pause or go on, and stays timely.
LEMMA SetIDTimely ==
  ASSUME NEW s, Sound(s), NEW b \in Bucket, NEW i \in Good, s.item[i].placed,
         Timely(s, b, 0, 1, i), NEW t \in Type, NEW v, v = SetID(s, i, t)
  PROVE  Timely(v, b, 0, 1, i)
<1> DEFINE x == s.item[i]
           y == v.item[i]
<1>1. /\ Sound(v) /\ Rewrites(s, v, i, y) /\ BecomesOf(x, y, t, Listings(s, i) > 0)
      /\ Unlike(t) \/ Renews(x, t) => Begins(v, i)
  BY SetIDIs
<1>2. s \in GoodWorld /\ v \in GoodWorld
  BY <1>1 DEF Sound
<1>3. CASE Unlike(t) \/ Renews(x, t)
  BY <1>1, <1>2, <1>3, BeginsTimely
<1>4. CASE ~Unlike(t) /\ ~Renews(x, t)
  <2>1. KeepsTime(x, y, t) /\ y.type = t
    BY <1>1, <1>4 DEF BecomesOf
  <2>2. /\ Listings(v, i) = Listings(s, i) /\ Times(v.fresh, i) = Times(s.fresh, i)
        /\ \A w : Comes(v, b, 0, i, w) <=> Comes(s, b, 0, i, w)
    BY <1>1, ListsTell DEF Rewrites
  <2>3. /\ InTime(s, b, 0, 1, i) /\ Lasting(s, b, 0, i)
    BY DEF Timely
  <2>4. /\ y.decaying = x.decaying /\ y.duration = x.duration
        /\ y.history.burnt = x.history.burnt /\ y.history.full = x.history.full
        /\ y.history.stays = x.history.stays /\ y.history.spent = x.history.spent
        /\ y.history.doubled = x.history.doubled
        /\ y.history.paused = (x.history.paused \/ (x.type \in Decaying /\ t \notin Decaying))
    BY <2>1 DEF KeepsTime
  <2>5. t \in Decaying => y.duration # None
    <3>1. t \in Decaying => DecayTime[t] > 0
      BY Decays
    <3> QED BY <1>4, <2>4, <3>1 DEF Renews
  <2> HIDE DEF x, y
  <2>6. Budget(y) = Budget(x) /\ (Timed(y) <=> Timed(x)) /\ \A w : Ends(y, w) = Ends(x, w)
    BY <2>4 DEF Budget, Timed, Ends
  <2>7. EndsListed(s, b, 0, i) => EndsListed(v, b, 0, i)
    <3> SUFFICES ASSUME NEW w \in 0..Buckets, Comes(s, b, 0, i, w), Ends(x, w) <= Allowed(x, w)
                 PROVE  Comes(v, b, 0, i, w) /\ Ends(y, w) <= Allowed(y, w)
      BY DEF EndsListed, x, y
    <3>1. w # 0
      BY <1>2, ComesSoon
    <3> QED BY <2>2, <2>6, <3>1 DEF Allowed
  <2>8. EndsFresh(s, 1, i) => EndsFresh(v, 1, i)
    BY <2>2, <2>4, <2>6 DEF EndsFresh, x, y
  <2>9. InTime(v, b, 0, 1, i)
    <3>1. HasTime(x) => HasTime(y)
      BY <2>4, <2>6 DEF HasTime
    <3> QED BY <2>3, <2>4, <2>6, <2>7, <2>8, <3>1 DEF InTime, x, y
  <2>10. Lasting(v, b, 0, i)
    <3> SUFFICES ASSUME Steady(y) PROVE Lasting(v, b, 0, i)
      BY DEF Lasting, y
    <3>1. Steady(x) /\ ~(x.type \in Decaying /\ t \notin Decaying)
      BY <2>4, <2>6 DEF Steady
    <3> QED BY <2>1, <2>2, <2>3, <2>4, <2>6, <3>1 DEF Lasting, x, y
  <2> QED BY <2>1, <2>5, <2>9, <2>10 DEF Timely, y
<1> QED BY <1>3, <1>4

-----------------------------------------------------------------------------
(* Items turn into others.                                                 *)

\* There is room for another item, or none will turn into another.
Room(s) == \E k \in Good : s.item[k].refs = 0
NoneComes(s, b, c) == \A k \in Good : s.item[k].placed => \A w : ~Comes(s, b, c, k, w)
Roomy(s, b, c) == Room(s) \/ NoneComes(s, b, c)

\* Item i becomes item j of type t.
Changes(s, u, i, t, j) ==
  /\ j \in Good /\ Sound(u) /\ u.item[j].placed /\ u.item[j].type = t /\ SameLists(s, u)
  /\ Kind[s.item[i].type] = Kind[t] => j = i /\ u = SetID(s, i, t) /\ Room(u)
  /\ Kind[s.item[i].type] # Kind[t] => u.item[j] = NewGood(t) /\ Listings(u, j) = 0
LEMMA ChangingIs ==
  ASSUME NEW s, Sound(s), Room(s), NEW i \in Good, s.item[i].placed, NEW t \in Type,
         NEW u, u = Changed(s, i, t), NEW j, j = After(s, i, t)
  PROVE  Changes(s, u, i, t, j)
<1>1. CASE Kind[s.item[i].type] = Kind[t]
  <2>1. j = i /\ u = SetID(s, i, t)
    BY <1>1 DEF Changed, After
  <2>2. /\ Sound(u) /\ Rewrites(s, u, i, u.item[i])
        /\ BecomesOf(s.item[i], u.item[i], t, Listings(s, i) > 0)
    BY <2>1, SetIDIs
  <2>3. u.item[i].refs = s.item[i].refs /\ u.item[i].placed /\ u.item[i].type = t
    BY <2>2 DEF BecomesOf
  <2>4. SameLists(s, u) /\ \A k \in Good : u.item[k].refs = s.item[k].refs
    BY <2>2, <2>3 DEF Rewrites
  <2> QED BY <1>1, <2>1, <2>2, <2>3, <2>4 DEF Changes, Room
<1>2. CASE Kind[s.item[i].type] # Kind[t]
  <2>1. j = FreeGood(s) /\ u = Freed([Created(s, t) EXCEPT !.item[i].placed = FALSE], i)
    BY <1>2 DEF Changed, After
  <2>2. j \in Good /\ s.item[j].refs = 0
    <3>1. FreeGood(s) \in Good /\ s.item[FreeGood(s)].refs = 0
      BY ZenonT(30) DEF FreeGood, Room
    <3> QED BY <2>1, <3>1
  <2>3. ~s.item[j].placed /\ Listings(s, j) = 0
    BY <2>2, FreeIsFree
  <2> DEFINE x == s.item[i]
             y == [x EXCEPT !.placed = FALSE]
             r == Removed(s, i)
             n == NewGood(t)
  <2>4. /\ Sound(r) /\ SameLists(s, r) /\ (\A k \in Good : ~r.item[k].placed)
        /\ \A k \in Good : r.item[k].refs = s.item[k].refs
    BY RemovedIs
  <2>5. n \in GoodItem /\ n.placed /\ n.refs = 1 /\ n.type = t
    BY NewGoodIs
  <2>6. u = [r EXCEPT !.item[j] = n]
    <3>1. s \in GoodWorld /\ i # j /\ x \in GoodItem
      BY <2>2, <2>3, ItemParts DEF Sound
    <3>2. Created(s, t) = [s EXCEPT !.item[j] = n]
      <4> HIDE DEF n
      <4>1. Created(s, t) = [s EXCEPT !.item[FreeGood(s)] = n]
        BY DEF Created, n
      <4> QED BY <2>1, <4>1
    <3>3. Created(s, t).item[i] = x
      BY <2>2, <3>1, <3>2 DEF GoodWorld
    <3>4. [Created(s, t) EXCEPT !.item[i].placed = FALSE] = [Created(s, t) EXCEPT !.item[i] = y]
      BY <3>3
    <3>5. u = Freed([Created(s, t) EXCEPT !.item[i] = y], i)
      BY <2>1, <3>4
    <3>6. r = [s EXCEPT !.item[i] = y, !.freed = Append(@, i)]
      BY <3>1 DEF Removed, Freed, GoodWorld
    <3> HIDE DEF n, r, x, y
    <3>7. u = [s EXCEPT !.item = [[@ EXCEPT ![j] = n] EXCEPT ![i] = y], !.freed = Append(@, i)]
      BY <3>1, <3>2, <3>5 DEF Freed, GoodWorld
    <3>8. [r EXCEPT !.item[j] = n] =
            [s EXCEPT !.item = [[@ EXCEPT ![i] = y] EXCEPT ![j] = n], !.freed = Append(@, i)]
      BY <3>1, <3>6 DEF GoodWorld
    <3>9. [[s.item EXCEPT ![j] = n] EXCEPT ![i] = y] = [[s.item EXCEPT ![i] = y] EXCEPT ![j] = n]
      BY <3>1, <2>2 DEF GoodWorld
    <3> QED BY <3>7, <3>8, <3>9
  <2> HIDE DEF n, r
  <2>7. r.item[j].refs = 0
    BY <2>2, <2>4
  <2>8. Sound(u) /\ Rewrites(r, u, j, n) /\ Listings(u, j) = 0
    BY <2>2, <2>4, <2>5, <2>6, <2>7, Appearing
  <2>9. u.item[j] = n /\ SameLists(s, u)
    BY <2>4, <2>8 DEF Rewrites, SameLists
  <2> QED BY <1>2, <2>2, <2>5, <2>8, <2>9 DEF Changes, n
<1> QED BY <1>1, <1>2

\* What goes out, goes out as one of its type.
LEMMA GoneOutIs ==
  ASSUME NEW x \in GoodItem, NEW y, y = GoneOut(x)
  PROVE  /\ y \in GoodItem /\ y.placed = x.placed /\ y.refs = x.refs /\ y.type = x.type
         /\ y.decaying = x.decaying /\ y.duration = x.duration
         /\ y.history.burnt = x.history.burnt /\ y.history.full = x.history.full
         /\ y.history.doubled = x.history.doubled
         /\ y.history.spent = (x.type \in Keeping)
<1> DEFINE p == x.type \in Keeping
           h == [x.history EXCEPT !.spent = p]
<1>1. x.history \in GoodHistory /\ p \in BOOLEAN
  BY DEF GoodItem
<1> HIDE DEF p
<1>2. /\ h \in GoodHistory /\ h.burnt = x.history.burnt /\ h.full = x.history.full
      /\ h.doubled = x.history.doubled /\ h.spent = p
  BY <1>1 DEF GoodHistory
<1>3. y = [x EXCEPT !.history = h]
  BY DEF GoneOut, p, GoodItem
<1> HIDE DEF h
<1>4. /\ y \in GoodItem /\ y.placed = x.placed /\ y.refs = x.refs /\ y.type = x.type
      /\ y.decaying = x.decaying /\ y.duration = x.duration /\ y.history = h
  BY <1>2, <1>3 DEF GoodItem
<1> QED BY <1>2, <1>4 DEF p

\* One item is in the game: what comes up is about it.
LEMMA OneComes ==
  ASSUME NEW s, Sound(s), NEW b \in Bucket, NEW c, NEW j \in Good, s.item[j].placed,
         Listings(s, j) = 0
  PROVE  NoneComes(s, b, c)
<1>1. s \in GoodWorld /\ OneHere(s)
  BY DEF Sound
<1>2. \A w : ~Comes(s, b, c, j, w)
  BY <1>1, ComesSoon
<1> QED BY <1>1, <1>2 DEF OneHere, NoneComes

\* What turns into another as its time is over starts anew.
LEMMA TurnedBegins ==
  ASSUME NEW s, Sound(s), Room(s), NEW i \in Good, s.item[i].placed,
         s.item[i].type \in Decaying, NEW t \in Type, t = DecayTo[s.item[i].type],
         NEW u, u = Changed(s, i, t), NEW j, j = After(s, i, t), t \notin Keeping
  PROVE  Begins(u, j)
<1>1. Changes(s, u, i, t, j)
  BY ChangingIs
<1>2. j \in Good /\ Sound(u) /\ u.item[j].type = t /\ u \in GoodWorld
  BY <1>1 DEF Changes, Sound
<1>3. CASE Kind[s.item[i].type] = Kind[t]
  <2>1. j = i /\ u = SetID(s, i, t)
    BY <1>1, <1>3 DEF Changes
  <2>2. DecayTime[t] \in Nat
    BY DecayAssumption
  <2>3. s.item[i].type \notin StopTime
    <3>1. s.item[i].type \in StopTime => DecayTo[s.item[i].type] \in {Vanishes, Lasts}
      BY DecayAssumption
    <3>2. Vanishes \notin Type /\ Lasts \notin Type
      BY DecayAssumption
    <3> QED BY <3>1, <3>2
  <2>4. Unlike(t) \/ Renews(s.item[i], t)
    BY <2>2, <2>3 DEF Unlike, Renews
  <2> QED BY <2>1, <2>4, SetIDIs
<1>4. CASE Kind[s.item[i].type] # Kind[t]
  <2>1. u.item[j] = NewGood(t) /\ Listings(u, j) = 0
    BY <1>1, <1>4 DEF Changes
  <2> QED BY <1>2, <2>1, NewBegins
<1> QED BY <1>3, <1>4

\* Its time is over.
IsOver(s, i) == s.item[i].history.burnt >= s.item[i].history.full /\ Listings(s, i) = 0
Turned(s, v, b, c, e) ==
  GoodInv(v, b, c, e) /\ v.bucket = s.bucket /\ Roomy(v, b, c)
LEMMA Away ==
  ASSUME NEW s, Sound(s), Room(s), NEW i \in Good, s.item[i].placed,
         s.item[i].type \in Decaying, s.item[i].duration # None,
         Steady(s.item[i]) => IsOver(s, i),
         NEW b \in Bucket, NEW c, NEW e \in {0, 1}
  PROVE  Turned(s, DecayAway(s, i), b, c, e)
<1> DEFINE t == DecayTo[s.item[i].type]
           h == s.item[i].history
           soon == h.burnt < h.full /\ ~h.paused /\ ~h.doubled /\ ~h.spent
           told == [s EXCEPT !.early = @ \/ soon]
<1>1. s \in GoodWorld /\ ~s.early /\ OneHere(s)
  BY DEF Sound
<1>2. ~soon
  <2>1. h.burnt \in Nat /\ h.full \in Nat
    BY <1>1, ItemParts
  <2>2. soon => Steady(s.item[i])
    BY DEF Steady, Timed
  <2>3. Steady(s.item[i]) => h.burnt >= h.full
    BY DEF IsOver
  <2> QED BY <2>1, <2>2, <2>3
<1>3. told = s
  <2>1. (s.early \/ soon) = s.early
    BY <1>1, <1>2 DEF GoodWorld
  <2> HIDE DEF soon
  <2>2. told = [s EXCEPT !.early = s.early]
    BY <2>1
  <2> QED BY <1>1, <2>2 DEF GoodWorld
<1> DEFINE u == Changed(s, i, t)
           j == After(s, i, t)
           next == [u EXCEPT !.item[j] = GoneOut(@)]
           v == DecayAway(s, i)
<1>4. v = IF t = Vanishes THEN Removed(s, i)
          ELSE IF Waits(next, j) THEN List(next, j) ELSE next
  <2>1. v = IF t = Vanishes THEN Removed(told, i)
            ELSE LET n == [Changed(told, i, t) EXCEPT !.item[After(s, i, t)] = GoneOut(@)]
                 IN  IF Waits(n, After(s, i, t)) THEN List(n, After(s, i, t)) ELSE n
    BY DEF DecayAway
  <2> QED BY <1>3, <2>1, Zenon
<1> HIDE DEF v, told, soon, h
<1>5. CASE t = Vanishes
  <2>1. v = Removed(s, i)
    BY <1>4, <1>5
  <2>2. Sound(v) /\ SameLists(s, v) /\ \A k \in Good : ~v.item[k].placed
    BY <2>1, RemovedIs
  <2> QED BY <2>2 DEF Turned, GoodInv, InGame, Roomy, NoneComes, SameLists, v
<1>6. CASE t # Vanishes
  <2>1. t \in Type
    BY <1>6, Decays
  <2>2. Changes(s, u, i, t, j)
    BY <2>1, ChangingIs
  <2> HIDE DEF u, j
  <2>3. /\ j \in Good /\ Sound(u) /\ u.item[j].placed /\ u.item[j].type = t
        /\ u.bucket = s.bucket /\ u \in GoodWorld
    BY <2>2 DEF Changes, Sound, SameLists
  <2> DEFINE x == u.item[j]
             y == GoneOut(x)
  <2>4. x \in GoodItem
    BY <2>3, ItemParts
  <2>5. /\ y \in GoodItem /\ y.placed = x.placed /\ y.refs = x.refs /\ y.type = x.type
        /\ y.decaying = x.decaying /\ y.duration = x.duration
        /\ y.history.burnt = x.history.burnt /\ y.history.full = x.history.full
        /\ y.history.doubled = x.history.doubled
        /\ y.history.spent = (x.type \in Keeping)
    BY <2>4, GoneOutIs
  <2> HIDE DEF x, y
  <2>6. next = [u EXCEPT !.item[j] = y]
    BY DEF x, y
  <2> HIDE DEF next
  <2>7. Sound(next) /\ Rewrites(u, next, j, y)
    BY <2>3, <2>5, <2>6, Rewriting DEF x
  <2>8. /\ next \in GoodWorld /\ next.item[j] = y /\ next.item[j].placed /\ y.type = t
        /\ next.bucket = s.bucket /\ Listings(next, j) = Listings(u, j)
        /\ \A k \in Good : k # j => next.item[k] = u.item[k]
    <3>1. /\ SameLists(u, next) /\ next.item[j] = y
          /\ \A k \in Good : k # j => next.item[k] = u.item[k]
      BY <2>7 DEF Rewrites
    <3>2. Listings(next, j) = Listings(u, j)
      BY <3>1, ListsTell
    <3>3. next \in GoodWorld
      BY <2>7 DEF Sound
    <3>4. y.placed /\ y.type = t
      BY <2>3, <2>5 DEF x
    <3>5. next.bucket = s.bucket
      BY <2>3, <3>1 DEF SameLists
    <3> QED BY <3>1, <3>2, <3>3, <3>4, <3>5
  <2>9. Timely(next, b, c, e, j)
    <3>1. CASE t \in Keeping
      <4>1. y.history.spent /\ t \notin Decaying
        BY <2>5, <2>8, <3>1, Decays
      <4> QED BY <2>1, <2>8, <4>1 DEF Timely, InTime, Lasting, Steady, Timed
    <3>2. CASE t \notin Keeping
      <4>1. Begins(u, j)
        BY <2>1, <3>2, TurnedBegins DEF u, j
      <4>2. Begins(next, j)
        BY <2>5, <2>8, <4>1 DEF Begins, x
      <4> QED BY <2>3, <2>8, <4>2, BeginsTimely
    <3> QED BY <3>1, <3>2
  <2>10. CASE Waits(next, j)
    <3>1. v = List(next, j) /\ next.item[j].type \in Decaying /\ ~next.item[j].decaying
      BY <1>4, <1>6, <2>10 DEF Waits, CanDecay
    <3>2. GoodInv(v, b, c, e)
      BY <2>3, <2>7, <2>8, <2>9, <3>1, Listed
    <3>3. Entered(next, v, j)
      BY <2>3, <2>8, <3>1, ListIs
    <3>4. /\ v.bucket = next.bucket /\ v.item[j].placed
          /\ \A k \in Good : k # j => v.item[k] = next.item[k]
      BY <2>8, <3>3 DEF Entered
    <3> QED
      <4>1. Roomy(v, b, c)
        <5>1. CASE Kind[s.item[i].type] = Kind[t]
          <6>1. PICK k \in Good : u.item[k].refs = 0
            BY <2>2, <5>1 DEF Changes, Room
          <6>2. k # j
            BY <2>3, <6>1, FreeIsFree
          <6> QED BY <2>8, <3>4, <6>1, <6>2 DEF Roomy, Room
        <5>2. CASE Kind[s.item[i].type] # Kind[t]
          <6>1. Listings(next, j) = 0
            BY <2>2, <2>8, <5>2 DEF Changes
          <6>2. NoneComes(next, b, c)
            BY <2>3, <2>7, <2>8, <6>1, OneComes
          <6>3. \A k \in Good : v.item[k].placed => next.item[k].placed
            BY <2>8, <3>4
          <6>4. \A k, w : Comes(v, b, c, k, w) <=> Comes(next, b, c, k, w)
            BY <3>4 DEF Comes
          <6> QED BY <6>2, <6>3, <6>4 DEF Roomy, NoneComes
        <5> QED BY <5>1, <5>2
      <4> QED BY <2>8, <3>2, <3>4, <4>1 DEF Turned, v
  <2>11. CASE ~Waits(next, j)
    <3>1. v = next /\ (next.item[j].type \in Decaying => next.item[j].decaying)
      BY <1>4, <1>6, <2>8, <2>11 DEF Waits, CanDecay
    <3>2. GoodInv(v, b, c, e)
      BY <2>3, <2>7, <2>8, <2>9, <3>1, AllInGame
    <3> QED
      <4>1. Roomy(v, b, c)
        <5>1. CASE Kind[s.item[i].type] = Kind[t]
          <6>1. PICK k \in Good : u.item[k].refs = 0
            BY <2>2, <5>1 DEF Changes, Room
          <6>2. k # j
            BY <2>3, <6>1, FreeIsFree
          <6> QED BY <2>8, <3>1, <6>1, <6>2 DEF Roomy, Room
        <5>2. CASE Kind[s.item[i].type] # Kind[t]
          <6>1. Listings(next, j) = 0
            BY <2>2, <2>8, <5>2 DEF Changes
          <6>2. NoneComes(next, b, c)
            BY <2>3, <2>7, <2>8, <6>1, OneComes
          <6> QED BY <3>1, <6>2 DEF Roomy
        <5> QED BY <5>1, <5>2
      <4> QED BY <2>8, <3>1, <3>2, <4>1 DEF Turned, v
  <2> QED BY <2>10, <2>11
<1> QED BY <1>5, <1>6

\* What is started as it is timely goes on in time, or turns into another.
LEMMA Starting ==
  ASSUME NEW s, Sound(s), NEW b \in Bucket, NEW c, NEW e \in {0, 1}, NEW i \in Good,
         s.item[i].placed, Timely(s, b, c, e, i),
         Waits(s, i) /\ Duration(s, i) = 0 => Room(s)
  PROVE  GoodInv(StartDecay(s, i), b, c, e)
<1> DEFINE x == s.item[i]
<1>1. s \in GoodWorld
  BY DEF Sound
<1>2. /\ x.duration \in Nat \union {None} /\ x.history.burnt \in Nat /\ x.history.full \in Nat
      /\ x.decaying \in BOOLEAN
  BY <1>1, ItemParts
<1>3. CASE ~Waits(s, i)
  <2>1. StartDecay(s, i) = s
    BY <1>3 DEF StartDecay
  <2>2. x.type \in Decaying => x.decaying
    BY <1>3 DEF Waits, CanDecay
  <2> QED BY <2>1, <2>2, AllInGame
<1>4. CASE Waits(s, i)
  <2>1. x.type \in Decaying /\ ~x.decaying
    BY <1>4 DEF Waits, CanDecay
  <2>2. x.duration # None /\ x.duration \in Nat /\ Duration(s, i) = x.duration
    BY <1>2, <2>1 DEF Timely, Duration
  <2>3. CASE Duration(s, i) > 0
    <3>1. StartDecay(s, i) = List(s, i)
      BY <1>4, <2>3 DEF StartDecay
    <3> QED BY <2>1, <3>1, Listed
  <2>4. CASE ~(Duration(s, i) > 0)
    <3>1. StartDecay(s, i) = DecayAway(s, i)
      BY <1>4, <2>4 DEF StartDecay
    <3>2. Duration(s, i) = 0
      BY <2>2, <2>4
    <3>3. Steady(x) => IsOver(s, i)
      <4> SUFFICES ASSUME Steady(x) PROVE IsOver(s, i)
        OBVIOUS
      <4>1. Listings(s, i) = 0 /\ x.history.burnt + x.duration >= x.history.full
        BY <2>1 DEF Timely, Lasting
      <4> QED BY <1>2, <2>2, <3>2, <4>1 DEF IsOver
    <3>4. Turned(s, DecayAway(s, i), b, c, e)
      BY <1>4, <2>1, <2>2, <3>2, <3>3, Away
    <3> QED BY <3>1, <3>4 DEF Turned
  <2> QED BY <2>3, <2>4
<1> QED BY <1>3, <1>4

-----------------------------------------------------------------------------
(* Entries that come up.                                                   *)

\* What item x is when it has paid for its entry.
Pays(x, y) ==
  /\ y \in GoodItem /\ y.type = x.type /\ y.placed = x.placed /\ y.refs = x.refs
  /\ y.decaying = x.decaying /\ y.history = x.history
  /\ y.duration = IF x.duration = None THEN None ELSE Over(x.duration)
LEMMA PaidIs == ASSUME NEW x \in GoodItem PROVE Pays(x, Paid(x))
<1> DEFINE d == IF x.duration = None THEN None ELSE Over(x.duration)
<1>1. x.duration \in Nat \union {None} /\ Buckets \in Nat
  BY DecayAssumption DEF GoodItem
<1>2. d \in Nat \union {None}
  BY <1>1 DEF Over
<1>3. Paid(x) = [x EXCEPT !.duration = d]
  BY DEF Paid, Over, GoodItem
<1> HIDE DEF d
<1>4. LET y == Paid(x)
      IN  /\ y \in GoodItem /\ y.type = x.type /\ y.placed = x.placed /\ y.refs = x.refs
          /\ y.decaying = x.decaying /\ y.history = x.history /\ y.duration = d
  BY <1>2, <1>3 DEF GoodItem
<1> QED BY <1>4 DEF Pays, d

\* What counts once for item i.
One(i, k) == IF i = k THEN 1 ELSE 0
\* The first entry of bucket b, that of item i, is taken out.
Charges(s, d, b, i) ==
  /\ d \in GoodWorld /\ i \in Good /\ Pays(s.item[i], d.item[i])
  /\ \A k \in Good : k # i => d.item[k] = s.item[k]
  /\ d.bucket = [s.bucket EXCEPT ![b] = Tail(@)]
  /\ d.fresh = s.fresh /\ d.freed = s.freed /\ d.early = s.early
  /\ \A k : Listings(s, k) = Listings(d, k) + One(i, k)
LEMMA ChargedIs ==
  ASSUME NEW s \in GoodWorld, NEW b \in Bucket, s.bucket[b] # <<>>,
         NEW i, i = Head(s.bucket[b]), NEW d, d = Charged(s, b)
  PROVE  Charges(s, d, b, i)
<1> DEFINE q == s.bucket[b]
           y == Paid(s.item[i])
<1>1. q \in Seq(Good) /\ q # <<>>
  BY DEF GoodWorld
<1>2. Tail(q) \in Seq(Good) /\ i \in Good
  BY <1>1
<1>3. Pays(s.item[i], y) /\ y \in GoodItem
  <2>1. s.item[i] \in GoodItem
    BY <1>2, ItemParts
  <2>2. Pays(s.item[i], y)
    BY <2>1, PaidIs
  <2> QED BY <2>2 DEF Pays
<1>4. d = [s EXCEPT !.bucket[b] = Tail(@), !.item[i] = y]
  BY DEF Charged
<1> HIDE DEF y
<1>5. d \in GoodWorld
  <2> DEFINE m == [s.item EXCEPT ![i] = y]
             l == [s.bucket EXCEPT ![b] = Tail(@)]
  <2>1. m \in [Good -> GoodItem] /\ l \in [Bucket -> Seq(Good)]
    BY <1>2, <1>3 DEF GoodWorld
  <2>2. d = [s EXCEPT !.bucket = l, !.item = m]
    BY <1>4 DEF GoodWorld
  <2> HIDE DEF m, l
  <2> QED BY <2>1, <2>2 DEF GoodWorld
<1>6. /\ d.item[i] = y /\ \A k \in Good : k # i => d.item[k] = s.item[k]
      /\ d.bucket = [s.bucket EXCEPT ![b] = Tail(@)]
      /\ d.fresh = s.fresh /\ d.freed = s.freed /\ d.early = s.early
  BY <1>2, <1>4 DEF GoodWorld
<1>7. /\ b + 2 \in 1..(Buckets + 1) /\ Lists(s)[b + 2] = q /\ Lists(d)[b + 2] = Tail(q)
      /\ \A k \in 1..(Buckets + 1) : k # b + 2 => Lists(d)[k] = Lists(s)[k]
  <2>1. Buckets \in Nat /\ b \in Nat
    BY DecayAssumption DEF Bucket
  <2>2. /\ \A k \in 1..(Buckets + 1) : k = 1 \/ (k - 2 \in Bucket /\ (k - 2) + 2 = k)
        /\ \A n \in Bucket : Lists(s)[n + 2] = s.bucket[n] /\ Lists(d)[n + 2] = d.bucket[n]
        /\ Lists(d)[1] = d.fresh /\ Lists(s)[1] = s.fresh
        /\ b + 2 \in 1..(Buckets + 1)
    BY <1>5, <2>1, ListsAre
  <2>3. d.bucket[b] = Tail(q) /\ \A n \in Bucket : n # b => d.bucket[n] = s.bucket[n]
    BY <1>6 DEF GoodWorld
  <2>4. ASSUME NEW k \in 1..(Buckets + 1), k # b + 2
        PROVE  Lists(d)[k] = Lists(s)[k]
    <3>1. CASE k = 1
      BY <1>6, <2>2, <3>1
    <3>2. CASE k # 1
      <4>1. k - 2 \in Bucket /\ (k - 2) + 2 = k
        BY <2>2, <3>2
      <4>3. k - 2 # b
        BY <2>4, <4>1
      <4>2. Lists(d)[k] = d.bucket[k - 2] /\ Lists(s)[k] = s.bucket[k - 2]
        BY <2>2, <4>1
      <4> QED BY <2>3, <4>1, <4>2, <4>3
    <3> QED BY <3>1, <3>2
  <2> QED BY <2>2, <2>3, <2>4
<1>8. ASSUME NEW k
      PROVE  Listings(s, k) = Listings(d, k) + One(i, k)
  <2>1. /\ Listings(s, k) \in Nat /\ Listings(d, k) \in Nat
        /\ Listings(d, k) - Listings(s, k) = Times(Tail(q), k) - Times(q, k)
    <3> DEFINE j == b + 2
    <3>1. j \in 1..(Buckets + 1) /\ \A n \in 1..(Buckets + 1) : n # j => Lists(d)[n] = Lists(s)[n]
      BY <1>7
    <3>2. Lists(s)[j] = q /\ Lists(d)[j] = Tail(q)
      BY <1>7
    <3> HIDE DEF j, q
    <3>3. /\ Listings(s, k) \in Nat /\ Listings(d, k) \in Nat
          /\ Listings(d, k) - Listings(s, k) = Times(Lists(d)[j], k) - Times(Lists(s)[j], k)
      BY <1>5, <3>1, ListingsDiffer
    <3> QED BY <3>2, <3>3
  <2>2. Times(q, k) = Times(Tail(q), k) + One(i, k)
    BY <1>1, TimesTail DEF One
  <2>3. Times(Tail(q), k) \in Nat
    BY <1>2, TimesCount
  <2> QED BY <2>1, <2>2, <2>3 DEF One
<1> QED BY <1>2, <1>3, <1>5, <1>6, <1>8 DEF Charges

\* The rest of the entries moves up.
MovesUp(s, v, b, c) ==
  c - 1 <= Len(v.bucket[b]) /\ \A j \in 1..(c - 1) : v.bucket[b][j] = s.bucket[b][j + 1]
EntryTaken(s, d, b, c, i) ==
  /\ Charges(s, d, b, i) /\ MovesUp(s, d, b, c)
  /\ Comes(s, b, c, i, 0) /\ Listings(s, i) # 0
  /\ \A k, w : Comes(d, b, c - 1, k, w) => Comes(s, b, c, k, w)
  /\ \A k, w : Comes(s, b, c, k, w) => Comes(d, b, c - 1, k, w) \/ (w = 0 /\ i = k)
  /\ s.item[i].placed => Room(s)
LEMMA EntryIsTaken ==
  ASSUME NEW s, Sound(s), NEW b \in Bucket, NEW c \in Nat, c >= 1, c <= Len(s.bucket[b]),
         Roomy(s, b, c), NEW i, i = Head(s.bucket[b]), NEW d, d = Charged(s, b)
  PROVE  EntryTaken(s, d, b, c, i)
<1> DEFINE q == s.bucket[b]
<1>1. s \in GoodWorld /\ q \in Seq(Good) /\ q # <<>>
  BY DEF Sound, GoodWorld
<1>2. Charges(s, d, b, i)
  BY <1>1, ChargedIs
<1>3. d \in GoodWorld /\ i \in Good /\ d.bucket = [s.bucket EXCEPT ![b] = Tail(@)]
  BY <1>2 DEF Charges
<1>4. Comes(s, b, c, i, 0)
  BY <1>1, <1>3, ComesTaken
<1>5. /\ \A k, w : Comes(d, b, c - 1, k, w) => Comes(s, b, c, k, w)
      /\ \A k, w : Comes(s, b, c, k, w) => Comes(d, b, c - 1, k, w) \/ (w = 0 /\ i = k)
  <2> SUFFICES ASSUME NEW k, NEW w
               PROVE  /\ Comes(d, b, c - 1, k, w) => Comes(s, b, c, k, w)
                      /\ Comes(s, b, c, k, w) => Comes(d, b, c - 1, k, w) \/ (w = 0 /\ i = k)
    OBVIOUS
  <2>1. /\ Comes(d, b, c - 1, k, w) => Comes(s, b, c, k, w)
        /\ Comes(s, b, c, k, w) =>
             Comes(d, b, c - 1, k, w) \/ (w = 0 /\ k = Head(s.bucket[b]))
    BY ZenonT(30), <1>1, <1>3, ComesTaken
  <2> QED BY <2>1
<1>6. Listings(s, i) # 0
  BY <1>1, <1>4, ComesSoon
<1>7. MovesUp(s, d, b, c)
  <2> DEFINE r == d.bucket[b]
  <2>1. r = Tail(q)
    BY <1>1, <1>3 DEF GoodWorld
  <2>2. /\ Tail(q) \in Seq(Good) /\ Len(q) \in Nat /\ DOMAIN Tail(q) = 1..(Len(q) - 1)
        /\ \A n \in DOMAIN Tail(q) : Tail(q)[n] = q[n + 1]
    BY <1>1, TimesTail
  <2> HIDE DEF r
  <2>3. Len(r) = Len(q) - 1
    BY <1>1, <2>1
  <2>4. c - 1 <= Len(r)
    BY <2>2, <2>3
  <2>5. \A j \in 1..(c - 1) : j \in 1..(Len(q) - 1)
    BY <2>2, <2>3, <2>4
  <2>6. \A j \in 1..(c - 1) : r[j] = q[j + 1]
    BY <2>1, <2>2, <2>5
  <2> QED BY <2>4, <2>6 DEF MovesUp, r
<1>8. s.item[i].placed => Room(s)
  BY <1>3, <1>4 DEF Roomy, NoneComes
<1> QED BY <1>2, <1>4, <1>5, <1>6, <1>7, <1>8 DEF EntryTaken

\* What is true when an entry has been checked.
Checked(s, v, b, c) ==
  GoodInv(v, b, c - 1, 0) /\ Roomy(v, b, c - 1) /\ MovesUp(s, v, b, c) /\ StaysOut(s, v)

\* An item is freed.
LEMMA FreedIs ==
  ASSUME NEW s \in GoodWorld, NEW i \in Good, NEW v, v = Freed(s, i)
  PROVE  /\ v \in GoodWorld /\ v.item = s.item /\ v.bucket = s.bucket /\ v.fresh = s.fresh
         /\ v.early = s.early
         /\ \A k : Listings(v, k) = Listings(s, k)
         /\ \A k : Times(v.freed, k) = Times(s.freed, k) + One(i, k)
         /\ \A k : Times(s.freed, k) \in Nat
<1>1. s.freed \in Seq(Good)
  BY DEF GoodWorld
<1>2. /\ v \in GoodWorld /\ v.item = s.item /\ v.bucket = s.bucket /\ v.fresh = s.fresh
      /\ v.early = s.early /\ v.freed = Append(s.freed, i)
  <2>1. Append(s.freed, i) \in Seq(Good)
    BY <1>1
  <2> QED BY <2>1 DEF Freed, GoodWorld
<1>3. \A k : Listings(v, k) = Listings(s, k)
  BY <1>2, SameListings
<1>4. \A k : Times(v.freed, k) = Times(s.freed, k) + One(i, k)
  BY <1>1, <1>2, TimesAppend DEF One
<1>5. \A k : Times(s.freed, k) \in Nat
  BY <1>1, TimesCount
<1> QED BY <1>2, <1>3, <1>4, <1>5

\* With its reference freed, the world is sound again.
LEMMA SoundAgain ==
  ASSUME NEW s, Sound(s), NEW b, NEW i, NEW d \in GoodWorld, Charges(s, d, b, i),
         NEW v \in GoodWorld, v.early = d.early,
         \A k \in Good : v.item[k].refs = s.item[k].refs /\ v.item[k].placed = s.item[k].placed,
         \A k \in Good : Listings(v, k) + Times(v.freed, k) =
                           Listings(d, k) + Times(d.freed, k) + One(i, k)
  PROVE  Sound(v)
<1>1. s \in GoodWorld
  BY DEF Sound
<1>2. ASSUME NEW k \in Good
      PROVE  v.item[k].refs = Mark(v.item[k]) + Listings(v, k) + Times(v.freed, k)
  <2>1. s.item[k].refs = Mark(s.item[k]) + Listings(s, k) + Times(s.freed, k)
    BY DEF Sound, Referred
  <2>2. Listings(s, k) = Listings(d, k) + One(i, k) /\ d.freed = s.freed
    BY DEF Charges
  <2>3. Mark(v.item[k]) = Mark(s.item[k]) /\ Mark(v.item[k]) \in Nat
    BY DEF Mark
  <2>4. /\ Listings(d, k) \in Nat /\ Times(d.freed, k) \in Nat
        /\ Listings(v, k) \in Nat /\ Times(v.freed, k) \in Nat
    BY ItemParts
  <2> QED BY <2>1, <2>2, <2>3, <2>4 DEF One
<1>3. ~v.early /\ OneHere(v)
  BY DEF Sound, Charges, OneHere
<1> QED BY <1>2, <1>3 DEF Sound, Referred

\* Its parts before and after.
LEMMA PaysParts ==
  ASSUME NEW s \in GoodWorld, NEW b, NEW i, NEW d, Charges(s, d, b, i)
  PROVE  LET x == s.item[i]
             y == d.item[i]
         IN  /\ i \in Good /\ y \in GoodItem /\ y.type = x.type /\ y.placed = x.placed
             /\ y.refs = x.refs /\ y.decaying = x.decaying /\ y.history = x.history
             /\ x.duration = None => y.duration = None
             /\ x.duration # None =>
                  /\ y.duration = Over(x.duration) /\ x.duration \in Nat
                  /\ y.duration \in Nat /\ y.duration # None
                  /\ y.duration <= x.duration
                  /\ Over(x.duration) \in Nat
             /\ x.history.burnt \in Nat /\ x.history.full \in Nat /\ x.history.stays \in Nat
<1> DEFINE x == s.item[i]
           y == d.item[i]
<1>1. /\ i \in Good /\ y \in GoodItem /\ y.type = x.type /\ y.placed = x.placed
      /\ y.refs = x.refs /\ y.decaying = x.decaying /\ y.history = x.history
      /\ y.duration = IF x.duration = None THEN None ELSE Over(x.duration)
  BY DEF Charges, Pays
<1>2. /\ x.duration \in Nat \union {None}
      /\ x.history.burnt \in Nat /\ x.history.full \in Nat /\ x.history.stays \in Nat
  BY <1>1, ItemParts
<1>3. Buckets \in Nat /\ None \notin Nat
  BY DecayAssumption
<1>4. x.duration # None =>
        /\ y.duration = Over(x.duration) /\ x.duration \in Nat
        /\ Over(x.duration) \in Nat /\ Over(x.duration) <= x.duration
  <2> HIDE DEF x, y
  <2> QED BY <1>1, <1>2, <1>3 DEF Over
<1> QED BY <1>1, <1>2, <1>3, <1>4

\* An item that is not in the game, or does not decay, gives its entry up.
GivenUp(d, i) == Freed([d EXCEPT !.item[i].decaying = FALSE], i)
LEMMA EntryGivenUp ==
  ASSUME NEW s, NEW b \in Bucket, NEW c \in Nat, GoodInv(s, b, c, 0), Roomy(s, b, c), NEW i, NEW d,
         EntryTaken(s, d, b, c, i), ~CanDecay(d, i),
         NEW v, v = GivenUp(d, i)
  PROVE  Checked(s, v, b, c)
<1> DEFINE x == s.item[i]
           y == d.item[i]
           z == [y EXCEPT !.decaying = FALSE]
           f == [d EXCEPT !.item[i] = z]
<1>1. Sound(s) /\ s \in GoodWorld /\ Charges(s, d, b, i) /\ MovesUp(s, d, b, c)
  BY DEF GoodInv, Sound, EntryTaken
<1>2. d \in GoodWorld /\ i \in Good /\ d.fresh = s.fresh
  BY <1>1 DEF Charges
<1>3. /\ y \in GoodItem /\ y.type = x.type /\ y.placed = x.placed
      /\ y.refs = x.refs /\ y.decaying = x.decaying /\ y.history = x.history
  BY <1>1, PaysParts
<1>4. z \in GoodItem /\ z.placed = y.placed /\ z.refs = y.refs /\ z.type = y.type /\ ~z.decaying
      /\ z.duration = y.duration /\ z.history = y.history
  <2> HIDE DEF y
  <2> QED BY <1>3 DEF GoodItem
<1> HIDE DEF z
<1>5. /\ f \in GoodWorld /\ f.item[i] = z /\ f.bucket = d.bucket /\ f.fresh = d.fresh
      /\ f.freed = d.freed /\ f.early = d.early
      /\ \A k \in Good : k # i => f.item[k] = d.item[k]
  BY <1>2, <1>4 DEF GoodWorld
<1>6. v = Freed(f, i)
  BY DEF z, GivenUp
<1> HIDE DEF f
<1>7. /\ v \in GoodWorld /\ v.item = f.item /\ v.bucket = f.bucket /\ v.fresh = f.fresh
      /\ v.early = f.early
      /\ \A k : Listings(v, k) = Listings(f, k)
      /\ \A k : Times(v.freed, k) = Times(f.freed, k) + One(i, k)
  <2> HIDE DEF x, y
  <2>1. f \in GoodWorld /\ i \in Good
    BY <1>2, <1>5
  <2> QED BY <2>1, <1>6, FreedIs
<1>8. /\ v.item[i] = z /\ \A k \in Good : k # i => v.item[k] = s.item[k]
      /\ v.bucket = d.bucket /\ v.fresh = s.fresh /\ v.early = d.early
  BY <1>1, <1>2, <1>5, <1>7 DEF Charges
<1>9. \A k : Listings(v, k) = Listings(d, k)
  BY <1>2, <1>8, SameListings
<1>10. \A k \in Good : v.item[k].refs = s.item[k].refs /\ v.item[k].placed = s.item[k].placed
  BY <1>3, <1>4, <1>8
<1>11. Sound(v)
  <2>1. \A k \in Good : Listings(v, k) + Times(v.freed, k) =
                          Listings(d, k) + Times(d.freed, k) + One(i, k)
    <3> TAKE k \in Good
    <3>1. Listings(d, k) \in Nat /\ Times(d.freed, k) \in Nat
      BY <1>2, ItemParts
    <3>2. Times(v.freed, k) = Times(d.freed, k) + One(i, k)
      BY <1>5, <1>7
    <3> QED BY <1>9, <3>1, <3>2 DEF One
  <2> QED BY <1>1, <1>2, <1>7, <1>8, <1>10, <2>1, SoundAgain
<1>12. /\ \A k, w : Comes(v, b, c - 1, k, w) => Comes(s, b, c, k, w)
       /\ \A k, w : k # i /\ Comes(s, b, c, k, w) => Comes(v, b, c - 1, k, w)
  <2>1. \A k, w : Comes(v, b, c - 1, k, w) <=> Comes(d, b, c - 1, k, w)
    BY <1>8 DEF Comes
  <2> QED BY <2>1 DEF EntryTaken
<1>13. ASSUME NEW k \in Good, v.item[k].placed
       PROVE  /\ Timely(v, b, c - 1, 0, k)
              /\ v.item[k].type \in Decaying => v.item[k].decaying
  <2>1. s.item[k].placed
    BY <1>10, <1>13
  <2>2. Timely(s, b, c, 0, k) /\ (s.item[k].type \in Decaying => s.item[k].decaying)
    BY <2>1 DEF GoodInv, InGame
  <2>3. CASE k # i
    <3>1. Listings(v, k) = Listings(s, k)
      <4>1. Listings(s, k) = Listings(d, k) + One(i, k)
        BY <1>1 DEF Charges
      <4>2. Listings(d, k) \in Nat
        BY <1>2, Unlisted
      <4> QED BY <1>9, <2>3, <4>1, <4>2 DEF One
    <3>2. \A w : Comes(v, b, c - 1, k, w) <=> Comes(s, b, c, k, w)
      BY <1>12, <2>3
    <3>3. SameTime(s.item[k], v.item[k]) /\ Times(v.fresh, k) = Times(s.fresh, k)
      BY <1>8, <2>3 DEF SameTime
    <3>4. Timely(v, b, c - 1, 0, k)
      BY <2>2, <3>1, <3>2, <3>3, Untouched
    <3> QED BY <2>2, <3>3, <3>4 DEF SameTime
  <2>4. CASE k = i
    <3>1. x.type \notin Decaying /\ x.type \in Type
      <4>1. y.placed
        BY <1>3, <2>1, <2>4
      <4>2. y.type \notin Decaying
        BY <4>1 DEF CanDecay
      <4> QED BY <1>3, <2>2, <2>4, <4>2 DEF Timely
    <3>2. ~Steady(x)
      <4>1. Steady(x) /\ x.decaying => x.type \in Decaying
        BY <2>2, <2>4 DEF Timely, Lasting
      <4>2. Steady(x) /\ ~x.decaying => Listings(s, i) = 0
        BY <2>2, <2>4 DEF Timely, Lasting
      <4>3. Listings(s, i) # 0
        BY DEF EntryTaken
      <4> QED BY <3>1, <4>1, <4>2, <4>3
    <3>3. ~Steady(z)
      <4>1. x.duration = None => y.duration = None
        BY <1>1, PaysParts
      <4> QED BY <1>3, <1>4, <3>2, <4>1 DEF Steady, Timed
    <3>4. InTime(v, b, c - 1, 0, i)
      <4> SUFFICES ASSUME Timed(z) PROVE HasTime(z)
        BY <1>4, <1>8 DEF InTime
      <4>1. Timed(x) /\ x.duration # None
        <5>1. x.duration = None => y.duration = None
          BY <1>1, PaysParts
        <5> QED BY <1>3, <1>4, <5>1 DEF Timed
      <4>2. /\ z.duration = Over(x.duration) /\ x.duration \in Nat /\ z.duration \in Nat
            /\ z.duration <= x.duration
        BY <1>1, <1>4, <4>1, PaysParts
      <4>3. /\ z.history = x.history
            /\ x.history.burnt \in Nat /\ x.history.full \in Nat /\ x.history.stays \in Nat
        BY <1>1, <1>3, <1>4, PaysParts
      <4>4. Budget(z) = Budget(x) /\ Budget(x) \in Nat
        BY <4>3 DEF Budget
      <4>5. /\ x.decaying => EndsListed(s, b, c, i) \/ EndsFresh(s, 0, i)
            /\ ~x.decaying => HasTime(x)
        BY <2>2, <2>4, <4>1 DEF Timely, InTime
      <4>6. CASE HasTime(x)
        <5>1. x.history.burnt + x.duration <= Budget(x)
          BY <4>6 DEF HasTime
        <5>2. x.history.burnt + z.duration <= Budget(x)
          <6> HIDE DEF x
          <6> QED BY <4>2, <4>3, <4>4, <5>1
        <5> QED BY <4>3, <4>4, <5>2 DEF HasTime
      <4>7. CASE EndsFresh(s, 0, i)
        <5>1. x.history.burnt + x.duration + 0 <= Budget(x)
          BY <4>7 DEF EndsFresh
        <5>2. x.history.burnt + z.duration <= Budget(x)
          <6> HIDE DEF x
          <6> QED BY <4>2, <4>3, <4>4, <5>1
        <5> QED BY <4>3, <4>4, <5>2 DEF HasTime
      <4>8. CASE EndsListed(s, b, c, i)
        <5>1. PICK w \in 0..Buckets : Comes(s, b, c, i, w) /\ Ends(x, w) <= Allowed(x, w)
          BY <4>8 DEF EndsListed
        <5>2. w \in Nat
          BY DecayAssumption
        <5>3. x.history.burnt + w + z.duration <= Allowed(x, w)
          BY <4>2, <5>1 DEF Ends
        <5>4. Allowed(x, w) = IF w = 0 THEN Budget(x) ELSE Budget(x) + 1
          BY <3>1 DEF Allowed
        <5>5. x.history.burnt + z.duration <= Budget(x)
          <6> HIDE DEF x
          <6> QED BY <4>2, <4>3, <4>4, <5>2, <5>3, <5>4
        <5> QED BY <4>3, <4>4, <5>5 DEF HasTime
      <4> QED BY <4>5, <4>6, <4>7, <4>8
    <3>5. Timely(v, b, c - 1, 0, i) /\ v.item[i].type \notin Decaying
      BY <1>3, <1>4, <1>8, <3>1, <3>3, <3>4 DEF Timely, Lasting
    <3> QED BY <2>4, <3>5
  <2> QED BY <2>3, <2>4
<1>14. GoodInv(v, b, c - 1, 0)
  BY <1>11, <1>13 DEF GoodInv, InGame
<1>15. Roomy(v, b, c - 1)
  <2>1. CASE Room(s)
    BY <1>10, <2>1 DEF Roomy, Room
  <2>2. CASE NoneComes(s, b, c)
    BY <1>10, <1>12, <2>2 DEF Roomy, NoneComes
  <2> QED BY <2>1, <2>2 DEF Roomy
<1>16. MovesUp(s, v, b, c)
  BY <1>1, <1>8 DEF MovesUp
<1>17. StaysOut(s, v)
  BY <1>10 DEF StaysOut, Nobody
<1> QED BY <1>14, <1>15, <1>16, <1>17 DEF Checked

\* An item with time left goes to the back of the bucket that comes up then, at
\* most a turn later.
GoesOn(d, b, i, n) == [d EXCEPT !.bucket[n] = Append(@, i)]
GoesTo(left, b) == IF left < Buckets THEN (b + left) % Buckets ELSE b
LEMMA PlacesDiffer ==
  ASSUME NEW s \in GoodWorld, NEW v \in GoodWorld, NEW n \in Bucket, v.fresh = s.fresh,
         \A m \in Bucket : m # n => v.bucket[m] = s.bucket[m], NEW k
  PROVE  /\ Listings(s, k) \in Nat /\ Listings(v, k) \in Nat
         /\ Listings(v, k) - Listings(s, k) = Times(v.bucket[n], k) - Times(s.bucket[n], k)
<1> DEFINE j == n + 2
<1>1. Buckets \in Nat /\ n \in Nat
  BY DecayAssumption DEF Bucket
<1>2. /\ \A l \in 1..(Buckets + 1) : l = 1 \/ (l - 2 \in Bucket /\ (l - 2) + 2 = l)
      /\ \A m \in Bucket : Lists(s)[m + 2] = s.bucket[m] /\ Lists(v)[m + 2] = v.bucket[m]
      /\ Lists(v)[1] = v.fresh /\ Lists(s)[1] = s.fresh
      /\ j \in 1..(Buckets + 1)
  BY <1>1, ListsAre
<1>3. ASSUME NEW l \in 1..(Buckets + 1), l # j
      PROVE  Lists(v)[l] = Lists(s)[l]
  <2>1. CASE l = 1
    BY <1>2, <2>1
  <2>2. CASE l # 1
    <3>1. l - 2 \in Bucket /\ (l - 2) + 2 = l
      BY <1>2, <2>2
    <3>2. l - 2 # n
      BY <1>3, <3>1
    <3>3. Lists(v)[l] = v.bucket[l - 2] /\ Lists(s)[l] = s.bucket[l - 2]
      BY <1>2, <3>1
    <3> QED BY <3>1, <3>2, <3>3
  <2> QED BY <2>1, <2>2
<1>4. Lists(v)[j] = v.bucket[n] /\ Lists(s)[j] = s.bucket[n] /\ j \in 1..(Buckets + 1)
  BY <1>2
<1> HIDE DEF j
<1>5. /\ Listings(s, k) \in Nat /\ Listings(v, k) \in Nat
      /\ Listings(v, k) - Listings(s, k) = Times(Lists(v)[j], k) - Times(Lists(s)[j], k)
  BY <1>3, <1>4, ListingsDiffer
<1> QED BY <1>4, <1>5

\* An entry that goes on is put behind bucket n, and is on the lists once more.
LEMMA GoesOnIs ==
  ASSUME NEW d \in GoodWorld, NEW b, NEW i \in Good, NEW n \in Bucket, NEW v, v = GoesOn(d, b, i, n)
  PROVE  /\ v \in GoodWorld /\ v.item = d.item /\ v.fresh = d.fresh /\ v.freed = d.freed
         /\ v.early = d.early
         /\ Puts(d, v, n, i)
         /\ \A k : Listings(v, k) = Listings(d, k) + One(i, k)
<1> DEFINE q == Append(d.bucket[n], i)
           l == [d.bucket EXCEPT ![n] = q]
<1>1. d.bucket[n] \in Seq(Good) /\ d.bucket \in [Bucket -> Seq(Good)]
  BY DEF GoodWorld
<1>2. q \in Seq(Good)
  BY <1>1
<1>3. v = [d EXCEPT !.bucket = l]
  BY DEF GoesOn
<1>4. \A k : Times(q, k) = Times(d.bucket[n], k) + One(i, k)
  BY <1>1, TimesAppend DEF One
<1> HIDE DEF q
<1>5. l \in [Bucket -> Seq(Good)] /\ l[n] = q /\ \A m \in Bucket : m # n => l[m] = d.bucket[m]
  BY <1>1, <1>2
<1>6. /\ v \in GoodWorld /\ v.item = d.item /\ v.fresh = d.fresh /\ v.freed = d.freed
      /\ v.early = d.early /\ v.bucket = l
  <2> HIDE DEF l
  <2> QED BY <1>3, <1>5 DEF GoodWorld
<1>7. ASSUME NEW k PROVE Listings(v, k) = Listings(d, k) + One(i, k)
  <2>1. \A m \in Bucket : m # n => v.bucket[m] = d.bucket[m]
    BY <1>5, <1>6
  <2> HIDE DEF l
  <2>2. /\ Listings(d, k) \in Nat /\ Listings(v, k) \in Nat
        /\ Listings(v, k) - Listings(d, k) = Times(v.bucket[n], k) - Times(d.bucket[n], k)
    BY <1>6, <2>1, PlacesDiffer
  <2>3. Times(d.bucket[n], k) \in Nat /\ One(i, k) \in Nat
    BY <1>1, TimesCount DEF One
  <2>4. v.bucket[n] = q
    BY <1>5, <1>6
  <2> QED BY <1>4, <2>2, <2>3, <2>4
<1> QED BY <1>6, <1>7 DEF q, Puts

\* The round in which the entry comes up again.
LEMMA GoesAgain ==
  ASSUME NEW b \in Bucket, NEW left \in Nat, left > 0, NEW n, n = GoesTo(left, b)
  PROVE  /\ n \in Bucket /\ TurnsTo(b, n) \in 1..Buckets
         /\ TurnsTo(b, n) + Over(left) = left
<1>1. Buckets \in Nat /\ Buckets >= 1
  BY DecayAssumption
<1>2. CASE left < Buckets
  <2>1. left \in 0..(Buckets - 1) /\ n = (b + left) % Buckets
    BY <1>1, <1>2 DEF GoesTo
  <2>2. n \in Bucket /\ TurnsTo(b, n) = left
    BY <2>1, Turns
  <2> QED BY <1>1, <1>2, <2>2 DEF Over
<1>3. CASE ~(left < Buckets)
  <2>1. n = b
    BY <1>3 DEF GoesTo
  <2>2. TurnsTo(b, b) = b - b + Buckets /\ b \in Nat
    <3>1. TurnsTo(b, b) = IF b > b THEN b - b ELSE b - b + Buckets
      BY Turns
    <3>2. b \in Nat
      BY Turns
    <3> QED BY <3>1, <3>2
  <2>3. TurnsTo(b, n) = Buckets
    BY <1>1, <2>1, <2>2
  <2> QED BY <1>1, <1>3, <2>1, <2>3 DEF Over
<1> QED BY <1>2, <1>3

\* An entry with time left stays, and what CheckEntry makes of it is in order.
LEMMA EntryGoesOn ==
  ASSUME NEW s, NEW b \in Bucket, NEW c \in Nat, c >= 1, GoodInv(s, b, c, 0), NEW i, NEW d,
         EntryTaken(s, d, b, c, i), CanDecay(d, i), Duration(d, i) > 0,
         NEW n, n = GoesTo(Duration(d, i), b), NEW v, v = GoesOn(d, b, i, n)
  PROVE  Checked(s, v, b, c)
<1> DEFINE x == s.item[i]
           y == d.item[i]
           left == Duration(d, i)
           r == TurnsTo(b, n)
<1>1. Sound(s) /\ s \in GoodWorld /\ Charges(s, d, b, i) /\ MovesUp(s, d, b, c)
  BY DEF GoodInv, Sound, EntryTaken
<1>2. d \in GoodWorld /\ i \in Good /\ d.fresh = s.fresh
  BY <1>1 DEF Charges
<1>3. /\ y \in GoodItem /\ y.type = x.type /\ y.placed = x.placed
      /\ y.refs = x.refs /\ y.decaying = x.decaying /\ y.history = x.history
      /\ x.history.burnt \in Nat /\ x.history.full \in Nat /\ x.history.stays \in Nat
  BY <1>1, PaysParts
<1>4. x.placed /\ x.type \in Decaying
  BY <1>3 DEF CanDecay
<1>5. Timely(s, b, c, 0, i) /\ x.decaying
  BY <1>2, <1>4 DEF GoodInv, InGame
<1>6. /\ x.duration # None /\ y.duration # None /\ left = y.duration /\ left \in Nat
      /\ left = Over(x.duration) /\ left <= x.duration /\ x.duration \in Nat
  <2>1. x.duration # None
    BY <1>4, <1>5 DEF Timely
  <2>2. /\ y.duration # None /\ y.duration \in Nat /\ y.duration = Over(x.duration)
        /\ y.duration <= x.duration /\ x.duration \in Nat
    BY <1>1, <2>1, PaysParts
  <2> QED BY <2>1, <2>2 DEF Duration
<1>7. n \in Bucket /\ r \in 1..Buckets /\ r + Over(left) = left
  BY <1>6, GoesAgain
<1>8. /\ v \in GoodWorld /\ v.item = d.item /\ v.fresh = d.fresh /\ v.freed = d.freed
      /\ v.early = d.early
      /\ Puts(d, v, n, i)
      /\ \A k : Listings(v, k) = Listings(d, k) + One(i, k)
  BY <1>2, <1>7, GoesOnIs
<1>9. c - 1 \in Nat /\ c - 1 <= Len(d.bucket[b])
  BY <1>1 DEF MovesUp
<1>10. \A k, w : Comes(v, b, c - 1, k, w) <=> Comes(d, b, c - 1, k, w) \/ (k = i /\ w = r)
  BY <1>2, <1>7, <1>8, <1>9, ComesPut
<1>11. \A k \in Good : v.item[k].refs = s.item[k].refs /\ v.item[k].placed = s.item[k].placed
  BY <1>1, <1>3, <1>8 DEF Charges
<1>12. Sound(v)
  <2>1. \A k \in Good : Listings(v, k) + Times(v.freed, k) =
                          Listings(d, k) + Times(d.freed, k) + One(i, k)
    <3> TAKE k \in Good
    <3>1. Listings(d, k) \in Nat /\ Times(d.freed, k) \in Nat
      BY <1>2, ItemParts
    <3>2. Listings(v, k) = Listings(d, k) + One(i, k)
      BY <1>8
    <3> QED BY <1>8, <3>1, <3>2 DEF One
  <2> QED BY <1>1, <1>2, <1>8, <1>11, <2>1, SoundAgain
<1>13. v.item[i] = y /\ v.item[i].placed
  BY <1>3, <1>4, <1>8
<1> HIDE DEF left, r
<1>14. InTime(v, b, c - 1, 0, i)
  <2> SUFFICES ASSUME Timed(y)
               PROVE  EndsListed(v, b, c - 1, i) \/ EndsFresh(v, 0, i)
    BY <1>3, <1>5, <1>13 DEF InTime
  <2>1. Timed(x)
    BY <1>3, <1>6 DEF Timed
  <2>2. EndsListed(s, b, c, i) \/ EndsFresh(s, 0, i)
    BY <1>5, <2>1 DEF Timely, InTime
  <2>3. Budget(y) = Budget(x) /\ Budget(x) \in Nat
    BY <1>3 DEF Budget
  <2>4. \A w : Allowed(x, w) = Budget(x) + 1 /\ Allowed(y, w) = Budget(x) + 1
    BY <1>3, <1>4, <2>3 DEF Allowed
  <2>5. CASE EndsFresh(s, 0, i)
    <3>1. Times(s.fresh, i) > 0 /\ x.history.burnt + x.duration + 0 <= Budget(x)
      BY <2>5 DEF EndsFresh
    <3>2. y.history.burnt + y.duration + 0 <= Budget(y)
      <4> HIDE DEF x, y
      <4> QED BY <1>3, <1>6, <2>3, <3>1
    <3>3. Times(v.fresh, i) > 0
      BY <1>2, <1>8, <3>1
    <3> QED BY <1>13, <3>2, <3>3 DEF EndsFresh
  <2>6. CASE EndsListed(s, b, c, i)
    <3>1. PICK w \in 0..Buckets : Comes(s, b, c, i, w) /\ Ends(x, w) <= Allowed(x, w)
      BY <2>6 DEF EndsListed
    <3>2. w \in Nat /\ Buckets \in Nat
      BY DecayAssumption
    <3>3. x.history.burnt + w + left <= Budget(x) + 1
      BY <1>6, <2>4, <3>1 DEF Ends
    <3>4. Over(left) \in Nat /\ Over(left) <= left
      BY <1>6, <3>2 DEF Over
    <3>5. /\ Ends(y, w) = x.history.burnt + w + Over(left)
          /\ Ends(y, r) = x.history.burnt + r + Over(left)
      BY <1>3, <1>6 DEF Ends
    <3>6. CASE w = 0
      <4>1. Ends(y, r) <= Budget(x) + 1
        <5> HIDE DEF x, y
        <5> QED BY <1>3, <1>6, <1>7, <2>3, <3>2, <3>3, <3>4, <3>5, <3>6
      <4>2. r \in 0..Buckets
        BY <1>7, <3>2
      <4>3. Comes(v, b, c - 1, i, r)
        BY <1>10
      <4> QED BY <1>13, <2>4, <4>1, <4>2, <4>3 DEF EndsListed
    <3>7. CASE w # 0
      <4>1. Ends(y, w) <= Budget(x) + 1
        <5> HIDE DEF x, y
        <5> QED BY <1>3, <1>6, <2>3, <3>2, <3>3, <3>4, <3>5
      <4>2. Comes(v, b, c - 1, i, w)
        BY <1>10, <3>1, <3>7 DEF EntryTaken
      <4> QED BY <1>13, <2>4, <4>1, <4>2 DEF EndsListed
    <3> QED BY <3>6, <3>7
  <2> QED BY <2>2, <2>5, <2>6
<1>15. Lasting(v, b, c - 1, i)
  <2> SUFFICES ASSUME Steady(y) PROVE Lasting(v, b, c - 1, i)
    BY <1>13 DEF Lasting
  <2>1. Steady(x)
    BY <1>3, <1>6 DEF Steady, Timed
  <2>2. /\ Listings(s, i) = 1 /\ Comes(s, b, c, i, 0)
        /\ \A w \in 0..Buckets : Comes(s, b, c, i, w) => Ends(x, w) >= x.history.full
    BY <1>5, <2>1 DEF Timely, Lasting, EntryTaken
  <2>3. Listings(d, i) = 0 /\ Listings(v, i) = 1
    <3>1. Listings(s, i) = Listings(d, i) + One(i, i) /\ Listings(d, i) \in Nat
      BY <1>1, <1>2, ItemParts DEF Charges
    <3>2. Listings(v, i) = Listings(d, i) + One(i, i)
      BY <1>8
    <3> QED BY <2>2, <3>1, <3>2 DEF One
  <2>4. Times(v.fresh, i) = 0
    BY <1>2, <1>8, <2>3, Unlisted
  <2>5. 0 \in 0..Buckets /\ Buckets \in Nat
    BY DecayAssumption
  <2>6. x.history.burnt + left >= x.history.full
    <3>1. Ends(x, 0) >= x.history.full
      BY <2>2, <2>5
    <3>2. Ends(x, 0) = x.history.burnt + 0 + left
      BY <1>6 DEF Ends
    <3> QED BY <1>3, <1>6, <3>1, <3>2
  <2>7. ASSUME NEW w \in 0..Buckets, Comes(v, b, c - 1, i, w)
        PROVE  Ends(y, w) >= y.history.full
    <3>1. ~Comes(d, b, c - 1, i, w)
      BY <1>2, <2>3, ComesSoon
    <3>2. w = r
      BY <1>10, <2>7, <3>1
    <3>3. Ends(y, r) = x.history.burnt + r + Over(left) /\ y.history.full = x.history.full
      BY <1>3, <1>6 DEF Ends
    <3>4. Over(left) \in Nat /\ r \in Nat
      BY <1>6, <1>7, <2>5 DEF Over
    <3> QED
      <4> HIDE DEF x, y
      <4> QED BY <1>3, <1>6, <1>7, <2>6, <3>2, <3>3, <3>4
  <2>8. y.decaying /\ y.type \in Decaying /\ Times(v.fresh, i) = 0 /\ Listings(v, i) = 1
    BY <1>3, <1>4, <1>5, <2>3, <2>4
  <2> HIDE DEF y
  <2> QED BY <1>13, <2>7, <2>8 DEF Lasting
<1>16. GoodInv(v, b, c - 1, 0)
  <2>1. Timely(v, b, c - 1, 0, i)
    BY <1>3, <1>5, <1>6, <1>13, <1>14, <1>15 DEF Timely
  <2> QED BY <1>2, <1>3, <1>5, <1>12, <1>13, <2>1, AllInGame
<1>17. Roomy(v, b, c - 1)
  BY <1>4, <1>11 DEF EntryTaken, Roomy, Room
<1>18. MovesUp(s, v, b, c)
  <2>1. /\ c - 1 <= Len(d.bucket[b])
        /\ \A j \in 1..(c - 1) : d.bucket[b][j] = s.bucket[b][j + 1]
    BY <1>1 DEF MovesUp
  <2>2. CASE n = b
    <3>1. v.bucket[b] = Append(d.bucket[b], i) /\ d.bucket[b] \in Seq(Good)
      BY <1>2, <1>8, <2>2 DEF GoodWorld, Puts
    <3>2. /\ Len(d.bucket[b]) \in Nat /\ Len(v.bucket[b]) = Len(d.bucket[b]) + 1
          /\ \A j \in 1..Len(d.bucket[b]) : v.bucket[b][j] = d.bucket[b][j]
      BY <3>1, <1>2
    <3>3. \A j \in 1..(c - 1) : j \in 1..Len(d.bucket[b])
      BY <2>1, <3>2
    <3>4. c - 1 <= Len(v.bucket[b])
      BY <1>9, <2>1, <3>2
    <3> QED BY <2>1, <3>2, <3>3, <3>4 DEF MovesUp
  <2>3. CASE n # b
    <3>1. v.bucket[b] = d.bucket[b]
      BY <1>2, <1>8, <2>3 DEF GoodWorld, Puts
    <3> QED BY <2>1, <3>1 DEF MovesUp
  <2> QED BY <2>2, <2>3
<1>19. StaysOut(s, v)
  BY <1>2, <1>4 DEF StaysOut, Nobody
<1> QED BY <1>16, <1>17, <1>18, <1>19 DEF Checked

\* It does not matter whether an item is freed before or after something else is
\* done to it.
IsWorld(s) == DOMAIN s = {"item", "bucket", "fresh", "freed", "early"}
LEMMA FreedSame ==
  ASSUME NEW s, IsWorld(s), NEW i
  PROVE  LET v == Freed(s, i)
         IN  /\ v.item = s.item /\ v.bucket = s.bucket /\ v.fresh = s.fresh /\ v.early = s.early
             /\ IsWorld(v)
             /\ \A k : Listings(v, k) = Listings(s, k)
             /\ FreeGood(v) = FreeGood(s)
<1> DEFINE v == Freed(s, i)
<1>1. v.item = s.item /\ v.bucket = s.bucket /\ v.fresh = s.fresh /\ v.early = s.early /\ IsWorld(v)
  BY DEF Freed, IsWorld
<1> HIDE DEF v
<1>2. \A k : Listings(v, k) = Listings(s, k)
  BY <1>1, SameListings
<1>3. FreeGood(v) = FreeGood(s)
  BY <1>1, Zenon DEF FreeGood
<1> QED BY <1>1, <1>2, <1>3 DEF v

\* It makes no difference when a reference is noted for release: before or after
\* the type changes,
LEMMA SetIDFreed ==
  ASSUME NEW s, IsWorld(s), NEW i, NEW t
  PROVE  IsWorld(SetID(s, i, t)) /\ SetID(Freed(s, i), i, t) = Freed(SetID(s, i, t), i)
<1> DEFINE v == Freed(s, i)
           m == [s.item EXCEPT ![i] = NewID(@, t, Listings(s, i) > 0)]
<1>1. v.item = s.item /\ Listings(v, i) = Listings(s, i)
  BY FreedSame
<1>2. SetID(s, i, t) = [s EXCEPT !.item = m] /\ SetID(v, i, t) = [v EXCEPT !.item = m]
  <2> HIDE DEF v
  <2> QED BY <1>1 DEF SetID, IsWorld
<1> HIDE DEF m
<1> QED BY <1>2 DEF IsWorld, Freed

\* the item is removed,
LEMMA RemovedFreed ==
  ASSUME NEW s, IsWorld(s), NEW i
  PROVE  Removed(Freed(s, i), i) = Freed(Removed(s, i), i)
<1> DEFINE v == Freed(s, i)
           m == [s.item EXCEPT ![i].placed = FALSE]
<1>1. v.item = s.item
  BY FreedSame
<1>2. /\ [s EXCEPT !.item[i].placed = FALSE] = [s EXCEPT !.item = m]
      /\ [v EXCEPT !.item[i].placed = FALSE] = [v EXCEPT !.item = m]
  <2> HIDE DEF v
  <2> QED BY <1>1 DEF IsWorld
<1>3. /\ Removed(s, i) = Freed([s EXCEPT !.item = m], i)
      /\ Removed(v, i) = Freed([v EXCEPT !.item = m], i)
  <2> HIDE DEF v, m
  <2> QED BY <1>2 DEF Removed
<1> HIDE DEF m
<1> QED BY <1>3 DEF IsWorld, Freed

\* an item is listed,
LEMMA ListFreed ==
  ASSUME NEW s, IsWorld(s), NEW i, NEW j
  PROVE  List(Freed(s, i), j) = Freed(List(s, j), i)
<1> DEFINE v == Freed(s, i)
           m == [s.item EXCEPT ![j] = Started(@)]
           l == Append(s.fresh, j)
<1>1. v.item = s.item /\ v.fresh = s.fresh
  BY FreedSame
<1>2. /\ List(s, j) = [s EXCEPT !.item = m, !.fresh = l]
      /\ List(v, j) = [v EXCEPT !.item = m, !.fresh = l]
  <2> HIDE DEF v
  <2> QED BY <1>1 DEF List, IsWorld
<1> HIDE DEF m, l
<1> QED BY <1>2 DEF IsWorld, Freed

\* it goes out,
GoesOut(s, j) == [s EXCEPT !.item[j] = GoneOut(@)]
LEMMA GoesOutFreed ==
  ASSUME NEW s, IsWorld(s), NEW i, NEW j
  PROVE  IsWorld(GoesOut(s, j)) /\ GoesOut(Freed(s, i), j) = Freed(GoesOut(s, j), i)
<1> DEFINE v == Freed(s, i)
           m == [s.item EXCEPT ![j] = GoneOut(@)]
<1>1. v.item = s.item
  BY FreedSame
<1>2. GoesOut(s, j) = [s EXCEPT !.item = m] /\ GoesOut(v, j) = [v EXCEPT !.item = m]
  <2> HIDE DEF v
  <2> QED BY <1>1 DEF GoesOut, IsWorld
<1> HIDE DEF m
<1> QED BY <1>2 DEF IsWorld, Freed

\* it turns into another,
LEMMA ChangedFreed ==
  ASSUME NEW s, IsWorld(s), NEW i, NEW t
  PROVE  /\ IsWorld(Changed(s, i, t)) /\ Changed(Freed(s, i), i, t) = Freed(Changed(s, i, t), i)
         /\ After(Freed(s, i), i, t) = After(s, i, t)
<1> DEFINE v == Freed(s, i)
<1>1. v.item = s.item /\ FreeGood(v) = FreeGood(s) /\ IsWorld(v)
  BY FreedSame
<1>2. After(v, i, t) = After(s, i, t)
  <2> HIDE DEF v
  <2> QED BY <1>1 DEF After
<1>3. CASE Kind[s.item[i].type] = Kind[t]
  <2>1. Changed(s, i, t) = SetID(s, i, t) /\ Changed(v, i, t) = SetID(v, i, t)
    <3> HIDE DEF v
    <3> QED BY <1>1, <1>3 DEF Changed
  <2> QED BY <1>2, <2>1, SetIDFreed
<1>4. CASE Kind[s.item[i].type] # Kind[t]
  <2> DEFINE n == NewGood(t)
             j == FreeGood(s)
             m == [s.item EXCEPT ![j] = n]
             k == [m EXCEPT ![i].placed = FALSE]
  <2>1. /\ Changed(s, i, t) = Freed([Created(s, t) EXCEPT !.item[i].placed = FALSE], i)
        /\ Changed(v, i, t) = Freed([Created(v, t) EXCEPT !.item[i].placed = FALSE], i)
    <3> HIDE DEF v
    <3> QED BY <1>1, <1>4, Zenon DEF Changed
  <2>2. Created(s, t) = [s EXCEPT !.item = m] /\ Created(v, t) = [v EXCEPT !.item = m]
    <3> HIDE DEF v, n
    <3>1. /\ Created(s, t) = [s EXCEPT !.item[FreeGood(s)] = n]
          /\ Created(v, t) = [v EXCEPT !.item[FreeGood(v)] = n]
      BY DEF Created, n
    <3> HIDE DEF j
    <3>2. Created(s, t) = [s EXCEPT !.item[j] = n] /\ Created(v, t) = [v EXCEPT !.item[j] = n]
      BY <1>1, <3>1 DEF j
    <3> QED BY <1>1, <3>2 DEF IsWorld
  <2> HIDE DEF m
  <2>3. /\ [[s EXCEPT !.item = m] EXCEPT !.item[i].placed = FALSE] = [s EXCEPT !.item = k]
        /\ [[v EXCEPT !.item = m] EXCEPT !.item[i].placed = FALSE] = [v EXCEPT !.item = k]
    <3> HIDE DEF v
    <3> QED BY <1>1 DEF IsWorld
  <2> HIDE DEF k
  <2>4. /\ Changed(s, i, t) = Freed([s EXCEPT !.item = k], i)
        /\ Changed(v, i, t) = Freed([v EXCEPT !.item = k], i)
    <3> HIDE DEF v
    <3> QED BY <2>1, <2>2, <2>3
  <2>5. IsWorld(Changed(s, i, t)) /\ Changed(v, i, t) = Freed(Changed(s, i, t), i)
    BY <2>4 DEF IsWorld, Freed
  <2> QED BY <1>2, <2>5
<1> QED BY <1>3, <1>4

\* or decays.
LEMMA AwayFreed ==
  ASSUME NEW s, IsWorld(s), NEW i
  PROVE  DecayAway(Freed(s, i), i) = Freed(DecayAway(s, i), i)
<1> DEFINE v == Freed(s, i)
           t == DecayTo[s.item[i].type]
           h == s.item[i].history
           soon == h.burnt < h.full /\ ~h.paused /\ ~h.doubled /\ ~h.spent
           e == s.early \/ soon
           ts == [s EXCEPT !.early = e]
           tv == [v EXCEPT !.early = e]
           j == After(s, i, t)
           ns == GoesOut(Changed(ts, i, t), j)
           nv == GoesOut(Changed(tv, i, t), j)
<1>1. v.item = s.item /\ v.early = s.early /\ After(v, i, t) = j
  BY FreedSame, ChangedFreed
<1>2. /\ DecayAway(s, i) = IF t = Vanishes THEN Removed(ts, i)
                           ELSE IF Waits(ns, j) THEN List(ns, j) ELSE ns
      /\ DecayAway(v, i) = IF t = Vanishes THEN Removed(tv, i)
                           ELSE IF Waits(nv, j) THEN List(nv, j) ELSE nv
  <2> HIDE DEF v
  <2>1. ts = [s EXCEPT !.early = @ \/ soon] /\ tv = [v EXCEPT !.early = @ \/ soon]
    BY <1>1
  <2>2. DecayAway(s, i) = LET told == [s EXCEPT !.early = @ \/ soon]
                              next == GoesOut(Changed(told, i, t), After(s, i, t))
                          IN  IF t = Vanishes THEN Removed(told, i)
                              ELSE IF Waits(next, After(s, i, t)) THEN List(next, After(s, i, t))
                              ELSE next
    BY DEF DecayAway, GoesOut
  <2>3. DecayAway(v, i) = LET told == [v EXCEPT !.early = @ \/ soon]
                              next == GoesOut(Changed(told, i, t), After(v, i, t))
                          IN  IF t = Vanishes THEN Removed(told, i)
                              ELSE IF Waits(next, After(v, i, t)) THEN List(next, After(v, i, t))
                              ELSE next
    BY <1>1, Zenon DEF DecayAway, GoesOut
  <2> HIDE DEF ts, tv, soon, h
  <2> QED BY <1>1, <2>1, <2>2, <2>3, Zenon
<1>3. tv = Freed(ts, i) /\ IsWorld(ts)
  <2> HIDE DEF e
  <2> QED BY DEF Freed, IsWorld
<1>4. nv = Freed(ns, i) /\ IsWorld(ns)
  <2> HIDE DEF ts, tv, v, j
  <2>1. IsWorld(Changed(ts, i, t)) /\ Changed(tv, i, t) = Freed(Changed(ts, i, t), i)
    BY <1>3, ChangedFreed
  <2> QED BY <2>1, GoesOutFreed
<1> HIDE DEF ts, tv, ns, nv, v, e, j
<1>5. Removed(tv, i) = Freed(Removed(ts, i), i) /\ List(nv, j) = Freed(List(ns, j), i)
  BY <1>3, <1>4, RemovedFreed, ListFreed
<1>6. Waits(nv, j) <=> Waits(ns, j)
  <2>1. nv.item = ns.item
    BY <1>4, FreedSame
  <2> QED BY <2>1 DEF Waits, CanDecay
<1>7. DecayAway(v, i) = Freed(DecayAway(s, i), i)
  BY <1>2, <1>4, <1>5, <1>6, Zenon
<1> QED BY <1>7 DEF v

\* An item whose time is over turns into another, and gives its entry up.
LEMMA EntryEnds ==
  ASSUME NEW s, NEW b \in Bucket, NEW c \in Nat, c >= 1, GoodInv(s, b, c, 0), NEW i, NEW d,
         EntryTaken(s, d, b, c, i), CanDecay(d, i), ~(Duration(d, i) > 0),
         NEW v, v = Freed(DecayAway(d, i), i)
  PROVE  Checked(s, v, b, c)
<1> DEFINE x == s.item[i]
           y == d.item[i]
           f == Freed(d, i)
<1>1. Sound(s) /\ s \in GoodWorld /\ Charges(s, d, b, i) /\ MovesUp(s, d, b, c)
  BY DEF GoodInv, Sound, EntryTaken
<1>2. d \in GoodWorld /\ i \in Good /\ d.fresh = s.fresh
  BY <1>1 DEF Charges
<1>3. /\ y \in GoodItem /\ y.type = x.type /\ y.placed = x.placed
      /\ y.refs = x.refs /\ y.decaying = x.decaying /\ y.history = x.history
      /\ x.history.burnt \in Nat /\ x.history.full \in Nat /\ x.history.stays \in Nat
  BY <1>1, PaysParts
<1>4. x.placed /\ x.type \in Decaying
  BY <1>3 DEF CanDecay
<1>5. Timely(s, b, c, 0, i) /\ x.decaying
  BY <1>2, <1>4 DEF GoodInv, InGame
<1>6. x.duration # None /\ y.duration # None /\ Over(x.duration) = 0
  <2>1. x.duration # None
    BY <1>4, <1>5 DEF Timely
  <2>2. /\ y.duration # None /\ y.duration \in Nat /\ y.duration = Over(x.duration)
    BY <1>1, <2>1, PaysParts
  <2>3. Duration(d, i) = y.duration
    BY <2>2 DEF Duration
  <2> QED BY <2>1, <2>2, <2>3
<1>7. IsWorld(d)
  BY <1>2 DEF GoodWorld, IsWorld
<1>8. v = DecayAway(f, i)
  BY <1>7, AwayFreed
<1>9. /\ f \in GoodWorld /\ f.item = d.item /\ f.bucket = d.bucket /\ f.fresh = d.fresh
      /\ f.early = d.early
      /\ \A k : Listings(f, k) = Listings(d, k)
      /\ \A k : Times(f.freed, k) = Times(d.freed, k) + One(i, k)
  BY <1>2, FreedIs
<1> HIDE DEF f
<1>10. \A k \in Good : f.item[k].refs = s.item[k].refs /\ f.item[k].placed = s.item[k].placed
  BY <1>1, <1>3, <1>9 DEF Charges
<1>11. Sound(f)
  <2>1. \A k \in Good : Listings(f, k) + Times(f.freed, k) =
                          Listings(d, k) + Times(d.freed, k) + One(i, k)
    <3> TAKE k \in Good
    <3>1. Listings(d, k) \in Nat /\ Times(d.freed, k) \in Nat
      BY <1>2, ItemParts
    <3>2. Times(f.freed, k) = Times(d.freed, k) + One(i, k)
      BY <1>9
    <3> QED BY <1>9, <3>1, <3>2 DEF One
  <2> QED BY <1>1, <1>2, <1>9, <1>10, <2>1, SoundAgain
<1>12. f.item[i] = y /\ y.placed /\ y.type \in Decaying
  BY <1>3, <1>4, <1>9
<1>13. Room(f)
  BY <1>4, <1>10 DEF EntryTaken, Room
<1>14. Steady(y) => IsOver(f, i)
  <2> SUFFICES ASSUME Steady(y) PROVE IsOver(f, i)
    OBVIOUS
  <2>1. Steady(x)
    BY <1>3, <1>6 DEF Steady, Timed
  <2>2. /\ Listings(s, i) = 1 /\ Comes(s, b, c, i, 0)
        /\ \A w \in 0..Buckets : Comes(s, b, c, i, w) => Ends(x, w) >= x.history.full
    BY <1>5, <2>1 DEF Timely, Lasting, EntryTaken
  <2>3. Listings(d, i) = 0
    <3>1. Listings(s, i) = Listings(d, i) + One(i, i) /\ Listings(d, i) \in Nat
      BY <1>1, <1>2, ItemParts DEF Charges
    <3> QED BY <2>2, <3>1 DEF One
  <2>4. 0 \in 0..Buckets
    BY DecayAssumption
  <2>5. x.history.burnt >= x.history.full
    <3>1. Ends(x, 0) >= x.history.full
      BY <2>2, <2>4
    <3>2. Ends(x, 0) = x.history.burnt + 0 + 0
      BY <1>6 DEF Ends
    <3> QED BY <1>3, <3>1, <3>2
  <2> QED BY <1>3, <1>9, <1>12, <2>3, <2>5 DEF IsOver
<1>15. Turned(f, v, b, c - 1, 0)
  <2> HIDE DEF y
  <2> QED BY <1>2, <1>6, <1>8, <1>11, <1>12, <1>13, <1>14, Away
<1>16. GoodInv(v, b, c - 1, 0) /\ Roomy(v, b, c - 1) /\ v.bucket = d.bucket
  BY <1>9, <1>15 DEF Turned
<1>17. StaysOut(s, v)
  BY <1>2, <1>4 DEF StaysOut, Nobody
<1> QED BY <1>1, <1>16, <1>17 DEF Checked, MovesUp

\* So an entry that comes up leaves all as it should be.
LEMMA EntryChecked ==
  ASSUME NEW s, NEW b \in Bucket, NEW c \in Nat, c >= 1, GoodInv(s, b, c, 0), Roomy(s, b, c),
         c <= Len(s.bucket[b]), NEW i, i = Head(s.bucket[b])
  PROVE  Checked(s, CheckEntry(s, i, b), b, c)
<1> DEFINE d == Charged(s, b)
           left == Duration(d, i)
           v == CheckEntry(s, i, b)
<1>1. EntryTaken(s, d, b, c, i)
  BY EntryIsTaken DEF GoodInv
<1>2. v = IF ~CanDecay(d, i) THEN GivenUp(d, i)
          ELSE IF left <= 0 THEN Freed(DecayAway(d, i), i)
          ELSE GoesOn(d, b, i, GoesTo(left, b))
  <2> HIDE DEF d
  <2> QED BY DEF CheckEntry, GivenUp, GoesOn, GoesTo, d
<1> HIDE DEF v, d
<1>3. left \in Nat
  <2>1. d \in GoodWorld /\ i \in Good
    BY <1>1 DEF EntryTaken, Charges
  <2>2. d.item[i].duration \in Nat \union {None}
    BY <2>1, ItemParts
  <2> QED BY <2>2 DEF Duration
<1> HIDE DEF left
<1>4. CASE ~CanDecay(d, i)
  <2>1. v = GivenUp(d, i)
    BY <1>2, <1>4
  <2>2. Checked(s, v, b, c)
    BY <1>1, <1>4, <2>1, EntryGivenUp
  <2> QED BY <2>2 DEF v
<1>5. CASE CanDecay(d, i) /\ left <= 0
  <2>1. v = Freed(DecayAway(d, i), i)
    BY <1>2, <1>5
  <2>2. ~(left > 0)
    BY <1>3, <1>5
  <2>3. Checked(s, v, b, c)
    BY <1>1, <1>5, <2>1, <2>2, EntryEnds DEF left
  <2> QED BY <2>3 DEF v
<1>6. CASE CanDecay(d, i) /\ ~(left <= 0)
  <2>1. v = GoesOn(d, b, i, GoesTo(left, b))
    BY <1>2, <1>6
  <2>2. left > 0
    BY <1>3, <1>6
  <2>3. Checked(s, v, b, c)
    BY <1>1, <1>6, <2>1, <2>2, EntryGoesOn DEF left
  <2> QED BY <2>3 DEF v
<1> QED BY <1>4, <1>5, <1>6

\* All the entries of a bucket are checked.
LEMMA BucketChecked ==
  ASSUME NEW s, NEW b \in Bucket, NEW q, q = s.bucket[b], NEW n \in Nat, n = Len(q),
         GoodInv(s, b, n, 0), Roomy(s, b, n), NEW r, ChecksAll(r, s, b, q, n)
  PROVE  GoodInv(r[n], b, 0, 0) /\ StaysOut(s, r[n])
<1> DEFINE At(k) ==
             /\ GoodInv(r[k], b, n - k, 0) /\ Roomy(r[k], b, n - k)
             /\ n - k <= Len(r[k].bucket[b])
             /\ \A j \in 1..(n - k) : r[k].bucket[b][j] = q[k + j]
             /\ StaysOut(s, r[k])
           Q == {k \in Nat : k <= n => At(k)}
<1>1. 0 \in Q
  <2>1. r[0] = s
    BY DEF ChecksAll
  <2>2. n - 0 = n /\ \A j \in 1..(n - 0) : 0 + j = j
    OBVIOUS
  <2>3. StaysOut(s, s)
    BY DEF StaysOut
  <2> QED BY <2>1, <2>2, <2>3
<1>2. ASSUME NEW k \in Q PROVE k + 1 \in Q
  <2> SUFFICES ASSUME k + 1 <= n PROVE At(k + 1)
    OBVIOUS
  <2> DEFINE c == n - k
             v == r[k]
             u == r[k + 1]
             i == Head(v.bucket[b])
  <2>1. /\ k \in Nat /\ k + 1 \in 1..n /\ (k + 1) - 1 = k
        /\ c \in Nat /\ c >= 1 /\ c - 1 = n - (k + 1)
    OBVIOUS
  <2>2. /\ GoodInv(v, b, c, 0) /\ Roomy(v, b, c) /\ c <= Len(v.bucket[b])
        /\ \A j \in 1..c : v.bucket[b][j] = q[k + j]
        /\ StaysOut(s, v)
    BY <2>1
  <2> HIDE DEF Q, At
  <2>3. u = CheckEntry(v, q[k + 1], b)
    BY <2>1 DEF ChecksAll
  <2>4. i = q[k + 1]
    <3>1. v.bucket[b] \in Seq(Good)
      BY <2>2 DEF GoodInv, Sound, GoodWorld
    <3>2. i = v.bucket[b][1]
      <4> HIDE DEF v, c
      <4> QED BY <2>1, <2>2, <3>1
    <3>3. 1 \in 1..c
      BY <2>1
    <3> QED BY <2>2, <3>2, <3>3
  <2> HIDE DEF v, u, c, i
  <2>5. Checked(v, CheckEntry(v, i, b), b, c)
    BY <2>1, <2>2, EntryChecked DEF i
  <2>6. Checked(v, u, b, c)
    BY <2>3, <2>4, <2>5
  <2>7. /\ GoodInv(u, b, c - 1, 0) /\ Roomy(u, b, c - 1) /\ c - 1 <= Len(u.bucket[b])
        /\ \A j \in 1..(c - 1) : u.bucket[b][j] = v.bucket[b][j + 1]
        /\ StaysOut(s, u)
    BY <2>2, <2>6 DEF Checked, MovesUp, StaysOut
  <2>8. \A j \in 1..(c - 1) : u.bucket[b][j] = q[(k + 1) + j]
    <3> TAKE j \in 1..(c - 1)
    <3>1. j + 1 \in 1..c /\ k + (j + 1) = (k + 1) + j
      BY <2>1
    <3> QED BY <2>2, <2>7, <3>1
  <2> QED BY <2>1, <2>7, <2>8 DEF At, u, c
<1>3. n \in Q
  <2> HIDE DEF Q
  <2>1. Q = Nat
    <3>1. Q \in SUBSET Nat
      BY DEF Q
    <3> QED BY <1>1, <1>2, <3>1, AllNumbers
  <2> QED BY <2>1
<1>4. n <= n /\ n - n = 0
  OBVIOUS
<1>5. At(n)
  <2> HIDE DEF At
  <2> QED BY <1>3, <1>4
<1> QED BY <1>4, <1>5

\* A round is counted, and the next bucket comes up.
Counts(s, v) ==
  /\ SameLists(s, v) /\ v.freed = s.freed /\ v.early = s.early
  /\ \A i \in Good :
       LET x == s.item[i]
           y == v.item[i]
       IN  /\ y \in GoodItem /\ y.type = x.type /\ y.placed = x.placed /\ y.refs = x.refs
           /\ y.decaying = x.decaying /\ y.duration = x.duration
           /\ y.history.full = x.history.full /\ y.history.stays = x.history.stays
           /\ y.history.spent = x.history.spent
           /\ y.history.paused = x.history.paused /\ y.history.doubled = x.history.doubled
           /\ i \in Burning(s) => y.history.burnt = x.history.burnt + 1
           /\ i \notin Burning(s) => y.history.burnt = x.history.burnt
LEMMA OlderIs ==
  ASSUME NEW s \in GoodWorld, NEW v, v = Older(s)
  PROVE  v \in GoodWorld /\ Counts(s, v)
<1> DEFINE Y(i) == IF i \in Burning(s) THEN Aged(s.item[i]) ELSE s.item[i]
           m == [i \in Good |-> Y(i)]
<1>1. v = [s EXCEPT !.item = m]
  <2>1. m = [i \in Good |-> IF i \in Burning(s) THEN Aged(s.item[i]) ELSE s.item[i]]
    OBVIOUS
  <2> HIDE DEF m
  <2> QED BY <2>1 DEF Older, GoodWorld
<1>2. ASSUME NEW i \in Good
      PROVE  LET x == s.item[i]
                 y == Y(i)
             IN  /\ y \in GoodItem /\ y.type = x.type /\ y.placed = x.placed /\ y.refs = x.refs
                 /\ y.decaying = x.decaying /\ y.duration = x.duration
                 /\ y.history.full = x.history.full /\ y.history.stays = x.history.stays
                 /\ y.history.spent = x.history.spent
                 /\ y.history.paused = x.history.paused /\ y.history.doubled = x.history.doubled
                 /\ i \in Burning(s) => y.history.burnt = x.history.burnt + 1
                 /\ i \notin Burning(s) => y.history.burnt = x.history.burnt
  <2> DEFINE x == s.item[i]
             h == [x.history EXCEPT !.burnt = @ + 1]
             z == [x EXCEPT !.history = h]
  <2>1. x \in GoodItem /\ x.history \in GoodHistory /\ x.history.burnt \in Nat
    BY ItemParts
  <2>2. /\ h \in GoodHistory /\ h.burnt = x.history.burnt + 1 /\ h.full = x.history.full
        /\ h.stays = x.history.stays /\ h.spent = x.history.spent
        /\ h.paused = x.history.paused /\ h.doubled = x.history.doubled
    BY <2>1 DEF GoodHistory
  <2>3. Aged(x) = z
    <3> HIDE DEF x
    <3> QED BY <2>1 DEF Aged, GoodItem, GoodHistory
  <2> HIDE DEF h
  <2>4. /\ z \in GoodItem /\ z.type = x.type /\ z.placed = x.placed /\ z.refs = x.refs
        /\ z.decaying = x.decaying /\ z.duration = x.duration /\ z.history = h
    <3> HIDE DEF x
    <3> QED BY <2>1, <2>2 DEF GoodItem
  <2> HIDE DEF z
  <2>5. Y(i) = IF i \in Burning(s) THEN z ELSE x
    BY <2>3
  <2> HIDE DEF Y, x
  <2>6. CASE i \in Burning(s)
    BY <2>1, <2>2, <2>4, <2>5, <2>6 DEF x
  <2>7. CASE i \notin Burning(s)
    BY <2>1, <2>5, <2>7 DEF x
  <2> QED BY <2>6, <2>7
<1>3. \A i \in Good : m[i] = Y(i) /\ Y(i) \in GoodItem
  BY <1>2
<1>4. m \in [Good -> GoodItem]
  BY <1>3
<1> HIDE DEF m, Y
<1>5. /\ v \in GoodWorld /\ v.item = m /\ v.bucket = s.bucket /\ v.fresh = s.fresh
      /\ v.freed = s.freed /\ v.early = s.early
  BY <1>1, <1>4 DEF GoodWorld
<1> QED BY <1>2, <1>3, <1>5 DEF Counts, SameLists

\* When a round has been counted, every entry of its bucket is still to be checked.
LEMMA RoundBegins ==
  ASSUME NEW s, NEW b \in Bucket, GoodInv(s, b, 0, 1), Room(s), NEW d, d = (b + 1) % Buckets,
         NEW v, v = Older(s), NEW n, n = Len(s.bucket[d])
  PROVE  GoodInv(v, d, n, 0) /\ Roomy(v, d, n) /\ v.bucket = s.bucket /\ StaysOut(s, v)
<1>1. Sound(s) /\ s \in GoodWorld
  BY DEF GoodInv, Sound
<1>2. v \in GoodWorld /\ Counts(s, v)
  BY <1>1, OlderIs
<1>3. SameLists(s, v) /\ v.freed = s.freed /\ v.early = s.early /\ v.bucket = s.bucket
  BY <1>2 DEF Counts, SameLists
<1>4. /\ \A k : Listings(v, k) = Listings(s, k) /\ Times(v.fresh, k) = Times(s.fresh, k)
  BY <1>3, ListsTell
<1>5. \A k \in Good : v.item[k].refs = s.item[k].refs /\ v.item[k].placed = s.item[k].placed
  BY <1>2 DEF Counts
<1>6. Sound(v)
  <2>1. ASSUME NEW k \in Good
        PROVE  v.item[k].refs = Mark(v.item[k]) + Listings(v, k) + Times(v.freed, k)
    <3>1. s.item[k].refs = Mark(s.item[k]) + Listings(s, k) + Times(s.freed, k)
      BY <1>1 DEF Sound, Referred
    <3>2. Mark(v.item[k]) = Mark(s.item[k])
      BY <1>5 DEF Mark
    <3> QED BY <1>3, <1>4, <1>5, <3>1, <3>2
  <2>2. OneHere(v) /\ ~v.early
    BY <1>1, <1>3, <1>5 DEF Sound, OneHere
  <2> QED BY <1>2, <2>1, <2>2 DEF Sound, Referred
<1>7. ASSUME NEW k, NEW w \in Nat
      PROVE  Comes(v, d, n, k, w) <=> Comes(s, b, 0, k, w + 1)
  BY <1>1, <1>2, <1>3, ComesSooner
<1>8. d \in Bucket /\ Buckets \in Nat
  BY Turns
<1>9. ASSUME NEW i \in Good, v.item[i].placed
      PROVE  /\ Timely(v, d, n, 0, i)
             /\ v.item[i].type \in Decaying => v.item[i].decaying
  <2> DEFINE x == s.item[i]
             y == v.item[i]
  <2>1. /\ y \in GoodItem /\ y.type = x.type /\ y.placed = x.placed /\ y.refs = x.refs
        /\ y.decaying = x.decaying /\ y.duration = x.duration
        /\ y.history.full = x.history.full /\ y.history.stays = x.history.stays
        /\ y.history.spent = x.history.spent
        /\ y.history.paused = x.history.paused /\ y.history.doubled = x.history.doubled
        /\ i \in Burning(s) => y.history.burnt = x.history.burnt + 1
        /\ i \notin Burning(s) => y.history.burnt = x.history.burnt
    BY <1>2 DEF Counts
  <2>2. /\ x.duration \in Nat \union {None} /\ x.history.burnt \in Nat /\ x.history.full \in Nat
        /\ x.history.stays \in Nat
    BY <1>1, ItemParts
  <2>3. x.placed /\ Timely(s, b, 0, 1, i) /\ (x.type \in Decaying => x.decaying)
    BY <1>5, <1>9 DEF GoodInv, InGame
  <2>4. /\ x.type \in Type /\ (x.type \in Decaying => x.duration # None)
        /\ InTime(s, b, 0, 1, i) /\ Lasting(s, b, 0, i)
    BY <2>3 DEF Timely
  <2>5. i \in Burning(s) <=> x.type \in Decaying /\ ~x.history.spent
    BY <2>3 DEF Burning, CanDecay
  <2>6. /\ Timed(y) <=> Timed(x) 
        /\ Steady(y) <=> Steady(x)
    BY <2>1 DEF Timed, Steady
  <2>7. Timed(x) => x.duration \in Nat /\ ~x.history.spent
    BY <2>2 DEF Timed
  <2>8. Budget(y) = Budget(x) /\ Budget(x) \in Nat
    BY SMTT(30), <2>1, <2>2 DEF Budget
  <2> HIDE DEF x, y
  <2>9. ASSUME NEW w \in Nat, x.duration \in Nat, i \in Burning(s)
        PROVE  Ends(y, w) = Ends(x, w + 1)
    <3>1. Over(x.duration) \in Nat
      BY <1>8, <2>9 DEF Over
    <3>2. y.history.burnt = x.history.burnt + 1 /\ y.duration = x.duration
      BY <2>1, <2>9
    <3> QED BY SMTT(30), <2>2, <3>1, <3>2 DEF Ends
  <2>10. ASSUME NEW w \in Nat, x.duration \in Nat, i \notin Burning(s)
         PROVE  Ends(y, w) + 1 = Ends(x, w + 1) /\ Ends(y, w) \in Nat
    <3>1. Over(x.duration) \in Nat
      BY <1>8, <2>10 DEF Over
    <3> QED BY <2>1, <2>2, <2>10, <3>1 DEF Ends
  <2>11. InTime(v, d, n, 0, i)
    <3> SUFFICES ASSUME Timed(x)
                 PROVE  /\ x.decaying => EndsListed(v, d, n, i) \/ EndsFresh(v, 0, i)
                        /\ ~x.decaying => HasTime(y)
      BY <2>1, <2>6 DEF InTime, y
    <3>1. CASE ~x.decaying
      <4>1. HasTime(x) /\ i \notin Burning(s)
        BY <2>3, <2>4, <2>5, <3>1 DEF InTime, x
      <4> QED BY <2>1, <2>8, <3>1, <4>1 DEF HasTime
    <3>2. CASE x.decaying /\ EndsListed(s, b, 0, i)
      <4>1. PICK w \in 0..Buckets : Comes(s, b, 0, i, w) /\ Ends(x, w) <= Allowed(x, w)
        BY <3>2 DEF EndsListed, x
      <4>2. w # 0
        BY <1>1, <4>1, ComesSoon
      <4> DEFINE u == w - 1
      <4>3. u \in Nat /\ u \in 0..Buckets /\ u + 1 = w
        BY <1>8, <4>2
      <4> HIDE DEF u
      <4>4. Comes(v, d, n, i, u)
        BY <1>7, <4>1, <4>3
      <4>5. Ends(x, u + 1) <= Budget(x) + 1
        BY <4>1, <4>2, <4>3 DEF Allowed
      <4>6. CASE i \in Burning(s)
        <5>1. Allowed(y, u) = Budget(x) + 1
          BY <2>1, <2>5, <2>8, <4>6 DEF Allowed
        <5>2. Ends(y, u) <= Allowed(y, u)
          BY <2>7, <2>9, <4>3, <4>5, <4>6, <5>1
        <5> QED BY <3>2, <4>3, <4>4, <5>2 DEF EndsListed, y
      <4>7. CASE i \notin Burning(s)
        <5>1. Allowed(y, u) >= Budget(x) /\ Allowed(y, u) \in Nat
          BY <2>8 DEF Allowed
        <5>2. Ends(y, u) + 1 <= Budget(x) + 1 /\ Ends(y, u) \in Nat
          BY <2>7, <2>10, <4>3, <4>5, <4>7
        <5>3. Ends(y, u) <= Allowed(y, u)
          BY <2>8, <5>1, <5>2
        <5> QED BY <3>2, <4>3, <4>4, <5>3 DEF EndsListed, y
      <4> QED BY <4>6, <4>7
    <3>3. CASE x.decaying /\ EndsFresh(s, 1, i)
      <4>1. Times(s.fresh, i) > 0 /\ x.history.burnt + x.duration + 1 <= Budget(x)
        BY <3>3 DEF EndsFresh, x
      <4>2. y.history.burnt <= x.history.burnt + 1 /\ y.history.burnt \in Nat
        BY <2>1, <2>2
      <4>3. y.history.burnt + y.duration + 0 <= Budget(y)
        BY <2>1, <2>2, <2>7, <2>8, <4>1, <4>2
      <4> QED BY <1>4, <3>3, <4>1, <4>3 DEF EndsFresh, y
    <3> QED BY <2>4, <3>1, <3>2, <3>3 DEF InTime, x
  <2>12. Lasting(v, d, n, i)
    <3> SUFFICES ASSUME Steady(x) PROVE Lasting(v, d, n, i)
      BY <2>6 DEF Lasting, y
    <3>1. /\ x.decaying => x.type \in Decaying /\ Listings(s, i) = 1
          /\ ~x.decaying => Listings(s, i) = 0
          /\ ~x.decaying \/ Times(s.fresh, i) > 0 => x.history.burnt + x.duration >= x.history.full
          /\ \A w \in 0..Buckets : Comes(s, b, 0, i, w) => Ends(x, w) >= x.history.full
      BY <2>4 DEF Lasting, x
    <3>2. Timed(x)
      BY DEF Steady
    <3>3. ~x.decaying \/ Times(v.fresh, i) > 0 => y.history.burnt + y.duration >= y.history.full
      <4>1. y.history.burnt >= x.history.burnt /\ y.history.burnt \in Nat
        BY <2>1, <2>2
      <4>2. Times(v.fresh, i) = Times(s.fresh, i)
        BY <1>4
      <4> QED BY <2>1, <2>2, <2>7, <3>1, <3>2, <4>1, <4>2
    <3>4. ASSUME NEW w \in 0..Buckets, Comes(v, d, n, i, w)
          PROVE  Ends(y, w) >= y.history.full
      <4>1. w \in Nat
        BY <1>8
      <4>2. Comes(s, b, 0, i, w + 1)
        BY <1>7, <3>4, <4>1
      <4>3. w + 1 \in 0..Buckets /\ Listings(s, i) # 0
        BY <1>1, <4>2, ComesSoon
      <4>4. i \in Burning(s)
        BY <2>3, <2>5, <2>7, <3>1, <3>2, <4>3
      <4>5. Ends(x, w + 1) >= x.history.full
        BY <3>1, <4>2, <4>3
      <4>6. Ends(y, w) = Ends(x, w + 1)
        BY <2>7, <2>9, <3>2, <4>1, <4>4
      <4> QED BY <2>1, <4>5, <4>6
    <3>5. Listings(v, i) = Listings(s, i)
      BY <1>4
    <3>6. /\ y.decaying => y.type \in Decaying /\ Listings(v, i) = 1
          /\ ~y.decaying => Listings(v, i) = 0
          /\ ~y.decaying \/ Times(v.fresh, i) > 0 => y.history.burnt + y.duration >= y.history.full
      BY <2>1, <3>1, <3>3, <3>5
    <3> QED BY <3>4, <3>6 DEF Lasting, y
  <2>13. y.type \in Type /\ (y.type \in Decaying => y.duration # None /\ y.decaying)
    BY <2>1, <2>3, <2>4 DEF x
  <2> QED BY <2>11, <2>12, <2>13 DEF Timely, y
<1>10. Roomy(v, d, n)
  BY <1>5 DEF Room, Roomy
<1>11. StaysOut(s, v)
  BY <1>5 DEF StaysOut, Nobody
<1> QED BY <1>3, <1>6, <1>9, <1>10, <1>11 DEF GoodInv, InGame

-----------------------------------------------------------------------------
(* References are given up.                                                *)

\* What x is with a reference less.
LEMMA UnreferredIs ==
  ASSUME NEW x \in GoodItem, x.refs >= 1, NEW y, y = Unreferred(x)
  PROVE  /\ y \in GoodItem /\ y.refs = x.refs - 1
         /\ x.refs # 1 => y.placed = x.placed /\ SameTime(x, y)
         /\ x.refs = 1 => ~y.placed
<1>1. x.refs \in Nat
  BY DEF GoodItem
<1>2. CASE x.refs = 1
  <2>1. y = NoGood
    BY <1>2 DEF Unreferred
  <2>2. NoHistory \in GoodHistory
    BY DEF NoHistory, GoodHistory
  <2>3. NoGood \in GoodItem /\ NoGood.refs = 0 /\ ~NoGood.placed
    BY <2>2 DEF NoGood, GoodItem
  <2> QED BY <1>2, <2>1, <2>3
<1>3. CASE x.refs # 1
  <2> DEFINE n == x.refs - 1
  <2>1. n \in Nat
    BY <1>1
  <2> HIDE DEF n
  <2>2. y = [x EXCEPT !.refs = n]
    BY <1>3 DEF Unreferred, n, GoodItem
  <2>3. y \in GoodItem /\ y.refs = n /\ y.placed = x.placed /\ SameTime(x, y)
    BY <2>1, <2>2 DEF GoodItem, SameTime
  <2> QED BY <1>3, <2>3 DEF n
<1> QED BY <1>2, <1>3

\* The first item to be freed is.
FreesFirst(s) == [s EXCEPT !.freed = Tail(@), !.item[Head(s.freed)] = Unreferred(@)]
LEMMA FreeingFirst ==
  ASSUME NEW s, NEW b \in Bucket, NEW e, GoodInv(s, b, 0, e), s.freed # <<>>,
         NEW v, v = FreesFirst(s)
  PROVE  GoodInv(v, b, 0, e) /\ v.freed = Tail(s.freed) /\ StaysOut(s, v)
<1> DEFINE i == Head(s.freed)
           x == s.item[i]
           y == Unreferred(x)
           q == Tail(s.freed)
<1>1. Sound(s) /\ s \in GoodWorld /\ s.freed \in Seq(Good)
  BY DEF GoodInv, Sound, GoodWorld
<1>2. /\ q \in Seq(Good) /\ i \in Good
      /\ \A k : Times(s.freed, k) = Times(q, k) + One(i, k)
  <2>1. q \in Seq(Good) /\ i \in Good
    BY <1>1, TimesTail
  <2>2. \A k : Times(s.freed, k) = Times(q, k) + One(i, k)
    BY <1>1, TimesTail DEF One
  <2> QED BY <2>1, <2>2
<1>3. x \in GoodItem /\ x.refs \in Nat
  BY <1>1, <1>2, ItemParts
<1>4. x.refs = Mark(x) + Listings(s, i) + Times(s.freed, i)
  BY <1>1, <1>2 DEF Sound, Referred
<1>5. \A k : Listings(s, k) \in Nat /\ Times(q, k) \in Nat
  BY <1>1, <1>2, Unlisted, TimesCount
<1>6. x.refs >= 1 /\ (x.refs = 1 => ~x.placed)
  <2>1. Times(s.freed, i) = Times(q, i) + 1
    BY <1>2 DEF One
  <2>2. Listings(s, i) \in Nat /\ Times(q, i) \in Nat
    BY <1>5
  <2>3. Mark(x) \in Nat /\ (x.placed => Mark(x) = 1)
    BY DEF Mark
  <2> QED BY <1>3, <1>4, <2>1, <2>2, <2>3
<1>7. /\ y \in GoodItem /\ y.refs = x.refs - 1
      /\ x.refs # 1 => y.placed = x.placed /\ SameTime(x, y)
      /\ x.refs = 1 => ~y.placed
  BY <1>3, <1>6, UnreferredIs
<1> DEFINE m == [s.item EXCEPT ![i] = y]
<1>8. v = [s EXCEPT !.freed = q, !.item = m]
  <2>1. v = [s EXCEPT !.freed = Tail(@), !.item[i] = Unreferred(@)]
    BY DEF FreesFirst
  <2> HIDE DEF i
  <2> QED BY <1>1, <2>1 DEF GoodWorld
<1> HIDE DEF i, y, q
<1>9. m \in [Good -> GoodItem] /\ m[i] = y /\ \A k \in Good : k # i => m[k] = s.item[k]
  BY <1>1, <1>2, <1>7 DEF GoodWorld
<1> HIDE DEF m, x
<1>10. /\ v \in GoodWorld /\ v.item = m /\ v.freed = q /\ v.bucket = s.bucket /\ v.fresh = s.fresh
       /\ v.early = s.early
  BY <1>1, <1>2, <1>8, <1>9 DEF GoodWorld
<1>11. y.placed = x.placed /\ (y.placed => SameTime(x, y))
  <2>1. x.placed \in BOOLEAN /\ y.placed \in BOOLEAN
    BY <1>3, <1>7 DEF GoodItem
  <2> QED BY <1>6, <1>7, <2>1
<1>12. \A k \in Good : v.item[k].placed = s.item[k].placed
  BY <1>9, <1>10, <1>11 DEF x
<1>13. \A k : Listings(v, k) = Listings(s, k)
  BY <1>10, SameListings
<1>14. ASSUME NEW k \in Good
       PROVE  v.item[k].refs = Mark(v.item[k]) + Listings(v, k) + Times(v.freed, k)
  <2>1. s.item[k].refs = Mark(s.item[k]) + Listings(s, k) + Times(s.freed, k)
    BY <1>1 DEF Sound, Referred
  <2>2. Times(s.freed, k) = Times(q, k) + One(i, k)
    BY <1>2
  <2>3. Mark(v.item[k]) = Mark(s.item[k]) /\ Mark(s.item[k]) \in Nat
    BY <1>12 DEF Mark
  <2>4. v.item[k].refs = s.item[k].refs - One(i, k) /\ s.item[k].refs \in Nat
    <3>1. s.item[k].refs \in Nat
      BY <1>1, ItemParts
    <3> QED BY <1>7, <1>9, <1>10, <3>1 DEF One, x
  <2>5. Listings(s, k) \in Nat /\ Times(q, k) \in Nat /\ One(i, k) \in Nat
    BY <1>5 DEF One
  <2> QED BY <1>10, <1>13, <2>1, <2>2, <2>3, <2>4, <2>5
<1>15. Sound(v)
  <2>1. OneHere(v) /\ ~v.early
    BY <1>1, <1>10, <1>12 DEF Sound, OneHere
  <2> QED BY <1>10, <1>14, <2>1 DEF Sound, Referred
<1>16. ASSUME NEW k \in Good, v.item[k].placed
       PROVE  /\ Timely(v, b, 0, e, k)
              /\ v.item[k].type \in Decaying => v.item[k].decaying
  <2>1. s.item[k].placed
    BY <1>12, <1>16
  <2>2. Timely(s, b, 0, e, k) /\ (s.item[k].type \in Decaying => s.item[k].decaying)
    BY <2>1 DEF GoodInv, InGame
  <2>3. SameTime(s.item[k], v.item[k])
    BY <1>9, <1>10, <1>11, <1>16 DEF SameTime, x
  <2>4. \A w : Comes(v, b, 0, k, w) <=> Comes(s, b, 0, k, w)
    BY <1>10 DEF Comes
  <2>5. Timely(v, b, 0, e, k)
    BY <1>10, <1>13, <2>2, <2>3, <2>4, Untouched
  <2> QED BY <2>2, <2>3, <2>5 DEF SameTime
<1>17. StaysOut(s, v)
  BY <1>12 DEF StaysOut, Nobody
<1> QED BY <1>10, <1>15, <1>16, <1>17 DEF GoodInv, InGame, q

-----------------------------------------------------------------------------
(* Entries are sorted.                                                     *)

\* When a new entry comes up: after its time, or a round more, or a turn.
LEMMA SortsAhead ==
  ASSUME NEW b \in Bucket, NEW d \in Nat, NEW n, n = SortsTo(d, b)
  PROVE  /\ n \in Bucket /\ TurnsTo(b, n) \in 1..Buckets
         /\ TurnsTo(b, n) + Over(d) >= d /\ TurnsTo(b, n) + Over(d) <= d + 1
         /\ Over(d) \in Nat
<1>1. Buckets \in Nat /\ Buckets >= 1
  BY DecayAssumption
<1>2. CASE d < Buckets
  <2>1. d \in 0..(Buckets - 1) /\ n = (b + 1 + d) % Buckets
    BY <1>1, <1>2 DEF SortsTo
  <2>2. n \in Bucket /\ TurnsTo(b, n) = d + 1
    BY <2>1, Turns
  <2> QED BY <1>1, <1>2, <2>2 DEF Over
<1>3. CASE ~(d < Buckets)
  <2>1. n = b
    BY <1>1, <1>3 DEF SortsTo
  <2>2. TurnsTo(b, b) = b - b + Buckets /\ b \in Nat
    <3>1. TurnsTo(b, b) = IF b > b THEN b - b ELSE b - b + Buckets
      BY Turns
    <3>2. b \in Nat
      BY Turns
    <3> QED BY <3>1, <3>2
  <2>3. TurnsTo(b, n) = Buckets
    BY <1>1, <2>1, <2>2
  <2> QED BY <1>1, <1>3, <2>1, <2>3 DEF Over
<1> QED BY <1>2, <1>3

\* The first of the new entries is taken.
FreshTaken(s) == [s EXCEPT !.fresh = Tail(@)]
LEMMA FreshIsTaken ==
  ASSUME NEW s \in GoodWorld, s.fresh # <<>>, NEW i, i = Head(s.fresh), NEW u, u = FreshTaken(s)
  PROVE  /\ u \in GoodWorld /\ i \in Good /\ u.item = s.item /\ u.bucket = s.bucket
         /\ u.fresh = Tail(s.fresh) /\ u.freed = s.freed /\ u.early = s.early
         /\ \A k : Listings(s, k) = Listings(u, k) + One(i, k)
         /\ \A k : Times(s.fresh, k) = Times(u.fresh, k) + One(i, k)
         /\ \A k : Times(u.fresh, k) \in Nat /\ Listings(u, k) \in Nat
<1> DEFINE q == Tail(s.fresh)
<1>1. s.fresh \in Seq(Good) /\ q \in Seq(Good) /\ i \in Good
  BY DEF GoodWorld
<1>2. /\ u \in GoodWorld /\ u.item = s.item /\ u.bucket = s.bucket
      /\ u.fresh = q /\ u.freed = s.freed /\ u.early = s.early
  <2>1. u = [s EXCEPT !.fresh = q]
    BY DEF FreshTaken, GoodWorld
  <2> HIDE DEF q
  <2> QED BY <1>1, <2>1 DEF GoodWorld
<1>3. \A k : Times(s.fresh, k) = Times(q, k) + One(i, k)
  BY <1>1, TimesTail DEF One
<1>4. \A k : Times(q, k) \in Nat /\ Listings(u, k) \in Nat
  BY <1>1, <1>2, TimesCount, Unlisted
<1> HIDE DEF q
<1>5. /\ 1 \in 1..(Buckets + 1) /\ Lists(u)[1] = q /\ Lists(s)[1] = s.fresh
      /\ \A l \in 1..(Buckets + 1) : l # 1 => Lists(u)[l] = Lists(s)[l]
  <2>1. Buckets \in Nat
    BY DecayAssumption
  <2>2. /\ \A l \in 1..(Buckets + 1) : l = 1 \/ (l - 2 \in Bucket /\ (l - 2) + 2 = l)
        /\ \A m \in Bucket : Lists(s)[m + 2] = s.bucket[m] /\ Lists(u)[m + 2] = u.bucket[m]
        /\ Lists(u)[1] = u.fresh /\ Lists(s)[1] = s.fresh
    BY <1>2, <2>1, ListsAre
  <2>3. \A l \in 1..(Buckets + 1) : l # 1 => Lists(u)[l] = Lists(s)[l]
    BY <1>2, <2>2
  <2> QED BY <1>2, <2>1, <2>2, <2>3
<1>6. ASSUME NEW k PROVE Listings(s, k) = Listings(u, k) + One(i, k)
  <2>1. /\ Listings(s, k) \in Nat /\ Listings(u, k) \in Nat
        /\ Listings(u, k) - Listings(s, k) = Times(Lists(u)[1], k) - Times(Lists(s)[1], k)
    BY <1>2, <1>5, ListingsDiffer
  <2>2. One(i, k) \in Nat
    BY DEF One
  <2>3. Times(s.fresh, k) = Times(q, k) + One(i, k) /\ Times(q, k) \in Nat
    BY <1>3, <1>4
  <2> QED BY <1>5, <2>1, <2>2, <2>3
<1> QED BY <1>1, <1>2, <1>3, <1>4, <1>6 DEF q

\* It is sorted into its bucket.
SortsFirst(s, b) ==
  GoesOn(FreshTaken(s), b, Head(s.fresh), SortsTo(Duration(s, Head(s.fresh)), b))
LEMMA SortingFirst ==
  ASSUME NEW s, NEW b \in Bucket, NEW e \in {0, 1}, GoodInv(s, b, 0, e), s.fresh # <<>>,
         NEW v, v = SortsFirst(s, b)
  PROVE  GoodInv(v, b, 0, e) /\ v.fresh = Tail(s.fresh) /\ StaysOut(s, v)
<1> DEFINE i == Head(s.fresh)
           u == FreshTaken(s)
           d == Duration(s, i)
           n == SortsTo(d, b)
           r == TurnsTo(b, n)
<1>1. Sound(s) /\ s \in GoodWorld
  BY DEF GoodInv, Sound
<1>2. /\ u \in GoodWorld /\ i \in Good /\ u.item = s.item /\ u.bucket = s.bucket
      /\ u.fresh = Tail(s.fresh) /\ u.freed = s.freed /\ u.early = s.early
      /\ \A k : Listings(s, k) = Listings(u, k) + One(i, k)
      /\ \A k : Times(s.fresh, k) = Times(u.fresh, k) + One(i, k)
      /\ \A k : Times(u.fresh, k) \in Nat /\ Listings(u, k) \in Nat
  BY <1>1, FreshIsTaken
<1>3. s.item[i].duration \in Nat \union {None}
  BY <1>1, <1>2, ItemParts
<1>4. d \in Nat
  BY <1>3 DEF Duration
<1>5. v = GoesOn(u, b, i, n)
  BY DEF SortsFirst
<1> HIDE DEF i, u, d
<1>6. /\ n \in Bucket /\ r \in 1..Buckets /\ r + Over(d) >= d /\ r + Over(d) <= d + 1
      /\ Over(d) \in Nat
  BY <1>4, SortsAhead
<1> HIDE DEF n, r
<1>7. /\ v \in GoodWorld /\ v.item = u.item /\ v.fresh = u.fresh /\ v.freed = u.freed
      /\ v.early = u.early
      /\ Puts(u, v, n, i)
      /\ \A k : Listings(v, k) = Listings(u, k) + One(i, k)
  BY <1>2, <1>5, <1>6, GoesOnIs
<1>8. \A k : Listings(v, k) = Listings(s, k)
  BY <1>2, <1>7
<1>9. \A k, w : Comes(v, b, 0, k, w) <=> Comes(s, b, 0, k, w) \/ (k = i /\ w = r)
  <2>1. Len(u.bucket[b]) \in Nat
    BY <1>2 DEF GoodWorld
  <2>2. \A k, w : Comes(v, b, 0, k, w) <=> Comes(u, b, 0, k, w) \/ (k = i /\ w = r)
    BY <1>2, <1>6, <1>7, <2>1, ComesPut DEF r
  <2>3. \A k, w : Comes(u, b, 0, k, w) <=> Comes(s, b, 0, k, w)
    BY <1>2 DEF Comes
  <2> QED BY <2>2, <2>3
<1>10. Sound(v)
  <2>1. v.item = s.item /\ v.freed = s.freed /\ v.early = s.early
    BY <1>2, <1>7
  <2>2. \A k \in Good : v.item[k].refs = Mark(v.item[k]) + Listings(v, k) + Times(v.freed, k)
    <3> TAKE k \in Good
    <3>1. s.item[k].refs = Mark(s.item[k]) + Listings(s, k) + Times(s.freed, k)
      BY <1>1 DEF Sound, Referred
    <3>2. Listings(v, k) = Listings(s, k)
      BY <1>8
    <3> QED BY <2>1, <3>1, <3>2
  <2>3. OneHere(v) /\ ~v.early
    BY <1>1, <2>1 DEF Sound, OneHere
  <2> QED BY <1>7, <2>2, <2>3 DEF Sound, Referred
<1>11. ASSUME NEW k \in Good, v.item[k].placed
       PROVE  /\ Timely(v, b, 0, e, k)
              /\ v.item[k].type \in Decaying => v.item[k].decaying
  <2>1. v.item[k] = s.item[k] /\ s.item[k].placed
    BY <1>2, <1>7, <1>11
  <2>2. Timely(s, b, 0, e, k) /\ (s.item[k].type \in Decaying => s.item[k].decaying)
    BY <2>1 DEF GoodInv, InGame
  <2>3. CASE k # i
    <3>1. \A w : Comes(v, b, 0, k, w) <=> Comes(s, b, 0, k, w)
      BY <1>9, <2>3
    <3>2. Times(v.fresh, k) = Times(s.fresh, k)
      <4>1. Times(s.fresh, k) = Times(u.fresh, k) + One(i, k) /\ Times(u.fresh, k) \in Nat
        BY <1>2
      <4>2. v.fresh = u.fresh
        BY <1>7
      <4> QED BY <2>3, <4>1, <4>2 DEF One
    <3>3. SameTime(s.item[k], v.item[k])
      BY <2>1 DEF SameTime
    <3>4. Timely(v, b, 0, e, k)
      BY <1>8, <2>2, <3>1, <3>2, <3>3, Untouched
    <3> QED BY <2>1, <2>2, <3>4
  <2>4. CASE k = i
    <3> DEFINE x == s.item[i]
    <3>1. /\ x.type \in Type /\ (x.type \in Decaying => x.duration # None)
          /\ InTime(s, b, 0, e, i) /\ Lasting(s, b, 0, i) /\ v.item[i] = x
      BY <2>1, <2>2, <2>4 DEF Timely
    <3>2. /\ x.history.burnt \in Nat /\ x.history.full \in Nat /\ x.history.stays \in Nat
          /\ Times(s.fresh, i) \in Nat /\ Times(v.fresh, i) \in Nat
      BY <1>1, <1>2, <1>7, ItemParts
    <3>3. Times(s.fresh, i) > 0
      <4>1. Times(s.fresh, i) = Times(u.fresh, i) + One(i, i) /\ Times(u.fresh, i) \in Nat
        BY <1>2
      <4> QED BY <4>1 DEF One
    <3>4. Timed(x) => x.duration = d
      BY DEF Timed, Duration, d
    <3>5. Budget(x) \in Nat
      <4> HIDE DEF x
      <4>1. x.history.full \in Nat /\ x.history.stays \in Nat
        BY <3>2
      <4> QED BY <4>1 DEF Budget
    <3>6. Timed(x) => Ends(x, r) = x.history.burnt + r + Over(d)
      BY <3>4 DEF Ends
    <3> HIDE DEF x
    <3>7. InTime(v, b, 0, e, i)
      <4> SUFFICES ASSUME Timed(x), x.decaying
                   PROVE  EndsListed(v, b, 0, i) \/ EndsFresh(v, e, i)
        BY <3>1 DEF InTime, x
      <4>1. CASE EndsListed(s, b, 0, i)
        BY <1>9, <3>1, <4>1 DEF EndsListed, x
      <4>2. CASE EndsFresh(s, e, i)
        <5>1. x.history.burnt + d + e <= Budget(x)
          BY <3>4, <4>2 DEF EndsFresh, x
        <5>2. r \in 0..Buckets /\ r # 0 /\ r \in Nat
          BY <1>6, DecayAssumption
        <5>3. Allowed(x, r) = Budget(x) + 1
          BY <5>2 DEF Allowed
        <5>4. e \in Nat
          OBVIOUS
        <5>5. Ends(x, r) <= Allowed(x, r)
          BY SMTT(30), <1>4, <1>6, <3>2, <3>5, <3>6, <5>1, <5>2, <5>3, <5>4
        <5>6. Comes(v, b, 0, i, r)
          BY <1>9
        <5> QED BY <3>1, <5>2, <5>5, <5>6 DEF EndsListed
      <4> QED BY <3>1, <4>1, <4>2 DEF InTime, x
    <3>8. Lasting(v, b, 0, i)
      <4> SUFFICES ASSUME Steady(x) PROVE Lasting(v, b, 0, i)
        BY <3>1 DEF Lasting, x
      <4>1. /\ x.decaying => x.type \in Decaying /\ Listings(s, i) = 1
            /\ ~x.decaying => Listings(s, i) = 0
            /\ x.history.burnt + x.duration >= x.history.full
            /\ \A w \in 0..Buckets : Comes(s, b, 0, i, w) => Ends(x, w) >= x.history.full
        BY <3>1, <3>3 DEF Lasting, x
      <4>2. Timed(x)
        BY DEF Steady
      <4>3. Ends(x, r) >= x.history.full
        <5>1. r \in Nat
          BY <1>6, DecayAssumption
        <5> QED BY SMTT(30), <1>4, <1>6, <3>2, <3>4, <3>6, <4>1, <4>2, <5>1
      <4>4. \A w \in 0..Buckets : Comes(v, b, 0, i, w) => Ends(x, w) >= x.history.full
        BY <1>9, <4>1, <4>3
      <4> QED BY <1>8, <3>1, <4>1, <4>4 DEF Lasting
    <3> QED BY <2>1, <2>2, <2>4, <3>1, <3>7, <3>8 DEF Timely
  <2> QED BY <2>3, <2>4
<1>12. StaysOut(s, v)
  BY <1>2, <1>7 DEF StaysOut, Nobody
<1> QED BY <1>2, <1>7, <1>10, <1>11, <1>12 DEF GoodInv, InGame

-----------------------------------------------------------------------------
(* The clean-up.                                                           *)

NoFreed(s) == [s EXCEPT !.freed = <<>>]
NoFresh(s) == [s EXCEPT !.fresh = <<>>]

\* A step of the folds is a step of the lists.
LEMMA ReleasesFirst ==
  ASSUME NEW s \in GoodWorld, NEW i, i = Head(s.freed)
  PROVE  Released(NoFreed(s), i) = NoFreed(FreesFirst(s))
<1> DEFINE m == [s.item EXCEPT ![i] = Unreferred(@)]
           q == Tail(s.freed)
           w == NoFreed(s)
<1>1. IsWorld(s) /\ s = [x \in DOMAIN s |-> s[x]]
  BY DEF GoodWorld, IsWorld
<1>2. w.item = s.item
  BY <1>1 DEF NoFreed, IsWorld
<1>3. FreesFirst(s) = [s EXCEPT !.freed = q, !.item = m]
  BY <1>1 DEF FreesFirst, IsWorld
<1>4. Released(w, i) = [w EXCEPT !.item = m]
  <2> HIDE DEF w
  <2> QED BY <1>2 DEF Released
<1> HIDE DEF m, q
<1> QED BY <1>1, <1>3, <1>4 DEF NoFreed, IsWorld
LEMMA SortsEntryFirst ==
  ASSUME NEW s \in GoodWorld, NEW i, i = Head(s.fresh), NEW b
  PROVE  SortEntry(NoFresh(s), i, b) = NoFresh(SortsFirst(s, b))
<1> DEFINE w == NoFresh(s)
           n == SortsTo(Duration(s, i), b)
           l == [s.bucket EXCEPT ![n] = Append(@, i)]
           q == Tail(s.fresh)
<1>1. IsWorld(s) /\ s = [x \in DOMAIN s |-> s[x]]
  BY DEF GoodWorld, IsWorld
<1>2. w.item = s.item /\ w.bucket = s.bucket
  BY <1>1 DEF NoFresh, IsWorld
<1>3. SortEntry(w, i, b) = [w EXCEPT !.bucket = l]
  <2> HIDE DEF w
  <2>1. Duration(w, i) = Duration(s, i)
    BY <1>2 DEF Duration
  <2>2. n = IF Duration(w, i) >= Buckets THEN b ELSE (b + 1 + Duration(w, i)) % Buckets
    BY <2>1 DEF SortsTo
  <2>3. SortEntry(w, i, b) = [w EXCEPT !.bucket[n] = Append(@, i)]
    <3> HIDE DEF n
    <3> QED BY <2>2 DEF SortEntry
  <2> HIDE DEF n
  <2> QED BY <1>2, <2>3
<1>4. SortsFirst(s, b) = [s EXCEPT !.fresh = q, !.bucket = l]
  <2>1. SortsFirst(s, b) = GoesOn(FreshTaken(s), b, i, n)
    BY DEF SortsFirst
  <2> HIDE DEF n
  <2> QED BY <1>1, <2>1 DEF GoesOn, FreshTaken, IsWorld
<1> HIDE DEF l, q
<1> QED BY <1>1, <1>3, <1>4 DEF NoFresh, IsWorld

\* All items are freed that are to be.
Suffix(z, q, k, n) == Len(z) = n - k /\ \A j \in 1..(n - k) : z[j] = q[k + j]
LEMMA SuffixTail ==
  ASSUME NEW z \in Seq(Good), NEW q, NEW n \in Nat, NEW k \in Nat, k + 1 <= n, Suffix(z, q, k, n)
  PROVE  z # <<>> /\ Head(z) = q[k + 1] /\ Suffix(Tail(z), q, k + 1, n)
<1> DEFINE c == n - k
<1>1. c \in Nat /\ c >= 1 /\ n - (k + 1) = c - 1 /\ 1 \in 1..c
  OBVIOUS
<1>2. Len(z) = c /\ \A j \in 1..c : z[j] = q[k + j]
  BY DEF Suffix
<1> HIDE DEF c
<1>3. z # <<>>
  BY <1>1, <1>2
<1>4. /\ Head(z) = z[1] /\ DOMAIN Tail(z) = 1..(c - 1)
      /\ \A j \in DOMAIN Tail(z) : Tail(z)[j] = z[j + 1]
  BY <1>2, <1>3, TimesTail
<1>5. Len(Tail(z)) = c - 1
  BY <1>1, <1>2, <1>3
<1>6. \A j \in 1..(c - 1) : Tail(z)[j] = q[(k + 1) + j]
  <2> TAKE j \in 1..(c - 1)
  <2>1. j + 1 \in 1..c /\ k + (j + 1) = (k + 1) + j
    BY <1>1
  <2> QED BY <1>2, <1>4, <2>1
<1> QED BY <1>1, <1>2, <1>3, <1>4, <1>5, <1>6 DEF Suffix
LEMMA AllReleased ==
  ASSUME NEW s, NEW b \in Bucket, NEW e, GoodInv(s, b, 0, e), NEW q, q = s.freed,
         NEW n \in Nat, n = Len(q), NEW r, ReleasesAll(r, NoFreed(s), q, n)
  PROVE  GoodInv(r[n], b, 0, e) /\ StaysOut(s, r[n])
<1> DEFINE Fits(z, k) == GoodInv(z, b, 0, e) /\ r[k] = NoFreed(z) /\ Suffix(z.freed, q, k, n)
                         /\ StaysOut(s, z)
           Q == {k \in Nat : k <= n => \E z : Fits(z, k)}
<1>1. 0 \in Q
  <2>1. r[0] = NoFreed(s)
    BY DEF ReleasesAll
  <2>2. n - 0 = n /\ \A j \in 1..(n - 0) : 0 + j = j
    OBVIOUS
  <2>3. Fits(s, 0)
    BY <2>1, <2>2 DEF Suffix, StaysOut
  <2> QED BY <2>3
<1>2. ASSUME NEW k \in Q PROVE k + 1 \in Q
  <2> SUFFICES ASSUME k + 1 <= n PROVE \E z : Fits(z, k + 1)
    OBVIOUS
  <2>1. k \in Nat /\ k + 1 \in 1..n /\ (k + 1) - 1 = k /\ k <= n
    OBVIOUS
  <2>2. PICK z : Fits(z, k)
    BY <2>1
  <2> HIDE DEF Q
  <2>3. z \in GoodWorld /\ z.freed \in Seq(Good)
    BY <2>2 DEF GoodInv, Sound, GoodWorld
  <2>4. z.freed # <<>> /\ Head(z.freed) = q[k + 1] /\ Suffix(Tail(z.freed), q, k + 1, n)
    BY <2>1, <2>2, <2>3, SuffixTail
  <2> DEFINE y == FreesFirst(z)
  <2>5. GoodInv(y, b, 0, e) /\ y.freed = Tail(z.freed) /\ StaysOut(z, y)
    BY <2>2, <2>4, FreeingFirst
  <2>6. r[k + 1] = Released(NoFreed(z), Head(z.freed))
    BY <2>1, <2>2, <2>4 DEF ReleasesAll
  <2>7. r[k + 1] = NoFreed(y)
    BY <2>3, <2>6, ReleasesFirst
  <2> HIDE DEF y
  <2>8. Fits(y, k + 1)
    BY <2>2, <2>4, <2>5, <2>7 DEF StaysOut
  <2> QED BY <2>8
<1>3. n \in Q
  <2> HIDE DEF Q
  <2>1. Q \in SUBSET Nat
    BY DEF Q
  <2>2. Q = Nat
    BY <1>1, <1>2, <2>1, AllNumbers
  <2> QED BY <2>2
<1>4. PICK z : Fits(z, n)
  BY <1>3
<1>5. z.freed = <<>> /\ z \in GoodWorld
  <2>1. z.freed \in Seq(Good) /\ Len(z.freed) = 0 /\ z \in GoodWorld
    BY <1>4 DEF Suffix, GoodInv, Sound, GoodWorld
  <2> QED BY <2>1
<1>6. NoFreed(z) = z
  BY <1>5 DEF NoFreed, GoodWorld
<1> QED BY <1>4, <1>6

\* And all entries sorted that are new.
LEMMA NoneFresh ==
  ASSUME NEW s, NEW b, NEW e, GoodInv(s, b, 0, e), s.fresh = <<>>
  PROVE  GoodInv(s, b, 0, 1)
<1>1. \A i \in Good : ~EndsFresh(s, e, i)
  BY TimesEmpty DEF EndsFresh
<1>2. \A i \in Good : InTime(s, b, 0, e, i) => InTime(s, b, 0, 1, i)
  BY <1>1 DEF InTime
<1>3. \A i \in Good : Timely(s, b, 0, e, i) => Timely(s, b, 0, 1, i)
  BY <1>2 DEF Timely
<1> QED BY <1>3 DEF GoodInv, InGame
LEMMA AllSorted ==
  ASSUME NEW s, NEW b \in Bucket, NEW e \in {0, 1}, GoodInv(s, b, 0, e), NEW q, q = s.fresh,
         NEW n \in Nat, n = Len(q), NEW r, SortsAll(r, s, b, q, n)
  PROVE  GoodInv(r[n], b, 0, 1) /\ StaysOut(s, r[n])
<1> DEFINE Fits(z, k) == GoodInv(z, b, 0, e) /\ r[k] = NoFresh(z) /\ Suffix(z.fresh, q, k, n)
                         /\ StaysOut(s, z)
           Q == {k \in Nat : k <= n => \E z : Fits(z, k)}
<1>1. 0 \in Q
  <2>1. r[0] = NoFresh(s)
    BY DEF SortsAll, NoFresh
  <2>2. n - 0 = n /\ \A j \in 1..(n - 0) : 0 + j = j
    OBVIOUS
  <2>3. Fits(s, 0)
    BY <2>1, <2>2 DEF Suffix, StaysOut
  <2> QED BY <2>3
<1>2. ASSUME NEW k \in Q PROVE k + 1 \in Q
  <2> SUFFICES ASSUME k + 1 <= n PROVE \E z : Fits(z, k + 1)
    OBVIOUS
  <2>1. k \in Nat /\ k + 1 \in 1..n /\ (k + 1) - 1 = k /\ k <= n
    OBVIOUS
  <2>2. PICK z : Fits(z, k)
    BY <2>1
  <2> HIDE DEF Q
  <2>3. z \in GoodWorld /\ z.fresh \in Seq(Good)
    BY <2>2 DEF GoodInv, Sound, GoodWorld
  <2>4. z.fresh # <<>> /\ Head(z.fresh) = q[k + 1] /\ Suffix(Tail(z.fresh), q, k + 1, n)
    BY <2>1, <2>2, <2>3, SuffixTail
  <2> DEFINE y == SortsFirst(z, b)
  <2>5. GoodInv(y, b, 0, e) /\ y.fresh = Tail(z.fresh) /\ StaysOut(z, y)
    BY <2>2, <2>4, SortingFirst
  <2>6. r[k + 1] = SortEntry(NoFresh(z), Head(z.fresh), b)
    BY <2>1, <2>2, <2>4 DEF SortsAll
  <2>7. r[k + 1] = NoFresh(y)
    BY <2>3, <2>6, SortsEntryFirst
  <2> HIDE DEF y
  <2>8. Fits(y, k + 1)
    BY <2>2, <2>4, <2>5, <2>7 DEF StaysOut
  <2> QED BY <2>8
<1>3. n \in Q
  <2> HIDE DEF Q
  <2>1. Q \in SUBSET Nat
    BY DEF Q
  <2>2. Q = Nat
    BY <1>1, <1>2, <2>1, AllNumbers
  <2> QED BY <2>2
<1>4. PICK z : Fits(z, n)
  BY <1>3
<1>5. z.fresh = <<>> /\ z \in GoodWorld
  <2>1. z.fresh \in Seq(Good) /\ Len(z.fresh) = 0 /\ z \in GoodWorld
    BY <1>4 DEF Suffix, GoodInv, Sound, GoodWorld
  <2> QED BY <2>1
<1>6. NoFresh(z) = z
  BY <1>5 DEF NoFresh, GoodWorld
<1> QED BY <1>4, <1>5, <1>6, NoneFresh

\* So after a clean-up the next round may come.
LEMMA CleaningUp ==
  ASSUME NEW s, NEW b \in Bucket, NEW e \in {0, 1}, GoodInv(s, b, 0, e)
  PROVE  GoodInv(CleanedUp(s, b), b, 0, 1) /\ StaysOut(s, CleanedUp(s, b))
<1> DEFINE v == FoldLeft(Released, NoFreed(s), s.freed)
<1>1. CleanedUp(s, b) = Sort(v, b)
  BY DEF CleanedUp, NoFreed
<1>2. GoodInv(v, b, 0, e) /\ StaysOut(s, v)
  <2> DEFINE q == s.freed
             n == Len(q)
  <2>1. q \in Seq(Good)
    BY DEF GoodInv, Sound, GoodWorld
  <2> HIDE DEF q
  <2>2. n \in Nat /\ DOMAIN q = 1..n
    BY <2>1
  <2> HIDE DEF n
  <2>3. PICK r : ReleasesAll(r, NoFreed(s), q, n) /\ FoldLeft(Released, NoFreed(s), q) = r[n]
    BY <2>2, ReleasesInTurn
  <2>4. GoodInv(r[n], b, 0, e) /\ StaysOut(s, r[n])
    BY <2>2, <2>3, AllReleased DEF q, n
  <2> QED BY <2>3, <2>4 DEF q
<1> HIDE DEF v
<1> DEFINE q == v.fresh
           n == Len(q)
<1>3. q \in Seq(Good)
  BY <1>2 DEF GoodInv, Sound, GoodWorld
<1> HIDE DEF q
<1>4. n \in Nat /\ DOMAIN q = 1..n
  BY <1>3
<1> HIDE DEF n
<1>5. PICK r : SortsAll(r, v, b, q, n) /\ Sort(v, b) = r[n]
  BY <1>4, SortsInTurn DEF q
<1>6. GoodInv(r[n], b, 0, 1) /\ StaysOut(v, r[n])
  BY <1>2, <1>4, <1>5, AllSorted DEF q, n
<1> QED BY <1>1, <1>2, <1>5, <1>6 DEF StaysOut

-----------------------------------------------------------------------------
(* The invariant.                                                          *)

\* An item that was taken along can come back.
Savable(x) ==
  /\ x \in GoodItem /\ x.type \in Type /\ (x.type \in Decaying => x.duration # None)
DecayInv ==
  /\ lastBucket \in Bucket /\ GoodInv(decay, lastBucket, 0, 1)
  /\ stored # None => Nobody(decay) /\ Savable(stored)

\* It holds when there are no items,
LEMMA DecayStarts == DecayInit => DecayInv
<1> SUFFICES ASSUME DecayInit PROVE DecayInv
  OBVIOUS
<1>1. Buckets \in Nat /\ Buckets >= 1
  BY DecayAssumption
<1>2. NoGood \in GoodItem /\ NoGood.refs = 0 /\ NoGood.placed = FALSE
  <2>1. NoHistory \in GoodHistory
    BY DEF NoHistory, GoodHistory
  <2> QED BY <2>1 DEF NoGood, GoodItem
<1>3. /\ decay.item = [i \in Good |-> NoGood] /\ decay.bucket = [b \in Bucket |-> <<>>]
      /\ decay.fresh = <<>> /\ decay.freed = <<>> /\ decay.early = FALSE
      /\ lastBucket = 0 /\ stored = None
  BY DEF DecayInit, Bucket
<1>4. decay \in GoodWorld
  <2> DEFINE m == [i \in Good |-> NoGood]
             l == [b \in Bucket |-> <<>>]
  <2>1. m \in [Good -> GoodItem] /\ l \in [Bucket -> Seq(Good)]
    BY <1>2
  <2>2. decay = [item |-> m, bucket |-> l, fresh |-> <<>>, freed |-> <<>>, early |-> FALSE]
    BY DEF DecayInit, Bucket
  <2> HIDE DEF m, l
  <2> QED BY <2>1, <2>2 DEF GoodWorld
<1>5. \A i \in Good : decay.item[i].refs = 0 /\ ~decay.item[i].placed
  BY <1>2, <1>3
<1>6. ASSUME NEW i \in Good
      PROVE  decay.item[i].refs = Mark(decay.item[i]) + Listings(decay, i) + Times(decay.freed, i)
  <2>1. Times(<<>>, i) = 0
    BY TimesEmpty
  <2>2. \A b \in Bucket : Times(decay.bucket[b], i) = 0
    BY <1>3, <2>1
  <2>3. Listings(decay, i) = 0
    BY <1>3, <1>4, <2>1, <2>2, Unlisted
  <2>4. Mark(decay.item[i]) = 0
    BY <1>5 DEF Mark
  <2> QED BY <1>3, <1>5, <2>1, <2>3, <2>4
<1>7. lastBucket \in Bucket
  BY <1>1, <1>3 DEF Bucket
<1> QED BY <1>3, <1>4, <1>5, <1>6, <1>7 DEF DecayInv, GoodInv, Sound, InGame, Referred, OneHere

\* every round keeps it,
LEMMA CheckDecayKeeps == DecayInv /\ CheckDecay => DecayInv'
<1> SUFFICES ASSUME DecayInv, CheckDecay PROVE DecayInv'
  OBVIOUS
<1> DEFINE s == decay
           d == (lastBucket + 1) % Buckets
           v == Older(s)
           q == s.bucket[d]
           n == Len(q)
           w == Checks(s, d)
<1>1. /\ lastBucket \in Bucket /\ GoodInv(s, lastBucket, 0, 1)
      /\ stored # None => Nobody(s) /\ Savable(stored)
  BY DEF DecayInv
<1>2. Room(s)
  BY DEF CheckDecay, RoomForOne, Unused, Room
<1>3. d \in Bucket
  BY <1>1, Turns
<1>4. lastBucket' = d /\ decay' = CleanedUp(w, d) /\ stored' = stored
  BY DEF CheckDecay
<1> HIDE DEF w
<1>5. GoodInv(v, d, n, 0) /\ Roomy(v, d, n) /\ v.bucket = s.bucket /\ StaysOut(s, v)
  BY <1>1, <1>2, RoundBegins
<1>6. n \in Nat /\ DOMAIN q = 1..n
  <2>1. s \in GoodWorld
    BY <1>1 DEF GoodInv, Sound
  <2>2. q \in Seq(Good)
    BY <1>3, <2>1 DEF GoodWorld
  <2> HIDE DEF q
  <2> QED BY <2>2
<1>8. PICK r : ChecksAll(r, v, d, q, n) /\ w = r[n]
  <2> HIDE DEF d, n
  <2> QED BY <1>6, ChecksInTurn DEF w
<1> HIDE DEF v, d
<1>7. q = v.bucket[d] /\ n = Len(q)
  BY <1>5
<1> HIDE DEF q, n
<1>9. GoodInv(r[n], d, 0, 0) /\ StaysOut(v, r[n])
  BY <1>3, <1>5, <1>6, <1>7, <1>8, BucketChecked
<1>10. GoodInv(CleanedUp(w, d), d, 0, 1) /\ StaysOut(w, CleanedUp(w, d))
  BY <1>3, <1>8, <1>9, CleaningUp
<1>11. StaysOut(s, CleanedUp(w, d))
  BY <1>5, <1>8, <1>9, <1>10 DEF StaysOut
<1> HIDE DEF s
<1>12. stored' # None => Nobody(decay') /\ Savable(stored')
  BY <1>1, <1>4, <1>11 DEF StaysOut
<1> QED BY <1>3, <1>4, <1>10, <1>12 DEF DecayInv

\* every clean-up keeps it,
LEMMA CleanupKeeps == DecayInv /\ CleanupItems => DecayInv'
<1> SUFFICES ASSUME DecayInv, CleanupItems PROVE DecayInv'
  OBVIOUS
<1>1. /\ lastBucket \in Bucket /\ GoodInv(decay, lastBucket, 0, 1)
      /\ stored # None => Nobody(decay) /\ Savable(stored)
  BY DEF DecayInv
<1>2. decay' = CleanedUp(decay, lastBucket) /\ lastBucket' = lastBucket /\ stored' = stored
  BY DEF CleanupItems
<1>3. /\ GoodInv(CleanedUp(decay, lastBucket), lastBucket, 0, 1)
      /\ StaysOut(decay, CleanedUp(decay, lastBucket))
  BY <1>1, CleaningUp
<1> QED BY <1>1, <1>2, <1>3 DEF DecayInv, StaysOut

\* and whatever happens to items meanwhile.
LEMMA FreeGoodIs ==
  ASSUME NEW s, Room(s)
  PROVE  FreeGood(s) \in Good /\ s.item[FreeGood(s)].refs = 0
BY ZenonT(30) DEF FreeGood, Room

\* An item appears that begins to count its time.
Starts(x) ==
  /\ x \in GoodItem /\ x.placed /\ x.refs = 1 /\ x.type \in Type /\ ~x.decaying
  /\ x.type \in Decaying => x.duration # None
  /\ x.duration # None => x.history.burnt = 0 /\ x.duration = x.history.full
LEMMA AppearingKeeps ==
  ASSUME DecayInv, Nobody(decay), RoomForTwo, NEW i, i = FreeGood(decay), NEW x, Starts(x),
         NEW u, u = [decay EXCEPT !.item[i] = x]
  PROVE  GoodInv(StartDecay(u, i), lastBucket, 0, 1)
<1>1. lastBucket \in Bucket /\ GoodInv(decay, lastBucket, 0, 1) /\ Sound(decay)
  BY DEF DecayInv, GoodInv
<1>2. PICK j, k \in Good : j # k /\ decay.item[j].refs = 0 /\ decay.item[k].refs = 0
  BY DEF RoomForTwo, Unused
<1>3. i \in Good /\ decay.item[i].refs = 0
  BY <1>2, FreeGoodIs DEF Room
<1>4. Sound(u) /\ Rewrites(decay, u, i, x) /\ Listings(u, i) = 0
  BY <1>1, <1>3, Appearing DEF Nobody, Starts
<1>5. u.item[i] = x /\ \A l \in Good : l # i => u.item[l] = decay.item[l]
  BY <1>4 DEF Rewrites
<1>6. Room(u)
  BY <1>2, <1>5 DEF Room
<1>7. Begins(u, i) /\ u.item[i].placed
  BY <1>4, <1>5 DEF Begins, Starts
<1>8. Timely(u, lastBucket, 0, 1, i)
  BY <1>1, <1>3, <1>4, <1>7, BeginsTimely DEF Sound
<1> QED BY <1>1, <1>3, <1>4, <1>6, <1>7, <1>8, Starting

\* A new item does so,
LEMMA CreateGoodKeeps == ASSUME NEW t \in Type PROVE DecayInv /\ CreateGood(t) => DecayInv'
<1> SUFFICES ASSUME DecayInv, CreateGood(t) PROVE DecayInv'
  OBVIOUS
<1> DEFINE u == Created(decay, t)
           x == NewGood(t)
<1>1. Nobody(decay) /\ stored = None /\ RoomForTwo
  BY DEF CreateGood, Here, Nobody
<1>2. decay' = StartDecay(u, FreeGood(decay)) /\ lastBucket' = lastBucket /\ stored' = stored
  BY DEF CreateGood
<1>3. u = [decay EXCEPT !.item[FreeGood(decay)] = x]
  BY DEF Created
<1>4. Starts(x)
  <2>1. /\ x \in GoodItem /\ x.placed /\ x.refs = 1 /\ x.type = t /\ ~x.decaying
        /\ x.duration = (IF DecayTime[t] > 0 THEN DecayTime[t] ELSE None)
        /\ x.history.burnt = 0 /\ x.history.full = DecayTime[t] /\ DecayTime[t] \in Nat
    BY NewGoodIs, DecayAssumption
  <2> HIDE DEF x
  <2>2. t \in Decaying => DecayTime[t] > 0
    BY Decays
  <2>3. x.type \in Decaying => x.duration # None
    BY <2>1, <2>2, DecayAssumption
  <2> QED BY <2>1, <2>3 DEF Starts
<1> HIDE DEF u, x
<1>5. GoodInv(StartDecay(u, FreeGood(decay)), lastBucket, 0, 1)
  BY <1>1, <1>3, <1>4, AppearingKeeps
<1> QED BY <1>1, <1>2, <1>5 DEF DecayInv

\* as does one that comes back, with what is left of its time,
LEMMA BackStarts == ASSUME NEW x, Savable(x) PROVE Starts(Back(x))
<1> DEFINE n == IF x.duration = None THEN 0 ELSE x.duration
           h == [NoHistory EXCEPT !.full = n]
           y == [x EXCEPT !.placed = TRUE, !.refs = 1, !.decaying = FALSE, !.history = h]
<1>1. x \in GoodItem /\ x.type \in Type /\ (x.type \in Decaying => x.duration # None)
  BY DEF Savable
<1>2. n \in Nat
  BY <1>1 DEF GoodItem
<1>3. x.duration # None => n = x.duration
  OBVIOUS
<1>4. Back(x) = y
  BY DEF Back
<1> HIDE DEF n
<1>5. h \in GoodHistory /\ h.burnt = 0 /\ h.full = n
  BY <1>2 DEF NoHistory, GoodHistory
<1> HIDE DEF h
<1>6. /\ y \in GoodItem /\ y.placed = TRUE /\ y.refs = 1 /\ y.type = x.type /\ y.decaying = FALSE
      /\ y.duration = x.duration /\ y.history = h
  BY <1>1, <1>5 DEF GoodItem
<1> HIDE DEF y
<1> QED BY <1>1, <1>3, <1>4, <1>5, <1>6 DEF Starts

\* so that bringing it back keeps the invariant.
LEMMA BringBackKeeps == DecayInv /\ BringBack => DecayInv'
<1> SUFFICES ASSUME DecayInv, BringBack PROVE DecayInv'
  OBVIOUS
<1> DEFINE u == BroughtBack(decay, stored)
           x == Back(stored)
<1>1. stored # None /\ Nobody(decay) /\ Savable(stored) /\ RoomForTwo
  BY DEF BringBack, DecayInv
<1>2. decay' = StartDecay(u, FreeGood(decay)) /\ lastBucket' = lastBucket /\ stored' = None
  BY DEF BringBack
<1>3. u = [decay EXCEPT !.item[FreeGood(decay)] = x]
  BY DEF BroughtBack
<1>4. Starts(x)
  BY <1>1, BackStarts
<1> HIDE DEF u, x
<1>5. GoodInv(StartDecay(u, FreeGood(decay)), lastBucket, 0, 1)
  BY <1>1, <1>3, <1>4, AppearingKeeps
<1> QED BY <1>2, <1>5 DEF DecayInv

\* An item is taken out of the game.
LEMMA TakenOutKeeps ==
  ASSUME DecayInv, NEW i \in Here
  PROVE  /\ GoodInv(Removed(decay, i), lastBucket, 0, 1) /\ Nobody(Removed(decay, i))
         /\ stored = None /\ Savable(decay.item[i])
<1>1. /\ lastBucket \in Bucket /\ GoodInv(decay, lastBucket, 0, 1) /\ Sound(decay)
      /\ decay \in GoodWorld /\ i \in Good /\ decay.item[i].placed
  BY DEF DecayInv, GoodInv, Sound, Here
<1>2. Sound(Removed(decay, i)) /\ Nobody(Removed(decay, i))
  BY <1>1, RemovedIs DEF Nobody
<1>3. stored = None
  BY <1>1 DEF DecayInv, Nobody
<1>4. Timely(decay, lastBucket, 0, 1, i)
  BY <1>1 DEF GoodInv, InGame
<1>5. Savable(decay.item[i])
  BY <1>1, <1>4, ItemParts DEF Timely, Savable
<1> QED BY <1>1, <1>2, <1>3, <1>5 DEF GoodInv, InGame, Nobody

\* Whether it is removed for good,
LEMMA RemoveGoodKeeps == ASSUME NEW i \in Good PROVE DecayInv /\ RemoveGood(i) => DecayInv'
BY TakenOutKeeps DEF DecayInv, RemoveGood

\* or taken along, the invariant holds.
LEMMA TakeAlongKeeps == ASSUME NEW i \in Good PROVE DecayInv /\ TakeAlong(i) => DecayInv'
BY TakenOutKeeps DEF DecayInv, TakeAlong

\* An item that is used keeps its time, or begins to count a new one.
LEMMA UseGoodKeeps ==
  ASSUME NEW i \in Good, NEW t \in Type PROVE DecayInv /\ UseGood(i, t) => DecayInv'
<1> SUFFICES ASSUME DecayInv, UseGood(i, t) PROVE DecayInv'
  OBVIOUS
<1> DEFINE u == Changed(decay, i, t)
           j == After(decay, i, t)
<1>1. /\ lastBucket \in Bucket /\ GoodInv(decay, lastBucket, 0, 1) /\ Sound(decay)
      /\ decay.item[i].placed /\ Room(decay)
  BY DEF DecayInv, GoodInv, UseGood, Here, RoomForOne, Unused, Room
<1>2. decay' = StartDecay(u, j) /\ lastBucket' = lastBucket /\ stored' = stored
  BY DEF UseGood
<1>3. stored = None
  BY <1>1 DEF DecayInv, Nobody
<1>4. Changes(decay, u, i, t, j)
  BY <1>1, ChangingIs
<1> HIDE DEF u, j
<1>5. Sound(u) /\ u \in GoodWorld /\ j \in Good /\ u.item[j].placed
  BY <1>4 DEF Changes, Sound
<1>6. CASE Kind[decay.item[i].type] = Kind[t]
  <2>1. j = i /\ u = SetID(decay, i, t) /\ Room(u)
    BY <1>4, <1>6 DEF Changes
  <2>2. Timely(decay, lastBucket, 0, 1, i)
    BY <1>1 DEF GoodInv, InGame
  <2>3. Timely(u, lastBucket, 0, 1, j)
    BY <1>1, <2>1, <2>2, SetIDTimely
  <2> QED BY <1>1, <1>2, <1>3, <1>5, <2>1, <2>3, Starting DEF DecayInv
<1>7. CASE Kind[decay.item[i].type] # Kind[t]
  <2>1. u.item[j] = NewGood(t) /\ Listings(u, j) = 0
    BY <1>4, <1>7 DEF Changes
  <2>2. Timely(u, lastBucket, 0, 1, j)
    BY <1>1, <1>5, <2>1, NewBegins, BeginsTimely
  <2>3. ~(Waits(u, j) /\ Duration(u, j) = 0)
    <3> SUFFICES ASSUME Waits(u, j) PROVE Duration(u, j) # 0
      OBVIOUS
    <3>1. t \in Decaying
      BY <2>1, NewGoodIs DEF Waits, CanDecay
    <3>2. DecayTime[t] \in Nat /\ DecayTime[t] > 0
      BY <3>1, Decays
    <3>3. u.item[j].duration = DecayTime[t]
      BY <2>1, <3>2, NewGoodIs
    <3> QED BY <3>2, <3>3, DecayAssumption DEF Duration
  <2> QED BY <1>1, <1>2, <1>3, <1>5, <2>2, <2>3, Starting DEF DecayInv
<1> QED BY <1>6, <1>7

\* What the invariant says of the items.
LEMMA DecayInvShows == DecayInv => DecayTypeOK /\ DecayIsTrue
<1> SUFFICES ASSUME DecayInv PROVE DecayTypeOK /\ DecayIsTrue
  OBVIOUS
<1>1. /\ lastBucket \in Bucket /\ Sound(decay) /\ decay \in GoodWorld
      /\ Referred(decay) /\ ~decay.early /\ InGame(decay, lastBucket, 0, 1)
  BY DEF DecayInv, GoodInv, Sound
<1>2. DecayTypeOK
  BY <1>1, ItemParts DEF DecayTypeOK, Bucket
<1>3. EntriesAreCounted
  BY <1>1 DEF EntriesAreCounted, Referred, Mark
<1>4. ASSUME NEW i \in Burning(decay)
      PROVE  decay.item[i].history.burnt
               <= decay.item[i].history.full + decay.item[i].history.stays
  <2> DEFINE x == decay.item[i]
  <2>1. i \in Good /\ x.placed /\ x.type \in Decaying /\ ~x.history.spent
    BY DEF Burning, CanDecay
  <2>2. Timely(decay, lastBucket, 0, 1, i) /\ x.decaying
    BY <1>1, <2>1 DEF InGame
  <2>3. /\ x.history.burnt \in Nat /\ x.history.full \in Nat /\ x.history.stays \in Nat
        /\ x.duration \in Nat \union {None} /\ Buckets \in Nat
    BY <1>1, <2>1, ItemParts, DecayAssumption
  <2>4. x.duration # None /\ x.duration \in Nat
    BY <2>1, <2>2, <2>3 DEF Timely
  <2>5. EndsListed(decay, lastBucket, 0, i) \/ EndsFresh(decay, 1, i)
    BY <2>1, <2>2, <2>4 DEF Timely, InTime, Timed
  <2>6. CASE EndsFresh(decay, 1, i)
    <3>1. x.history.burnt + x.duration + 1 <= Budget(x)
      BY <2>6 DEF EndsFresh
    <3> HIDE DEF x
    <3> QED BY <2>3, <2>4, <3>1 DEF Budget, x
  <2>7. CASE EndsListed(decay, lastBucket, 0, i)
    <3>1. PICK w \in 0..Buckets : /\ Comes(decay, lastBucket, 0, i, w)
                                  /\ Ends(x, w) <= Allowed(x, w)
      BY <2>7 DEF EndsListed
    <3>2. w # 0 /\ w \in Nat
      BY <1>1, <2>1, <2>3, <3>1, ComesSoon
    <3>3. Over(x.duration) \in Nat
      BY <2>3, <2>4 DEF Over
    <3> HIDE DEF x
    <3>4. x.history.burnt + w + Over(x.duration) <= x.history.full + x.history.stays + 1
      BY <3>1, <3>2 DEF Ends, Allowed, Budget
    <3>5. x.history.burnt <= x.history.full + x.history.stays
      BY <2>3, <3>2, <3>3, <3>4
    <3> QED BY <3>5 DEF x
  <2> QED BY <2>5, <2>6, <2>7
<1>5. NothingOutlastsItsTime
  BY <1>4 DEF NothingOutlastsItsTime
<1>6. NothingDecaysEarly
  BY <1>1 DEF NothingDecaysEarly
<1> QED BY <1>2, <1>3, <1>5, <1>6 DEF DecayIsTrue

\* Buckets and items agree at any time.
THEOREM DecaySafe == DecaySpec => [](DecayTypeOK /\ DecayIsTrue)
<1>1. DecayInit => DecayInv
  BY DecayStarts
<1>2. DecayInv /\ [DecayNext]_decayVars => DecayInv'
  <2>1. DecayInv /\ DecayNext => DecayInv'
    BY CheckDecayKeeps, CleanupKeeps, BringBackKeeps, CreateGoodKeeps, RemoveGoodKeeps,
       TakeAlongKeeps, UseGoodKeeps DEF DecayNext
  <2>2. DecayInv /\ UNCHANGED decayVars => DecayInv'
    BY DEF DecayInv, decayVars
  <2> QED BY <2>1, <2>2
<1> QED BY <1>1, <1>2, DecayInvShows, PTL DEF DecaySpec

-----------------------------------------------------------------------------
(* A container is never overfull.                                          *)

USE DEF Ground

Held == Bag \union {Ground}
Holder == Held \union {Carrier}
Fields == {"inside", "worn", "weight", "balls", "meant", "window", "screen", "near"}

\* What the windows are on.
OnBags(window) ==
  DOMAIN window = Viewer /\ \A p \in Viewer : window[p] \in [Cid[p] -> Bag \union {None}]

\* Whole: what is held are things, and no container holds too many.
Whole(g) ==
  /\ DOMAIN g = Fields /\ OnBags(g.window)
  /\ g.inside \in [Held -> Seq(Thing)]
  /\ g.worn \in [Slot -> Thing \union {None}]
  /\ \A c \in Bag : Len(g.inside[c]) <= Capacity[c]

\* From g to h nothing moved; one place changed; or nothing was put in.
Keeps(g, h) == DOMAIN h = Fields /\ (OnBags(g.window) => OnBags(h.window))
SameThings(g, h) == Keeps(g, h) /\ h.inside = g.inside /\ h.worn = g.worn
Alters(g, h, c, s) ==
  Keeps(g, h) /\ h.inside = [g.inside EXCEPT ![c] = s] /\ h.worn = g.worn
Wears(g, h, i, t) ==
  Keeps(g, h) /\ h.inside = g.inside /\ h.worn = [g.worn EXCEPT ![i] = t]
NoMore(g, h) == Whole(h) /\ \A c \in Bag : Len(h.inside[c]) <= Len(g.inside[c])

LEMMA Numbers ==
  /\ MaxStack \in Nat /\ MaxStack > 0 /\ About \in Nat
  /\ \A c \in Bag : Capacity[c] \in Nat /\ Capacity[c] > 0
BY ContainersAssumption

\* The carrier is no container, nothing is no stack.
LEMMA Apart ==
  /\ Carrier \notin Held /\ None \notin Stack /\ ~IsStack(None) /\ 0 \notin Stack
  /\ Slot = {Backpack, Ammo}
<1>1. Slot = {Backpack, Ammo}
  BY DEF Slot, SlotOrder, ToSet
<1>2. Carrier # "ground" /\ Carrier \notin Bag /\ None \notin Nat
  BY ContainersAssumption
<1>3. \A x \in Stack : x \in Nat /\ x # 0
  BY ContainersAssumption DEF Stack
<1> QED BY <1>1, <1>2, <1>3 DEF Held, IsStack

LEMMA StackIsNumber ==
  ASSUME NEW t, IsStack(t)
  PROVE  t \in Nat /\ 1 <= t /\ t <= MaxStack /\ ItemCount(t) = t /\ t \in Thing
BY ContainersAssumption DEF IsStack, Stack, ItemCount, Thing

LEMMA NumberIsStack ==
  ASSUME NEW t \in Int, 1 <= t, t <= MaxStack
  PROVE  IsStack(t) /\ t \in Thing
BY ContainersAssumption DEF IsStack, Stack, Thing

\* What lies at a place is a thing.
LEMMA ThingHere ==
  ASSUME NEW g, Whole(g), NEW c \in Holder, NEW i
  PROVE  /\ ThingAt(g, c, i) \in Thing \union {None}
         /\ c = Carrier /\ ThingAt(g, c, i) # None => i \in Slot
         /\ c # Carrier /\ ThingAt(g, c, i) # None => i \in DOMAIN g.inside[c]
<1>1. CASE c = Carrier
  BY <1>1 DEF ThingAt, Whole
<1>2. CASE c # Carrier
  <2>1. g.inside[c] \in Seq(Thing)
    BY <1>2 DEF Whole, Holder
  <2>2. \A j \in DOMAIN g.inside[c] : g.inside[c][j] \in Thing
    BY <2>1
  <2> QED BY <1>2, <2>2 DEF ThingAt
<1> QED BY <1>1, <1>2

-----------------------------------------------------------------------------
(* What does not move things.                                              *)

LEMMA SameTwice ==
  ASSUME NEW g, NEW h, NEW k, SameThings(g, h), SameThings(h, k)
  PROVE  SameThings(g, k)
BY DEF SameThings, Keeps

LEMMA SameIsWhole ==
  ASSUME NEW g, NEW h, Whole(g), SameThings(g, h)
  PROVE  NoMore(g, h) /\ Whole(h)
<1>1. Whole(h)
  BY DEF SameThings, Whole, Keeps
<1>2. \A c \in Bag : Len(g.inside[c]) \in Nat
  BY DEF Whole, Held
<1> QED BY <1>1, <1>2 DEF SameThings, NoMore, Keeps

\* A change of another field.
LEMMA SameBesides ==
  ASSUME NEW g, DOMAIN g = Fields, NEW x, NEW y
  PROVE  /\ SameThings(g, g)
         /\ SameThings(g, [g EXCEPT !.weight = x]) /\ SameThings(g, [g EXCEPT !.screen = x])
         /\ SameThings(g, [g EXCEPT !.balls = x])
         /\ SameThings(g, [g EXCEPT !.meant = x]) /\ SameThings(g, [g EXCEPT !.near = x])
         /\ OnBags(x) => /\ SameThings(g, [g EXCEPT !.window = x])
                         /\ SameThings(g, [g EXCEPT !.window = x, !.screen = y])
BY DEF SameThings, Fields, Keeps

LEMMA SameWeigh ==
  ASSUME NEW g, DOMAIN g = Fields, NEW c, NEW diff
  PROVE  SameThings(g, Weigh(g, c, diff))
BY SameBesides, Zenon DEF Weigh

LEMMA SameTold ==
  ASSUME NEW g, DOMAIN g = Fields, NEW c, NEW what, NEW i, NEW t
  PROVE  SameThings(g, Told(g, c, what, i, t))
BY SameBesides, Zenon DEF Told

LEMMA SameResent ==
  ASSUME NEW g, DOMAIN g = Fields, NEW P, NEW c
  PROVE  SameThings(g, Resent(g, P, c))
BY SameBesides, Zenon DEF Resent

LEMMA SameShown ==
  ASSUME NEW g, DOMAIN g = Fields, NEW p, NEW k
  PROVE  SameThings(g, Shown(g, p, k))
BY SameBesides, Zenon DEF Shown

LEMMA SameClosed ==
  ASSUME NEW g, DOMAIN g = Fields, NEW shut
  PROVE  SameThings(g, Closed(g, shut))
<1> DEFINE x == [p \in Viewer |-> [k \in Cid[p] |->
                    IF <<p, k>> \in shut THEN None ELSE g.window[p][k]]]
           y == [p \in Viewer |-> [k \in Cid[p] |->
                    IF <<p, k>> \in shut THEN Shut ELSE g.screen[p][k]]]
           h == [g EXCEPT !.window = x, !.screen = y]
<1>1. Closed(g, shut) = h
  BY Zenon DEF Closed
<1>2. OnBags(g.window) => OnBags(x)
  BY DEF OnBags
<1> HIDE DEF x, y
<1>3. h.inside = g.inside /\ h.worn = g.worn /\ h.window = x /\ DOMAIN h = Fields
  BY DEF Fields
<1> HIDE DEF h
<1> QED BY <1>1, <1>2, <1>3 DEF SameThings, Keeps

LEMMA SameMeant ==
  ASSUME NEW g, DOMAIN g = Fields, NEW coins, NEW balls, NEW bags
  PROVE  SameThings(g, Meant(g, coins, balls, bags))
<1> DEFINE x == [g.meant EXCEPT !.coins = @ + coins]
           y == [x EXCEPT !.balls = @ + balls]
           z == [y EXCEPT !.bags = SymDiff(@, bags)]
           a == [g EXCEPT !.meant = x]
           b == [a EXCEPT !.meant = y]
<1>1. SameThings(g, a) /\ DOMAIN a = Fields /\ a.meant = x
  BY SameBesides DEF SameThings, Fields, Keeps
<1>2. SameThings(g, b) /\ DOMAIN b = Fields /\ b.meant = y
  <2> HIDE DEF a, y
  <2> QED BY <1>1, SameBesides, SameTwice DEF SameThings, Fields, Keeps
<1>3. SameThings(g, [b EXCEPT !.meant = z])
  <2> HIDE DEF b, z
  <2> QED BY <1>2, SameBesides, SameTwice
<1>4. Meant(g, coins, balls, bags) = [b EXCEPT !.meant = z]
  BY <1>1, <1>2 DEF Meant
<1> QED BY <1>3, <1>4

LEMMA SameRecount ==
  ASSUME NEW g, DOMAIN g = Fields, NEW c
  PROVE  SameThings(g, Recount(g, c))
BY SameBesides DEF Recount

LEMMA SamePosts ==
  ASSUME NEW g, DOMAIN g = Fields, NEW t, NEW c
  PROVE  SameThings(g, PostAdd(g, t, c)) /\ SameThings(g, PostRemove(g, t, c))
<1> DEFINE r == Recount(g, c)
<1>1. SameThings(g, r) /\ DOMAIN r = Fields
  BY SameRecount DEF SameThings, Keeps
<1>2. ASSUME NEW P PROVE SameThings(g, Resent(r, P, t)) /\ DOMAIN Resent(r, P, t) = Fields
  <2> HIDE DEF r
  <2>1. SameThings(r, Resent(r, P, t))
    BY <1>1, SameResent
  <2> QED BY <1>1, <2>1, SameTwice DEF SameThings, Keeps
<1>3. ASSUME NEW P, NEW Q PROVE SameThings(g, AutoClosed(Resent(r, P, t), Q, t))
  <2> DEFINE s == Resent(r, P, t)
  <2>1. SameThings(g, s) /\ DOMAIN s = Fields
    BY <1>2
  <2> HIDE DEF s
  <2>2. SameThings(s, AutoClosed(s, Q, t))
    BY <2>1, SameClosed DEF AutoClosed
  <2>3. SameThings(g, AutoClosed(s, Q, t))
    BY <2>1, <2>2, SameTwice
  <2> QED BY <2>3 DEF s
<1>4. SameThings(g, PostAdd(g, t, c))
  BY <1>2 DEF PostAdd
<1>5. SameThings(g, PostRemove(g, t, c))
  <2> HIDE DEF r
  <2>1. PostRemove(g, t, c) = r \/ \E P, Q : PostRemove(g, t, c) = AutoClosed(Resent(r, P, t), Q, t)
    BY Zenon DEF PostRemove, r
  <2> QED BY <1>1, <1>3, <2>1
<1> QED BY <1>4, <1>5

-----------------------------------------------------------------------------
(* One place changes.                                                      *)

LEMMA AltersIsWhole ==
  ASSUME NEW g, NEW h, Whole(g), NEW c \in Held, NEW s \in Seq(Thing),
         c \in Bag => Len(s) <= Capacity[c], Alters(g, h, c, s)
  PROVE  Whole(h)
<1>1. h.inside \in [Held -> Seq(Thing)]
  BY DEF Whole, Alters, Keeps
<1>2. ASSUME NEW d \in Bag PROVE Len(h.inside[d]) <= Capacity[d]
  <2>1. d \in Held
    BY DEF Held
  <2>2. CASE d = c
    BY <2>1, <2>2 DEF Whole, Alters, Keeps
  <2>3. CASE d # c
    <3>1. h.inside[d] = g.inside[d]
      BY <2>1, <2>3 DEF Whole, Alters, Keeps
    <3> QED BY <3>1 DEF Whole
  <2> QED BY <2>2, <2>3
<1> QED BY <1>1, <1>2 DEF Whole, Alters, Keeps

\* Nothing is put in when the list does not grow.
LEMMA AltersNoMore ==
  ASSUME NEW g, NEW h, Whole(g), NEW c \in Held, NEW s \in Seq(Thing),
         Len(s) <= Len(g.inside[c]), Alters(g, h, c, s)
  PROVE  NoMore(g, h)
<1>1. \A d \in Held : Len(g.inside[d]) \in Nat
  BY DEF Whole
<1>2. c \in Bag => Len(s) <= Capacity[c]
  <2>1. Len(s) \in Nat
    OBVIOUS
  <2> QED BY <1>1, <2>1, Numbers DEF Whole
<1>3. Whole(h)
  BY <1>2, AltersIsWhole
<1>4. ASSUME NEW d \in Bag PROVE Len(h.inside[d]) <= Len(g.inside[d])
  <2>1. d \in Held
    BY DEF Held
  <2>2. CASE d = c
    BY <2>1, <2>2 DEF Whole, Alters, Keeps
  <2>3. CASE d # c
    <3>1. h.inside[d] = g.inside[d]
      BY <2>1, <2>3 DEF Whole, Alters, Keeps
    <3> QED BY <1>1, <2>1, <3>1
  <2> QED BY <2>2, <2>3
<1> QED BY <1>3, <1>4 DEF NoMore

LEMMA WearsNoMore ==
  ASSUME NEW g, NEW h, Whole(g), NEW i, NEW t,
         t \in Thing \union {None}, Wears(g, h, i, t)
  PROVE  NoMore(g, h)
<1>1. Whole(h)
  BY DEF Whole, Wears, Keeps
<1>2. \A d \in Bag : Len(g.inside[d]) \in Nat
  BY DEF Whole, Held
<1> QED BY <1>1, <1>2 DEF NoMore, Wears, Keeps

LEMMA NoMoreTwice ==
  ASSUME NEW g, NEW h, NEW k, Whole(g), NoMore(g, h), NoMore(h, k)
  PROVE  NoMore(g, k)
<1>1. \A d \in Bag : Len(g.inside[d]) \in Nat /\ Len(h.inside[d]) \in Nat /\ Len(k.inside[d]) \in Nat
  BY DEF NoMore, Whole, Held
<1> QED BY <1>1 DEF NoMore

LEMMA AltersSame ==
  ASSUME NEW g, NEW h, NEW k, NEW c, NEW s, Alters(g, h, c, s), SameThings(h, k)
  PROVE  Alters(g, k, c, s)
BY DEF Alters, SameThings, Keeps

LEMMA AltersIs ==
  ASSUME NEW g, DOMAIN g = Fields, NEW c, NEW s
  PROVE  Alters(g, [g EXCEPT !.inside = [@ EXCEPT ![c] = s]], c, s)
BY DEF Alters, Fields, Keeps

LEMMA WearsIs ==
  ASSUME NEW g, DOMAIN g = Fields, NEW i, NEW t
  PROVE  Wears(g, [g EXCEPT !.worn[i] = t], i, t)
BY DEF Wears, Fields, Keeps

\* A list in which a thing is put in front, changed, or from which it is taken.
InFront(r, s, t) == Len(r) = Len(s) + 1 /\ r[1] = t /\ \A j \in 1..Len(s) : r[j + 1] = s[j]
LEMMA PutInFront ==
  ASSUME NEW s \in Seq(Thing), NEW t \in Thing
  PROVE  <<t>> \o s \in Seq(Thing) /\ InFront(<<t>> \o s, s, t)
BY DEF InFront

LEMMA ChangedIn ==
  ASSUME NEW s \in Seq(Thing), NEW i, NEW t \in Thing
  PROVE  [s EXCEPT ![i] = t] \in Seq(Thing) /\ Len([s EXCEPT ![i] = t]) = Len(s)
<1> DEFINE r == [s EXCEPT ![i] = t]
<1>1. Len(s) \in Nat /\ s \in [1..Len(s) -> Thing]
  OBVIOUS
<1>2. r \in [1..Len(s) -> Thing]
  BY <1>1
<1> HIDE DEF r
<1>3. r \in Seq(Thing) /\ Len(r) = Len(s)
  BY <1>1, <1>2
<1> QED BY <1>3 DEF r

LEMMA EndToEnd ==
  ASSUME NEW l \in Seq(Thing), NEW r \in Seq(Thing)
  PROVE  l \o r \in Seq(Thing) /\ Len(l \o r) = Len(l) + Len(r)
OBVIOUS

LEMMA TakenFrom ==
  ASSUME NEW s \in Seq(Thing), NEW i \in DOMAIN s
  PROVE  RemoveAt(s, i) \in Seq(Thing) /\ Len(RemoveAt(s, i)) = Len(s) - 1
<1>1. Len(s) \in Nat /\ DOMAIN s = 1..Len(s) /\ i \in Nat /\ 1 <= i /\ i <= Len(s)
  OBVIOUS
<1> DEFINE l == SubSeq(s, 1, i - 1)
           r == SubSeq(s, i + 1, Len(s))
<1>2. l \in Seq(Thing) /\ Len(l) = i - 1
  BY <1>1
<1>3. r \in Seq(Thing) /\ Len(r) = Len(s) - i
  <2>1. CASE i = Len(s)
    BY <1>1, <2>1
  <2>2. CASE i + 1 <= Len(s)
    <3>1. \A k \in i + 1..Len(s) : s[k] \in Thing
      BY <1>1
    <3> QED BY <1>1, <2>2, <3>1
  <2> QED BY <1>1, <2>1, <2>2
<1> HIDE DEF l, r
<1>4. l \o r \in Seq(Thing) /\ Len(l \o r) = Len(s) - 1
  <2>1. l \o r \in Seq(Thing) /\ Len(l \o r) = Len(l) + Len(r)
    BY <1>2, <1>3, EndToEnd
  <2>2. Len(l) + Len(r) = Len(s) - 1
    BY <1>1, <1>2, <1>3
  <2> QED BY <2>1, <2>2
<1> QED BY <1>4 DEF RemoveAt, l, r

-----------------------------------------------------------------------------
(* The primitives.                                                         *)

LEMMA PutAlters ==
  ASSUME NEW g, Whole(g), NEW c \in Held, NEW t
  PROVE  Alters(g, Put(g, c, t), c, <<t>> \o g.inside[c])
<1> DEFINE s == <<t>> \o g.inside[c]
           put == [g EXCEPT !.inside = [@ EXCEPT ![c] = s]]
           weighed == Weigh(put, c, Weight(g, t))
           told == Told(weighed, c, "add", 1, t)
<1>1. Alters(g, put, c, s)
  <2> HIDE DEF s
  <2> QED BY AltersIs DEF Whole
<1>2. Put(g, c, t) = IF c = "ground" THEN put ELSE told
  BY Zenon DEF Put, Altered
<1> HIDE DEF s, put
<1>3. SameThings(put, weighed) /\ DOMAIN weighed = Fields
  BY <1>1, SameWeigh DEF Alters, SameThings, Keeps
<1> HIDE DEF weighed
<1>4. SameThings(weighed, told)
  BY <1>3, SameTold
<1> HIDE DEF told
<1>5. Alters(g, told, c, s)
  BY <1>1, <1>3, <1>4, SameTwice, AltersSame
<1> QED BY <1>1, <1>2, <1>5 DEF s

LEMMA PutIsWhole ==
  ASSUME NEW g, Whole(g), NEW c \in Held, NEW t \in Thing,
         c \in Bag => Len(g.inside[c]) < Capacity[c]
  PROVE  Whole(Put(g, c, t))
<1> DEFINE s == <<t>> \o g.inside[c]
<1>1. g.inside[c] \in Seq(Thing)
  BY DEF Whole
<1>2. s \in Seq(Thing) /\ Len(s) = Len(g.inside[c]) + 1
  BY <1>1, PutInFront DEF InFront
<1> HIDE DEF s
<1>3. c \in Bag => Len(s) <= Capacity[c]
  BY <1>1, <1>2, Numbers
<1>4. Alters(g, Put(g, c, t), c, s)
  BY PutAlters DEF s
<1> QED BY <1>2, <1>3, <1>4, AltersIsWhole

LEMMA AddIsWhole ==
  ASSUME NEW g, Whole(g), NEW c \in Holder, NEW i, NEW t \in Thing,
         c \in Bag => Len(g.inside[c]) < Capacity[c]
  PROVE  Whole(AddThing(g, c, i, t))
<1>1. CASE c # Carrier
  <2>1. c \in Held /\ AddThing(g, c, i, t) = Put(g, c, t)
    BY <1>1, Zenon DEF AddThing, Holder
  <2> QED BY <2>1, PutIsWhole
<1>2. CASE c = Carrier /\ i \in Slot
  <2>1. AddThing(g, c, i, t) = [g EXCEPT !.worn[i] = t]
    BY <1>2, Zenon DEF AddThing
  <2> QED BY <2>1, WearsIs, WearsNoMore DEF Whole, NoMore
<1>3. CASE c = Carrier /\ i \notin Slot
  BY <1>3, Zenon DEF AddThing
<1> QED BY <1>1, <1>2, <1>3

LEMMA UpdateNoMore ==
  ASSUME NEW g, Whole(g), NEW c \in Holder, NEW i, NEW n \in Thing
  PROVE  NoMore(g, UpdateThing(g, c, i, n))
<1> DEFINE s == [g.inside[c] EXCEPT ![i] = n]
           set == [g EXCEPT !.inside = [@ EXCEPT ![c] = s]]
           diff == n - ThingAt(g, c, i)
           weighed == Weigh(set, c, diff)
           told == Told(weighed, c, "update", i, n)
<1>1. CASE c = Carrier
  <2>0. Carrier # "ground"
    BY Apart DEF Held
  <2> DEFINE w == [g.worn EXCEPT ![i] = n]
  <2>1. UpdateThing(g, c, i, n) = [g EXCEPT !.worn = w]
    BY <1>1, <2>0, Zenon DEF UpdateThing
  <2>2. Wears(g, [g EXCEPT !.worn = w], i, n)
    BY DEF Wears, Whole, Fields, Keeps
  <2> HIDE DEF w
  <2> QED BY <2>1, <2>2, WearsNoMore
<1>2. CASE c # Carrier
  <2>0. c \in Held /\ g.inside[c] \in Seq(Thing)
    BY <1>2 DEF Holder, Whole
  <2>1. s \in Seq(Thing) /\ Len(s) = Len(g.inside[c])
    BY <2>0, ChangedIn
  <2>2. UpdateThing(g, c, i, n) = IF c = "ground" THEN set ELSE told
    BY <1>2, Zenon DEF UpdateThing, Altered
  <2>3. Alters(g, set, c, s)
    <3> HIDE DEF s
    <3> QED BY AltersIs DEF Whole
  <2> HIDE DEF s, set, diff
  <2>4. SameThings(set, weighed) /\ DOMAIN weighed = Fields
    BY <2>3, SameWeigh DEF Alters, SameThings, Keeps
  <2> HIDE DEF weighed
  <2>5. SameThings(weighed, told)
    BY <2>4, SameTold
  <2> HIDE DEF told
  <2>6. Alters(g, told, c, s)
    BY <2>3, <2>4, <2>5, SameTwice, AltersSame
  <2>7. Len(s) <= Len(g.inside[c])
    BY <2>0, <2>1
  <2>8. NoMore(g, set) /\ NoMore(g, told)
    BY <2>0, <2>1, <2>3, <2>6, <2>7, AltersNoMore
  <2>9. UpdateThing(g, c, i, n) \in {set, told}
    BY <2>2, Zenon
  <2> QED BY <2>8, <2>9
<1> QED BY <1>1, <1>2

LEMMA RemoveNoMore ==
  ASSUME NEW g, Whole(g), NEW c \in Holder, NEW i, NEW m,
         IsStack(ThingAt(g, c, i)) => m \in 1..ThingAt(g, c, i),
         c # Carrier => i \in DOMAIN g.inside[c]
  PROVE  NoMore(g, RemoveThing(g, c, i, m))
<1> DEFINE t == ThingAt(g, c, i)
           s == RemoveAt(g.inside[c], i)
           out == [g EXCEPT !.inside = [@ EXCEPT ![c] = s]]
           told == Told(out, c, "remove", i, t)
           weighed == Weigh(told, c, -Weight(g, t))
<1>1. CASE IsStack(t) /\ m # t
  <2>1. RemoveThing(g, c, i, m) = UpdateThing(g, c, i, t - m)
    BY <1>1, Zenon DEF RemoveThing
  <2>2. t - m \in Thing
    <3> HIDE DEF t
    <3>1. m \in 1..t /\ t \in Nat /\ t <= MaxStack
      BY <1>1, StackIsNumber DEF t
    <3>2. t - m \in Int /\ 1 <= t - m /\ t - m <= MaxStack
      BY <1>1, <3>1, Numbers
    <3> QED BY <3>2, NumberIsStack
  <2> QED BY <2>1, <2>2, UpdateNoMore
<1>2. CASE ~(IsStack(t) /\ m # t) /\ c = Carrier
  <2>0. Carrier # "ground"
    BY Apart DEF Held
  <2> DEFINE w == [g.worn EXCEPT ![i] = None]
  <2>1. RemoveThing(g, c, i, m) = [g EXCEPT !.worn = w]
    BY <1>2, <2>0, Zenon DEF RemoveThing
  <2>2. Wears(g, [g EXCEPT !.worn = w], i, None)
    BY DEF Wears, Whole, Fields, Keeps
  <2> HIDE DEF w
  <2> QED BY <2>1, <2>2, WearsNoMore
<1>3. CASE ~(IsStack(t) /\ m # t) /\ c # Carrier
  <2>0. c \in Held /\ g.inside[c] \in Seq(Thing)
    BY <1>3 DEF Holder, Whole
  <2>1. s \in Seq(Thing) /\ Len(s) = Len(g.inside[c]) - 1
    BY <1>3, <2>0, TakenFrom
  <2>2. RemoveThing(g, c, i, m) = IF c = "ground" THEN out ELSE weighed
    BY <1>3, Zenon DEF RemoveThing, Altered
  <2>3. Alters(g, out, c, s)
    <3> HIDE DEF s
    <3> QED BY AltersIs DEF Whole
  <2> HIDE DEF s, out, t
  <2>4. SameThings(out, told) /\ DOMAIN told = Fields
    BY <2>3, SameTold DEF Alters, SameThings, Keeps
  <2> HIDE DEF told
  <2>5. SameThings(told, weighed)
    BY <2>4, SameWeigh
  <2> HIDE DEF weighed
  <2>6. Alters(g, weighed, c, s)
    BY <2>3, <2>4, <2>5, SameTwice, AltersSame
  <2>7. Len(s) <= Len(g.inside[c])
    BY <2>0, <2>1
  <2>8. NoMore(g, out) /\ NoMore(g, weighed)
    BY <2>0, <2>1, <2>3, <2>6, <2>7, AltersNoMore
  <2>9. RemoveThing(g, c, i, m) \in {out, weighed}
    BY <2>2, Zenon
  <2> QED BY <2>8, <2>9
<1> QED BY <1>1, <1>2, <1>3

-----------------------------------------------------------------------------
(* The queries.                                                            *)

LEMMA LessOfTwo ==
  ASSUME NEW a \in Int, NEW b \in Int
  PROVE  Min({a, b}) \in {a, b} /\ Min({a, b}) <= a /\ Min({a, b}) <= b
<1>1. \E x \in {a, b} : \A y \in {a, b} : x <= y
  OBVIOUS
<1>2. Min({a, b}) \in {a, b} /\ \A y \in {a, b} : Min({a, b}) <= y
  BY <1>1 DEF Min
<1> QED BY <1>2

LEMMA MoreOfTwo ==
  ASSUME NEW a \in Int, NEW b \in Int, b <= a
  PROVE  Max({a, b}) = a
<1>1. \E x \in {a, b} : \A y \in {a, b} : x >= y
  OBVIOUS
<1>2. Max({a, b}) \in {a, b} /\ \A y \in {a, b} : Max({a, b}) >= y
  BY <1>1 DEF Max
<1> QED BY <1>2

\* What fills a stack makes no more than a stack, and is no more than what comes.
LEMMA FillingFits ==
  ASSUME NEW onto, NEW t, NEW m \in Nat
  PROVE  /\ Filling(onto, t, m) \in Nat /\ Filling(onto, t, m) <= m
         /\ Filling(onto, t, m) > 0 => onto + Filling(onto, t, m) \in Thing
<1>1. CASE IsStack(t) /\ IsStack(onto)
  <2>1. onto \in Nat /\ 1 <= onto /\ onto <= MaxStack /\ MaxStack \in Nat
    BY <1>1, StackIsNumber, Numbers
  <2> DEFINE n == Min({MaxStack - onto, m})
  <2>2. n \in {MaxStack - onto, m} /\ n <= MaxStack - onto /\ n <= m
    BY <2>1, LessOfTwo
  <2>3. Filling(onto, t, m) = n
    BY <1>1 DEF Filling
  <2> HIDE DEF n
  <2>4. n \in Nat /\ n <= m /\ onto + n \in Int /\ 1 <= onto + n /\ onto + n <= MaxStack
    BY <2>1, <2>2
  <2> QED BY <2>3, <2>4, NumberIsStack
<1>2. CASE ~(IsStack(t) /\ IsStack(onto))
  BY <1>2 DEF Filling
<1> QED BY <1>1, <1>2

LEMMA RoomOntoIs ==
  ASSUME NEW g, NEW c, NEW i
  PROVE  /\ RoomOnto(g, c, i) \in Nat
         /\ IsStack(ThingAt(g, c, i)) => RoomOnto(g, c, i) = MaxStack - ThingAt(g, c, i)
         /\ ~IsStack(ThingAt(g, c, i)) => RoomOnto(g, c, i) = 0
<1> DEFINE onto == ThingAt(g, c, i)
<1>1. RoomOnto(g, c, i) = IF IsStack(onto) THEN MaxStack - onto ELSE 0
  BY DEF RoomOnto
<1>2. IsStack(onto) => onto \in Nat /\ onto <= MaxStack
  BY StackIsNumber
<1> HIDE DEF onto
<1>3. /\ RoomOnto(g, c, i) \in Nat
      /\ IsStack(onto) => RoomOnto(g, c, i) = MaxStack - onto
      /\ ~IsStack(onto) => RoomOnto(g, c, i) = 0
  BY <1>1, <1>2, Numbers
<1> QED BY <1>3 DEF onto

\* In a full container there is room only on a stack.
LEMMA RoomInBagIs ==
  ASSUME NEW g, Whole(g), NEW c \in Bag, NEW i, NEW t
  PROVE  /\ RoomInBag(g, c, i, t) \in Nat
         /\ ~(Len(g.inside[c]) < Capacity[c]) =>
              RoomInBag(g, c, i, t) = IF IsStack(t) THEN RoomOnto(g, c, i) ELSE 0
<1> DEFINE free == Capacity[c] - Len(g.inside[c])
           onto == RoomOnto(g, c, i)
<1>1. free \in Nat /\ (~(Len(g.inside[c]) < Capacity[c]) => free = 0)
  <2>1. Len(g.inside[c]) \in Nat /\ Len(g.inside[c]) <= Capacity[c]
    BY DEF Whole, Held
  <2> QED BY <2>1, Numbers
<1>2. onto \in Nat
  BY RoomOntoIs
<1>3. RoomInBag(g, c, i, t) = LET f == Max({free, 0}) IN IF IsStack(t) THEN f * MaxStack + onto ELSE f
  BY DEF RoomInBag
<1> HIDE DEF free, onto
<1>4. Max({free, 0}) = free
  BY <1>1, MoreOfTwo
<1>5. free * MaxStack \in Nat /\ 0 * MaxStack = 0
  BY <1>1, Numbers
<1>6. RoomInBag(g, c, i, t) = IF IsStack(t) THEN free * MaxStack + onto ELSE free
  BY <1>3, <1>4
<1>7. RoomInBag(g, c, i, t) \in Nat
  BY <1>1, <1>2, <1>5, <1>6
<1>8. free = 0 => RoomInBag(g, c, i, t) = IF IsStack(t) THEN onto ELSE 0
  BY <1>2, <1>5, <1>6
<1> QED BY <1>1, <1>7, <1>8 DEF onto

\* If as many as there is room for do not all come onto the stack, there is room.
LEMMA RoomToLay ==
  ASSUME NEW g, Whole(g), NEW c \in Bag, NEW i, NEW t, NEW m \in Nat, m # 0,
         m <= RoomInBag(g, c, i, t),
         ~(IsStack(t) /\ m = Filling(ThingAt(g, c, i), t, m))
  PROVE  Len(g.inside[c]) < Capacity[c]
<1> SUFFICES ASSUME ~(Len(g.inside[c]) < Capacity[c]) PROVE FALSE
  OBVIOUS
<1> DEFINE onto == ThingAt(g, c, i)
<1>1. RoomInBag(g, c, i, t) = IF IsStack(t) THEN RoomOnto(g, c, i) ELSE 0
  BY RoomInBagIs
<1>2. IsStack(t) /\ m <= RoomOnto(g, c, i)
  BY <1>1
<1>3. IsStack(onto) /\ m <= MaxStack - onto
  BY <1>2, RoomOntoIs
<1>4. onto \in Nat
  BY <1>3, StackIsNumber
<1>5. Filling(onto, t, m) = Min({MaxStack - onto, m})
  BY <1>2, <1>3 DEF Filling
<1> HIDE DEF onto
<1>6. Min({MaxStack - onto, m}) = m
  <2> DEFINE a == MaxStack - onto
  <2>1. a \in Int /\ m <= a
    BY <1>3, <1>4, Numbers
  <2> HIDE DEF a
  <2>2. Min({a, m}) \in {a, m} /\ Min({a, m}) <= m
    BY <2>1, m \in Int, LessOfTwo
  <2>3. Min({a, m}) = m
    BY <2>1, <2>2
  <2> QED BY <2>3 DEF a
<1> QED BY <1>2, <1>5, <1>6 DEF onto

LEMMA RoomOnCarrierIs ==
  ASSUME NEW g, NEW i, NEW t
  PROVE  RoomOnCarrier(g, i, t) \in Nat
BY RoomOntoIs, Numbers DEF RoomOnCarrier

\* By the place.
LEMMA QueriesByPlace ==
  ASSUME NEW g, NEW c \in Holder, NEW i, NEW t, NEW from, NEW count
  PROVE  /\ c \in Bag => /\ QueryAdd(g, c, i, t, from) = BagAdmits(g, c, i, t, from)
                         /\ QueryMaxCount(g, c, i, t, count) = RoomInBag(g, c, i, t)
         /\ c = Carrier => /\ QueryAdd(g, c, i, t, from) = CarrierAdmits(g, i, t, from)
                           /\ QueryMaxCount(g, c, i, t, count) = RoomOnCarrier(g, i, t)
         /\ c = "ground" => /\ QueryAdd(g, c, i, t, from) = "ok"
                            /\ QueryMaxCount(g, c, i, t, count) = count
<1>1. Carrier # "ground" /\ "ground" \notin Bag /\ Carrier \notin Bag
  BY ContainersAssumption
<1> QED BY <1>1 DEF QueryAdd, QueryMaxCount

LEMMA RoomIsNumber ==
  ASSUME NEW g, Whole(g), NEW c \in Holder, NEW i, NEW t, NEW count \in Nat
  PROVE  QueryMaxCount(g, c, i, t, count) \in Nat
<1>1. c \in Bag \/ c = Carrier \/ c = "ground"
  BY DEF Holder, Held
<1> QED BY <1>1, QueriesByPlace, RoomInBagIs, RoomOnCarrierIs

LEMMA MovableIs ==
  ASSUME NEW g, Whole(g), NEW d, d.in \in Holder, NEW t, NEW count \in Nat
  PROVE  /\ Movable(g, d, t, count) \in Nat
         /\ Movable(g, d, t, count) <= QueryMaxCount(g, d.in, d.index, t, count)
<1> DEFINE max == QueryMaxCount(g, d.in, d.index, t, count)
<1>1. max \in Nat
  BY RoomIsNumber
<1>2. Movable(g, d, t, count) = IF IsStack(t) THEN Min({count, max}) ELSE max
  BY DEF Movable
<1> HIDE DEF max
<1>3. Min({count, max}) \in {count, max} /\ Min({count, max}) <= max
  BY <1>1, LessOfTwo
<1>4. Movable(g, d, t, count) \in Nat /\ Movable(g, d, t, count) <= max
  BY <1>1, <1>2, <1>3
<1> QED BY <1>4 DEF max

-----------------------------------------------------------------------------
(* internalMoveItem.                                                       *)

LEMMA FilledNoMore ==
  ASSUME NEW g, Whole(g), NEW c \in Holder, NEW i, NEW onto, NEW n,
         n > 0 => onto + n \in Thing
  PROVE  NoMore(g, Filled(g, c, i, onto, n))
<1>1. CASE n > 0
  <2>1. Filled(g, c, i, onto, n) = UpdateThing(g, c, i, onto + n)
    BY <1>1, Zenon DEF Filled
  <2> QED BY <1>1, <2>1, UpdateNoMore
<1>2. CASE ~(n > 0)
  <2>1. Filled(g, c, i, onto, n) = g
    BY <1>2, Zenon DEF Filled
  <2>2. SameThings(g, g)
    BY DEF SameThings, Whole, Keeps
  <2> QED BY <2>1, <2>2, SameIsWhole
<1> QED BY <1>1, <1>2

\* There is room for what is laid down.
HasRoom(g, c) == c \in Bag => Len(g.inside[c]) < Capacity[c]

LEMMA RoomStays ==
  ASSUME NEW g, NEW h, Whole(g), NoMore(g, h), NEW c, HasRoom(g, c)
  PROVE  Whole(h) /\ HasRoom(h, c)
<1>1. \A b \in Bag : Len(g.inside[b]) \in Nat /\ Len(h.inside[b]) \in Nat
  BY DEF NoMore, Whole, Held
<1> QED BY <1>1, Numbers DEF NoMore, HasRoom

\* The posts move nothing.
LEMMA PostsWhole ==
  ASSUME NEW g, Whole(g), NEW t, NEW from, NEW in
  PROVE  Whole(PostAdd(PostRemove(g, t, from), t, in)) /\ Whole(PostAdd(g, t, in))
<1> DEFINE h == PostRemove(g, t, from)
<1>1. Whole(h)
  BY SamePosts, SameIsWhole DEF Whole
<1> HIDE DEF h
<1>2. Whole(PostAdd(h, t, in)) /\ Whole(PostAdd(g, t, in))
  BY <1>1, SamePosts, SameIsWhole DEF Whole
<1> QED BY <1>2 DEF h

LEMMA LaidIsWhole ==
  ASSUME NEW g, Whole(g), NEW d, d.in \in Holder, NEW t \in Thing, NEW m \in Nat, NEW n \in Nat,
         n <= m, IsStack(t) => m <= t, (IsStack(t) /\ m = n) \/ HasRoom(g, d.in)
  PROVE  Whole(Laid(g, d, t, m, n))
<1>1. CASE IsStack(t) /\ m = n
  BY <1>1, Zenon DEF Laid
<1>2. CASE ~(IsStack(t) /\ m = n)
  <2>1. Laid(g, d, t, m, n) = AddThing(g, d.in, d.index, Rest(t, m, n))
    BY <1>2, Zenon DEF Laid
  <2>2. Rest(t, m, n) \in Thing
    <3>1. CASE IsStack(t)
      <4>1. t \in Nat /\ t <= MaxStack /\ MaxStack \in Nat /\ m <= t /\ m # n
        BY <1>2, <3>1, StackIsNumber, Numbers
      <4>2. m - n \in Int /\ 1 <= m - n /\ m - n <= MaxStack
        BY <4>1
      <4> QED BY <3>1, <4>2, NumberIsStack DEF Rest
    <3>2. CASE ~IsStack(t)
      BY <3>2 DEF Rest
    <3> QED BY <3>1, <3>2
  <2> QED BY <1>2, <2>1, <2>2, AddIsWhole DEF HasRoom
<1> QED BY <1>1, <1>2

\* What is at i of from goes to d.
LEMMA CarriedIsWhole ==
  ASSUME NEW g, Whole(g), NEW from \in Holder, NEW i, NEW d, d.in \in Holder,
         NEW t \in Thing, NEW onto, NEW m \in Nat,
         from # Carrier => i \in DOMAIN g.inside[from],
         IsStack(ThingAt(g, from, i)) => ThingAt(g, from, i) = t,
         m = 0 \/ (IsStack(t) /\ m = Filling(onto, t, m)) \/ HasRoom(g, d.in)
  PROVE  Whole(Carried(g, from, i, d, t, onto, m))
<1> DEFINE n == Filling(onto, t, m)
           gone == ~IsStack(t) \/ m = t
           at == d.index - (IF d.in = from /\ from # Carrier /\ gone /\ i < d.index THEN 1 ELSE 0)
           out == RemoveThing(g, from, i, m)
           filled == Filled(out, d.in, at, onto, n)
           laid == Laid(filled, d, t, m, n)
<1>1. CASE m = 0 \/ (IsStack(t) /\ m > t)
  BY <1>1, Zenon DEF Carried
<1>2. CASE ~(m = 0 \/ (IsStack(t) /\ m > t))
  <2>1. Carried(g, from, i, d, t, onto, m) = PostAdd(PostRemove(laid, t, from), t, d.in)
    BY <1>2, Zenon DEF Carried
  <2>2. IsStack(t) => t \in Nat /\ m <= t
    BY <1>2, StackIsNumber
  <2>3. NoMore(g, out)
    <3>1. IsStack(ThingAt(g, from, i)) => m \in 1..ThingAt(g, from, i)
      BY <1>2, <2>2
    <3> QED BY <3>1, RemoveNoMore
  <2> HIDE DEF out, at
  <2>4. Whole(out)
    BY <2>3 DEF NoMore
  <2>5. n \in Nat /\ n <= m /\ (n > 0 => onto + n \in Thing)
    BY FillingFits
  <2>6. (IsStack(t) /\ m = n) \/ HasRoom(g, d.in)
    BY <1>2
  <2> HIDE DEF n
  <2>7. NoMore(out, filled)
    BY <2>4, <2>5, FilledNoMore
  <2> HIDE DEF filled
  <2>8. NoMore(g, filled)
    BY <2>3, <2>7, NoMoreTwice
  <2>9. Whole(filled) /\ ((IsStack(t) /\ m = n) \/ HasRoom(filled, d.in))
    BY <2>6, <2>8, RoomStays DEF NoMore
  <2>10. Whole(laid)
    BY <2>2, <2>5, <2>9, LaidIsWhole
  <2> HIDE DEF laid
  <2> QED BY <2>1, <2>10, PostsWhole
<1> QED BY <1>1, <1>2

\* A thing worn is taken off as a whole.
LEMMA TakenOff ==
  ASSUME NEW g, Whole(g), NEW i
  PROVE  LET h == RemoveThing(g, Carrier, i, ItemCount(ThingAt(g, Carrier, i)))
         IN  Whole(h) /\ h.inside = g.inside
<1> DEFINE t == ThingAt(g, Carrier, i)
           h == RemoveThing(g, Carrier, i, ItemCount(t))
           w == [g.worn EXCEPT ![i] = None]
<1>1. ~(IsStack(t) /\ ItemCount(t) # t)
  BY DEF ItemCount
<1>2. Carrier # "ground"
  BY Apart DEF Held
<1>3. h = [g EXCEPT !.worn = w]
  BY <1>1, <1>2, Zenon DEF RemoveThing
<1>4. Wears(g, [g EXCEPT !.worn = w], i, None)
  BY DEF Wears, Whole, Fields, Keeps
<1> HIDE DEF w, h
<1>5. Wears(g, h, i, None)
  BY <1>3, <1>4
<1>6. Whole(h) /\ h.inside = g.inside
  BY <1>5, WearsNoMore DEF NoMore, Wears, Keeps
<1> QED BY <1>6 DEF h

\* What is exchanged goes in front of the others, and there is room for it.
LEMMA ExchangeIsWhole ==
  ASSUME NEW g, Whole(g), NEW from \in Holder, NEW d, d.in = Carrier,
         ThingAt(g, Carrier, d.index) # None, HasRoom(g, from)
  PROVE  /\ Whole(Exchanged(g, from, d))
         /\ from # Carrier => Exchanged(g, from, d).inside[from]
                                = <<ThingAt(g, Carrier, d.index)>> \o g.inside[from]
<1> DEFINE other == ThingAt(g, Carrier, d.index)
           out == RemoveThing(g, Carrier, d.index, ItemCount(other))
           put == AddThing(out, from, Wherever, other)
           removed == PostRemove(put, other, Carrier)
<1>1. Exchanged(g, from, d) = PostAdd(removed, other, from)
  BY Zenon DEF Exchanged
<1>2. other \in Thing
  BY ThingHere DEF Holder
<1>3. Whole(out) /\ out.inside = g.inside
  BY TakenOff
<1> HIDE DEF other, out
<1>4. Whole(put)
  BY <1>2, <1>3, AddIsWhole DEF HasRoom
<1>5. from # Carrier => put.inside[from] = <<other>> \o g.inside[from]
  <2> SUFFICES ASSUME from # Carrier PROVE put.inside[from] = <<other>> \o g.inside[from]
    OBVIOUS
  <2>1. from \in Held
    BY DEF Holder
  <2> DEFINE s == <<other>> \o out.inside[from]
             p == Put(out, from, other)
  <2>2. put = p
    BY Zenon DEF AddThing
  <2>3. Alters(out, p, from, s)
    BY <1>3, <2>1, PutAlters
  <2> HIDE DEF s, put, p
  <2>4. p.inside[from] = s
    BY <1>3, <2>1, <2>3 DEF Alters, Whole, Keeps
  <2>5. s = <<other>> \o g.inside[from]
    BY <1>3 DEF s
  <2> QED BY <2>2, <2>4, <2>5
<1> HIDE DEF put
<1>6. SameThings(put, removed) /\ DOMAIN removed = Fields
  BY <1>4, SamePosts DEF SameThings, Whole, Keeps
<1> HIDE DEF removed
<1>7. SameThings(put, PostAdd(removed, other, from))
  BY <1>6, SamePosts, SameTwice
<1>8. Whole(PostAdd(removed, other, from)) /\ PostAdd(removed, other, from).inside = put.inside
  BY <1>4, <1>7, SameIsWhole DEF SameThings, Keeps
<1> QED BY <1>1, <1>5, <1>8 DEF other

\* Room for what is given in exchange.
LEMMA RoomToExchange ==
  ASSUME NEW g, Whole(g), NEW from \in Holder, NEW i, NEW d, MayExchange(g, from, i, d)
  PROVE  HasRoom(g, from)
<1> SUFFICES ASSUME from \in Bag, ~(Len(g.inside[from]) < Capacity[from]) PROVE FALSE
  BY DEF HasRoom
<1> DEFINE other == ThingAt(g, d.in, d.index)
<1>1. QueryMaxCount(g, from, Wherever, other, ItemCount(other)) > 0
  BY Zenon DEF MayExchange
<1> HIDE DEF other
<1>2. RoomInBag(g, from, Wherever, other) > 0
  BY <1>1, QueriesByPlace
<1>3. RoomOnto(g, from, Wherever) = 0
  <2>1. g.inside[from] \in Seq(Thing) /\ from # Carrier
    BY Apart DEF Whole, Held
  <2>2. -1 \notin DOMAIN g.inside[from]
    BY <2>1
  <2>3. ThingAt(g, from, Wherever) = None
    BY <2>1, <2>2 DEF ThingAt, Wherever
  <2> QED BY <2>3, Apart, RoomOntoIs
<1> QED BY <1>2, <1>3, RoomInBagIs

\* Only what is worn is exchanged.
LEMMA OnlyWornGivesWay ==
  ASSUME NEW g, NEW d, d.in \in Holder, NEW t, NEW from,
         QueryAdd(g, d.in, d.index, t, from) # "ok",
         QueryAdd(g, d.in, d.index, t, from) # "refused"
  PROVE  d.in = Carrier /\ ThingAt(g, Carrier, d.index) # None
<1>1. d.in \in Bag \/ d.in = Carrier \/ d.in = "ground"
  BY DEF Holder, Held
<1>2. d.in # "ground"
  BY QueriesByPlace
<1>3. d.in \notin Bag
  BY QueriesByPlace DEF BagAdmits
<1>4. d.in = Carrier /\ CarrierAdmits(g, d.index, t, from) # "ok"
                     /\ CarrierAdmits(g, d.index, t, from) # "refused"
  BY <1>1, <1>2, <1>3, QueriesByPlace
<1>5. d.index \in Slot /\ g.worn[d.index] # None
  BY <1>4, Zenon DEF CarrierAdmits
<1> QED BY <1>4, <1>5 DEF ThingAt

LEMMA FollowsIsWhole ==
  ASSUME NEW g, Whole(g), NEW from \in Holder, NEW i, NEW d, d.in = Carrier,
         NEW t \in Thing, NEW count \in Nat,
         from # Carrier => i \in DOMAIN g.inside[from],
         IsStack(ThingAt(g, from, i)) => ThingAt(g, from, i) = t
  PROVE  Whole(Follows(g, from, i, d, t, count))
<1> DEFINE m == Movable(g, d, t, count)
<1>1. d.in \in Holder /\ HasRoom(g, d.in)
  BY Apart DEF Holder, Held, HasRoom
<1>2. m \in Nat
  BY <1>1, MovableIs
<1>3. Follows(g, from, i, d, t, count) \in {g, Carried(g, from, i, d, t, None, m)}
  BY Zenon DEF Follows
<1> HIDE DEF m
<1>4. Whole(Carried(g, from, i, d, t, None, m))
  BY <1>1, <1>2, CarriedIsWhole
<1> QED BY <1>3, <1>4

LEMMA MoveToIsWhole ==
  ASSUME NEW g, Whole(g), NEW from \in Holder, NEW i, NEW d, d.in \in Holder, NEW t,
         t = ThingAt(g, from, i), t # None, NEW count \in Nat
  PROVE  Whole(MoveTo(g, from, i, d, t, count))
<1> DEFINE answer == QueryAdd(g, d.in, d.index, t, from)
           onto == ThingAt(g, d.in, d.index)
           m == Movable(g, d, t, count)
           carried == Carried(g, from, i, d, t, onto, m)
           swapped == Exchanged(g, from, d)
           follows == Follows(swapped, from, i + 1, d, t, count)
<1>0. t \in Thing /\ (from # Carrier => i \in DOMAIN g.inside[from])
  BY ThingHere
<1>1. \/ MoveTo(g, from, i, d, t, count) = g
      \/ answer = "ok" /\ MoveTo(g, from, i, d, t, count) = carried
      \/ /\ answer # "ok" /\ answer # "refused" /\ MayExchange(g, from, i, d)
         /\ MoveTo(g, from, i, d, t, count) = follows
  BY Zenon DEF MoveTo
<1>2. CASE answer = "ok" /\ MoveTo(g, from, i, d, t, count) = carried
  <2>1. m \in Nat /\ m <= QueryMaxCount(g, d.in, d.index, t, count)
    BY MovableIs
  <2>2. m = 0 \/ (IsStack(t) /\ m = Filling(onto, t, m)) \/ HasRoom(g, d.in)
    <3> HIDE DEF m
    <3> SUFFICES ASSUME m # 0, ~(IsStack(t) /\ m = Filling(onto, t, m)), d.in \in Bag
                 PROVE  Len(g.inside[d.in]) < Capacity[d.in]
      BY DEF HasRoom
    <3>1. m <= RoomInBag(g, d.in, d.index, t)
      BY <2>1, QueriesByPlace
    <3> QED BY <2>1, <3>1, RoomToLay
  <2> HIDE DEF m, onto
  <2>3. Whole(carried)
    BY <1>0, <2>1, <2>2, CarriedIsWhole
  <2> QED BY <1>2, <2>3
<1>3. CASE /\ answer # "ok" /\ answer # "refused" /\ MayExchange(g, from, i, d)
           /\ MoveTo(g, from, i, d, t, count) = follows
  <2>1. d.in = Carrier /\ ThingAt(g, Carrier, d.index) # None
    BY <1>3, OnlyWornGivesWay
  <2>2. HasRoom(g, from)
    BY <1>3, RoomToExchange
  <2> DEFINE other == ThingAt(g, Carrier, d.index)
  <2>3. Whole(swapped) /\ (from # Carrier => swapped.inside[from] = <<other>> \o g.inside[from])
    BY <2>1, <2>2, ExchangeIsWhole
  <2>4. other \in Thing
    BY <2>1, ThingHere DEF Holder
  <2> HIDE DEF swapped, other
  <2>5. /\ from # Carrier => i + 1 \in DOMAIN swapped.inside[from]
        /\ IsStack(ThingAt(swapped, from, i + 1)) => ThingAt(swapped, from, i + 1) = t
    <3>1. CASE from # Carrier
      <4> DEFINE s == g.inside[from]
                 r == <<other>> \o s
      <4>1. s \in Seq(Thing) /\ i \in DOMAIN s
        BY <1>0, <3>1 DEF Whole, Holder
      <4>2. r \in Seq(Thing) /\ InFront(r, s, other)
        BY <2>4, <4>1, PutInFront
      <4>3. t = s[i]
        BY <3>1, <4>1 DEF ThingAt
      <4>4. swapped.inside[from] = r
        BY <2>3, <3>1
      <4> HIDE DEF r, s
      <4>5. i + 1 \in DOMAIN r /\ r[i + 1] = s[i]
        BY <4>1, <4>2 DEF InFront
      <4>6. ThingAt(swapped, from, i + 1) = t
        BY <3>1, <4>3, <4>4, <4>5 DEF ThingAt
      <4> QED BY <4>4, <4>5, <4>6
    <3>2. CASE from = Carrier
      <4>1. i = 3 \/ i = 10
        BY <3>2, ThingHere, Apart DEF Backpack, Ammo
      <4>2. i + 1 \notin Slot
        BY <4>1, Apart DEF Backpack, Ammo
      <4>3. ThingAt(swapped, from, i + 1) = None
        BY <3>2, <4>2 DEF ThingAt
      <4> QED BY <3>2, <4>3, Apart
    <3> QED BY <3>1, <3>2
  <2>6. Whole(follows)
    BY <1>0, <2>1, <2>3, <2>5, FollowsIsWhole
  <2> QED BY <1>3, <2>6
<1> QED BY <1>1, <1>2, <1>3

\* A thing goes on to a place, and from there to a place, until it has come.
LEMMA LeastOfTwo ==
  ASSUME NEW S \in SUBSET {1, 2}, S # {}
  PROVE  Min(S) \in S
<1>1. CASE 1 \in S
  <2>1. 1 \in S /\ \A y \in S : 1 <= y
    BY <1>1
  <2> QED BY <2>1 DEF Min
<1>2. CASE 1 \notin S
  <2>0. \A y \in S : y = 2
    BY <1>2
  <2>1. PICK z \in S : TRUE
    OBVIOUS
  <2>2. 2 \in S /\ \A y \in S : 2 <= y
    BY <2>0, <2>1
  <2> QED BY <2>2 DEF Min
<1> QED BY <1>1, <1>2

LEMMA OnwardIsPlace ==
  ASSUME NEW g, Whole(g), NEW d, d.in \in Holder, NEW t, NEW from
  PROVE  Onward(g, d, t, from).in \in Holder
<1>1. d.in \in Bag \/ d.in = Carrier \/ d.in = "ground"
  BY DEF Holder, Held
<1>2. Carrier # "ground" /\ "ground" \notin Bag /\ Carrier \notin Bag
  BY ContainersAssumption
<1>3. Bag \subseteq Holder /\ Carrier \in Holder /\ "ground" \in Holder
  BY DEF Holder, Held
<1>4. CASE d.in = "ground"
  <2>1. Onward(g, d, t, from) = [in |-> "ground", index |-> 1]
    BY <1>2, <1>4, Zenon DEF Onward
  <2> QED BY <1>3, <2>1
<1>5. CASE d.in = Carrier
  <2>1. Onward(g, d, t, from) = OnwardOnCarrier(g, d, t, from)
    BY <1>2, <1>5, Zenon DEF Onward
  <2> DEFINE bags == {b \in Bag : /\ Root(g, b) = Carrier
                                  /\ QueryAdd(g, b, Wherever, t, from) = "ok"}
             worn == {j \in DOMAIN SlotOrder : g.worn[SlotOrder[j]] \in bags}
             o == OnwardOnCarrier(g, d, t, from)
             into(b) == [in |-> b, index |-> Wherever]
             first == g.worn[SlotOrder[Min(worn)]]
             some == CHOOSE b \in bags : TRUE
  <2>2. \/ o = d \/ (\E k : o = [in |-> Carrier, index |-> k])
        \/ g.worn[d.index] \in Bag /\ o = into(g.worn[d.index])
        \/ worn # {} /\ o = into(first)
        \/ bags # {} /\ o = into(some)
    BY Zenon DEF OnwardOnCarrier
  <2>3. worn # {} => first \in Bag
    <3>1. worn \in SUBSET {1, 2}
      BY DEF SlotOrder
    <3>2. worn # {} => Min(worn) \in worn
      BY <3>1, LeastOfTwo
    <3> QED BY <3>2
  <2>4. bags # {} => some \in Bag
    <3>1. bags \subseteq Bag
      OBVIOUS
    <3> HIDE DEF bags
    <3> QED BY <3>1
  <2> HIDE DEF bags, worn, o, first, some
  <2>5. o.in \in Holder
    BY <1>3, <2>2, <2>3, <2>4
  <2> QED BY <2>1, <2>5 DEF o
<1>6. CASE d.in \in Bag
  <2>1. Onward(g, d, t, from) = OnwardInBag(g, d, t, from)
    BY <1>2, <1>6, Zenon DEF Onward
  <2> DEFINE o == OnwardInBag(g, d, t, from)
             c == d.in
  <2>2. \/ o = d \/ \E k : o = [in |-> c, index |-> k]
        \/ \E b \in Bag : o = [in |-> b, index |-> Wherever]
    BY Zenon DEF OnwardInBag
  <2> HIDE DEF o
  <2>3. o.in \in Holder
    BY <1>3, <1>6, <2>2
  <2> QED BY <2>1, <2>3 DEF o
<1> QED BY <1>1, <1>4, <1>5, <1>6

LEMMA DestinationIsPlace ==
  ASSUME NEW g, Whole(g), NEW d, d.in \in Holder, NEW t, NEW from
  PROVE  Destination(g, d, t, from).in \in Holder
<1> DEFINE E(f, n) == f = [k \in 0..n |-> IF k = 0 THEN d ELSE Onward(g, f[k - 1], t, from)]
           Q == {n \in Nat : \E f : E(f, n) /\ \A k \in 0..n : f[k].in \in Holder}
           N == Cardinality(Bag) + 2
           step == CHOOSE f : E(f, N)
<1>1. 0 \in Q
  <2> DEFINE f == [k \in 0..0 |-> d]
  <2>1. E(f, 0) /\ \A k \in 0..0 : f[k].in \in Holder
    OBVIOUS
  <2> QED BY <2>1
<1>2. ASSUME NEW n \in Q PROVE n + 1 \in Q
  <2>1. n \in Nat
    OBVIOUS
  <2>2. PICK f : E(f, n) /\ \A k \in 0..n : f[k].in \in Holder
    OBVIOUS
  <2> DEFINE next == Onward(g, f[n], t, from)
             h == [k \in 0..(n + 1) |-> IF k = n + 1 THEN next ELSE f[k]]
  <2>3. next.in \in Holder
    BY <2>1, <2>2, OnwardIsPlace
  <2>4. \A k \in 0..n : h[k] = f[k]
    BY <2>1
  <2>5. h[n + 1] = next /\ h[n] = f[n]
    BY <2>1
  <2>6. ASSUME NEW k \in 0..(n + 1)
        PROVE  /\ h[k] = IF k = 0 THEN d ELSE Onward(g, h[k - 1], t, from)
               /\ h[k].in \in Holder
    <3>1. CASE k = n + 1
      <4>1. k # 0 /\ k - 1 = n
        BY <2>1, <3>1
      <4> HIDE DEF h
      <4>2. h[k] = next /\ h[k - 1] = f[n]
        BY <2>5, <3>1, <4>1
      <4> QED BY <2>3, <4>1, <4>2
    <3>2. CASE k # n + 1
      <4>1. k \in 0..n /\ (k # 0 => k - 1 \in 0..n)
        BY <2>1, <3>2
      <4> HIDE DEF h
      <4>2. h[k] = f[k] /\ (k # 0 => h[k - 1] = f[k - 1])
        BY <2>4, <4>1
      <4>3. f[k] = IF k = 0 THEN d ELSE Onward(g, f[k - 1], t, from)
        BY <2>2, <4>1
      <4> QED BY <2>2, <4>1, <4>2, <4>3
    <3> QED BY <3>1, <3>2
  <2>7. h = [k \in 0..(n + 1) |-> h[k]]
    OBVIOUS
  <2> HIDE DEF h
  <2>8. E(h, n + 1)
    BY <2>6, <2>7
  <2>9. \A k \in 0..(n + 1) : h[k].in \in Holder
    BY <2>6
  <2> HIDE DEF E
  <2> QED BY <2>1, <2>8, <2>9
<1>3. Q = Nat
  <2>1. Q \in SUBSET Nat
    OBVIOUS
  <2> HIDE DEF Q
  <2> QED BY <1>1, <1>2, <2>1, AllNumbers
<1>4. N \in Nat
  BY ContainersAssumption, FS_CardinalityType
<1>5. Destination(g, d, t, from) = step[N]
  BY DEF Destination
<1> HIDE DEF N
<1>6. PICK f : E(f, N) /\ \A k \in 0..N : f[k].in \in Holder
  BY <1>3, <1>4
<1>7. E(step, N)
  BY <1>6
<1> HIDE DEF step
<1> DEFINE R == {n \in Nat : n <= N => step[n].in \in Holder}
<1>8. 0 \in R
  BY <1>4, <1>7
<1>9. ASSUME NEW n \in R PROVE n + 1 \in R
  <2> SUFFICES ASSUME n + 1 <= N PROVE step[n + 1].in \in Holder
    OBVIOUS
  <2>1. step[n].in \in Holder
    BY <1>4
  <2>2. n + 1 \in 0..N /\ n + 1 # 0 /\ (n + 1) - 1 = n
    BY <1>4
  <2>3. step[n + 1] = Onward(g, step[n], t, from)
    BY <1>7, <2>2
  <2> QED BY <2>1, <2>3, OnwardIsPlace
<1>10. R = Nat
  <2>1. R \in SUBSET Nat
    OBVIOUS
  <2> HIDE DEF R
  <2> QED BY <1>8, <1>9, <2>1, AllNumbers
<1>11. N \in R
  <2> HIDE DEF R
  <2> QED BY <1>4, <1>10
<1>12. step[N].in \in Holder
  BY <1>4, <1>11
<1> QED BY <1>5, <1>12

LEMMA InternalMoveIsWhole ==
  ASSUME NEW g, Whole(g), NEW from \in Holder, NEW i, ThingAt(g, from, i) # None,
         NEW to, to.in \in Holder, NEW count \in Nat
  PROVE  Whole(InternalMoveItem(g, from, i, to, count))
<1> DEFINE t == ThingAt(g, from, i)
           d == Destination(g, to, t, from)
<1>1. d.in \in Holder
  BY DestinationIsPlace
<1>2. InternalMoveItem(g, from, i, to, count) = MoveTo(g, from, i, d, t, count)
  BY Zenon DEF InternalMoveItem
<1> HIDE DEF d
<1> QED BY <1>1, <1>2, MoveToIsWhole

-----------------------------------------------------------------------------
(* What is added, removed and paid.                                        *)

LEMMA AddAtIsWhole ==
  ASSUME NEW g, Whole(g), NEW d, d.in \in Holder, NEW t \in Thing
  PROVE  Whole(AddAt(g, d, t))
<1> DEFINE onto == ThingAt(g, d.in, d.index)
           m == ItemCount(t)
           n == Filling(onto, t, t)
           filled == Filled(g, d.in, d.index, onto, n)
           rest == Rest(t, t, n)
           put == AddThing(filled, d.in, d.index, rest)
           room == QueryMaxCount(g, d.in, d.index, t, m)
<1>0. m \in Nat /\ m # 0 /\ (IsStack(t) => m = t /\ t \in Nat) /\ (~IsStack(t) => m = 1)
  BY StackIsNumber DEF ItemCount
<1>1. n \in Nat /\ n <= m /\ (n > 0 => onto + n \in Thing) /\ (~IsStack(t) => n = 0)
  <2>1. CASE IsStack(t)
    BY <1>0, <2>1, FillingFits
  <2>2. CASE ~IsStack(t)
    BY <1>0, <2>2 DEF Filling
  <2> QED BY <2>1, <2>2
<1>2. \/ AddAt(g, d, t) = g \/ AddAt(g, d, t) = filled
      \/ /\ ~(room < m) /\ n # m
         /\ AddAt(g, d, t) = PostAdd(put, rest, d.in)
  BY Zenon DEF AddAt
<1>3. NoMore(g, filled)
  <2> HIDE DEF n, onto
  <2> QED BY <1>1, FilledNoMore
<1>4. ASSUME ~(room < m), n # m
      PROVE  Whole(PostAdd(put, rest, d.in))
  <2>1. HasRoom(g, d.in)
    <3> SUFFICES ASSUME d.in \in Bag PROVE Len(g.inside[d.in]) < Capacity[d.in]
      BY DEF HasRoom
    <3>1. room = RoomInBag(g, d.in, d.index, t)
      BY QueriesByPlace
    <3>2. m <= RoomInBag(g, d.in, d.index, t)
      <4>1. RoomInBag(g, d.in, d.index, t) \in Nat
        BY RoomInBagIs
      <4> HIDE DEF room, m
      <4> QED BY <1>0, <1>4, <3>1, <4>1
    <3>3. ~(IsStack(t) /\ m = Filling(onto, t, m))
      BY <1>0, <1>4
    <3> HIDE DEF m, room
    <3> QED BY <1>0, <3>2, <3>3, RoomToLay
  <2>2. Whole(filled) /\ HasRoom(filled, d.in)
    BY <1>3, <2>1, RoomStays
  <2>3. rest \in Thing
    <3>1. CASE IsStack(t)
      <4> HIDE DEF n
      <4>1. t \in Nat /\ t <= MaxStack /\ MaxStack \in Nat /\ n # t /\ n <= t
        BY <1>0, <1>1, <1>4, <3>1, StackIsNumber, Numbers
      <4>2. t - n \in Int /\ 1 <= t - n /\ t - n <= MaxStack
        BY <1>1, <4>1
      <4> QED BY <3>1, <4>2, NumberIsStack DEF Rest
    <3>2. CASE ~IsStack(t)
      BY <3>2 DEF Rest
    <3> QED BY <3>1, <3>2
  <2> HIDE DEF filled, rest
  <2>4. Whole(put)
    BY <2>2, <2>3, AddIsWhole DEF HasRoom
  <2> HIDE DEF put
  <2> QED BY <2>4, PostsWhole
<1>5. Whole(filled)
  BY <1>3 DEF NoMore
<1> HIDE DEF filled, put, rest, room, m, n
<1> QED BY <1>2, <1>4, <1>5

LEMMA AddItemIsWhole ==
  ASSUME NEW g, Whole(g), NEW c \in Holder, NEW t \in Thing
  PROVE  Whole(InternalAddItem(g, c, t))
<1> DEFINE at == [in |-> c, index |-> Wherever]
           d == Onward(g, at, t, None)
<1>1. at.in \in Holder
  OBVIOUS
<1> HIDE DEF at
<1>2. d.in \in Holder
  BY <1>1, OnwardIsPlace
<1>3. InternalAddItem(g, c, t) = AddAt(g, d, t)
  BY Zenon DEF InternalAddItem, at
<1> HIDE DEF d
<1> QED BY <1>2, <1>3, AddAtIsWhole

LEMMA PlayerAddIsWhole ==
  ASSUME NEW g, Whole(g), NEW t \in Thing
  PROVE  Whole(InternalPlayerAddItem(g, t))
<1> DEFINE in == InternalAddItem(g, Carrier, t)
           put == Put(g, Ground, t)
<1>1. Whole(in)
  BY AddItemIsWhole DEF Holder
<1>2. Whole(put)
  <2>1. "ground" \in Held /\ "ground" \notin Bag
    BY ContainersAssumption DEF Held
  <2> QED BY <2>1, PutIsWhole
<1>3. InternalPlayerAddItem(g, t) \in {in, PostAdd(put, t, Ground)}
  BY Zenon DEF InternalPlayerAddItem, OrDropped
<1> HIDE DEF in, put
<1>4. Whole(PostAdd(put, t, Ground))
  BY <1>2, PostsWhole
<1> QED BY <1>1, <1>3, <1>4

LEMMA EmptiedIsWhole ==
  ASSUME NEW g, Whole(g), NEW gone
  PROVE  Whole(Emptied(g, gone))
<1> DEFINE f == [d \in DOMAIN g.inside |-> IF d \in gone THEN <<>> ELSE g.inside[d]]
           w == [d \in Bag |-> IF d \in gone THEN 0 ELSE g.weight[d]]
           h == [g EXCEPT !.inside = f, !.weight = w]
<1>1. Emptied(g, gone) = h
  BY Zenon DEF Emptied
<1>2. /\ f \in [Held -> Seq(Thing)]
      /\ \A c \in Bag : Len(f[c]) <= Capacity[c]
  <2>1. DOMAIN g.inside = Held /\ \A c \in Held : g.inside[c] \in Seq(Thing)
    BY DEF Whole
  <2>2. <<>> \in Seq(Thing) /\ Len(<<>>) = 0
    OBVIOUS
  <2>3. f \in [Held -> Seq(Thing)]
    BY <2>1, <2>2
  <2>4. ASSUME NEW c \in Bag PROVE Len(f[c]) <= Capacity[c]
    <3>1. f[c] = IF c \in gone THEN <<>> ELSE g.inside[c]
      BY <2>1 DEF Held
    <3>2. Len(g.inside[c]) <= Capacity[c]
      BY DEF Whole
    <3> QED BY <2>2, <3>1, <3>2, Numbers
  <2> QED BY <2>3, <2>4
<1> HIDE DEF f, w
<1>3. DOMAIN h = Fields /\ h.inside = f /\ h.worn = g.worn /\ h.window = g.window
  BY DEF Whole, Fields
<1> HIDE DEF h
<1>4. Whole(h)
  BY <1>2, <1>3 DEF Whole
<1> QED BY <1>1, <1>4

LEMMA RemoveItemIsWhole ==
  ASSUME NEW g, Whole(g), NEW c \in Holder, NEW i, NEW m,
         ThingAt(g, c, i) # None,
         IsStack(ThingAt(g, c, i)) => m \in 1..ThingAt(g, c, i)
  PROVE  Whole(InternalRemoveItem(g, c, i, m))
<1> DEFINE t == ThingAt(g, c, i)
           out == RemoveThing(g, c, i, m)
           h == PostRemove(out, t, c)
           gone == IF t \in Bag THEN Within(g, t) ELSE {}
<1>1. Whole(out)
  <2>1. c # Carrier => i \in DOMAIN g.inside[c]
    BY ThingHere
  <2> QED BY <2>1, RemoveNoMore DEF NoMore
<1>2. InternalRemoveItem(g, c, i, m) = Emptied(h, gone)
  BY Zenon DEF InternalRemoveItem
<1> HIDE DEF out, t, gone
<1>3. Whole(h)
  BY <1>1, SamePosts, SameIsWhole DEF Whole
<1> HIDE DEF h
<1> QED BY <1>2, <1>3, EmptiedIsWhole

\* A set of numbers has a least one.
LEMMA LeastNumber ==
  ASSUME NEW S \in SUBSET Nat, S # {}
  PROVE  \E x \in S : \A y \in S : x <= y
<1>1. PICK x \in S : \A y \in S : ~(<<y, x>> \in OpToRel(<, Nat))
  BY NatLessThanWellFounded, WFMin
<1>2. ASSUME NEW y \in S PROVE x <= y
  <2>1. x \in Nat /\ y \in Nat
    OBVIOUS
  <2>2. y < x => <<y, x>> \in OpToRel(<, Nat)
    BY <2>1 DEF OpToRel
  <2>3. ~(y < x)
    BY <1>1, <2>2
  <2> QED BY <2>1, <2>3
<1> QED BY <1>2

LEMMA PurseIs ==
  ASSUME NEW g, NEW at \in Purse(g)
  PROVE  /\ at.in \in Holder /\ IsStack(ThingAt(g, at.in, at.index))
         /\ at.index \in Nat
<1>1. Bag \subseteq Holder /\ Carrier \in Holder /\ \A s \in Slot : s \in Nat
  BY Apart DEF Holder, Held, Backpack, Ammo
<1>2. IsStack(ThingAt(g, at.in, at.index))
  BY Zenon DEF Purse
<1>3. \/ at \in [in : {Carrier}, index : Slot]
      \/ at \in [in : {b \in Bag : Root(g, b) = Carrier}, index : 1..About]
  BY Zenon DEF Purse
<1>4. at.in \in Holder /\ at.index \in Nat
  BY <1>1, <1>3, Numbers
<1> QED BY <1>2, <1>4

\* The stack that pays first is one of those that there are.
LEMMA SmallestIsInPurse ==
  ASSUME NEW g, Purse(g) # {}
  PROVE  Smallest(g) \in Purse(g)
<1> DEFINE size(at) == ThingAt(g, at.in, at.index)
           small == {at \in Purse(g) : \A other \in Purse(g) : size(at) <= size(other)}
           First(at) == \A other \in small :
                          \/ at.in = Carrier
                          \/ other.in # Carrier /\ (other.in = at.in => at.index <= other.index)
<1>1. small # {}
  <2> DEFINE S == {size(at) : at \in Purse(g)}
  <2>1. S \in SUBSET Nat /\ S # {}
    <3>1. ASSUME NEW at \in Purse(g) PROVE size(at) \in Nat
      BY PurseIs, StackIsNumber
    <3> HIDE DEF size
    <3> QED BY <3>1
  <2> HIDE DEF S
  <2>2. PICK x \in S : \A y \in S : x <= y
    BY <2>1, LeastNumber
  <2> HIDE DEF size
  <2>3. PICK at \in Purse(g) : size(at) = x
    BY <2>2 DEF S
  <2>4. ASSUME NEW other \in Purse(g) PROVE size(at) <= size(other)
    BY <2>2, <2>3 DEF S
  <2> QED BY <2>4
<1>2. small \subseteq Purse(g)
  OBVIOUS
<1>3. Smallest(g) = CHOOSE at \in small : First(at)
  BY Zenon DEF Smallest
<1> HIDE DEF small
<1>4. \E at \in small : First(at)
  <2>1. CASE \E at \in small : at.in = Carrier
    BY <2>1
  <2>2. CASE \A at \in small : at.in # Carrier
    <3>1. PICK o \in small : TRUE
      BY <1>1
    <3> DEFINE S == {at.index : at \in {x \in small : x.in = o.in}}
    <3>2. S \in SUBSET Nat /\ S # {}
      BY <1>2, PurseIs
    <3> HIDE DEF S
    <3>3. PICK k \in S : \A y \in S : k <= y
      BY <3>2, LeastNumber
    <3>4. PICK at \in small : at.in = o.in /\ at.index = k
      BY <3>3 DEF S
    <3>5. ASSUME NEW other \in small, other.in = at.in PROVE at.index <= other.index
      BY <3>3, <3>4, <3>5 DEF S
    <3> QED BY <2>2, <3>5
  <2> QED BY <2>1, <2>2
<1> HIDE DEF First
<1>5. Smallest(g) \in small
  BY <1>3, <1>4, Zenon
<1> QED BY <1>2, <1>5

\* Each stack that pays takes off what is owed, and change is given.
GoodPay(x) == Whole(x.now) /\ x.owed \in Nat
PaysOn(x) == PayWith(x, Smallest(x.now))

LEMMA PayWithIsGood ==
  ASSUME NEW x, GoodPay(x)
  PROVE  GoodPay(PaysOn(x))
<1> DEFINE at == Smallest(x.now)
           worth == ThingAt(x.now, at.in, at.index)
           left == InternalRemoveItem(x.now, at.in, at.index, worth)
           change == Change(left, worth, x.owed)
<1>1. x.owed = 0 \/ Purse(x.now) = {} => PaysOn(x) = x
  BY Zenon DEF PaysOn, PayWith
<1>2. ASSUME x.owed # 0, Purse(x.now) # {} PROVE GoodPay(PaysOn(x))
  <2>1. PaysOn(x) = change
    BY <1>2, Zenon DEF PaysOn, PayWith
  <2>2. at \in Purse(x.now)
    BY <1>2, SmallestIsInPurse
  <2> HIDE DEF at
  <2>3. at.in \in Holder /\ IsStack(worth)
    BY <2>2, PurseIs
  <2>4. worth \in Nat /\ 1 <= worth /\ worth <= MaxStack /\ worth # None
    BY <2>3, StackIsNumber, Apart
  <2>5. Whole(left)
    <3>1. worth \in 1..worth
      BY <2>4
    <3> QED BY <2>3, <2>4, <3>1, RemoveItemIsWhole DEF GoodPay
  <2> HIDE DEF worth, left
  <2>6. CASE worth > x.owed
    <3>1. worth - x.owed \in Thing
      <4>1. worth - x.owed \in Int /\ 1 <= worth - x.owed /\ worth - x.owed <= MaxStack
        BY <1>2, <2>4, <2>6, Numbers DEF GoodPay
      <4> QED BY <4>1, NumberIsStack
    <3>2. change = [now |-> InternalPlayerAddItem(left, worth - x.owed), owed |-> 0]
      BY <2>6, Zenon DEF Change
    <3>3. Whole(InternalPlayerAddItem(left, worth - x.owed))
      BY <2>5, <3>1, PlayerAddIsWhole
    <3> QED BY <2>1, <3>2, <3>3 DEF GoodPay
  <2>7. CASE ~(worth > x.owed)
    <3>1. change = [now |-> left, owed |-> x.owed - worth]
      BY <2>7, Zenon DEF Change
    <3>2. x.owed - worth \in Nat
      BY <2>4, <2>7 DEF GoodPay
    <3> QED BY <2>1, <2>5, <3>1, <3>2 DEF GoodPay
  <2> QED BY <2>6, <2>7
<1> QED BY <1>1, <1>2

LEMMA RemoveMoneyIsWhole ==
  ASSUME NEW g, Whole(g), NEW money \in Nat
  PROVE  Whole(RemoveMoney(g, money))
<1> DEFINE w == [now |-> g, owed |-> money]
           E(f, n) == f = [k \in 0..n |-> IF k = 0 THEN w ELSE PaysOn(f[k - 1])]
           Q == {n \in Nat : \E f : E(f, n)}
           pay == CHOOSE f : E(f, About)
<1>1. 0 \in Q
  <2> DEFINE f == [k \in 0..0 |-> w]
  <2>1. E(f, 0)
    OBVIOUS
  <2> QED BY <2>1
<1>2. ASSUME NEW n \in Q PROVE n + 1 \in Q
  <2>1. n \in Nat
    OBVIOUS
  <2>2. PICK f : E(f, n)
    OBVIOUS
  <2> DEFINE next == PaysOn(f[n])
             h == [k \in 0..(n + 1) |-> IF k = n + 1 THEN next ELSE f[k]]
  <2>4. \A k \in 0..n : h[k] = f[k]
    BY <2>1
  <2>5. h[n + 1] = next /\ h[n] = f[n]
    BY <2>1
  <2>6. ASSUME NEW k \in 0..(n + 1)
        PROVE  h[k] = IF k = 0 THEN w ELSE PaysOn(h[k - 1])
    <3>1. CASE k = n + 1
      <4>1. k # 0 /\ k - 1 = n
        BY <2>1, <3>1
      <4> HIDE DEF h
      <4>2. h[k] = next /\ h[k - 1] = f[n]
        BY <2>5, <3>1, <4>1
      <4> QED BY <4>1, <4>2
    <3>2. CASE k # n + 1
      <4>1. k \in 0..n /\ (k # 0 => k - 1 \in 0..n)
        BY <2>1, <3>2
      <4> HIDE DEF h
      <4>2. h[k] = f[k] /\ (k # 0 => h[k - 1] = f[k - 1])
        BY <2>4, <4>1
      <4>3. f[k] = IF k = 0 THEN w ELSE PaysOn(f[k - 1])
        BY <2>2, <4>1
      <4> QED BY <4>1, <4>2, <4>3
    <3> QED BY <3>1, <3>2
  <2>7. h = [k \in 0..(n + 1) |-> h[k]]
    OBVIOUS
  <2> HIDE DEF h
  <2>8. E(h, n + 1)
    BY <2>6, <2>7
  <2> HIDE DEF E
  <2> QED BY <2>1, <2>8
<1>3. Q = Nat
  <2>1. Q \in SUBSET Nat
    OBVIOUS
  <2> HIDE DEF Q
  <2> QED BY <1>1, <1>2, <2>1, AllNumbers
<1>4. About \in Nat
  BY Numbers
<1>5. RemoveMoney(g, money) = pay[About].now
  BY Zenon DEF RemoveMoney, PaysOn
<1>6. PICK f : E(f, About)
  BY <1>3, <1>4
<1>7. E(pay, About)
  BY <1>6
<1> HIDE DEF pay
<1> DEFINE R == {n \in Nat : n <= About => GoodPay(pay[n])}
<1>8. 0 \in R
  <2>1. pay[0] = w
    BY <1>4, <1>7
  <2>2. GoodPay(w)
    BY DEF GoodPay
  <2> HIDE DEF w
  <2> QED BY <2>1, <2>2
<1>9. ASSUME NEW n \in R PROVE n + 1 \in R
  <2> SUFFICES ASSUME n + 1 <= About PROVE GoodPay(pay[n + 1])
    OBVIOUS
  <2>1. GoodPay(pay[n])
    BY <1>4
  <2>2. n + 1 \in 0..About /\ n + 1 # 0 /\ (n + 1) - 1 = n
    BY <1>4
  <2>3. pay[n + 1] = PaysOn(pay[n])
    BY <1>7, <2>2
  <2> QED BY <2>1, <2>3, PayWithIsGood
<1>10. R = Nat
  <2>1. R \in SUBSET Nat
    OBVIOUS
  <2> HIDE DEF R
  <2> QED BY <1>8, <1>9, <2>1, AllNumbers
<1>11. About \in R
  <2> HIDE DEF R
  <2> QED BY <1>4, <1>10
<1>12. GoodPay(pay[About])
  BY <1>4, <1>11
<1> QED BY <1>5, <1>12 DEF GoodPay

-----------------------------------------------------------------------------
(* Every action.                                                           *)

LEMMA NamedIsThing ==
  ASSUME Whole(goods), NEW p \in Viewer, NEW at \in Named(p)
  PROVE  at.in \in Holder /\ ThingAt(goods, at.in, at.index) # None
<1>1. Bag \subseteq Holder /\ Carrier \in Holder /\ "ground" \in Holder
  BY DEF Holder, Held
<1>2. Looked(p) \subseteq Bag
  BY DEF Looked, Range, Whole, OnBags
<1>3. \/ at.in = "ground" \/ at.in = Carrier \/ at.in \in Looked(p)
  BY DEF Named
<1>4. ThingAt(goods, at.in, at.index) # None
  BY Zenon DEF Named
<1> QED BY <1>1, <1>2, <1>3, <1>4

LEMMA PlaceIsHolder ==
  ASSUME Whole(goods), NEW p \in Viewer, NEW to \in Places(p)
  PROVE  to.in \in Holder
<1>1. Bag \subseteq Holder /\ Carrier \in Holder /\ "ground" \in Holder
  BY DEF Holder, Held
<1>2. Looked(p) \subseteq Bag
  BY DEF Looked, Range, Whole, OnBags
<1>3. \/ to.in = "ground" \/ to.in = Carrier \/ to.in \in Looked(p)
  BY DEF Places
<1> QED BY <1>1, <1>2, <1>3

LEMMA CountIsNumber ==
  ASSUME NEW t, NEW count \in 1..ItemCount(t)
  PROVE  count \in Nat /\ (IsStack(t) => count \in 1..t)
<1>1. CASE IsStack(t)
  BY <1>1, StackIsNumber
<1>2. CASE ~IsStack(t)
  BY <1>2 DEF ItemCount
<1> QED BY <1>1, <1>2

LEMMA MoveKeeps ==
  ASSUME Whole(goods), NEW p \in Viewer, Move(p)
  PROVE  Whole(goods')
<1>1. PICK at \in Named(p), to \in Places(p) :
        \E count \in 1..ItemCount(ThingAt(goods, at.in, at.index)) :
          goods' = InternalMoveItem(goods, at.in, at.index, to, count)
  BY Zenon DEF Move
<1>2. PICK count \in 1..ItemCount(ThingAt(goods, at.in, at.index)) :
        goods' = InternalMoveItem(goods, at.in, at.index, to, count)
  BY <1>1
<1>3. at.in \in Holder /\ to.in \in Holder /\ ThingAt(goods, at.in, at.index) # None
  BY NamedIsThing, PlaceIsHolder
<1>4. count \in Nat
  BY CountIsNumber
<1> QED BY <1>2, <1>3, <1>4, InternalMoveIsWhole

LEMMA UseContainerKeeps ==
  ASSUME Whole(goods), NEW p \in Viewer, UseContainer(p)
  PROVE  Whole(goods')
<1>1. PICK c \in {ThingAt(goods, at.in, at.index) : at \in Named(p)}, k \in Cid[p] :
        /\ c \in Bag
        /\ LET on == {j \in Cid[p] : goods.window[p][j] = c}
           IN  IF on = {}
               THEN goods' = Resent([goods EXCEPT !.window[p][k] = c], {p}, c)
               ELSE \E j \in on :
                      goods' = [goods EXCEPT !.window[p][j] = None,
                                             !.screen[p] = [i \in Cid[p] |->
                                                IF i \in on THEN Shut ELSE @[i]]]
  BY DEF UseContainer
<1> DEFINE on == {j \in Cid[p] : goods.window[p][j] = c}
           w == [goods.window EXCEPT ![p] = [@ EXCEPT ![k] = c]]
           h == [goods EXCEPT !.window = w]
<1>2. CASE on = {}
  <2>1. goods' = Resent(h, {p}, c)
    BY <1>1, <1>2, Zenon
  <2>2. OnBags(w)
    BY <1>1 DEF OnBags, Whole
  <2> HIDE DEF w
  <2>3. SameThings(goods, h) /\ DOMAIN h = Fields
    BY <2>2, SameBesides DEF Whole, SameThings, Keeps
  <2> HIDE DEF h
  <2> QED BY <2>1, <2>3, SameResent, SameIsWhole
<1>3. CASE on # {}
  <2>1. PICK j \in on : goods' = [goods EXCEPT !.window[p][j] = None,
                                               !.screen[p] = [i \in Cid[p] |->
                                                  IF i \in on THEN Shut ELSE @[i]]]
    BY <1>1, <1>3
  <2> DEFINE v == [goods.window EXCEPT ![p] = [@ EXCEPT ![j] = None]]
             x == [goods.screen EXCEPT ![p] = [i \in Cid[p] |-> IF i \in on THEN Shut ELSE @[i]]]
  <2>2. goods' = [goods EXCEPT !.window = v, !.screen = x]
    BY <2>1 DEF Whole, Fields
  <2>3. OnBags(v)
    BY DEF OnBags, Whole
  <2> HIDE DEF v, x
  <2>4. SameThings(goods, [goods EXCEPT !.window = v, !.screen = x])
    BY <2>3, SameBesides, Zenon DEF Whole
  <2> QED BY <2>2, <2>4, SameIsWhole
<1> QED BY <1>2, <1>3

LEMMA MoveUpKeeps ==
  ASSUME Whole(goods), NEW p \in Viewer, MoveUpContainer(p)
  PROVE  Whole(goods')
<1>1. PICK k \in Cid[p] :
        /\ Parent(goods, goods.window[p][k]) \in Bag
        /\ goods' = Shown([goods EXCEPT !.window[p][k] = Parent(goods, goods.window[p][k])], p, k)
  BY Zenon DEF MoveUpContainer
<1> DEFINE around == Parent(goods, goods.window[p][k])
           w == [goods.window EXCEPT ![p] = [@ EXCEPT ![k] = around]]
           h == [goods EXCEPT !.window = w]
<1>2. goods' = Shown(h, p, k)
  BY <1>1, Zenon
<1>3. OnBags(w)
  <2> HIDE DEF around
  <2> QED BY <1>1 DEF OnBags, Whole, around
<1> HIDE DEF w
<1>4. SameThings(goods, h) /\ DOMAIN h = Fields
  BY <1>3, SameBesides DEF Whole, SameThings, Keeps
<1> HIDE DEF h
<1>5. Whole(h)
  BY <1>4, SameIsWhole
<1>6. SameThings(h, Shown(h, p, k))
  BY <1>4, SameShown
<1> QED BY <1>2, <1>5, <1>6, SameIsWhole

LEMMA UpdateContainerKeeps ==
  ASSUME Whole(goods), NEW p \in Viewer, UpdateContainer(p)
  PROVE  Whole(goods')
<1>1. PICK k \in Cid[p] : goods' = Shown(goods, p, k)
  BY DEF UpdateContainer
<1>2. SameThings(goods, Shown(goods, p, k))
  BY SameShown DEF Whole
<1> QED BY <1>1, <1>2, SameIsWhole

LEMMA CloseContainerKeeps ==
  ASSUME Whole(goods), NEW p \in Viewer, CloseContainer(p)
  PROVE  Whole(goods')
<1>1. PICK k \in Cid[p] :
        goods' = [goods EXCEPT !.window[p][k] = None, !.screen[p][k] = Shut]
  BY Zenon DEF CloseContainer
<1> DEFINE v == [goods.window EXCEPT ![p] = [@ EXCEPT ![k] = None]]
           x == [goods.screen EXCEPT ![p] = [@ EXCEPT ![k] = Shut]]
<1>2. goods' = [goods EXCEPT !.window = v, !.screen = x]
  BY <1>1 DEF Whole, Fields
<1>3. OnBags(v)
  BY DEF OnBags, Whole
<1> HIDE DEF v, x
<1>4. SameThings(goods, [goods EXCEPT !.window = v, !.screen = x])
  BY <1>3, SameBesides, Zenon DEF Whole
<1> QED BY <1>2, <1>4, SameIsWhole

LEMMA ComeNearOrGoKeeps ==
  ASSUME Whole(goods), NEW p \in Viewer, ComeNearOrGo(p)
  PROVE  Whole(goods')
<1> DEFINE n == SymDiff(goods.near, {p})
           h == [goods EXCEPT !.near = n]
<1>1. \E shut : goods' = Closed(h, shut)
  BY Zenon DEF ComeNearOrGo
<1>2. PICK shut : goods' = Closed(h, shut)
  BY <1>1
<1> HIDE DEF n
<1>3. SameThings(goods, h) /\ DOMAIN h = Fields
  BY SameBesides DEF Whole, SameThings, Keeps
<1> HIDE DEF h
<1>4. Whole(h)
  BY <1>3, SameIsWhole
<1>5. SameThings(h, Closed(h, shut))
  BY <1>3, SameClosed
<1> QED BY <1>2, <1>4, <1>5, SameIsWhole

LEMMA MeantIsWhole ==
  ASSUME NEW g, Whole(g), NEW coins, NEW balls, NEW bags
  PROVE  Whole(Meant(g, coins, balls, bags))
<1>1. SameThings(g, Meant(g, coins, balls, bags))
  BY SameMeant DEF Whole
<1> QED BY <1>1, SameIsWhole

LEMMA GiveKeeps ==
  ASSUME Whole(goods), Give
  PROVE  Whole(goods')
<1>1. PICK t \in Stack \union {Ball} \union (Bag \ goods.meant.bags), c \in {Carrier} \union Bag :
        \E into \in {IF c = Carrier THEN InternalPlayerAddItem(goods, t)
                     ELSE InternalAddItem(goods, c, t)} :
          \E coins, balls, bags : goods' = Meant(into, coins, balls, bags)
  BY Zenon DEF Give
<1>2. t \in Thing /\ c \in Holder
  BY DEF Thing, Holder, Held
<1>3. PICK into : /\ into \in {IF c = Carrier THEN InternalPlayerAddItem(goods, t)
                                 ELSE InternalAddItem(goods, c, t)}
                  /\ \E coins, balls, bags : goods' = Meant(into, coins, balls, bags)
  BY <1>1, Zenon
<1>4. Whole(InternalPlayerAddItem(goods, t)) /\ Whole(InternalAddItem(goods, c, t))
  BY <1>2, PlayerAddIsWhole, AddItemIsWhole
<1>5. Whole(into)
  BY <1>3, <1>4
<1>6. PICK coins, balls, bags : goods' = Meant(into, coins, balls, bags)
  BY <1>3
<1> QED BY <1>5, <1>6, MeantIsWhole

LEMMA TakeKeeps ==
  ASSUME Whole(goods), Take
  PROVE  Whole(goods')
<1>1. PICK at \in [in : {Carrier}, index : Slot]
                  \union [in : Bag \union {Ground}, index : 1 .. About + 1] :
        /\ ThingAt(goods, at.in, at.index) # None
        /\ \E m \in 1 .. ItemCount(ThingAt(goods, at.in, at.index)) :
             \E coins, balls, bags :
               goods' = Meant(InternalRemoveItem(goods, at.in, at.index, m), coins, balls, bags)
  BY Zenon DEF Take
<1>2. PICK m \in 1 .. ItemCount(ThingAt(goods, at.in, at.index)) :
        \E coins, balls, bags :
          goods' = Meant(InternalRemoveItem(goods, at.in, at.index, m), coins, balls, bags)
  BY <1>1
<1>3. PICK coins, balls, bags :
        goods' = Meant(InternalRemoveItem(goods, at.in, at.index, m), coins, balls, bags)
  BY <1>2
<1>4. at.in \in Holder
  BY DEF Holder, Held
<1>5. IsStack(ThingAt(goods, at.in, at.index)) => m \in 1 .. ThingAt(goods, at.in, at.index)
  BY CountIsNumber
<1>6. Whole(InternalRemoveItem(goods, at.in, at.index, m))
  BY <1>1, <1>4, <1>5, RemoveItemIsWhole
<1> QED BY <1>3, <1>6, MeantIsWhole

LEMMA PayKeeps ==
  ASSUME Whole(goods), Pay
  PROVE  Whole(goods')
<1>1. PICK money \in 1 .. About : goods' = Meant(RemoveMoney(goods, money), -money, 0, {})
  BY DEF Pay
<1>2. money \in Nat
  BY Numbers
<1> QED BY <1>1, <1>2, RemoveMoneyIsWhole, MeantIsWhole

LEMMA WholeAtFirst ==
  ContainersInit => Whole(goods)
<1> SUFFICES ASSUME ContainersInit PROVE Whole(goods)
  OBVIOUS
<1>1. DOMAIN goods = Fields
  BY DEF ContainersInit, Fields
<1>2. /\ goods.inside = [c \in Held |-> <<>>]
      /\ goods.worn = [s \in Slot |-> None]
      /\ goods.window = [p \in Viewer |-> [k \in Cid[p] |-> None]]
  BY DEF ContainersInit, Held
<1>3. goods.inside \in [Held -> Seq(Thing)] /\ \A c \in Bag : Len(goods.inside[c]) = 0
  BY <1>2 DEF Held
<1>4. OnBags(goods.window)
  BY <1>2 DEF OnBags
<1> QED BY <1>1, <1>2, <1>3, <1>4, Numbers DEF Whole

\* However things are moved, exchanged, split, added, taken and paid with, by
\* the client's moves and by scripts, only things are held and no container holds
\* more of them than it has room for: the queries that are asked before a move
\* (Container::__queryAdd and __queryMaxCount) are enough, also when what is worn
\* is exchanged, when stacks are filled and when change is given.
THEOREM RoomSafe == ContainersSpec => []RoomForAll
<1> DEFINE Inv == Whole(goods)
<1>1. ContainersInit => Inv
  BY WholeAtFirst
<1>2. Inv /\ [ContainersNext]_goods => Inv'
  <2> SUFFICES ASSUME Whole(goods), [ContainersNext]_goods PROVE Whole(goods')
    OBVIOUS
  <2>1. ASSUME NEW p \in Viewer,
               \/ Move(p) \/ UseContainer(p) \/ MoveUpContainer(p)
               \/ UpdateContainer(p) \/ CloseContainer(p) \/ ComeNearOrGo(p)
        PROVE  Whole(goods')
    BY <2>1, MoveKeeps, UseContainerKeeps, MoveUpKeeps, UpdateContainerKeeps,
       CloseContainerKeeps, ComeNearOrGoKeeps
  <2>2. CASE Give
    BY <2>2, GiveKeeps
  <2>3. CASE Take
    BY <2>3, TakeKeeps
  <2>4. CASE Pay
    BY <2>4, PayKeeps
  <2>5. CASE UNCHANGED goods
    BY <2>5
  <2> QED BY <2>1, <2>2, <2>3, <2>4, <2>5, Zenon DEF ContainersNext
<1>3. Inv => RoomForAll
  BY DEF Whole, RoomForAll, Held
<1> HIDE DEF Inv
<1> QED BY <1>1, <1>2, <1>3, PTL DEF ContainersSpec

=============================================================================
