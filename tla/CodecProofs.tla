---------------------------- MODULE CodecProofs ----------------------------
(***************************************************************************)
(* What the recursive functions of Codec compute, for every message and    *)
(* every memory. The library's induction theorems have operators as        *)
(* parameters; Recursion and UpTo are for functions and sets instead, and  *)
(* rest on the least element of a set of numbers.                          *)
(***************************************************************************)
EXTENDS Codec, Integers, Sequences, SequenceTheorems, WellFoundedInduction, TLAPS

-----------------------------------------------------------------------------
(* Induction and recursion.                                                *)

\* A smaller number is one in the ordering of the library.
LEMMA Smaller == \A m, n \in Nat : m < n => <<m, n>> \in OpToRel(<, Nat)
BY Zenon DEF OpToRel

\* A set of natural numbers has a least one.
LEMMA Least ==
  ASSUME NEW T \in SUBSET Nat, T # {}
  PROVE  \E n \in T : \A m \in T : n <= m
<1>1. \E n \in T : \A m \in T : ~ <<m, n>> \in OpToRel(<, Nat)
  BY NatLessThanWellFounded, WFMin, Zenon
<1>2. \E n \in T : \A m \in T : ~(m < n)
  BY <1>1, Smaller, Zenon
<1> QED BY <1>2

\* Induction, up to a number.
LEMMA UpTo ==
  ASSUME NEW n \in Nat, NEW T, 0 \in T, \A i \in 1..n : i - 1 \in T => i \in T
  PROVE  0..n \subseteq T
<1> DEFINE R == (0..n) \ T
<1> SUFFICES ASSUME R # {} PROVE FALSE
  OBVIOUS
<1>0. R \in SUBSET Nat
  OBVIOUS
<1>1. PICK i \in R : \A j \in R : i <= j
  <2> HIDE DEF R
  <2> QED BY <1>0, Least
<1>2. i \in 1..n /\ i - 1 \in 0..n /\ ~(i <= i - 1)
  BY <1>1
<1> QED BY <1>1, <1>2

\* A function on 0..n can be defined by recursion.
Recurs(f, n, d, g) == f[0] = d /\ \A i \in 1..n : f[i] = g[<<i, f[i - 1]>>]

LEMMA Recursion ==
  ASSUME NEW D, NEW n \in Nat, NEW d \in D, NEW g \in [(1..n) \X D -> D]
  PROVE  \E f \in [0..n -> D] : Recurs(f, n, d, g)
<1> DEFINE Defines(f, k) == Recurs(f, k, d, g)
           T == {k \in 0..n : \E f \in [0..k -> D] : Defines(f, k)}
<1> USE DEF Recurs
<1>1. 0 \in T
  <2> DEFINE f == [i \in 0..0 |-> d]
  <2>1. f \in [0..0 -> D] /\ Defines(f, 0)
    OBVIOUS
  <2>2. 0 \in 0..n
    OBVIOUS
  <2> HIDE DEF f
  <2> QED BY <2>1, <2>2
<1>2. ASSUME NEW k \in 1..n, k - 1 \in T
      PROVE  k \in T
  <2>1. PICK f \in [0..(k - 1) -> D] : Defines(f, k - 1)
    BY <1>2
  <2> DEFINE h == [i \in 0..k |-> IF i = k THEN g[<<k, f[k - 1]>>] ELSE f[i]]
  <2>2. k - 1 \in 0..(k - 1) /\ f[k - 1] \in D /\ <<k, f[k - 1]>> \in (1..n) \X D
    OBVIOUS
  <2>3. h \in [0..k -> D]
    BY <2>2
  <2>4. h[0] = d
    BY <2>1
  <2>5. ASSUME NEW i \in 1..k
        PROVE  h[i] = g[<<i, h[i - 1]>>]
    <3>1. h[i - 1] = f[i - 1]
      OBVIOUS
    <3>2. CASE i = k
      <4>1. h[i] = g[<<k, f[k - 1]>>]
        BY <3>2
      <4>2. <<i, h[i - 1]>> = <<k, f[k - 1]>>
        BY <3>1, <3>2
      <4> HIDE DEF h
      <4> QED BY <4>1, <4>2
    <3>3. CASE i # k
      <4>1. i \in 1..(k - 1) /\ h[i] = f[i]
        BY <3>3
      <4> QED BY <2>1, <3>1, <4>1
    <3> QED BY <3>2, <3>3
  <2>6. Defines(h, k)
    BY <2>4, <2>5
  <2> HIDE DEF h
  <2> QED BY <2>3, <2>6
<1> HIDE DEF T
<1>3. n \in T
  <2>1. 0..n \subseteq T
    BY <1>1, <1>2, UpTo
  <2> QED BY <2>1
<1> QED BY <1>3 DEF T

-----------------------------------------------------------------------------
(* Sizes.                                                                  *)

\* Totals adds the sizes up.
LEMMA TotalsAdd ==
  ASSUME NEW z \in Seq(Nat)
  PROVE  /\ Totals(z) \in [0..Len(z) -> Nat]
         /\ Totals(z)[0] = 0
         /\ \A i \in 1..Len(z) : Totals(z)[i] = Totals(z)[i - 1] + z[i]
<1> DEFINE n == Len(z)
           g == [p \in (1..n) \X Nat |-> p[2] + z[p[1]]]
           Total(f) == f = [i \in 0..n |-> IF i = 0 THEN 0 ELSE f[i - 1] + z[i]]
<1>1. n \in Nat /\ \A i \in 1..n : z[i] \in Nat
  OBVIOUS
<1>2. g \in [(1..n) \X Nat -> Nat]
  BY <1>1
<1>3. PICK f \in [0..n -> Nat] : f[0] = 0 /\ \A i \in 1..n : f[i] = g[<<i, f[i - 1]>>]
  <2> HIDE DEF g, n
  <2>1. \E f \in [0..n -> Nat] : Recurs(f, n, 0, g)
    BY <1>1, <1>2, Recursion
  <2> QED BY <2>1 DEF Recurs
<1>4. ASSUME NEW i \in 1..n
      PROVE  i - 1 \in 0..n /\ f[i] = f[i - 1] + z[i]
  <2>1. i - 1 \in 0..n
    BY <1>1
  <2>2. f[i - 1] \in Nat
    BY <2>1
  <2>3. g[<<i, f[i - 1]>>] = f[i - 1] + z[i]
    BY <2>2
  <2> HIDE DEF g
  <2> QED BY <1>3, <2>1, <2>3
<1>5. Total(f)
  BY <1>1, <1>3, <1>4
<1>6. Total(Totals(z))
  BY <1>5, Zenon DEF Totals
<1> DEFINE t == Totals(z)
<1>7. t[0] = 0 /\ \A i \in 1..n : t[i] = t[i - 1] + z[i]
  BY <1>1, <1>6
<1>8. t = [i \in 0..n |-> t[i]]
  BY <1>6
<1> HIDE DEF t
<1>9. \A i \in 0..n : t[i] \in Nat
  <2> DEFINE T == {i \in 0..n : t[i] \in Nat}
  <2>1. 0 \in T
    BY <1>1, <1>7
  <2>2. \A i \in 1..n : i - 1 \in T => i \in T
    BY <1>1, <1>7
  <2> HIDE DEF T, n
  <2>3. 0..n \subseteq T
    BY <1>1, <2>1, <2>2, UpTo
  <2> QED BY <2>3 DEF T
<1> QED BY <1>7, <1>8, <1>9 DEF t

\* The same, place by place.
LEMMA TotalsAt ==
  ASSUME NEW z \in Seq(Nat)
  PROVE  /\ Len(z) \in Nat /\ \A k \in 1..Len(z) : z[k] \in Nat
         /\ \A k \in 0..Len(z) : Totals(z)[k] \in Nat
         /\ Totals(z)[0] = 0
         /\ \A k \in 1..Len(z) : Totals(z)[k] = Totals(z)[k - 1] + z[k]
<1> DEFINE t == Totals(z)
           n == Len(z)
<1>1. n \in Nat /\ \A k \in 1..n : z[k] \in Nat
  OBVIOUS
<1>2. /\ t \in [0..n -> Nat] /\ t[0] = 0
      /\ \A k \in 1..n : t[k] = t[k - 1] + z[k]
  BY TotalsAdd
<1> HIDE DEF t, n
<1>3. \A k \in 0..n : t[k] \in Nat
  BY <1>2
<1> QED BY <1>1, <1>2, <1>3 DEF t, n

\* A longer prefix is no smaller.
LEMMA TotalsGrow ==
  ASSUME NEW z \in Seq(Nat), NEW i \in 0..Len(z), NEW j \in 0..Len(z), i <= j
  PROVE  Totals(z)[i] <= Totals(z)[j]
<1> DEFINE t == Totals(z)
           T == {k \in 0..Len(z) : i <= k => t[i] <= t[k]}
<1>1. /\ Len(z) \in Nat /\ \A k \in 1..Len(z) : z[k] \in Nat
      /\ t \in [0..Len(z) -> Nat]
      /\ \A k \in 1..Len(z) : t[k] = t[k - 1] + z[k]
  BY TotalsAdd
<1> HIDE DEF t
<1>2. 0 \in T
  BY <1>1
<1>3. ASSUME NEW k \in 1..Len(z), k - 1 \in T
      PROVE  k \in T
  <2>1. t[k] \in Nat /\ t[k - 1] \in Nat /\ t[i] \in Nat /\ t[k - 1] <= t[k]
    <3>1. k \in 0..Len(z) /\ k - 1 \in 0..Len(z)
      BY <1>1
    <3>2. t[k] \in Nat /\ t[k - 1] \in Nat /\ t[i] \in Nat
      BY <1>1, <3>1
    <3>3. z[k] \in Nat /\ t[k] = t[k - 1] + z[k]
      BY <1>1
    <3> QED BY <3>2, <3>3
  <2>2. CASE i = k
    BY <2>1, <2>2
  <2>3. CASE i # k
    BY <1>3, <2>1, <2>3
  <2> QED BY <2>2, <2>3
<1> HIDE DEF T
<1>4. 0..Len(z) \subseteq T
  BY <1>1, <1>2, <1>3, UpTo
<1> QED BY <1>4 DEF T, t

\* Sums of numbers.
LEMMA SumBelow == \A a, b, c, d \in Nat : a <= b /\ c <= d => a + c <= b + d
OBVIOUS

LEMMA SumOfThree == \A a, b, c \in Nat : (a + b) + c = (a + c) + b
OBVIOUS

LEMMA NotAbove == \A a, b \in Nat : ~(a > b) => a <= b
OBVIOUS

\* Smaller sizes add up to less.
LEMMA TotalsBelow ==
  ASSUME NEW z \in Seq(Nat), NEW y \in Seq(Nat), Len(z) = Len(y),
         \A i \in 1..Len(z) : z[i] <= y[i]
  PROVE  Totals(z)[Len(z)] <= Totals(y)[Len(y)]
<1> DEFINE n == Len(z)
           t == Totals(z)
           u == Totals(y)
           T == {k \in 0..n : t[k] <= u[k]}
<1>a. /\ n \in Nat /\ \A k \in 1..n : z[k] \in Nat
      /\ \A k \in 0..n : t[k] \in Nat
      /\ t[0] = 0 /\ \A k \in 1..n : t[k] = t[k - 1] + z[k]
  BY TotalsAt, Zenon
<1>b. /\ \A k \in 1..n : y[k] \in Nat
      /\ \A k \in 0..n : u[k] \in Nat
      /\ u[0] = 0 /\ \A k \in 1..n : u[k] = u[k - 1] + y[k]
  BY TotalsAt, Zenon
<1>c. \A k \in 1..n : z[k] <= y[k]
  OBVIOUS
<1> HIDE DEF t, u, n
<1>1. /\ n \in Nat /\ \A k \in 1..n : z[k] \in Nat /\ y[k] \in Nat /\ z[k] <= y[k]
      /\ \A k \in 0..n : t[k] \in Nat /\ u[k] \in Nat
      /\ t[0] = 0 /\ u[0] = 0
      /\ \A k \in 1..n : t[k] = t[k - 1] + z[k] /\ u[k] = u[k - 1] + y[k]
  BY <1>a, <1>b, <1>c
<1>2. 0 \in T
  BY <1>1
<1>3. ASSUME NEW k \in 1..n, k - 1 \in T
      PROVE  k \in T
  <2>1. k \in 0..n /\ k - 1 \in 0..n /\ t[k - 1] <= u[k - 1]
    BY <1>1, <1>3
  <2>2. /\ t[k] \in Nat /\ t[k - 1] \in Nat /\ u[k] \in Nat /\ u[k - 1] \in Nat
        /\ z[k] \in Nat /\ y[k] \in Nat /\ z[k] <= y[k]
        /\ t[k] = t[k - 1] + z[k] /\ u[k] = u[k - 1] + y[k]
    BY <1>1, <2>1
  <2>3. t[k - 1] + z[k] <= u[k - 1] + y[k]
    BY <2>1, <2>2, SumBelow, Zenon
  <2>4. t[k] <= u[k]
    BY <2>2, <2>3, Zenon
  <2> QED BY <2>1, <2>4, Zenon
<1> HIDE DEF T
<1>4. 0..n \subseteq T
  BY <1>1, <1>2, <1>3, UpTo
<1>5. n \in T
  BY <1>1, <1>4
<1> QED BY <1>5 DEF T, t, u, n

\* The sizes at some of the places, and their sum.
Masked(y, S) == [j \in 1..Len(y) |-> IF j \in S THEN y[j] ELSE 0]
Part(y, S)   == Totals(Masked(y, S))[Len(y)]

LEMMA MaskedSizes ==
  ASSUME NEW y \in Seq(Nat), NEW S
  PROVE  /\ Masked(y, S) \in Seq(Nat) /\ Len(Masked(y, S)) = Len(y)
         /\ \A j \in 1..Len(y) : Masked(y, S)[j] = IF j \in S THEN y[j] ELSE 0
         /\ Part(y, S) \in Nat
<1>1. /\ Masked(y, S) \in Seq(Nat) /\ Len(Masked(y, S)) = Len(y)
      /\ \A j \in 1..Len(y) : Masked(y, S)[j] = IF j \in S THEN y[j] ELSE 0
  BY DEF Masked
<1>2. Totals(Masked(y, S)) \in [0..Len(y) -> Nat] /\ Len(y) \in 0..Len(y)
  BY <1>1, TotalsAdd
<1> QED BY <1>1, <1>2 DEF Part

\* One more place adds its size.
LEMMA PartAdds ==
  ASSUME NEW y \in Seq(Nat), NEW S, NEW j \in 1..Len(y), j \notin S
  PROVE  Part(y, S \cup {j}) = Part(y, S) + y[j]
<1> DEFINE n == Len(y)
           a == Masked(y, S)
           b == Masked(y, S \cup {j})
           t == Totals(a)
           u == Totals(b)
           T == {k \in 0..n : u[k] = t[k] + (IF j <= k THEN y[j] ELSE 0)}
<1>1. /\ a \in Seq(Nat) /\ Len(a) = n /\ b \in Seq(Nat) /\ Len(b) = n /\ n \in Nat
      /\ y[j] \in Nat
      /\ \A k \in 1..n : /\ y[k] \in Nat
                         /\ a[k] = IF k \in S THEN y[k] ELSE 0
                         /\ b[k] = IF k \in S \cup {j} THEN y[k] ELSE 0
  BY MaskedSizes
<1>2. Part(y, S) = t[n] /\ Part(y, S \cup {j}) = u[n]
  BY DEF Part
<1> HIDE DEF a, b, n
<1>3. /\ \A k \in 0..n : t[k] \in Nat /\ u[k] \in Nat
      /\ t[0] = 0 /\ u[0] = 0
      /\ \A k \in 1..n : t[k] = t[k - 1] + a[k] /\ u[k] = u[k - 1] + b[k]
  BY <1>1, TotalsAdd
<1> HIDE DEF t, u
<1>4. j \in 1..n
  BY DEF n
<1>5. 0 \in T
  BY <1>1, <1>3, <1>4
<1>6. ASSUME NEW k \in 1..n, k - 1 \in T
      PROVE  k \in T
  <2>1. k \in 0..n /\ k - 1 \in 0..n
        /\ u[k - 1] = t[k - 1] + (IF j <= k - 1 THEN y[j] ELSE 0)
    BY <1>1, <1>6
  <2>2. /\ t[k] \in Nat /\ t[k - 1] \in Nat /\ u[k] \in Nat /\ u[k - 1] \in Nat
        /\ t[k] = t[k - 1] + a[k] /\ u[k] = u[k - 1] + b[k]
        /\ y[k] \in Nat
    BY <1>1, <1>3, <2>1
  <2>3. u[k] = t[k] + (IF j <= k THEN y[j] ELSE 0)
    <3>1. CASE k = j
      <4>1. a[k] = 0 /\ b[k] = y[j] /\ ~(j <= k - 1) /\ j <= k
        BY <1>1, <1>4, <3>1
      <4>2. u[k - 1] = t[k - 1]
        BY <2>1, <2>2, <4>1
      <4> QED BY <1>1, <2>2, <4>1, <4>2
    <3>2. CASE k # j
      <4> DEFINE x == IF j <= k THEN y[j] ELSE 0
      <4>1. a[k] = IF k \in S THEN y[k] ELSE 0
        BY <1>1
      <4>2. b[k] = IF k \in S THEN y[k] ELSE 0
        BY <1>1, <3>2
      <4>3. a[k] = b[k] /\ a[k] \in Nat
        BY <2>2, <4>1, <4>2
      <4>4. j <= k - 1 <=> j <= k
        BY <1>1, <1>4, <3>2
      <4>5. u[k - 1] = t[k - 1] + x /\ x \in Nat
        BY <1>1, <2>1, <4>4
      <4> HIDE DEF x
      <4>6. (t[k - 1] + x) + a[k] = (t[k - 1] + a[k]) + x
        <5>1. t[k - 1] \in Nat /\ a[k] \in Nat /\ x \in Nat
          BY <2>2, <4>3, <4>5, Zenon
        <5> QED BY <5>1, SumOfThree, Zenon
      <4>7. u[k] = t[k] + x
        BY <2>2, <4>3, <4>5, <4>6, Zenon
      <4> QED BY <4>7, Zenon DEF x
    <3> QED BY <3>1, <3>2
  <2> QED BY <2>1, <2>3
<1> HIDE DEF T
<1>7. 0..n \subseteq T
  BY <1>1, <1>5, <1>6, UpTo
<1>8. n \in T
  BY <1>1, <1>7
<1> QED BY <1>1, <1>2, <1>4, <1>8 DEF T

\* Sizes that are matched by others, each by one of its own, add up to no more.
LEMMA TotalsMatched ==
  ASSUME NEW z \in Seq(Nat), NEW y \in Seq(Nat),
         NEW f \in [1..Len(z) -> 1..Len(y)],
         \A i, j \in 1..Len(z) : f[i] = f[j] => i = j,
         \A i \in 1..Len(z) : z[i] <= y[f[i]]
  PROVE  Totals(z)[Len(z)] <= Totals(y)[Len(y)]
<1> DEFINE n == Len(z)
           t == Totals(z)
           Image(k) == {f[i] : i \in 1..k}
           T == {k \in 0..n : t[k] <= Part(y, Image(k))}
<1>a. \A k \in 1..n : f[k] \in 1..Len(y)
  OBVIOUS
<1>1. /\ n \in Nat /\ \A k \in 1..n : z[k] \in Nat /\ f[k] \in 1..Len(y)
      /\ \A k \in 0..n : t[k] \in Nat
      /\ t[0] = 0 /\ \A k \in 1..n : t[k] = t[k - 1] + z[k]
  BY <1>a, TotalsAt, Zenon
<1>2. \A S : Part(y, S) \in Nat
  BY MaskedSizes
<1> HIDE DEF t, n
<1>3. 0 \in T
  BY <1>1, <1>2
<1>4. ASSUME NEW k \in 1..n, k - 1 \in T
      PROVE  k \in T
  <2>1. k \in 0..n /\ k - 1 \in 0..n /\ t[k - 1] <= Part(y, Image(k - 1))
    BY <1>1, <1>4
  <2>2. Image(k) = Image(k - 1) \cup {f[k]}
    BY <1>1
  <2>3. f[k] \notin Image(k - 1)
    BY <1>1 DEF n
  <2> HIDE DEF Image
  <2>4. Part(y, Image(k)) = Part(y, Image(k - 1)) + y[f[k]]
    <3>0. PICK S : S = Image(k - 1)
      OBVIOUS
    <3>1. PICK j \in 1..Len(y) : j = f[k]
      BY <1>1
    <3>2. Part(y, S \cup {j}) = Part(y, S) + y[j]
      BY <2>3, <3>0, <3>1, PartAdds
    <3> QED BY <2>2, <3>0, <3>1, <3>2
  <2>5. z[k] \in Nat /\ y[f[k]] \in Nat /\ z[k] <= y[f[k]]
    BY <1>1 DEF n
  <2>6. t[k] <= Part(y, Image(k))
    <3>1. t[k] = t[k - 1] + z[k] /\ t[k - 1] \in Nat
      BY <1>1, <2>1
    <3>2. Part(y, Image(k - 1)) \in Nat
      BY <1>2
    <3>3. t[k - 1] + z[k] <= Part(y, Image(k - 1)) + y[f[k]]
      BY <2>1, <2>5, <3>1, <3>2, SumBelow, Zenon
    <3> QED BY <2>4, <3>1, <3>3, Zenon
  <2> QED BY <2>1, <2>6
<1> HIDE DEF T
<1>5. 0..n \subseteq T
  BY <1>1, <1>3, <1>4, UpTo
<1>6. t[n] <= Part(y, Image(n))
  <2>1. n \in T
    BY <1>1, <1>5
  <2> QED BY <2>1 DEF T
<1> HIDE DEF Image
<1>7. Part(y, Image(n)) <= Totals(y)[Len(y)]
  <2> DEFINE a == Masked(y, Image(n))
  <2>1. a \in Seq(Nat) /\ Len(a) = Len(y) /\ \A j \in 1..Len(a) : a[j] <= y[j]
    <3>1. \A j \in 1..Len(y) : y[j] \in Nat /\ y[j] <= y[j] /\ 0 <= y[j]
      OBVIOUS
    <3>2. /\ a \in Seq(Nat) /\ Len(a) = Len(y)
          /\ \A j \in 1..Len(y) : a[j] = IF j \in Image(n) THEN y[j] ELSE 0
      BY MaskedSizes
    <3> HIDE DEF a
    <3> QED BY <3>1, <3>2
  <2>2. Part(y, Image(n)) = Totals(a)[Len(a)]
    BY <2>1 DEF Part
  <2> HIDE DEF a
  <2> QED BY <2>1, <2>2, TotalsBelow
<1>8. Totals(y)[Len(y)] \in Nat
  <2>1. /\ Len(y) \in Nat /\ \A k \in 0..Len(y) : Totals(y)[k] \in Nat
    BY TotalsAt, Zenon
  <2>2. Len(y) \in 0..Len(y)
    BY <2>1
  <2> QED BY <2>1, <2>2
<1>9. t[n] \in Nat /\ Part(y, Image(n)) \in Nat
  BY <1>1, <1>2
<1>10. t[n] <= Totals(y)[Len(y)]
  BY <1>6, <1>7, <1>8, <1>9
<1> QED BY <1>10, Zenon DEF t, n

\* A message is a sequence of attributes that take room.
Sized(m) ==
  /\ Len(m) \in Nat /\ m = [i \in 1..Len(m) |-> m[i]]
  /\ \A i \in 1..Len(m) : FieldSize(m[i]) \in Nat \ {0}

\* A text and a number take room.
LEMMA TextSizes == \A n \in Nat : TextSize(n) \in Nat \ {0}
BY DEF TextSize, Digits

LEMMA ScalarSizes ==
  ASSUME NEW v, IsScalar(v)
  PROVE  ScalarSize(v) \in Nat \ {0}
<1>1. CASE v.type = "str"
  BY <1>1, TextSizes DEF IsScalar, ScalarSize
<1>2. CASE v.type # "str"
  <2>1. v.type \in {"none", "bool", "int", "float", "long", "other"}
    BY <1>2 DEF IsScalar, Payload
  <2>2. Payload[v.type] \in Nat
    BY <2>1 DEF Payload, SizeOfInt
  <2> QED BY <1>2, <2>2 DEF ScalarSize
<1> QED BY <1>1, <1>2

\* So does a value, as it is encoded and as it is expected.
LEMMA ValueSizes ==
  ASSUME NEW v, IsValue(v)
  PROVE  ValueSize(v) \in Nat \ {0} /\ ApproximateValue(v) \in Nat \ {0}
<1> USE DEF SizeOfInt, MaxText
<1>1. CASE v.type = "list"
  <2>1. v.len \in Nat /\ IsScalar(v.item) /\ v.item.chars \in Nat
    BY <1>1 DEF IsValue
  <2>2. \A a, b \in Nat : a * b \in Nat
    OBVIOUS
  <2>3. v.len * ScalarSize(v.item) \in Nat /\ v.len * (4 + v.item.chars) \in Nat
    BY <2>1, <2>2, ScalarSizes
  <2>4. /\ ValueSize(v) = 1 + SizeOfInt + v.len * ScalarSize(v.item)
        /\ ApproximateValue(v) = 1 + 4 + v.len * (4 + v.item.chars)
    BY <1>1 DEF ValueSize, ApproximateValue
  <2> QED BY <2>3, <2>4
<1>2. CASE v.type # "list"
  <2>1. IsScalar(v)
    BY <1>2 DEF IsValue
  <2>2. ValueSize(v) \in Nat \ {0}
    BY <1>2, <2>1, ScalarSizes DEF ValueSize
  <2>3. CASE v.type = "str"
    BY <2>2, <2>3 DEF ApproximateValue
  <2>4. CASE v.type # "str"
    <3>1. v.type \in {"none", "bool", "int", "float", "long", "other"}
      BY <2>1, <2>4 DEF IsScalar, Payload
    <3>2. Payload[v.type] \in Nat
      BY <3>1 DEF Payload
    <3> QED BY <1>2, <2>2, <2>4, <3>2 DEF ApproximateValue
  <2> QED BY <2>3, <2>4
<1> QED BY <1>1, <1>2

\* And so does every attribute.
LEMMA MessageSized ==
  ASSUME NEW m, IsMessage(m)
  PROVE  Sized(m) /\ \A i \in 1..Len(m) : ApproximateField(m[i]) \in Nat \ {0}
<1>1. Len(m) \in Nat /\ m = [i \in 1..Len(m) |-> m[i]]
  BY DEF IsMessage
<1>2. ASSUME NEW i \in 1..Len(m)
      PROVE  FieldSize(m[i]) \in Nat \ {0} /\ ApproximateField(m[i]) \in Nat \ {0}
  <2> DEFINE f == m[i]
  <2>1. Len(f.key) \in Nat /\ IsValue(f.value)
    BY DEF IsMessage
  <2> HIDE DEF f
  <2>2. TextSize(Len(f.key)) \in Nat \ {0}
    BY <2>1, TextSizes
  <2>3. ValueSize(f.value) \in Nat \ {0} /\ ApproximateValue(f.value) \in Nat \ {0}
    BY <2>1, ValueSizes
  <2>4. FieldSize(f) \in Nat \ {0}
    BY <2>2, <2>3 DEF FieldSize
  <2>5. ApproximateField(f) \in Nat \ {0}
    BY <2>1, <2>3 DEF ApproximateField
  <2> QED BY <2>4, <2>5 DEF f
<1> QED BY <1>1, <1>2 DEF Sized

\* get_approximate_size gives a positive number.
LEMMA ApproximateSizes ==
  ASSUME NEW m, IsMessage(m)
  PROVE  ApproximateSize(m) \in Nat \ {0}
<1> DEFINE z == [i \in 1..Len(m) |-> ApproximateField(m[i])]
<1>1. Len(m) \in Nat /\ z \in Seq(Nat) /\ Len(z) = Len(m)
  BY MessageSized DEF Sized
<1>2. ApproximateSize(m) = 2 + Totals(z)[Len(m)]
  BY DEF ApproximateSize
<1> HIDE DEF z
<1>3. Totals(z)[Len(m)] \in Nat
  <2>1. Totals(z) \in [0..Len(m) -> Nat] /\ Len(m) \in 0..Len(m)
    BY <1>1, TotalsAdd
  <2> QED BY <2>1
<1> QED BY <1>2, <1>3

\* A value has room where one of its kind was that is not outgrown.
Covers(w, v) ==
  v.type = w.type /\ (v.type = "list" => v.len <= w.len /\ v.item.chars <= w.item.chars)

LEMMA ValueCovered ==
  ASSUME NEW v, IsValue(v), NEW w, IsValue(w), Covers(w, v)
  PROVE  ApproximateValue(v) <= ApproximateValue(w)
<1>1. CASE v.type = "list"
  <2>1. /\ v.len \in Nat /\ v.item.chars \in Nat /\ w.len \in Nat /\ w.item.chars \in Nat
        /\ v.len <= w.len /\ v.item.chars <= w.item.chars /\ w.type = "list"
    BY <1>1 DEF Covers, IsValue
  <2>2. v.len * (4 + v.item.chars) <= w.len * (4 + w.item.chars)
    <3>1. \A a, b, c, d \in Nat : a <= b /\ c <= d => a * c <= b * d
      <4> SUFFICES ASSUME NEW a \in Nat, NEW b \in Nat, NEW c \in Nat, NEW d \in Nat,
                          a <= b, c <= d
                   PROVE  a * c <= b * d
        OBVIOUS
      <4>1. a * c <= b * c
        OBVIOUS
      <4>2. b * c <= b * d
        OBVIOUS
      <4>3. a * c \in Nat /\ b * c \in Nat /\ b * d \in Nat
        OBVIOUS
      <4> QED BY <4>1, <4>2, <4>3
    <3> DEFINE c == 4 + v.item.chars
               d == 4 + w.item.chars
    <3>2. c \in Nat /\ d \in Nat /\ c <= d
      BY <2>1
    <3> HIDE DEF c, d
    <3>3. v.len * c <= w.len * d
      BY <2>1, <3>1, <3>2
    <3> QED BY <3>3 DEF c, d
  <2>3. v.len * (4 + v.item.chars) \in Nat /\ w.len * (4 + w.item.chars) \in Nat
    <3>1. \A a, b \in Nat : a * b \in Nat
      OBVIOUS
    <3> QED BY <2>1, <3>1
  <2>4. /\ ApproximateValue(v) = 1 + 4 + v.len * (4 + v.item.chars)
        /\ ApproximateValue(w) = 1 + 4 + w.len * (4 + w.item.chars)
    BY <1>1, <2>1 DEF ApproximateValue
  <2> QED BY <2>2, <2>3, <2>4
<1>2. CASE v.type # "list"
  <2>1. ApproximateValue(v) = ApproximateValue(w)
    BY <1>2 DEF ApproximateValue, Covers
  <2> QED BY <2>1, ValueSizes
<1> QED BY <1>1, <1>2

\* A message has room in what is expected of another one, if each of its
\* attributes has in one of the other's.
LEMMA MessageCovered ==
  ASSUME NEW m, IsMessage(m), NEW o, IsMessage(o),
         \A i \in 1..Len(m) : \E j \in 1..Len(o) :
           m[i].key = o[j].key /\ Covers(o[j].value, m[i].value)
  PROVE  ApproximateSize(m) <= ApproximateSize(o)
<1> DEFINE z == [i \in 1..Len(m) |-> ApproximateField(m[i])]
           y == [i \in 1..Len(o) |-> ApproximateField(o[i])]
           f == [i \in 1..Len(m) |->
                   CHOOSE j \in 1..Len(o) :
                     m[i].key = o[j].key /\ Covers(o[j].value, m[i].value)]
<1>1. /\ z \in Seq(Nat) /\ Len(z) = Len(m) /\ y \in Seq(Nat) /\ Len(y) = Len(o)
      /\ Len(m) \in Nat /\ Len(o) \in Nat
      /\ \A i \in 1..Len(m) : z[i] = ApproximateField(m[i])
      /\ \A j \in 1..Len(o) : y[j] = ApproximateField(o[j])
  BY MessageSized DEF Sized
<1>2. \A i \in 1..Len(m) :
        /\ f[i] \in 1..Len(o)
        /\ m[i].key = o[f[i]].key /\ Covers(o[f[i]].value, m[i].value)
  OBVIOUS
<1>3. f \in [1..Len(m) -> 1..Len(o)]
  BY <1>2
<1>4. /\ ApproximateSize(m) = 2 + Totals(z)[Len(m)]
      /\ ApproximateSize(o) = 2 + Totals(y)[Len(o)]
  BY DEF ApproximateSize
<1> HIDE DEF z, y, f
<1>5. ASSUME NEW i \in 1..Len(m), NEW j \in 1..Len(m), f[i] = f[j]
      PROVE  i = j
  <2>1. m[i].key = o[f[i]].key /\ m[j].key = o[f[j]].key
    BY <1>2
  <2>2. m[i].key = m[j].key
    BY <1>5, <2>1
  <2> QED BY <2>2, Zenon DEF IsMessage
<1>6. ASSUME NEW i \in 1..Len(m)
      PROVE  z[i] <= y[f[i]]
  <2>0. PICK j \in 1..Len(o) : j = f[i]
    BY <1>2
  <2>1. /\ IsValue(m[i].value) /\ IsValue(o[j].value) /\ Len(m[i].key) \in Nat
        /\ m[i].key = o[j].key /\ Covers(o[j].value, m[i].value)
    BY <1>2, <2>0 DEF IsMessage
  <2>2. /\ ApproximateValue(m[i].value) \in Nat /\ ApproximateValue(o[j].value) \in Nat
        /\ ApproximateValue(m[i].value) <= ApproximateValue(o[j].value)
    BY <2>1, ValueSizes, ValueCovered
  <2>3. /\ z[i] = Len(m[i].key) + 1 + ApproximateValue(m[i].value)
        /\ y[j] = Len(m[i].key) + 1 + ApproximateValue(o[j].value)
    BY <1>1, <2>1 DEF ApproximateField
  <2> QED BY <2>0, <2>1, <2>2, <2>3
<1>7. Totals(z)[Len(z)] <= Totals(y)[Len(y)]
  BY <1>1, <1>3, <1>5, <1>6, TotalsMatched
<1>8. Totals(z)[Len(m)] \in Nat /\ Totals(y)[Len(o)] \in Nat
  <2>1. /\ \A k \in 0..Len(z) : Totals(z)[k] \in Nat
        /\ \A k \in 0..Len(y) : Totals(y)[k] \in Nat
    BY <1>1, TotalsAt
  <2>2. Len(m) \in 0..Len(z) /\ Len(o) \in 0..Len(y)
    BY <1>1
  <2> QED BY <2>1, <2>2
<1> QED BY <1>1, <1>4, <1>7, <1>8

\* Its attributes lie one after the other, behind their number.
LEMMA Offsets ==
  ASSUME NEW m, Sized(m)
  PROVE  /\ Offset(m, 1) = SizeOfInt
         /\ \A i \in 1..(Len(m) + 1) : Offset(m, i) \in Nat /\ Offset(m, i) >= SizeOfInt
         /\ \A i \in 1..Len(m) : Offset(m, i + 1) = Offset(m, i) + FieldSize(m[i])
         /\ \A i, j \in 1..(Len(m) + 1) : i <= j => Offset(m, i) <= Offset(m, j)
<1> DEFINE z == [j \in 1..Len(m) |-> FieldSize(m[j])]
           t == Totals(z)
<1>1. z \in Seq(Nat) /\ Len(z) = Len(m) /\ Len(m) \in Nat
  BY DEF Sized
<1>2. /\ t \in [0..Len(m) -> Nat] /\ t[0] = 0
      /\ \A i \in 1..Len(m) : t[i] = t[i - 1] + z[i]
  <2> HIDE DEF z
  <2> QED BY <1>1, TotalsAdd
<1>3. \A i, j \in 0..Len(m) : i <= j => t[i] <= t[j]
  <2> HIDE DEF z
  <2> QED BY <1>1, TotalsGrow
<1>4. \A i \in 1..Len(m) : z[i] = FieldSize(m[i])
  OBVIOUS
<1>5. \A i : Offset(m, i) = SizeOfInt + t[i - 1]
  BY DEF Offset
<1> HIDE DEF t, z
<1>6. /\ Offset(m, 1) = SizeOfInt
      /\ \A i \in 1..Len(m) : Offset(m, i + 1) = Offset(m, i) + FieldSize(m[i])
  <2>1. ASSUME NEW i \in 1..Len(m)
        PROVE  Offset(m, i + 1) = Offset(m, i) + FieldSize(m[i])
    <3>1. Offset(m, i + 1) = SizeOfInt + t[i] /\ Offset(m, i) = SizeOfInt + t[i - 1]
      <4>1. (i + 1) - 1 = i
        BY <1>1
      <4> QED BY <1>5, <4>1
    <3>2. t[i - 1] \in Nat
      <4>1. i - 1 \in 0..Len(m)
        BY <1>1
      <4> QED BY <1>2, <4>1
    <3>3. FieldSize(m[i]) \in Nat /\ t[i] = t[i - 1] + FieldSize(m[i])
      BY <1>2, <1>4 DEF Sized
    <3> QED BY <3>1, <3>2, <3>3 DEF SizeOfInt
  <2>2. Offset(m, 1) = SizeOfInt
    <3>1. Offset(m, 1) = SizeOfInt + t[1 - 1] /\ 1 - 1 = 0
      BY <1>5
    <3> QED BY <1>2, <3>1 DEF SizeOfInt
  <2> QED BY <2>1, <2>2
<1>7. ASSUME NEW i \in 1..(Len(m) + 1)
      PROVE  i - 1 \in 0..Len(m) /\ t[i - 1] \in Nat
  <2>1. i - 1 \in 0..Len(m)
    BY <1>1
  <2> QED BY <1>2, <2>1
<1>8. \A i \in 1..(Len(m) + 1) : Offset(m, i) \in Nat /\ Offset(m, i) >= SizeOfInt
  BY <1>5, <1>7 DEF SizeOfInt
<1>9. ASSUME NEW i \in 1..(Len(m) + 1), NEW j \in 1..(Len(m) + 1), i <= j
      PROVE  Offset(m, i) <= Offset(m, j)
  <2>1. t[i - 1] <= t[j - 1]
    <3>1. i - 1 <= j - 1
      BY <1>1, <1>9
    <3> QED BY <1>3, <1>7, <3>1
  <2> QED BY <1>5, <1>7, <2>1 DEF SizeOfInt
<1> QED BY <1>6, <1>8, <1>9

\* The cells of an encoded message.
LEMMA Cells ==
  ASSUME NEW m, Sized(m)
  PROVE  /\ Len(Encode(m)) = Len(m) + 1
         /\ Encode(m) = [i \in 1..(Len(m) + 1) |-> Encode(m)[i]]
         /\ Encode(m)[1] = [at |-> 0, size |-> SizeOfInt, cell |-> Len(m)]
         /\ \A i \in 1..Len(m) :
              Encode(m)[i + 1] = [at |-> Offset(m, i), size |-> FieldSize(m[i]), cell |-> m[i]]
<1> DEFINE C == {[at |-> Offset(m, i), size |-> FieldSize(m[i]), cell |-> m[i]] : i \in 1..Len(m)}
           h == [at |-> 0, size |-> SizeOfInt, cell |-> Len(m)]
           r == [i \in 1..Len(m) |->
                   [at |-> Offset(m, i), size |-> FieldSize(m[i]), cell |-> m[i]]]
<1>1. Len(m) \in Nat /\ r \in Seq(C) /\ Len(r) = Len(m)
  BY DEF Sized
<1>2. Encode(m) = <<h>> \o r
  BY DEF Encode
<1>3. \A i \in 1..Len(m) :
        r[i] = [at |-> Offset(m, i), size |-> FieldSize(m[i]), cell |-> m[i]]
  OBVIOUS
<1> HIDE DEF C, h, r
<1>4. /\ <<h>> \o r \in Seq(C \cup {h}) /\ Len(<<h>> \o r) = Len(m) + 1
      /\ (<<h>> \o r)[1] = h
      /\ \A i \in 1..Len(m) : (<<h>> \o r)[i + 1] = r[i]
  BY <1>1
<1>5. <<h>> \o r = [i \in 1..(Len(m) + 1) |-> (<<h>> \o r)[i]]
  BY <1>1, <1>4
<1> QED BY <1>2, <1>3, <1>4, <1>5 DEF h

\* Two cells of a message do not overlap.
LEMMA CellsApart ==
  ASSUME NEW m, Sized(m), NEW i \in 1..(Len(m) + 1), NEW j \in 1..(Len(m) + 1), i # j
  PROVE  /\ ~Overlap(Encode(m)[i], Encode(m)[j])
         /\ Encode(m)[i].at # Encode(m)[j].at
<1> DEFINE e == Encode(m)
<1>1. Len(m) \in Nat
  BY DEF Sized
<1>0. /\ e[1] = [at |-> 0, size |-> SizeOfInt, cell |-> Len(m)]
      /\ \A k \in 1..Len(m) :
           e[k + 1] = [at |-> Offset(m, k), size |-> FieldSize(m[k]), cell |-> m[k]]
  BY Cells
<1> HIDE DEF e
<1>a. /\ e[1].at = 0 /\ e[1].size = SizeOfInt
      /\ \A k \in 1..Len(m) : e[k + 1].at = Offset(m, k) /\ e[k + 1].size = FieldSize(m[k])
  <2>1. \A k \in 1..Len(m) : e[k + 1].at = Offset(m, k) /\ e[k + 1].size = FieldSize(m[k])
    <3> TAKE k \in 1..Len(m)
    <3>1. e[k + 1] = [at |-> Offset(m, k), size |-> FieldSize(m[k]), cell |-> m[k]]
      BY <1>0
    <3> QED BY <3>1
  <2> QED BY <1>0, <2>1
<1>b. ASSUME NEW k \in 1..(Len(m) + 1), k # 1
      PROVE  \E p \in 1..Len(m) :
               /\ p + 1 = k /\ p \in 1..(Len(m) + 1)
               /\ e[k].at = Offset(m, p) /\ e[k].size = FieldSize(m[p])
               /\ e[k].at + e[k].size = Offset(m, k)
  <2>1. PICK p \in 1..Len(m) : p + 1 = k /\ p \in 1..(Len(m) + 1)
    <3>1. k - 1 \in 1..Len(m) /\ (k - 1) + 1 = k /\ k - 1 \in 1..(Len(m) + 1)
      BY <1>1, <1>b
    <3> QED BY <3>1
  <2>2. e[p + 1].at = Offset(m, p) /\ e[p + 1].size = FieldSize(m[p])
    BY <1>a
  <2>3. Offset(m, p + 1) = Offset(m, p) + FieldSize(m[p])
    BY Offsets
  <2> QED BY <2>1, <2>2, <2>3
<1>2. \A k \in 1..(Len(m) + 1) : e[k].at \in Nat /\ e[k].size \in Nat \ {0}
  <2> TAKE k \in 1..(Len(m) + 1)
  <2>1. CASE k = 1
    BY <1>a, <2>1 DEF SizeOfInt
  <2>2. CASE k # 1
    <3>1. PICK p \in 1..Len(m) :
            p \in 1..(Len(m) + 1) /\ e[k].at = Offset(m, p) /\ e[k].size = FieldSize(m[p])
      BY <1>b, <2>2
    <3>2. Offset(m, p) \in Nat
      BY <3>1, Offsets
    <3> QED BY <3>1, <3>2 DEF Sized
  <2> QED BY <2>1, <2>2
<1>3. \A k, l \in 1..(Len(m) + 1) : k < l => e[k].at + e[k].size <= e[l].at
  <2> TAKE k, l \in 1..(Len(m) + 1)
  <2> HAVE k < l
  <2>1. l # 1
    BY <1>1
  <2>2. PICK p \in 1..Len(m) :
          p + 1 = l /\ p \in 1..(Len(m) + 1) /\ e[l].at = Offset(m, p)
    BY <1>b, <2>1
  <2>3. CASE k = 1
    <3>1. e[k].at + e[k].size = SizeOfInt
      BY <1>a, <2>3 DEF SizeOfInt
    <3>2. Offset(m, p) >= SizeOfInt /\ Offset(m, p) \in Nat
      BY <2>2, Offsets
    <3> QED BY <2>2, <3>1, <3>2 DEF SizeOfInt
  <2>4. CASE k # 1
    <3>1. e[k].at + e[k].size = Offset(m, k)
      BY <1>b, <2>4
    <3>2. k <= p
      BY <1>1, <2>2
    <3> QED BY <2>2, <3>1, <3>2, Offsets
  <2> QED BY <2>3, <2>4
<1>4. ~Overlap(e[i], e[j]) /\ e[i].at # e[j].at
  <2>1. CASE i < j
    BY <1>2, <1>3, <2>1 DEF Overlap
  <2>2. CASE j < i
    BY <1>2, <1>3, <2>2 DEF Overlap
  <2> QED BY <1>1, <2>1, <2>2
<1> QED BY <1>4 DEF e

-----------------------------------------------------------------------------
(* Memories.                                                               *)

\* The first k cells of a message are in a memory.
Holds(mem, m, k) ==
  \A i \in 1..k : LET c == Encode(m)[i] IN c.at \in DOMAIN mem /\ mem[c.at] = c

\* The next one leaves them intact.
LEMMA WriteHolds ==
  ASSUME NEW m, Sized(m), NEW mem, NEW k \in 0..Len(m), Holds(mem, m, k)
  PROVE  Holds(Write(mem, Encode(m)[k + 1]), m, k + 1)
<1> DEFINE e == Encode(m)
           c == e[k + 1]
           kept == {o \in DOMAIN mem : ~Overlap(mem[o], c)}
           w == [o \in kept \cup {c.at} |-> IF o = c.at THEN c ELSE mem[o]]
<1>1. w = Write(mem, c)
  BY DEF Write
<1>2. ASSUME NEW i \in 1..(k + 1)
      PROVE  e[i].at \in DOMAIN w /\ w[e[i].at] = e[i]
  <2>1. CASE i = k + 1
    BY <2>1
  <2>2. CASE i # k + 1
    <3>1. /\ i \in 1..k /\ i \in 1..(Len(m) + 1) /\ k + 1 \in 1..(Len(m) + 1)
      BY <2>2 DEF Sized
    <3>2. e[i].at \in DOMAIN mem /\ mem[e[i].at] = e[i]
      BY <3>1 DEF Holds
    <3>3. ~Overlap(e[i], c) /\ e[i].at # c.at
      BY <2>2, <3>1, CellsApart
    <3> HIDE DEF e, c
    <3> QED BY <3>2, <3>3
  <2> QED BY <2>1, <2>2
<1> HIDE DEF w
<1> QED BY <1>1, <1>2 DEF Holds

\* What is behind a message does not matter for it.
LEMMA PadHolds ==
  ASSUME NEW m, Sized(m), NEW mem, DOMAIN mem \subseteq Nat, Holds(mem, m, Len(m) + 1)
  PROVE  Holds(Pad(mem, EncodedSize(m)), m, Len(m) + 1)
<1> DEFINE e == Encode(m)
           end == EncodedSize(m)
           w == [o \in {x \in DOMAIN mem : x < end} |-> mem[o]]
<1>1. ASSUME NEW i \in 1..(Len(m) + 1)
      PROVE  e[i].at < end
  <2>1. Len(m) \in Nat /\ end = Offset(m, Len(m) + 1) /\ Len(m) + 1 \in 1..(Len(m) + 1)
    BY DEF Sized, EncodedSize
  <2>2. end \in Nat /\ end >= SizeOfInt
    BY <2>1, Offsets
  <2> HIDE DEF end
  <2>3. CASE i = 1
    <3>1. e[1] = [at |-> 0, size |-> SizeOfInt, cell |-> Len(m)]
      BY Cells
    <3> HIDE DEF e
    <3> QED BY <2>2, <2>3, <3>1 DEF SizeOfInt
  <2>4. CASE i # 1
    <3>1. PICK p \in 1..Len(m) : p + 1 = i /\ p + 1 \in 1..(Len(m) + 1) /\ p \in 1..(Len(m) + 1)
      <4>1. i - 1 \in 1..Len(m) /\ (i - 1) + 1 = i /\ i - 1 \in 1..(Len(m) + 1)
        BY <2>1, <2>4
      <4> QED BY <4>1
    <3>2. e[p + 1] = [at |-> Offset(m, p), size |-> FieldSize(m[p]), cell |-> m[p]]
      BY Cells
    <3> HIDE DEF e
    <3>3. e[i].at = Offset(m, p)
      BY <3>1, <3>2
    <3>4. /\ Offset(m, p) \in Nat /\ FieldSize(m[p]) \in Nat \ {0}
          /\ Offset(m, p + 1) = Offset(m, p) + FieldSize(m[p])
          /\ Offset(m, p + 1) \in Nat
      BY <3>1, Offsets DEF Sized
    <3>5. Offset(m, p + 1) <= Offset(m, Len(m) + 1)
      <4>1. p + 1 <= Len(m) + 1
        BY <2>1
      <4> QED BY <2>1, <3>1, <4>1, Offsets
    <3> QED BY <2>1, <2>2, <3>3, <3>4, <3>5
  <2> QED BY <2>3, <2>4
<1>2. ASSUME NEW i \in 1..(Len(m) + 1)
      PROVE  e[i].at \in DOMAIN w /\ w[e[i].at] = e[i]
  <2>1. e[i].at \in DOMAIN mem /\ mem[e[i].at] = e[i]
    BY DEF Holds
  <2>2. e[i].at < end
    BY <1>1
  <2> HIDE DEF e, end
  <2> QED BY <2>1, <2>2
<1>3. w = Pad(mem, end)
  BY DEF Pad
<1> HIDE DEF w
<1> QED BY <1>2, <1>3 DEF Holds

\* Offsets and sizes are numbers, and so is what decode takes for the number
\* of attributes.
IsMemory(mem) ==
  /\ DOMAIN mem \subseteq Nat
  /\ \A o \in DOMAIN mem : mem[o].size \in Nat
  /\ 0 \in DOMAIN mem => mem[0].cell \in Nat

\* The cells of a message are such.
LEMMA CellTypes ==
  ASSUME NEW m, Sized(m), NEW i \in 1..(Len(m) + 1)
  PROVE  LET c == Encode(m)[i]
         IN c.at \in Nat /\ c.size \in Nat /\ (c.at = 0 => c.cell \in Nat)
<1> DEFINE c == Encode(m)[i]
<1>1. Len(m) \in Nat
  BY DEF Sized
<1>2. CASE i = 1
  <2>1. c = [at |-> 0, size |-> SizeOfInt, cell |-> Len(m)]
    BY <1>2, Cells
  <2> HIDE DEF c
  <2>2. c.at \in Nat /\ c.size \in Nat /\ c.cell \in Nat
    BY <1>1, <2>1 DEF SizeOfInt
  <2> QED BY <2>2 DEF c
<1>3. CASE i # 1
  <2>1. PICK p \in 1..Len(m) : p + 1 = i /\ p \in 1..(Len(m) + 1)
    <3>1. i - 1 \in 1..Len(m) /\ (i - 1) + 1 = i /\ i - 1 \in 1..(Len(m) + 1)
      BY <1>1, <1>3
    <3> QED BY <3>1
  <2>2. c = [at |-> Offset(m, p), size |-> FieldSize(m[p]), cell |-> m[p]]
    BY <2>1, Cells
  <2>3. Offset(m, p) \in Nat /\ Offset(m, p) # 0 /\ FieldSize(m[p]) \in Nat
    <3>1. Offset(m, p) \in Nat /\ Offset(m, p) >= SizeOfInt
      BY <2>1, Offsets
    <3> QED BY <3>1 DEF Sized, SizeOfInt
  <2> HIDE DEF c
  <2>4. c.at \in Nat /\ c.at # 0 /\ c.size \in Nat
    BY <2>2, <2>3
  <2> QED BY <2>4 DEF c
<1> QED BY <1>2, <1>3

\* A memory stays one.
LEMMA WriteMemory ==
  ASSUME NEW mem, IsMemory(mem), NEW c, c.at \in Nat, c.size \in Nat, c.at = 0 => c.cell \in Nat
  PROVE  IsMemory(Write(mem, c))
BY DEF IsMemory, Write

LEMMA PadMemory ==
  ASSUME NEW mem, IsMemory(mem), NEW from
  PROVE  IsMemory(Pad(mem, from))
BY DEF IsMemory, Pad

\* A new one holds a message without attributes.
LEMMA NewMemory == IsMemory(Zeros) /\ Sized(<<>>) /\ Holds(Zeros, <<>>, 1)
<1>1. IsMemory(Zeros)
  BY DEF IsMemory, Zeros, SizeOfInt
<1>2. Len(<<>>) = 0 /\ Sized(<<>>)
  BY DEF Sized
<1> DEFINE c == Encode(<<>>)[1]
<1>3. c = [at |-> 0, size |-> SizeOfInt, cell |-> 0]
  BY <1>2, Cells
<1> HIDE DEF c
<1>4. c.at \in DOMAIN Zeros /\ Zeros[c.at] = c
  BY <1>3 DEF Zeros
<1>5. \A i \in 1..1 : i = 1
  OBVIOUS
<1> QED BY <1>1, <1>2, <1>4, <1>5 DEF Holds, c

\* What is left of a sequence of which the first k are done.
LEMMA Rest ==
  ASSUME NEW S, NEW s \in Seq(S), NEW k \in 0..(Len(s) - 1)
  PROVE  LET r == SubSeq(s, k + 1, Len(s))
         IN /\ r # <<>> /\ Head(r) = s[k + 1] /\ Len(r) = Len(s) - k
            /\ Tail(r) = SubSeq(s, (k + 1) + 1, Len(s))
<1>1. Len(s) \in Nat /\ k + 1 \in 1..Len(s) /\ Len(s) \in (k + 1)..Len(s)
  OBVIOUS
<1>2. /\ Head(SubSeq(s, k + 1, Len(s))) = s[k + 1]
      /\ Tail(SubSeq(s, k + 1, Len(s))) = SubSeq(s, (k + 1) + 1, Len(s))
  BY <1>1, HeadTailOfSubSeq
<1>3. Len(SubSeq(s, k + 1, Len(s))) = Len(s) - k /\ SubSeq(s, k + 1, Len(s)) # <<>>
  <2>1. \A i \in (k + 1)..Len(s) : s[i] \in S
    BY <1>1
  <2>2. Len(SubSeq(s, k + 1, Len(s))) = Len(s) - k
    BY <1>1, <2>1, SubSeqProperties
  <2> DEFINE r == SubSeq(s, k + 1, Len(s))
  <2> HIDE DEF r
  <2>3. r = <<>> => Len(r) = 0
    OBVIOUS
  <2>4. Len(s) - k # 0
    BY <1>1
  <2> QED BY <2>2, <2>3, <2>4 DEF r
<1> QED BY <1>2, <1>3

-----------------------------------------------------------------------------
(* Decoding.                                                               *)

Count(mem) == IF 0 \in DOMAIN mem THEN mem[0].cell ELSE 0

Results(mem) ==
  [at : Nat \ {0}, fields : Seq({mem[o].cell : o \in DOMAIN mem \ {0}}), ok : BOOLEAN]

\* How decode goes on from what it has.
Following(mem, former) ==
  IF former.ok /\ former.at \in DOMAIN mem
    THEN [at |-> former.at + mem[former.at].size,
          fields |-> Append(former.fields, mem[former.at].cell),
          ok |-> TRUE]
    ELSE [former EXCEPT !.ok = FALSE]

Beginning(mem) == [at |-> SizeOfInt, fields |-> <<>>, ok |-> 0 \in DOMAIN mem]

\* Decode takes one attribute after the other.
LEMMA DecodeSteps ==
  ASSUME NEW mem, IsMemory(mem)
  PROVE  /\ Count(mem) \in Nat
         /\ \E step \in [0..Count(mem) -> Results(mem)] :
              /\ step[0] = Beginning(mem)
              /\ \A i \in 1..Count(mem) : step[i] = Following(mem, step[i - 1])
              /\ Decode(mem) = step[Count(mem)]
<1> DEFINE n == Count(mem)
           D == Results(mem)
           C == {mem[o].cell : o \in DOMAIN mem \ {0}}
           g == [p \in (1..n) \X D |-> Following(mem, p[2])]
           Steps(f) == f = [i \in 0..n |-> IF i = 0 THEN Beginning(mem) ELSE Following(mem, f[i - 1])]
<1>1. n \in Nat
  BY DEF Count, IsMemory
<1>2. Beginning(mem) \in D
  BY DEF Beginning, Results, SizeOfInt
<1>3. ASSUME NEW d \in D
      PROVE  Following(mem, d) \in D
  <2>1. d.at \in Nat \ {0} /\ d.fields \in Seq(C) /\ d.ok \in BOOLEAN
    BY DEF Results
  <2>2. CASE d.ok /\ d.at \in DOMAIN mem
    <3>1. mem[d.at].cell \in C /\ mem[d.at].size \in Nat
      BY <2>1, <2>2 DEF IsMemory
    <3> HIDE DEF C
    <3>2. Append(d.fields, mem[d.at].cell) \in Seq(C) /\ d.at + mem[d.at].size \in Nat \ {0}
      BY <2>1, <3>1
    <3> QED BY <2>2, <3>2 DEF Following, Results, C
  <2>3. CASE ~(d.ok /\ d.at \in DOMAIN mem)
    BY <2>3 DEF Following, Results
  <2> QED BY <2>2, <2>3
<1>4. g \in [(1..n) \X D -> D]
  <2> HIDE DEF D, n
  <2> QED BY <1>3
<1>5. PICK f \in [0..n -> D] : f[0] = Beginning(mem) /\ \A i \in 1..n : f[i] = Following(mem, f[i - 1])
  <2> HIDE DEF g, n, D
  <2>1. PICK f \in [0..n -> D] : Recurs(f, n, Beginning(mem), g)
    BY <1>1, <1>2, <1>4, Recursion
  <2>2. ASSUME NEW i \in 1..n
        PROVE  f[i] = Following(mem, f[i - 1])
    <3>1. f[i - 1] \in D
      BY <1>1
    <3>2. g[<<i, f[i - 1]>>] = Following(mem, f[i - 1])
      BY <3>1 DEF g
    <3> QED BY <2>1, <3>2 DEF Recurs
  <2> QED BY <2>1, <2>2 DEF Recurs
<1>6. Steps(f)
  <2> HIDE DEF n, D
  <2>1. \A i \in 0..n : i # 0 => i \in 1..n
    BY <1>1
  <2> QED BY <1>1, <1>5, <2>1
<1> DEFINE step == CHOOSE h : Steps(h)
<1>7. Steps(step)
  <2> HIDE DEF Steps
  <2> QED BY <1>6
<1>8. Decode(mem) = step[n]
  BY DEF Decode, Following, Beginning, Count
<1> HIDE DEF n, D, step
<1>9. /\ step[0] = Beginning(mem) /\ \A i \in 1..n : step[i] = Following(mem, step[i - 1])
      /\ step = [i \in 0..n |-> step[i]]
  BY <1>1, <1>7
<1>10. \A i \in 0..n : step[i] \in D
  <2> DEFINE T == {i \in 0..n : step[i] \in D}
  <2>1. 0 \in T
    BY <1>1, <1>2, <1>9
  <2>2. ASSUME NEW i \in 1..n, i - 1 \in T
        PROVE  i \in T
    <3>1. step[i - 1] \in D /\ i \in 0..n
      BY <1>1, <2>2
    <3>2. step[i] \in D
      BY <1>3, <1>9, <3>1
    <3> QED BY <3>1, <3>2
  <2> HIDE DEF T
  <2>3. 0..n \subseteq T
    BY <1>1, <2>1, <2>2, UpTo
  <2> QED BY <2>3 DEF T
<1>11. step \in [0..n -> D]
  BY <1>9, <1>10
<1> QED BY <1>1, <1>8, <1>9, <1>11 DEF n, D

\* Whatever is in a memory, what decode makes of it is a sequence of attributes.
LEMMA DecodeType ==
  ASSUME NEW mem, IsMemory(mem)
  PROVE  Decode(mem) \in Results(mem)
<1>1. PICK step \in [0..Count(mem) -> Results(mem)] : Decode(mem) = step[Count(mem)]
  BY DecodeSteps
<1>2. Count(mem) \in Nat
  BY DecodeSteps
<1>3. Count(mem) \in 0..Count(mem)
  BY <1>2
<1> QED BY <1>1, <1>3

\* A message that is in a memory as a whole is what is decoded.
LEMMA RoundTrip ==
  ASSUME NEW m, Sized(m), NEW mem, IsMemory(mem), Holds(mem, m, Len(m) + 1)
  PROVE  Decode(mem).fields = m /\ Decode(mem).ok = TRUE
<1> DEFINE n == Len(m)
           e == Encode(m)
           part(i) == [j \in 1..i |-> m[j]]
<1>1. /\ n \in Nat /\ m = part(n)
      /\ e[1] = [at |-> 0, size |-> SizeOfInt, cell |-> n]
      /\ \A i \in 1..n :
           e[i + 1] = [at |-> Offset(m, i), size |-> FieldSize(m[i]), cell |-> m[i]]
  BY Cells DEF Sized
<1>2. /\ 0 \in DOMAIN mem /\ mem[0].cell = n
      /\ \A i \in 1..n :
           /\ Offset(m, i) \in DOMAIN mem
           /\ mem[Offset(m, i)].size = FieldSize(m[i]) /\ mem[Offset(m, i)].cell = m[i]
  <2>1. \A i \in 1..(n + 1) : e[i].at \in DOMAIN mem /\ mem[e[i].at] = e[i]
    BY DEF Holds
  <2> HIDE DEF e, n
  <2>2. 0 \in DOMAIN mem /\ mem[0].cell = n
    <3>1. e[1].at = 0 /\ e[1].cell = n /\ 1 \in 1..(n + 1)
      BY <1>1
    <3> QED BY <2>1, <3>1
  <2>3. ASSUME NEW i \in 1..n
        PROVE  /\ Offset(m, i) \in DOMAIN mem
               /\ mem[Offset(m, i)].size = FieldSize(m[i]) /\ mem[Offset(m, i)].cell = m[i]
    <3>1. e[i + 1] = [at |-> Offset(m, i), size |-> FieldSize(m[i]), cell |-> m[i]]
      BY <1>1
    <3>2. i + 1 \in 1..(n + 1)
      BY <1>1
    <3> QED BY <2>1, <3>1, <3>2
  <2> QED BY <2>2, <2>3
<1>3. Count(mem) = n
  BY <1>2 DEF Count
<1>4. PICK step \in [0..n -> Results(mem)] :
        /\ step[0] = Beginning(mem)
        /\ \A i \in 1..n : step[i] = Following(mem, step[i - 1])
        /\ Decode(mem) = step[n]
  BY <1>3, DecodeSteps
<1> DEFINE Right(i) == /\ step[i].at = Offset(m, i + 1)
                       /\ step[i].fields = part(i)
                       /\ step[i].ok = TRUE
           T == {i \in 0..n : Right(i)}
<1>5. 0 \in T
  <2>1. step[0].at = SizeOfInt /\ step[0].fields = <<>> /\ step[0].ok = TRUE
    <3> HIDE DEF n, Right
    <3>1. step[0] = Beginning(mem) /\ 0 \in DOMAIN mem
      BY <1>2, <1>4
    <3> HIDE <1>2, <1>4
    <3> QED BY <3>1 DEF Beginning
  <2>2. Offset(m, 0 + 1) = SizeOfInt
    BY Offsets
  <2>3. part(0) = <<>>
    OBVIOUS
  <2> HIDE DEF part, n
  <2> QED BY <1>1, <2>1, <2>2, <2>3
<1>6. ASSUME NEW i \in 1..n, i - 1 \in T
      PROVE  i \in T
  <2> DEFINE d == step[i - 1]
  <2>1. (i - 1) + 1 = i /\ i \in 0..n
    BY <1>1
  <2>2. d.at = Offset(m, i) /\ d.fields = part(i - 1) /\ d.ok = TRUE
    BY <1>6, <2>1
  <2>3. step[i] = Following(mem, d)
    BY <1>4
  <2> HIDE DEF d
  <2>4. step[i] = [at |-> d.at + mem[d.at].size,
                   fields |-> Append(d.fields, mem[d.at].cell), ok |-> TRUE]
    BY <1>2, <2>2, <2>3 DEF Following
  <2>5. d.at + mem[d.at].size = Offset(m, i + 1)
    BY <1>2, <2>2, Offsets
  <2>6. Append(d.fields, mem[d.at].cell) = part(i)
    <3>1. Append(part(i - 1), m[i]) = part(i)
      <4> DEFINE S == {m[j] : j \in 1..n}
      <4>1. i - 1 \in Nat /\ i = (i - 1) + 1 /\ m[i] \in S
        BY <1>1
      <4>2. \A j \in 1..(i - 1) : m[j] \in S
        BY <1>1
      <4> HIDE DEF S, n
      <4>3. part(i - 1) \in Seq(S) /\ Len(part(i - 1)) = i - 1
        BY <4>1, <4>2
      <4> QED BY <4>1, <4>3
    <3> QED BY <1>2, <2>2, <3>1
  <2> HIDE DEF part, n
  <2> QED BY <2>1, <2>4, <2>5, <2>6
<1>7. n \in T
  <2> HIDE DEF T, n
  <2>1. 0..n \subseteq T
    BY <1>1, <1>5, <1>6, UpTo
  <2> QED BY <1>1, <2>1
<1> QED BY <1>1, <1>4, <1>7

\* Whatever else a memory holds: if all cells of an encoded struct are intact,
\* decode succeeds and gives back its attributes in their order (encode and
\* decode of axone_struct.py), since the cells are adjacent and the number in
\* front says where they end.
THEOREM DecodeAfterEncode ==
  ASSUME NEW m, IsMessage(m), NEW mem, IsMemory(mem),
         \A i \in 1..(Len(m) + 1) :
           LET c == Encode(m)[i] IN c.at \in DOMAIN mem /\ mem[c.at] = c
  PROVE  Decode(mem).fields = m /\ Decode(mem).ok
<1>1. Sized(m)
  BY MessageSized
<1>2. Holds(mem, m, Len(m) + 1)
  BY DEF Holds
<1> QED BY <1>1, <1>2, RoundTrip

=============================================================================
