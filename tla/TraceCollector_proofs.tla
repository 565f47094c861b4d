------------------------ MODULE TraceCollector_proofs ------------------------
(***************************************************************************)
(* For every set of realms, tracks, shapes and times, whatever is lost and *)
(* however the realms interleave: every span of the events is balanced,    *)
(* the repairs come last and are reported, what a producer sent keeps its  *)
(* order, and finish() fails for what was left out alone.  What a realm    *)
(* sent is in the order of its times, Sorted lists the places of the       *)
(* groups by rank, Depth counts the open spans, and every place of the     *)
(* events is a retained group or the end of one open span.  Of the packets *)
(* made of them: every track and clock is introduced before it is used, a  *)
(* realm has one offset, and no other offset has a smaller total error.    *)
(***************************************************************************)
EXTENDS TracePackets, SequenceTheorems, NaturalsInduction, WellFoundedInduction,
        FiniteSetTheorems, TLAPS

-----------------------------------------------------------------------------
(***************************************************************************)
(* Numbers and finite sets of them.                                        *)
(***************************************************************************)
LEMMA Least ==
    ASSUME NEW T \in SUBSET Nat, T # {}
    PROVE  \E x \in T : \A y \in T : x <= y
<1> DEFINE R == OpToRel(<, Nat)
<1>1. IsWellFoundedOn(R, Nat)
  BY NatLessThanWellFounded
<1>2. \A x, y \in Nat : y < x => <<y, x>> \in R
  BY DEF OpToRel
<1> HIDE DEF R
<1>3. \E x \in T : \A y \in T : ~ (<<y, x>> \in R)
  BY <1>1, WFMin
<1>4. PICK x \in T : \A y \in T : ~ (<<y, x>> \in R)
  BY <1>3
<1>5. ASSUME NEW y \in T PROVE x <= y
  <2>1. x \in Nat /\ y \in Nat /\ ~ (y < x)
    BY <1>2, <1>4
  <2>2. QED
    BY <2>1
<1>6. QED
  BY <1>5

LEMMA UpTo ==
    ASSUME NEW N \in Nat, NEW T \in SUBSET Nat, 0 \in T, \A n \in T : n < N => n + 1 \in T
    PROVE  0..N \subseteq T
<1> DEFINE Missing == {n \in 0..N : n \notin T}
<1> SUFFICES ASSUME Missing # {} PROVE FALSE
  OBVIOUS
<1>1. PICK x \in Missing : \A y \in Missing : x <= y
  <2>1. Missing \in SUBSET Nat
    OBVIOUS
  <2>2. QED
    BY <2>1, Least
<1>2. x # 0 /\ x - 1 \in Nat /\ x - 1 \notin Missing
  BY <1>1
<1>3. QED
  BY <1>1, <1>2

LEMMA UpToFinite ==
    ASSUME NEW n \in Nat, NEW I \in SUBSET (1..n)
    PROVE  IsFiniteSet(I) /\ Cardinality(I) \in Nat /\ Cardinality(I) <= n /\ I \in SUBSET Nat
<1>1. IsFiniteSet(1..n) /\ Cardinality(1..n) = n
  BY FS_Interval
<1>2. IsFiniteSet(I) /\ Cardinality(I) <= Cardinality(1..n)
  BY <1>1, FS_Subset
<1>3. Cardinality(I) \in Nat
  BY <1>2, FS_CardinalityType
<1>4. I \in SUBSET Nat
  OBVIOUS
<1>5. QED
  BY <1>1, <1>2, <1>3, <1>4

-----------------------------------------------------------------------------
(***************************************************************************)
(* Ordered.  Of a strict total order R on a finite set: the k-th member is *)
(* the one with k - 1 members before it.                                   *)
(***************************************************************************)
TotalOrder(S, R) ==
    /\ \A x, y \in S : <<x, y>> \in R => <<y, x>> \notin R
    /\ \A x, y, z \in S : <<x, y>> \in R /\ <<y, z>> \in R => <<x, z>> \in R
    /\ \A x, y \in S : x = y \/ <<x, y>> \in R \/ <<y, x>> \in R

Below(S, R, x) == {y \in S : <<y, x>> \in R}
InOrderOf(S, R) == [k \in 1..Cardinality(S) |-> CHOOSE x \in S : Cardinality(Below(S, R, x)) = k - 1]

\* f lists the members of S in the order of R.
Lists(f, m, S, R) ==
    /\ f \in [1..m -> S]
    /\ \A x \in S : \E k \in 1..m : f[k] = x
    /\ \A i, j \in 1..m : i < j => <<f[i], f[j]>> \in R

LEMMA Ranks ==
    ASSUME NEW S, IsFiniteSet(S), NEW R, TotalOrder(S, R)
    PROVE  /\ \A x \in S : Cardinality(Below(S, R, x)) \in 0..Cardinality(S) - 1
           /\ \A x, y \in S : <<x, y>> \in R => Cardinality(Below(S, R, x)) < Cardinality(Below(S, R, y))
<1>1. Cardinality(S) \in Nat
  BY FS_CardinalityType
<1>2. ASSUME NEW x \in S
      PROVE  /\ IsFiniteSet(Below(S, R, x)) /\ Cardinality(Below(S, R, x)) \in Nat
             /\ Cardinality(Below(S, R, x)) < Cardinality(S)
  <2>1. Below(S, R, x) \in SUBSET S /\ Below(S, R, x) # S
    BY DEF Below, TotalOrder
  <2>2. QED
    BY <1>1, <2>1, FS_Subset, FS_CardinalityType
<1>3. ASSUME NEW x \in S, NEW y \in S, <<x, y>> \in R
      PROVE  Cardinality(Below(S, R, x)) < Cardinality(Below(S, R, y))
  <2>1. Below(S, R, x) \in SUBSET Below(S, R, y) /\ x \in Below(S, R, y) /\ x \notin Below(S, R, x)
    BY <1>3 DEF Below, TotalOrder
  <2>2. Cardinality(Below(S, R, x)) <= Cardinality(Below(S, R, y))
        /\ Cardinality(Below(S, R, x)) # Cardinality(Below(S, R, y))
    BY <1>2, <2>1, FS_Subset
  <2>3. QED
    BY <1>2, <2>2
<1>4. QED
  BY <1>1, <1>2, <1>3

LEMMA OrderLists ==
    ASSUME NEW S, IsFiniteSet(S), NEW R, TotalOrder(S, R)
    PROVE  Cardinality(S) \in Nat /\ Lists(InOrderOf(S, R), Cardinality(S), S, R)
<1> DEFINE n == Cardinality(S)
           Rank(x) == Cardinality(Below(S, R, x))
           f == InOrderOf(S, R)
<1>1. n \in Nat
  BY FS_CardinalityType
<1>2. /\ \A x \in S : Rank(x) \in 0..n - 1
      /\ \A x, y \in S : <<x, y>> \in R => Rank(x) < Rank(y)
  BY Ranks
<1>3. f = [k \in 1..n |-> CHOOSE x \in S : Rank(x) = k - 1]
  BY DEF InOrderOf
<1> HIDE DEF n, Rank, f
<1>4. ASSUME NEW x \in S, NEW y \in S, x # y PROVE Rank(x) # Rank(y)
  <2>1. <<x, y>> \in R \/ <<y, x>> \in R
    BY <1>4 DEF TotalOrder
  <2>2. Rank(x) \in 0..n - 1 /\ Rank(y) \in 0..n - 1 /\ (Rank(x) < Rank(y) \/ Rank(y) < Rank(x))
    BY <1>2, <2>1
  <2>3. QED
    BY <1>1, <2>2
<1>5. ASSUME NEW k \in 1..n PROVE \E x \in S : Rank(x) = k - 1
  <2> DEFINE g == [x \in S |-> Rank(x)]
  <2>1. g \in Injection(S, 0..n - 1)
    BY <1>2, <1>4 DEF Injection, IsInjective
  <2>2. IsFiniteSet(0..n - 1) /\ Cardinality(0..n - 1) = n
    <3>1. 0 \in Int /\ n - 1 \in Int
      BY <1>1
    <3>2. IsFiniteSet(0..n - 1) /\ Cardinality(0..n - 1) = IF 0 > n - 1 THEN 0 ELSE (n - 1) - 0 + 1
      BY <3>1, FS_Interval
    <3>3. QED
      BY <1>1, <3>2
  <2>3. g \in Surjection(S, 0..n - 1)
    BY <2>1, <2>2, FS_Injection DEF n
  <2>4. k - 1 \in 0..n - 1
    BY <1>1
  <2>5. QED
    BY <2>3, <2>4 DEF Surjection
<1>6. \A k \in 1..n : f[k] \in S /\ Rank(f[k]) = k - 1
  BY <1>3, <1>5
<1>7. f \in [1..n -> S]
  BY <1>3, <1>6
<1>8. ASSUME NEW x \in S PROVE \E k \in 1..n : f[k] = x
  <2>1. Rank(x) + 1 \in 1..n /\ (Rank(x) + 1) - 1 = Rank(x)
    BY <1>1, <1>2
  <2>2. f[Rank(x) + 1] = x
    BY <1>4, <1>6, <2>1
  <2>3. QED
    BY <2>1, <2>2
<1>9. ASSUME NEW i \in 1..n, NEW j \in 1..n, i < j PROVE <<f[i], f[j]>> \in R
  <2>1. f[i] \in S /\ f[j] \in S /\ Rank(f[i]) = i - 1 /\ Rank(f[j]) = j - 1
    BY <1>6
  <2>2. ~(Rank(f[j]) < Rank(f[i])) /\ Rank(f[i]) # Rank(f[j])
    BY <1>1, <1>9, <2>1
  <2>3. QED
    BY <1>2, <2>1, <2>2 DEF TotalOrder
<1>10. QED
  BY <1>1, <1>7, <1>8, <1>9 DEF Lists, n, f

\* And there is no other way to list them.
LEMMA OneOrder ==
    ASSUME NEW S, IsFiniteSet(S), NEW R, TotalOrder(S, R), NEW m \in Nat, NEW f, Lists(f, m, S, R)
    PROVE  m = Cardinality(S) /\ f = InOrderOf(S, R)
<1> DEFINE Rank(x) == Cardinality(Below(S, R, x))
<1>1. /\ f \in [1..m -> S] /\ (\A x \in S : \E k \in 1..m : f[k] = x)
      /\ \A i, j \in 1..m : i < j => <<f[i], f[j]>> \in R
  BY DEF Lists
<1>2. \A i, j \in 1..m : i # j => f[i] # f[j]
  <2>1. \A i, j \in 1..m : i < j => f[i] # f[j]
    BY <1>1 DEF TotalOrder
  <2>2. QED
    BY <2>1
<1>3. m = Cardinality(S)
  <2>1. f \in Bijection(1..m, S)
    BY <1>1, <1>2 DEF Bijection, Injection, IsInjective, Surjection
  <2>2. IsFiniteSet(1..m) /\ Cardinality(1..m) = m /\ ExistsBijection(1..m, S)
    BY <2>1, FS_Interval DEF ExistsBijection
  <2>3. QED
    BY <2>2, FS_Bijection
<1>4. ASSUME NEW k \in 1..m PROVE Rank(f[k]) = k - 1
  <2>1. \A j \in 1..m : <<f[j], f[k]>> \in R <=> j < k
    <3>1. ASSUME NEW j \in 1..m, <<f[j], f[k]>> \in R PROVE j < k
      <4>1. f[j] \in S /\ f[k] \in S
        BY <1>1
      <4>2. <<f[k], f[j]>> \notin R
        BY <3>1, <4>1 DEF TotalOrder
      <4>3. ~(k < j)
        BY <1>1, <4>2
      <4>4. j # k
        BY <3>1, <4>2
      <4>5. QED
        BY <4>3, <4>4
    <3>2. QED
      BY <1>1, <3>1
  <2>2. Below(S, R, f[k]) = {f[j] : j \in 1..k - 1}
    <3>1. \A j \in 1..k - 1 : j \in 1..m /\ j < k /\ f[j] \in S
      BY <1>1
    <3>2. ASSUME NEW y \in S, <<y, f[k]>> \in R PROVE \E j \in 1..k - 1 : f[j] = y
      <4>1. PICK j \in 1..m : f[j] = y
        BY <1>1
      <4>2. j < k
        BY <2>1, <3>2, <4>1
      <4>3. j \in 1..k - 1
        BY <4>2
      <4>4. QED
        BY <4>1, <4>3
    <3>3. QED
      BY <2>1, <3>1, <3>2 DEF Below
  <2> DEFINE g == [j \in 1..k - 1 |-> f[j]]
  <2>3. g \in Bijection(1..k - 1, Below(S, R, f[k]))
    BY <1>1, <1>2, <2>2 DEF Bijection, Injection, IsInjective, Surjection
  <2>4. IsFiniteSet(1..k - 1) /\ Cardinality(1..k - 1) = k - 1
    BY FS_Interval
  <2>5. QED
    BY <2>3, <2>4, FS_Bijection DEF ExistsBijection
<1>5. ASSUME NEW k \in 1..m PROVE f[k] = CHOOSE x \in S : Rank(x) = k - 1
  <2>1. f[k] \in S /\ Rank(f[k]) = k - 1
    BY <1>1, <1>4
  <2>2. ASSUME NEW x \in S, Rank(x) = k - 1 PROVE x = f[k]
    <3>1. PICK j \in 1..m : f[j] = x
      BY <1>1
    <3>2. j = k
      BY <1>4, <2>2, <3>1
    <3>3. QED
      BY <3>1, <3>2
  <2> HIDE DEF Rank
  <2>3. QED
    BY <2>1, <2>2
<1>6. f = [k \in 1..m |-> CHOOSE x \in S : Rank(x) = k - 1]
  <2> HIDE DEF Rank
  <2>1. f = [k \in 1..m |-> f[k]]
    BY <1>1
  <2>2. QED
    BY <1>5, <2>1
<1>7. QED
  BY <1>3, <1>6 DEF InOrderOf
\* f takes k to a member of S with k - 1 members before it, where there is one.
Picks(f, S, R) ==
    /\ DOMAIN f = 1..Cardinality(S) /\ f = [k \in DOMAIN f |-> f[k]]
    /\ \A k \in 1..Cardinality(S) :
          (\E x \in S : Cardinality(Below(S, R, x)) = k - 1)
            => f[k] \in S /\ Cardinality(Below(S, R, f[k])) = k - 1

LEMMA OrderIs ==
    ASSUME NEW S, IsFiniteSet(S), NEW R, TotalOrder(S, R), NEW f, Picks(f, S, R)
    PROVE  f = InOrderOf(S, R)
<1> DEFINE n == Cardinality(S)
           Rank(x) == Cardinality(Below(S, R, x))
           g == InOrderOf(S, R)
<1>1. n \in Nat /\ Lists(g, n, S, R)
  BY OrderLists
<1>2. \A x, y \in S : <<x, y>> \in R => Rank(x) < Rank(y)
  BY Ranks
<1>3. \A x \in S : Rank(x) \in 0..n - 1
  BY Ranks
<1>4. g = [k \in 1..n |-> CHOOSE x \in S : Rank(x) = k - 1]
  BY DEF InOrderOf
<1> HIDE DEF g
<1>5. ASSUME NEW k \in 1..n PROVE f[k] = g[k]
  <2>1. \E x \in S : Rank(x) = k - 1
    <3> DEFINE h == [x \in S |-> Rank(x)]
    <3>1. \A x, y \in S : x # y => Rank(x) # Rank(y)
      <4>1. ASSUME NEW x \in S, NEW y \in S, x # y PROVE Rank(x) # Rank(y)
        <5>1. <<x, y>> \in R \/ <<y, x>> \in R
          BY <4>1 DEF TotalOrder
        <5>2. Rank(x) \in 0..n - 1 /\ Rank(y) \in 0..n - 1 /\ (Rank(x) < Rank(y) \/ Rank(y) < Rank(x))
          BY <1>2, <1>3, <5>1
        <5> HIDE DEF Rank
        <5>3. QED
          BY <1>1, <5>2
      <4>2. QED
        BY <4>1
    <3> HIDE DEF Rank, n
    <3>2. h \in Injection(S, 0..n - 1)
      BY <1>3, <3>1 DEF Injection, IsInjective
    <3>3. IsFiniteSet(0..n - 1) /\ Cardinality(0..n - 1) = n
      <4>1. 0 \in Int /\ n - 1 \in Int
        BY <1>1
      <4>2. IsFiniteSet(0..n - 1) /\ Cardinality(0..n - 1) = IF 0 > n - 1 THEN 0 ELSE (n - 1) - 0 + 1
        BY <4>1, FS_Interval
      <4>3. QED
        BY <1>1, <4>2
    <3>4. h \in Surjection(S, 0..n - 1)
      BY <3>2, <3>3, FS_Injection DEF n
    <3>5. k - 1 \in 0..n - 1
      BY <1>1
    <3>6. QED
      BY <3>4, <3>5 DEF Surjection
  <2>2. g[k] \in S /\ Rank(g[k]) = k - 1
    <3> HIDE DEF Rank, n
    <3>1. QED
      BY <1>4, <2>1
  <2>3. f[k] \in S /\ Rank(f[k]) = k - 1
    BY <2>1 DEF Picks
  <2> HIDE DEF Rank, n
  <2>4. k - 1 \in Nat
    BY <1>1
  <2>5. f[k] = g[k] \/ <<f[k], g[k]>> \in R \/ <<g[k], f[k]>> \in R
    BY <2>2, <2>3 DEF TotalOrder
  <2>6. ~(<<f[k], g[k]>> \in R) /\ ~(<<g[k], f[k]>> \in R)
    <3>1. ~(Rank(f[k]) < Rank(g[k])) /\ ~(Rank(g[k]) < Rank(f[k]))
      BY <2>2, <2>3, <2>4
    <3>2. QED
      BY <1>2, <2>2, <2>3, <3>1
  <2>7. QED
    BY <2>5, <2>6
<1>6. DOMAIN g = 1..n /\ g = [k \in 1..n |-> g[k]]
  BY <1>4
<1>7. DOMAIN f = 1..n /\ f = [k \in 1..n |-> f[k]]
  BY DEF Picks
<1>8. QED
  BY <1>5, <1>6, <1>7 DEF g

-----------------------------------------------------------------------------
(***************************************************************************)
(* Subsequence: the listing of a set of places.                            *)
(***************************************************************************)
Less == {p \in Nat \X Nat : p[1] < p[2]}

\* f lists I from its least member on.
Climbs(f, m, I) ==
    /\ f \in [1..m -> I]
    /\ \A x \in I : \E k \in 1..m : f[k] = x
    /\ \A i, j \in 1..m : i < j => f[i] < f[j]

LEMMA LessOrders ==
    ASSUME NEW I \in SUBSET Nat
    PROVE  TotalOrder(I, Less) /\ \A x \in I : Below(I, Less, x) = {y \in I : y < x}
<1>1. \A x, y \in I : x \in Nat /\ (<<x, y>> \in Less <=> x < y)
  BY DEF Less
<1>2. TotalOrder(I, Less)
  BY <1>1 DEF TotalOrder
<1>3. \A x \in I : Below(I, Less, x) = {y \in I : y < x}
  BY <1>1 DEF Below
<1>4. QED
  BY <1>2, <1>3

LEMMA ClimbsLists ==
    ASSUME NEW I \in SUBSET Nat, NEW m, NEW f
    PROVE  Climbs(f, m, I) <=> Lists(f, m, I, Less)
<1>1. f \in [1..m -> I] => \A i, j \in 1..m : f[i] < f[j] <=> <<f[i], f[j]>> \in Less
  BY DEF Less
<1>2. QED
  BY <1>1 DEF Climbs, Lists

LEMMA SubsequenceIs ==
    ASSUME NEW gs, NEW I \in SUBSET Nat, IsFiniteSet(I)
    PROVE  /\ Cardinality(I) \in Nat
           /\ \E f : /\ Climbs(f, Cardinality(I), I)
                     /\ Subsequence(gs, I) = [k \in 1..Cardinality(I) |-> gs[f[k]]]
<1> DEFINE nth(k) == CHOOSE x \in I : Cardinality({y \in I : y < x}) = k - 1
           f == [k \in 1..Cardinality(I) |-> nth(k)]
<1>1. TotalOrder(I, Less) /\ \A x \in I : Below(I, Less, x) = {y \in I : y < x}
  BY LessOrders
<1>2. \A k \in 1..Cardinality(I) :
        (\E x \in I : Cardinality(Below(I, Less, x)) = k - 1)
          => f[k] \in I /\ Cardinality(Below(I, Less, f[k])) = k - 1
  <2>1. ASSUME NEW k \in 1..Cardinality(I), NEW x \in I, Cardinality(Below(I, Less, x)) = k - 1
        PROVE  f[k] \in I /\ Cardinality(Below(I, Less, f[k])) = k - 1
    <3>1. Cardinality({y \in I : y < x}) = k - 1
      BY <1>1, <2>1
    <3>2. f[k] = CHOOSE z \in I : Cardinality({y \in I : y < z}) = k - 1
      OBVIOUS
    <3> HIDE DEF f
    <3>3. f[k] \in I /\ Cardinality({y \in I : y < f[k]}) = k - 1
      BY <3>1, <3>2
    <3>4. QED
      BY <1>1, <3>3
  <2>2. QED
    BY <2>1
<1>3. DOMAIN f = 1..Cardinality(I) /\ f = [k \in DOMAIN f |-> f[k]]
  <2> HIDE DEF nth
  <2>1. QED
    OBVIOUS
<1>4. Subsequence(gs, I) = [k \in DOMAIN f |-> gs[f[k]]]
  BY DEF Subsequence, Ordered
<1> HIDE DEF f, nth
<1>5. f = InOrderOf(I, Less)
  <2>1. Picks(f, I, Less)
    BY <1>2, <1>3 DEF Picks
  <2>2. QED
    BY <1>1, <2>1, OrderIs
<1>6. Cardinality(I) \in Nat /\ Climbs(f, Cardinality(I), I)
  BY <1>1, <1>5, OrderLists, ClimbsLists
<1>7. QED
  BY <1>3, <1>4, <1>6

\* There is only one such listing.
LEMMA SubsequenceAlong ==
    ASSUME NEW gs, NEW I \in SUBSET Nat, IsFiniteSet(I), NEW m \in Nat, NEW f, Climbs(f, m, I)
    PROVE  m = Cardinality(I) /\ Subsequence(gs, I) = [k \in 1..m |-> gs[f[k]]]
<1>1. PICK e : /\ Climbs(e, Cardinality(I), I)
               /\ Subsequence(gs, I) = [k \in 1..Cardinality(I) |-> gs[e[k]]]
  BY SubsequenceIs
<1>2. TotalOrder(I, Less) /\ Cardinality(I) \in Nat
  BY LessOrders, FS_CardinalityType
<1>3. Lists(e, Cardinality(I), I, Less) /\ Lists(f, m, I, Less)
  BY <1>1, ClimbsLists
<1>4. e = InOrderOf(I, Less)
  BY <1>2, <1>3, OneOrder
<1>5. m = Cardinality(I) /\ f = InOrderOf(I, Less)
  BY <1>2, <1>3, OneOrder
<1>6. QED
  BY <1>1, <1>4, <1>5

-----------------------------------------------------------------------------
(***************************************************************************)
(* Sorted: a permutation along which the key grows, equal keys in order.   *)
(***************************************************************************)
Keyed(S) == \A x \in S : x.realm \in Nat /\ x.time \in Nat

\* What the sort puts the place i before j for.
Precedes(gs, i, j) == Earlier(gs[i], gs[j]) \/ (~Earlier(gs[j], gs[i]) /\ i < j)

Permutes(p, n) ==
    /\ p \in [1..n -> 1..n]
    /\ \A x \in 1..n : \E k \in 1..n : p[k] = x
    /\ \A i, j \in 1..n : p[i] = p[j] => i = j

\* p takes the places of the sorted sequence to those in gs.
Sorts(p, gs) ==
    /\ Permutes(p, Len(gs))
    /\ \A i, j \in 1..Len(gs) : i < j => Precedes(gs, p[i], p[j])
    /\ Sorted(gs) = [k \in 1..Len(gs) |-> gs[p[k]]]

LEMMA PrecedesOrders ==
    ASSUME NEW S, Keyed(S), NEW gs \in Seq(S), NEW R,
           R = {q \in (1..Len(gs)) \X (1..Len(gs)) : Precedes(gs, q[1], q[2])}
    PROVE  TotalOrder(1..Len(gs), R)
<1> DEFINE n == Len(gs)
           r(i) == gs[i].realm
           t(i) == gs[i].time
<1>1. \A i \in 1..n : r(i) \in Nat /\ t(i) \in Nat
  BY ElementOfSeq DEF Keyed
<1>2. \A i, j \in 1..n :
        <<i, j>> \in R <=> \/ r(i) < r(j)
                           \/ r(i) = r(j) /\ t(i) < t(j)
                           \/ r(i) = r(j) /\ t(i) = t(j) /\ i < j
  <2>1. \A i, j \in 1..n : <<i, j>> \in R <=> Precedes(gs, i, j)
    OBVIOUS
  <2>2. \A i, j \in 1..n :
          Precedes(gs, i, j) <=> \/ r(i) < r(j)
                                 \/ r(i) = r(j) /\ t(i) < t(j)
                                 \/ r(i) = r(j) /\ t(i) = t(j) /\ i < j
    BY <1>1 DEF Precedes, Earlier
  <2>3. QED
    BY <2>1, <2>2
<1> HIDE DEF r, t, n
<1>3. \A i \in 1..n : i \in Int
  OBVIOUS
<1>4. \A i, j \in 1..n : <<i, j>> \in R => <<j, i>> \notin R
  BY <1>1, <1>2
<1>5. ASSUME NEW i \in 1..n, NEW j \in 1..n, NEW k \in 1..n, <<i, j>> \in R, <<j, k>> \in R
      PROVE  <<i, k>> \in R
  <2>1. /\ r(i) \in Nat /\ r(j) \in Nat /\ r(k) \in Nat
        /\ t(i) \in Nat /\ t(j) \in Nat /\ t(k) \in Nat
        /\ i \in Int /\ j \in Int /\ k \in Int
    BY <1>1, <1>3
  <2>2. r(i) < r(j) \/ (r(i) = r(j) /\ t(i) < t(j)) \/ (r(i) = r(j) /\ t(i) = t(j) /\ i < j)
    BY <1>2, <1>5
  <2>3. r(j) < r(k) \/ (r(j) = r(k) /\ t(j) < t(k)) \/ (r(j) = r(k) /\ t(j) = t(k) /\ j < k)
    BY <1>2, <1>5
  <2>4. r(i) < r(k) \/ (r(i) = r(k) /\ t(i) < t(k)) \/ (r(i) = r(k) /\ t(i) = t(k) /\ i < k)
    BY ONLY <2>1, <2>2, <2>3
  <2>5. QED
    BY <1>2, <2>4
<1>6. ASSUME NEW i \in 1..n, NEW j \in 1..n
      PROVE  i = j \/ <<i, j>> \in R \/ <<j, i>> \in R
  <2>1. r(i) \in Nat /\ r(j) \in Nat /\ t(i) \in Nat /\ t(j) \in Nat /\ i \in Int /\ j \in Int
    BY <1>1, <1>3
  <2>2. \/ i = j
        \/ r(i) < r(j) \/ (r(i) = r(j) /\ t(i) < t(j)) \/ (r(i) = r(j) /\ t(i) = t(j) /\ i < j)
        \/ r(j) < r(i) \/ (r(j) = r(i) /\ t(j) < t(i)) \/ (r(j) = r(i) /\ t(j) = t(i) /\ j < i)
    BY ONLY <2>1
  <2>3. QED
    BY <1>2, <2>2
<1>7. QED
  BY <1>4, <1>5, <1>6 DEF TotalOrder, n

LEMMA SortedSorts ==
    ASSUME NEW S, Keyed(S), NEW gs \in Seq(S)
    PROVE  \E p : Sorts(p, gs)
<1> DEFINE n == Len(gs)
           R == {q \in (1..n) \X (1..n) : Precedes(gs, q[1], q[2])}
           nth(k) == CHOOSE x \in 1..n : Cardinality({y \in 1..n : Precedes(gs, y, x)}) = k - 1
           f == [k \in 1..Cardinality(1..n) |-> nth(k)]
<1>1. n \in Nat /\ DOMAIN gs = 1..n
  BY LenProperties
<1>2. IsFiniteSet(1..n) /\ Cardinality(1..n) = n
  BY <1>1, FS_Interval
<1>3. TotalOrder(1..n, R)
  BY PrecedesOrders
<1>4. \A x \in 1..n : Below(1..n, R, x) = {y \in 1..n : Precedes(gs, y, x)}
  BY DEF Below
<1>5. \A k \in 1..Cardinality(1..n) :
        (\E x \in 1..n : Cardinality(Below(1..n, R, x)) = k - 1)
          => f[k] \in 1..n /\ Cardinality(Below(1..n, R, f[k])) = k - 1
  <2>1. ASSUME NEW k \in 1..Cardinality(1..n), NEW x \in 1..n, Cardinality(Below(1..n, R, x)) = k - 1
        PROVE  f[k] \in 1..n /\ Cardinality(Below(1..n, R, f[k])) = k - 1
    <3>1. Cardinality({y \in 1..n : Precedes(gs, y, x)}) = k - 1
      BY <1>4, <2>1
    <3>2. f[k] = CHOOSE z \in 1..n : Cardinality({y \in 1..n : Precedes(gs, y, z)}) = k - 1
      OBVIOUS
    <3> HIDE DEF f, n, R
    <3>3. f[k] \in 1..n /\ Cardinality({y \in 1..n : Precedes(gs, y, f[k])}) = k - 1
      BY <3>1, <3>2
    <3>4. QED
      BY <1>4, <3>3
  <2>2. QED
    BY <2>1
<1>6. DOMAIN f = 1..Cardinality(1..n) /\ f = [k \in DOMAIN f |-> f[k]]
  <2> HIDE DEF nth
  <2>1. QED
    OBVIOUS
<1>7. Sorted(gs) = [k \in 1..n |-> gs[f[k]]]
  <2>1. Sorted(gs) = [k \in DOMAIN gs |-> gs[[l \in 1..Cardinality(DOMAIN gs) |->
            CHOOSE x \in DOMAIN gs :
              Cardinality({y \in DOMAIN gs : Precedes(gs, y, x)}) = l - 1][k]]]
    BY DEF Sorted, Ordered, Precedes, Tie
  <2>2. QED
    BY <1>1, <2>1
<1> HIDE DEF f, nth
<1>8. f = InOrderOf(1..n, R)
  <2> HIDE DEF n, R
  <2>1. Picks(f, 1..n, R)
    BY <1>5, <1>6 DEF Picks
  <2>2. QED
    BY <1>2, <1>3, <2>1, OrderIs
<1>9. Lists(f, n, 1..n, R)
  BY <1>2, <1>3, <1>8, OrderLists
<1>10. /\ f \in [1..n -> 1..n] /\ (\A x \in 1..n : \E k \in 1..n : f[k] = x)
       /\ \A i, j \in 1..n : i < j => <<f[i], f[j]>> \in R
  BY <1>9 DEF Lists
<1>11. \A i, j \in 1..n : i < j => Precedes(gs, f[i], f[j])
  BY <1>10
<1>12. \A i, j \in 1..n : f[i] = f[j] => i = j
  <2>1. \A i, j \in 1..n : i < j => f[i] # f[j]
    BY <1>3, <1>10 DEF TotalOrder
  <2>2. QED
    BY <1>1, <2>1
<1>13. QED
  BY <1>7, <1>10, <1>11, <1>12 DEF Sorts, Permutes
-----------------------------------------------------------------------------
(***************************************************************************)
(* Depth.  A recursive function exists where its step stays in a set.      *)
(***************************************************************************)
Steps(G, X, n) == G \in [X \X (1..n) -> X]

\* f is n steps of G from x on.
Recurs(f, n, X, x, G) ==
    f \in [0..n -> X] /\ f[0] = x /\ \A k \in 1..n : f[k] = G[<<f[k - 1], k>>]

LEMMA Recursion ==
    ASSUME NEW n \in Nat, NEW X, NEW x \in X, NEW G, Steps(G, X, n)
    PROVE  \E f : Recurs(f, n, X, x, G)
<1> DEFINE Runs(f, m) == f[0] = x /\ \A k \in 1..m : f[k] = G[<<f[k - 1], k>>]
           T == {m \in 0..n : \E f \in [0..m -> X] : Runs(f, m)}
<1>1. 0 \in T
  <2>1. Runs([k \in 0..0 |-> x], 0) /\ [k \in 0..0 |-> x] \in [0..0 -> X] /\ 0 \in 0..n
    OBVIOUS
  <2>2. QED
    BY <2>1
<1>2. ASSUME NEW m \in T, m < n PROVE m + 1 \in T
  <2>1. PICK f \in [0..m -> X] : Runs(f, m)
    OBVIOUS
  <2>2. m \in Nat /\ m + 1 \in 1..n /\ m + 1 \in 0..n /\ m \in 0..m
    BY <1>2
  <2> DEFINE h == [k \in 0..m + 1 |-> IF k = m + 1 THEN G[<<f[m], m + 1>>] ELSE f[k]]
  <2>3. G[<<f[m], m + 1>>] \in X
    BY <2>2 DEF Steps
  <2>4. h \in [0..m + 1 -> X]
    BY <2>2, <2>3
  <2>5. h[0] = x
    BY <2>1, <2>2
  <2>6. ASSUME NEW k \in 1..m + 1 PROVE h[k] = G[<<h[k - 1], k>>]
    <3>1. CASE k = m + 1
      <4>1. h[k - 1] = f[m] /\ h[k] = G[<<f[m], m + 1>>]
        BY <2>2, <3>1
      <4>2. QED
        BY <3>1, <4>1
    <3>2. CASE k # m + 1
      <4>1. k \in 1..m /\ h[k] = f[k] /\ h[k - 1] = f[k - 1]
        BY <2>2, <3>2
      <4>2. QED
        BY <2>1, <4>1
    <3>3. QED
      BY <3>1, <3>2
  <2> HIDE DEF h
  <2>7. Runs(h, m + 1)
    BY <2>5, <2>6
  <2>8. QED
    BY <2>2, <2>4, <2>7
<1>3. T \in SUBSET Nat
  OBVIOUS
<1> HIDE DEF T
<1>4. n \in T
  <2>1. 0..n \subseteq T
    BY <1>1, <1>2, <1>3, UpTo
  <2>2. QED
    BY <2>1
<1>5. QED
  BY <1>4 DEF T, Recurs

\* The depth d of a track after the group g.
After(g, realm, track, d) ==
    CASE On(g, realm, track) /\ g.kind = "begin" -> d + 1
      [] On(g, realm, track) /\ g.kind = "end" -> IF d = 0 THEN 0 ELSE d - 1
      [] OTHER -> d

LEMMA AfterIs ==
    ASSUME NEW g, NEW realm, NEW track, NEW d \in Nat
    PROVE  /\ After(g, realm, track, d) \in Nat
           /\ On(g, realm, track) /\ g.kind = "begin" => After(g, realm, track, d) = d + 1
           /\ On(g, realm, track) /\ g.kind = "end" /\ d # 0 => After(g, realm, track, d) = d - 1
           /\ On(g, realm, track) /\ g.kind = "end" /\ d = 0 => After(g, realm, track, d) = 0
           /\ ~On(g, realm, track) \/ g.kind \notin {"begin", "end"} => After(g, realm, track, d) = d
  BY DEF After

\* d is the depth of a track of gs.
Deepens(d, gs, realm, track) ==
    /\ d \in [0..Len(gs) -> Nat]
    /\ d[0] = 0
    /\ \A i \in 1..Len(gs) : d[i] = After(gs[i], realm, track, d[i - 1])

LEMMA DepthIs ==
    ASSUME NEW gs, Len(gs) \in Nat, NEW realm, NEW track
    PROVE  Deepens(Depth(gs, realm, track), gs, realm, track)
<1> DEFINE n == Len(gs)
           F(d, i) == After(gs[i], realm, track, d)
           Solves(f) == f = [i \in 0..n |-> IF i = 0 THEN 0 ELSE F(f[i - 1], i)]
<1>1. Depth(gs, realm, track) = CHOOSE f : Solves(f)
  BY DEF Depth, After
<1>2. \A d \in Nat, i \in 1..n : F(d, i) \in Nat
  BY AfterIs
<1> HIDE DEF F
<1>3. \E f : Solves(f)
  <2> DEFINE G == [q \in Nat \X (1..n) |-> F(q[1], q[2])]
  <2>1. G \in [Nat \X (1..n) -> Nat]
    BY <1>2
  <2>2. \A d \in Nat, i \in 1..n : G[<<d, i>>] = F(d, i)
    OBVIOUS
  <2> HIDE DEF G
  <2>3. PICK f \in [0..n -> Nat] : f[0] = 0 /\ \A i \in 1..n : f[i] = G[<<f[i - 1], i>>]
    <3>1. Steps(G, Nat, n) /\ n \in Nat /\ 0 \in Nat
      BY <2>1 DEF Steps
    <3>2. \E f : Recurs(f, n, Nat, 0, G)
      BY <3>1, Recursion
    <3>3. QED
      BY <3>2 DEF Recurs
  <2>4. ASSUME NEW i \in 0..n PROVE f[i] = IF i = 0 THEN 0 ELSE F(f[i - 1], i)
    <3>1. CASE i = 0
      BY <2>3, <3>1
    <3>2. CASE i # 0
      <4>1. i \in 1..n /\ i - 1 \in 0..n
        BY <3>2
      <4>2. f[i] = F(f[i - 1], i)
        BY <2>2, <2>3, <4>1
      <4>3. QED
        BY <3>2, <4>2
    <3>3. QED
      BY <3>1, <3>2
  <2>5. Solves(f)
    BY <2>4
  <2>6. QED
    BY <2>5
<1> DEFINE f == Depth(gs, realm, track)
<1>4. Solves(f)
  BY <1>1, <1>3
<1> HIDE DEF f
<1>5. DOMAIN f = 0..n /\ f[0] = 0 /\ \A i \in 1..n : f[i] = F(f[i - 1], i)
  <2>1. ASSUME NEW i \in 1..n PROVE f[i] = F(f[i - 1], i)
    <3>1. i \in 0..n /\ i # 0
      OBVIOUS
    <3>2. QED
      BY <1>4, <3>1
  <2>2. DOMAIN f = 0..n /\ f[0] = 0
    BY <1>4
  <2>3. QED
    BY <2>1, <2>2
<1>6. \A i \in 0..n : f[i] \in Nat
  <2> DEFINE T == {i \in 0..n : f[i] \in Nat}
  <2>1. 0 \in T /\ T \in SUBSET Nat
    BY <1>5
  <2>2. ASSUME NEW i \in T, i < n PROVE i + 1 \in T
    <3>1. i + 1 \in 1..n /\ (i + 1) - 1 = i /\ i + 1 \in 0..n
      BY <2>2
    <3>2. f[i + 1] = F(f[i], i + 1)
      BY <1>5, <3>1
    <3>3. QED
      BY <1>2, <3>1, <3>2
  <2> HIDE DEF T
  <2>3. 0..n \subseteq T
    BY <2>1, <2>2, UpTo
  <2>4. QED
    BY <2>3 DEF T
<1>7. f = [i \in 0..n |-> f[i]]
  BY <1>4
<1>8. f \in [0..n -> Nat]
  BY <1>6, <1>7
<1>9. QED
  BY <1>5, <1>8 DEF Deepens, F, f

\* A span is open only where a group of the track came before, and no more spans
\* than groups.
LEMMA DepthBound ==
    ASSUME NEW gs, Len(gs) \in Nat, NEW realm, NEW track
    PROVE  \A i \in 0..Len(gs) :
             /\ Depth(gs, realm, track)[i] \in 0..i
             /\ Depth(gs, realm, track)[i] > 0 => \E j \in 1..i : On(gs[j], realm, track)
<1> DEFINE n == Len(gs)
           d == Depth(gs, realm, track)
           Good(i) == d[i] \in 0..i /\ (d[i] > 0 => \E j \in 1..i : On(gs[j], realm, track))
           T == {i \in 0..n : Good(i)}
<1>1. d \in [0..n -> Nat] /\ d[0] = 0 /\ \A i \in 1..n : d[i] = After(gs[i], realm, track, d[i - 1])
  BY DepthIs DEF Deepens
<1> HIDE DEF d
<1>2. 0 \in T /\ T \in SUBSET Nat
  BY <1>1
<1>3. ASSUME NEW i \in T, i < n PROVE i + 1 \in T
  <2>1. i \in Nat /\ i + 1 \in 1..n /\ (i + 1) - 1 = i /\ i + 1 \in 0..n /\ Good(i) /\ d[i] \in Nat
    BY <1>1, <1>3
  <2>2. d[i + 1] = After(gs[i + 1], realm, track, d[i])
    BY <1>1, <2>1
  <2>3. CASE On(gs[i + 1], realm, track)
    <3>1. d[i + 1] \in 0..i + 1
      <4>1. d[i + 1] \in {d[i], d[i] + 1, d[i] - 1, 0} /\ d[i + 1] \in Nat
        BY <2>1, <2>2, <2>3, AfterIs
      <4>2. d[i] \in 0..i
        BY <2>1
      <4>3. QED
        BY <2>1, <4>1, <4>2
    <3>2. QED
      BY <2>1, <2>3, <3>1
  <2>4. CASE ~On(gs[i + 1], realm, track)
    <3>1. d[i + 1] = d[i]
      BY <2>1, <2>2, <2>4, AfterIs
    <3>2. QED
      BY <2>1, <3>1
  <2>5. QED
    BY <2>3, <2>4
<1> HIDE DEF T
<1>4. 0..n \subseteq T
  BY <1>2, <1>3, UpTo
<1>5. QED
  BY <1>4 DEF T, d
-----------------------------------------------------------------------------
(***************************************************************************)
(* The ends of the spans still open: LastOf, EndTime and Closing.          *)
(***************************************************************************)
\* The groups of a producer, by what the sort and the repair look at.
Fits(g) == g.realm \in Realms /\ g.track \in Tracks /\ g.time \in 0..MaxTime
Fitting(S) == \A x \in S : Fits(x)

LEMMA FittingKeyed ==
    ASSUME NEW S, Fitting(S)
    PROVE  Keyed(S)
<1>1. MaxTime \in Nat /\ Realms \subseteq Nat
  BY CollectorAssumption
<1>2. ASSUME NEW x \in S PROVE x.realm \in Nat /\ x.time \in Nat
  <2>1. x.realm \in Realms /\ x.time \in 0..MaxTime
    BY DEF Fitting, Fits
  <2>2. \A u \in 0..MaxTime : u \in Nat
    BY <1>1
  <2>3. x.realm \in Nat
    BY <1>1, <2>1
  <2>4. QED
    BY <2>1, <2>2, <2>3
<1>3. QED
  BY <1>2 DEF Keyed

LEMMA LastIs ==
    ASSUME NEW S, Fitting(S), NEW gs \in Seq(S), NEW realm,
           \E j \in 1..Len(gs) : gs[j].realm = realm
    PROVE  \E i \in 1..Len(gs) :
             /\ gs[i].realm = realm /\ LastOf(gs, realm) = gs[i]
             /\ \A j \in 1..Len(gs) : gs[j].realm = realm => gs[j].time <= gs[i].time
<1> DEFINE own == {i \in 1..Len(gs) : gs[i].realm = realm}
           time(i) == gs[i].time
           late(i) == MaxTime - time(i)
           Last(i) == \A j \in own : time(j) < time(i) \/ (time(j) = time(i) /\ i <= j)
<1>1. Len(gs) \in Nat /\ DOMAIN gs = 1..Len(gs) /\ MaxTime \in Nat
  BY LenProperties, CollectorAssumption
<1>2. \A i \in own : time(i) \in 0..MaxTime /\ i \in Nat
  <2>1. \A i \in 1..Len(gs) : gs[i] \in S
    BY ElementOfSeq
  <2>2. QED
    BY <1>1, <2>1 DEF Fitting, Fits
<1>3. \E i \in own : Last(i)
  <2> HIDE DEF own, time
  <2>1. own # {}
    BY DEF own
  <2>2. \A i \in own : late(i) \in Nat
    BY <1>1, <1>2
  <2> DEFINE L == {late(i) : i \in own}
  <2>3. L \in SUBSET Nat /\ L # {}
    BY <2>1, <2>2
  <2>4. PICK x \in L : \A y \in L : x <= y
    BY <2>3, Least
  <2> DEFINE M == {i \in own : late(i) = x}
  <2>5. M \in SUBSET Nat /\ M # {}
    BY <1>2, <2>4
  <2>6. PICK i \in M : \A j \in M : i <= j
    BY <2>5, Least
  <2>7. ASSUME NEW j \in own PROVE time(j) < time(i) \/ (time(j) = time(i) /\ i <= j)
    <3>1. late(i) = x /\ i \in own /\ x <= late(j)
      BY <2>4, <2>6
    <3>2. late(j) = x => i <= j
      BY <2>6
    <3>3. time(i) \in 0..MaxTime /\ time(j) \in 0..MaxTime
      BY <1>2, <3>1
    <3>4. QED
      BY <1>1, <3>1, <3>2, <3>3
  <2>8. QED
    BY <2>6, <2>7
<1>4. LastOf(gs, realm) = gs[CHOOSE i \in own : Last(i)]
  BY <1>1 DEF LastOf
<1>5. PICK i \in own : Last(i) /\ LastOf(gs, realm) = gs[i]
  <2> DEFINE c == CHOOSE i \in own : Last(i)
  <2> HIDE DEF Last
  <2>1. c \in own /\ Last(c)
    BY <1>3
  <2>2. QED
    BY <1>4, <2>1
<1>6. ASSUME NEW j \in own PROVE time(j) <= time(i)
  <2>1. time(j) \in 0..MaxTime /\ time(i) \in 0..MaxTime
    BY <1>2
  <2>2. time(j) < time(i) \/ time(j) = time(i)
    BY <1>5
  <2> HIDE DEF time
  <2>3. QED
    BY <1>1, <2>1, <2>2
<1>7. QED
  BY <1>5, <1>6

LEMMA EndTimeIs ==
    ASSUME NEW last \in 0..MaxTime, NEW k \in Nat
    PROVE  /\ EndTime(last, k) \in 0..MaxTime /\ last <= EndTime(last, k)
           /\ \A l \in Nat : k <= l => EndTime(last, k) <= EndTime(last, l)
<1>1. MaxTime \in Nat
  BY CollectorAssumption
<1>2. QED
  BY <1>1 DEF EndTime, Saturate

\* The ends to be added, of every track the first, the second and so on.
Open(gs) ==
    {q \in Realms \X Tracks \X (1..Len(gs)) : q[3] <= OpenAtEnd(gs, q[1], q[2])}

SyntheticEnd(gs, q) ==
    [realm |-> q[1], track |-> q[2], kind |-> "end", name |-> None, fields |-> {},
     clock |-> LastOf(gs, q[1]).clock, time |-> EndTime(LastOf(gs, q[1]).time, q[3] - 1)]

LEMMA ClosingIs ==
    ASSUME NEW gs, Len(gs) \in Nat, NEW r \in Realms, NEW t \in Tracks
    PROVE  /\ OpenAtEnd(gs, r, t) \in 0..Len(gs)
           /\ \A k \in 1..OpenAtEnd(gs, r, t) : <<r, t, k>> \in Open(gs)
           /\ Closing(gs, r, t) = [k \in 1..OpenAtEnd(gs, r, t) |-> SyntheticEnd(gs, <<r, t, k>>)]
<1>1. OpenAtEnd(gs, r, t) \in 0..Len(gs)
  <2>1. Len(gs) \in 0..Len(gs)
    OBVIOUS
  <2>2. QED
    BY <2>1, DepthBound DEF OpenAtEnd
<1>2. ASSUME NEW k \in 1..OpenAtEnd(gs, r, t) PROVE <<r, t, k>> \in Open(gs)
  <2>1. k \in 1..Len(gs) /\ k <= OpenAtEnd(gs, r, t)
    BY <1>1
  <2>2. QED
    BY <2>1 DEF Open
<1>3. Closing(gs, r, t) = [k \in 1..OpenAtEnd(gs, r, t) |-> SyntheticEnd(gs, <<r, t, k>>)]
  BY DEF Closing, SyntheticEnd
<1>4. QED
  BY <1>1, <1>2, <1>3

\* A synthetic end is of a realm that has groups, none of which is later.
LEMMA OpenIs ==
    ASSUME NEW S, Fitting(S), NEW gs \in Seq(S), NEW q \in Open(gs)
    PROVE  /\ q[1] \in Realms /\ q[2] \in Tracks /\ q[3] \in Nat \ {0}
           /\ \E i \in 1..Len(gs) : gs[i].realm = q[1] /\ LastOf(gs, q[1]) = gs[i]
           /\ LastOf(gs, q[1]).time \in 0..MaxTime
           /\ \A j \in 1..Len(gs) : gs[j].realm = q[1] => gs[j].time <= LastOf(gs, q[1]).time
<1>1. /\ q[1] \in Realms /\ q[2] \in Tracks /\ q[3] \in 1..Len(gs)
      /\ q[3] <= OpenAtEnd(gs, q[1], q[2]) /\ Len(gs) \in Nat
  BY LenProperties DEF Open
<1>2. \E j \in 1..Len(gs) : gs[j].realm = q[1]
  <2>1. Len(gs) \in 0..Len(gs) /\ OpenAtEnd(gs, q[1], q[2]) \in Nat
    BY <1>1, ClosingIs
  <2>2. OpenAtEnd(gs, q[1], q[2]) > 0
    BY <1>1, <2>1
  <2>3. QED
    BY <1>1, <2>1, <2>2, DepthBound DEF OpenAtEnd, On
<1>3. PICK i \in 1..Len(gs) :
        /\ gs[i].realm = q[1] /\ LastOf(gs, q[1]) = gs[i]
        /\ \A j \in 1..Len(gs) : gs[j].realm = q[1] => gs[j].time <= gs[i].time
  BY <1>2, LastIs
<1>4. gs[i].time \in 0..MaxTime
  BY ElementOfSeq DEF Fitting, Fits
<1>5. QED
  BY <1>1, <1>3, <1>4

\* One end is not earlier than the one before it, and fits.
LEMMA SyntheticEndIs ==
    ASSUME NEW S, Fitting(S), NEW gs \in Seq(S), NEW q \in Open(gs)
    PROVE  /\ Fits(SyntheticEnd(gs, q))
           /\ SyntheticEnd(gs, q).realm = q[1] /\ SyntheticEnd(gs, q).track = q[2]
           /\ SyntheticEnd(gs, q).kind = "end" /\ SyntheticEnd(gs, q).name = None
           /\ SyntheticEnd(gs, q).fields = {}
           /\ \A j \in 1..Len(gs) : gs[j].realm = q[1] => gs[j].time <= SyntheticEnd(gs, q).time
           /\ \A p \in Open(gs) :
                p[1] = q[1] /\ q[3] <= p[3] => SyntheticEnd(gs, q).time <= SyntheticEnd(gs, p).time
<1> DEFINE last == LastOf(gs, q[1]).time
           end(k) == EndTime(last, k - 1)
<1>1. /\ q[1] \in Realms /\ q[2] \in Tracks /\ q[3] - 1 \in Nat /\ last \in 0..MaxTime
      /\ \A j \in 1..Len(gs) : gs[j].realm = q[1] => gs[j].time <= last
  <2>1. /\ q[1] \in Realms /\ q[2] \in Tracks /\ q[3] \in Nat \ {0} /\ last \in 0..MaxTime
        /\ \A j \in 1..Len(gs) : gs[j].realm = q[1] => gs[j].time <= last
    BY OpenIs
  <2>2. QED
    BY <2>1
<1>2. /\ SyntheticEnd(gs, q).realm = q[1] /\ SyntheticEnd(gs, q).track = q[2]
      /\ SyntheticEnd(gs, q).kind = "end" /\ SyntheticEnd(gs, q).name = None
      /\ SyntheticEnd(gs, q).fields = {} /\ SyntheticEnd(gs, q).time = end(q[3])
  BY DEF SyntheticEnd
<1>3. end(q[3]) \in 0..MaxTime /\ last <= end(q[3])
  BY <1>1, EndTimeIs
<1>4. ASSUME NEW j \in 1..Len(gs), gs[j].realm = q[1] PROVE gs[j].time <= end(q[3])
  <2>1. gs[j].time \in 0..MaxTime /\ gs[j].time <= last /\ MaxTime \in Nat
    BY <1>1, <1>4, ElementOfSeq, CollectorAssumption DEF Fitting, Fits
  <2> HIDE DEF last, end
  <2>2. QED
    BY <1>1, <1>3, <2>1
<1>5. ASSUME NEW p \in Open(gs), p[1] = q[1], q[3] <= p[3]
      PROVE  SyntheticEnd(gs, q).time <= SyntheticEnd(gs, p).time
  <2>1. SyntheticEnd(gs, p).time = end(p[3])
    BY <1>5 DEF SyntheticEnd
  <2>2. p[3] - 1 \in Nat /\ q[3] - 1 <= p[3] - 1
    <3>1. p[3] \in Nat \ {0} /\ q[3] \in Nat \ {0}
      BY OpenIs
    <3>2. QED
      BY <1>5, <3>1
  <2>3. end(q[3]) <= end(p[3])
    BY <1>1, <2>2, EndTimeIs
  <2>4. QED
    BY <1>2, <2>1, <2>3
<1>6. QED
  BY <1>1, <1>2, <1>3, <1>4, <1>5 DEF Fits
-----------------------------------------------------------------------------
(***************************************************************************)
(* Repair: what it retains, then the ends of every track.                  *)
(***************************************************************************)
LEMMA ListIsSeq ==
    ASSUME NEW S, NEW n \in Nat, NEW f \in [1..n -> S]
    PROVE  f \in Seq(S) /\ Len(f) = n
<1>1. f \in Seq(S)
  BY SeqDef
<1>2. Len(f) \in Nat /\ DOMAIN f = 1..Len(f) /\ DOMAIN f = 1..n
  BY <1>1, LenProperties
<1>3. \A a, b \in Nat : 1..a = 1..b => a = b
  <2>1. ASSUME NEW a \in Nat, NEW b \in Nat, 1..a = 1..b PROVE a <= b
    <3>1. a = 0 \/ a \in 1..a
      OBVIOUS
    <3>2. a = 0 \/ a \in 1..b
      BY <2>1, <3>1
    <3>3. QED
      BY <3>2
  <2>2. QED
    BY <2>1
<1>4. QED
  BY <1>1, <1>2, <1>3

\* e takes the places of what is retained to its places in gs.
Keeps(e, gs) ==
    /\ Climbs(e, Len(Retained(gs)), (1..Len(gs)) \ Unmatched(gs))
    /\ Retained(gs) = [k \in 1..Len(Retained(gs)) |-> gs[e[k]]]

LEMMA RetainedIs ==
    ASSUME NEW S, NEW gs \in Seq(S)
    PROVE  Retained(gs) \in Seq(S) /\ \E e : Keeps(e, gs)
<1> DEFINE I == (1..Len(gs)) \ Unmatched(gs)
           m == Cardinality(I)
<1>1. Len(gs) \in Nat /\ DOMAIN gs = 1..Len(gs)
  BY LenProperties
<1>2. I \in SUBSET (1..Len(gs))
  OBVIOUS
<1>3. I \in SUBSET Nat /\ IsFiniteSet(I)
  <2> HIDE DEF I
  <2>1. QED
    BY <1>1, <1>2, UpToFinite
<1>4. Retained(gs) = Subsequence(gs, I)
  BY <1>1 DEF Retained
<1> HIDE DEF I
<1>5. PICK e : m \in Nat /\ Climbs(e, m, I) /\ Subsequence(gs, I) = [k \in 1..m |-> gs[e[k]]]
  <2>1. PICK e : /\ Climbs(e, Cardinality(I), I)
                 /\ Subsequence(gs, I) = [k \in 1..Cardinality(I) |-> gs[e[k]]]
    BY <1>3, SubsequenceIs
  <2>2. m \in Nat
    BY <1>3, FS_CardinalityType
  <2>3. QED
    BY <2>1, <2>2
<1>6. \A k \in 1..m : gs[e[k]] \in S
  <2>1. \A k \in 1..m : e[k] \in 1..Len(gs)
    BY <1>2, <1>5 DEF Climbs
  <2>2. QED
    BY <2>1, ElementOfSeq
<1> HIDE DEF m
<1>7. Retained(gs) \in [1..m -> S]
  BY <1>4, <1>5, <1>6
<1>8. Retained(gs) \in Seq(S) /\ Len(Retained(gs)) = m
  BY <1>5, <1>7, ListIsSeq
<1>9. Keeps(e, gs)
  BY <1>4, <1>5, <1>8 DEF Keeps, I
<1>10. QED
  BY <1>8, <1>9

\* The order of the BTreeMap's keys.
Lex ==
    {c \in (Realms \X Tracks) \X (Realms \X Tracks) :
        c[1][1] < c[2][1] \/ (c[1][1] = c[2][1] /\ c[1][2] < c[2][2])}

LEMMA TracksListed ==
    /\ Len(TracksInOrder) \in Nat
    /\ TracksInOrder \in [1..Len(TracksInOrder) -> Realms \X Tracks]
    /\ \A x \in Realms \X Tracks : \E k \in 1..Len(TracksInOrder) : TracksInOrder[k] = x
    /\ \A i, j \in 1..Len(TracksInOrder) : TracksInOrder[i] = TracksInOrder[j] => i = j
<1> DEFINE P == Realms \X Tracks
           N == Cardinality(P)
           Before(y, x) == y[1] < x[1] \/ (y[1] = x[1] /\ y[2] < x[2])
           nth(k) == CHOOSE x \in P : Cardinality({y \in P : Before(y, x)}) = k - 1
           f == [k \in 1..N |-> nth(k)]
<1>1. IsFiniteSet(P) /\ N \in Nat
  BY CollectorAssumption, FS_Product, FS_CardinalityType
<1>2. \A x, y \in P : <<y, x>> \in Lex <=> Before(y, x)
  BY DEF Lex
<1>3. TotalOrder(P, Lex)
  <2>1. \A x \in P : x[1] \in Int /\ x[2] \in Int /\ x = <<x[1], x[2]>>
    <3>1. \A r \in Realms : r \in Int
      BY CollectorAssumption
    <3>2. \A t \in Tracks : t \in Int
      BY CollectorAssumption
    <3>3. QED
      BY <3>1, <3>2
  <2>2. \A x, y \in P : <<x, y>> \in Lex => <<y, x>> \notin Lex
    BY <1>2, <2>1
  <2>3. ASSUME NEW x \in P, NEW y \in P, NEW z \in P, <<x, y>> \in Lex, <<y, z>> \in Lex
        PROVE  <<x, z>> \in Lex
    <3>1. Before(x, y) /\ Before(y, z)
      BY <1>2, <2>3
    <3>2. /\ x[1] \in Int /\ x[2] \in Int /\ y[1] \in Int /\ y[2] \in Int
          /\ z[1] \in Int /\ z[2] \in Int
      BY <2>1
    <3>3. Before(x, z)
      BY ONLY <3>1, <3>2
    <3>4. QED
      BY <1>2, <3>3
  <2>4. ASSUME NEW x \in P, NEW y \in P
        PROVE  x = y \/ <<x, y>> \in Lex \/ <<y, x>> \in Lex
    <3>1. /\ x[1] \in Int /\ x[2] \in Int /\ y[1] \in Int /\ y[2] \in Int
          /\ x = <<x[1], x[2]>> /\ y = <<y[1], y[2]>>
      BY <2>1
    <3>2. (x[1] = y[1] /\ x[2] = y[2]) \/ Before(x, y) \/ Before(y, x)
      BY ONLY <3>1
    <3>3. QED
      BY <1>2, <3>1, <3>2
  <2> HIDE DEF P
  <2>5. QED
    BY <2>2, <2>3, <2>4 DEF TotalOrder
<1>4. TracksInOrder = f
  BY DEF TracksInOrder, Ordered
<1>5. Picks(f, P, Lex)
  <2> HIDE DEF P
  <2>1. \A x \in P : Below(P, Lex, x) = {y \in P : Before(y, x)}
    BY <1>2 DEF Below
  <2>2. DOMAIN f = 1..N /\ f = [k \in DOMAIN f |-> f[k]]
    <3> HIDE DEF nth
    <3>1. QED
      OBVIOUS
  <2>3. ASSUME NEW k \in 1..N, NEW x \in P, Cardinality(Below(P, Lex, x)) = k - 1
        PROVE  f[k] \in P /\ Cardinality(Below(P, Lex, f[k])) = k - 1
    <3>1. Cardinality({y \in P : Before(y, x)}) = k - 1
      BY <2>1, <2>3
    <3>2. f[k] = CHOOSE z \in P : Cardinality({y \in P : Before(y, z)}) = k - 1
      OBVIOUS
    <3> HIDE DEF f, nth, Before
    <3>3. f[k] \in P /\ Cardinality({y \in P : Before(y, f[k])}) = k - 1
      BY <3>1, <3>2
    <3>4. QED
      BY <2>1, <3>3
  <2> HIDE DEF f, nth, Before
  <2>4. QED
    BY <2>2, <2>3 DEF Picks
<1> HIDE DEF f, nth, P
<1>6. N \in Nat /\ Lists(f, N, P, Lex)
  <2>1. f = InOrderOf(P, Lex)
    BY <1>1, <1>3, <1>5, OrderIs
  <2>2. QED
    BY <1>1, <1>3, <2>1, OrderLists
<1> HIDE DEF N
<1>7. f \in [1..N -> P] /\ Len(f) = N
  <2>1. f \in [1..N -> P]
    BY <1>6 DEF Lists
  <2>2. QED
    BY <1>6, <2>1, ListIsSeq
<1>8. ASSUME NEW i \in 1..N, NEW j \in 1..N, f[i] = f[j] PROVE i = j
  <2>1. \A a, b \in 1..N : a < b => f[a] # f[b]
    <3>1. \A a, b \in 1..N : a < b => <<f[a], f[b]>> \in Lex
      BY <1>6 DEF Lists
    <3>2. QED
      BY <1>3, <1>7, <3>1 DEF TotalOrder
  <2>2. i < j \/ j < i \/ i = j
    BY <1>6
  <2>3. QED
    BY <1>8, <2>1, <2>2
<1>9. QED
  BY <1>4, <1>6, <1>7, <1>8 DEF Lists, P
-----------------------------------------------------------------------------
\* The first k tracks of the BTreeMap.
Among(q, k) == \E l \in 1..k : TracksInOrder[l] = <<q[1], q[2]>>

\* w lists the ends to be added to the first k tracks, those of a track in order.
ListsOpen(w, gs, k) ==
    /\ w \in Seq(Open(gs))
    /\ \A q \in Open(gs) : Among(q, k) <=> \E i \in 1..Len(w) : w[i] = q
    /\ \A i, j \in 1..Len(w) :
         i < j /\ w[i][1] = w[j][1] /\ w[i][2] = w[j][2] => w[i][3] < w[j][3]

Closes(w, gs) == ListsOpen(w, gs, Len(TracksInOrder))

Closings(gs, w) == [i \in 1..Len(w) |-> SyntheticEnd(gs, w[i])]

LEMMA ListsMore ==
    ASSUME NEW gs, Len(gs) \in Nat, NEW k \in Nat, k < Len(TracksInOrder),
           NEW w, ListsOpen(w, gs, k)
    PROVE  LET r == TracksInOrder[k + 1][1]
               t == TracksInOrder[k + 1][2]
           IN \E v : /\ ListsOpen(v, gs, k + 1)
                     /\ Closings(gs, v) = Closings(gs, w) \o Closing(gs, r, t)
<1> DEFINE r == TracksInOrder[k + 1][1]
           t == TracksInOrder[k + 1][2]
           N == Len(TracksInOrder)
           n == OpenAtEnd(gs, r, t)
           u == [j \in 1..n |-> <<r, t, j>>]
           v == w \o u
<1>1. /\ N \in Nat /\ k + 1 \in 1..N
      /\ TracksInOrder[k + 1] \in Realms \X Tracks /\ TracksInOrder[k + 1] = <<r, t>>
      /\ \A i, j \in 1..N : TracksInOrder[i] = TracksInOrder[j] => i = j
  BY TracksListed
<1>2. r \in Realms /\ t \in Tracks
  BY <1>1
<1> HIDE DEF r, t
<1>3. /\ n \in 0..Len(gs) /\ n \in Nat
      /\ \A j \in 1..n : <<r, t, j>> \in Open(gs)
      /\ Closing(gs, r, t) = [j \in 1..n |-> SyntheticEnd(gs, <<r, t, j>>)]
  BY <1>2, ClosingIs
<1> HIDE DEF n
<1>4. u \in Seq(Open(gs)) /\ Len(u) = n /\ \A j \in 1..n : u[j] = <<r, t, j>>
  <2>1. u \in [1..n -> Open(gs)]
    BY <1>3
  <2>2. QED
    BY <1>3, <2>1, ListIsSeq
<1> HIDE DEF u
<1>5. w \in Seq(Open(gs)) /\ Len(w) \in Nat
  BY LenProperties DEF ListsOpen
<1>6. /\ v \in Seq(Open(gs)) /\ Len(v) = Len(w) + n
      /\ \A i \in 1..Len(w) + n : v[i] = IF i <= Len(w) THEN w[i] ELSE u[i - Len(w)]
  BY <1>4, <1>5, ConcatProperties
<1> HIDE DEF v
<1>7. /\ \A i \in 1..Len(w) : i \in 1..Len(v) /\ v[i] = w[i]
      /\ \A i \in 1..Len(v) : i > Len(w) => i - Len(w) \in 1..n /\ v[i] = <<r, t, i - Len(w)>>
      /\ \A j \in 1..n : Len(w) + j \in 1..Len(v) /\ v[Len(w) + j] = <<r, t, j>>
  <2>1. \A i \in 1..Len(w) : i \in 1..Len(v) /\ v[i] = w[i]
    BY <1>3, <1>5, <1>6
  <2>2. ASSUME NEW i \in 1..Len(v), i > Len(w)
        PROVE  i - Len(w) \in 1..n /\ v[i] = <<r, t, i - Len(w)>>
    <3>1. i - Len(w) \in 1..n /\ v[i] = u[i - Len(w)]
      BY <1>3, <1>5, <1>6, <2>2
    <3>2. QED
      BY <1>4, <3>1
  <2>3. ASSUME NEW j \in 1..n PROVE Len(w) + j \in 1..Len(v) /\ v[Len(w) + j] = <<r, t, j>>
    <3>1. /\ Len(w) + j \in 1..Len(v) /\ ~(Len(w) + j <= Len(w)) /\ (Len(w) + j) - Len(w) = j
          /\ Len(w) + j \in 1..Len(w) + n
      BY <1>3, <1>5, <1>6
    <3>2. v[Len(w) + j] = u[j]
      BY <1>6, <3>1
    <3>3. QED
      BY <1>4, <3>1, <3>2
  <2>4. QED
    BY <2>1, <2>2, <2>3
<1>8. ASSUME NEW q \in Open(gs) PROVE Among(q, k + 1) <=> \E i \in 1..Len(v) : v[i] = q
  <2>1. Among(q, k + 1) <=> Among(q, k) \/ (q[1] = r /\ q[2] = t)
    <3>1. \A l : l \in 1..k + 1 <=> l \in 1..k \/ l = k + 1
      OBVIOUS
    <3>2. TracksInOrder[k + 1] = <<q[1], q[2]>> <=> q[1] = r /\ q[2] = t
      BY <1>1
    <3>3. QED
      BY <3>1, <3>2 DEF Among
  <2>2. Among(q, k) <=> \E i \in 1..Len(w) : w[i] = q
    BY DEF ListsOpen
  <2>3. (q[1] = r /\ q[2] = t) <=> \E j \in 1..n : <<r, t, j>> = q
    <3>1. /\ q = <<q[1], q[2], q[3]>> /\ q[3] \in 1..Len(gs)
          /\ q[3] <= OpenAtEnd(gs, q[1], q[2])
      BY DEF Open
    <3>2. q[1] = r /\ q[2] = t => q[3] \in 1..n
      BY <1>3, <3>1 DEF n
    <3>3. QED
      BY <3>1, <3>2
  <2>4. (\E i \in 1..Len(v) : v[i] = q)
          <=> (\E i \in 1..Len(w) : w[i] = q) \/ (\E j \in 1..n : <<r, t, j>> = q)
    <3>1. \A i \in 1..Len(v) : i \in 1..Len(w) \/ i > Len(w)
      BY <1>5, <1>6
    <3>2. QED
      BY <1>7, <3>1
  <2>5. QED
    BY <2>1, <2>2, <2>3, <2>4
<1>9. ASSUME NEW i \in 1..Len(v), NEW j \in 1..Len(v), i < j, v[i][1] = v[j][1], v[i][2] = v[j][2]
      PROVE  v[i][3] < v[j][3]
  <2>1. i \in Nat /\ j \in Nat /\ Len(w) \in Nat
    BY <1>5
  <2>2. CASE j <= Len(w)
    <3>1. i \in 1..Len(w) /\ j \in 1..Len(w)
      BY <1>9, <2>1, <2>2
    <3>2. v[i] = w[i] /\ v[j] = w[j]
      BY <1>7, <3>1
    <3>3. QED
      BY <1>9, <3>1, <3>2 DEF ListsOpen
  <2>3. CASE i <= Len(w) /\ j > Len(w)
    <3>1. i \in 1..Len(w)
      BY <2>1, <2>3
    <3>2. v[i] = w[i] /\ w[i] \in Open(gs) /\ v[j] = <<r, t, j - Len(w)>>
      BY <1>5, <1>7, <2>3, <3>1, ElementOfSeq
    <3>3. Among(w[i], k)
      BY <3>1, <3>2 DEF ListsOpen
    <3>4. w[i][1] = r /\ w[i][2] = t
      BY <1>9, <3>2
    <3>5. PICK l \in 1..k : TracksInOrder[l] = <<r, t>>
      BY <3>3, <3>4 DEF Among
    <3>6. l \in 1..N /\ l # k + 1
      BY <1>1
    <3>7. QED
      BY <1>1, <3>5, <3>6
  <2>4. CASE i > Len(w)
    <3>1. j > Len(w)
      BY <1>9, <2>1, <2>4
    <3>2. v[i] = <<r, t, i - Len(w)>> /\ v[j] = <<r, t, j - Len(w)>>
      BY <1>7, <2>4, <3>1
    <3>3. v[i][3] = i - Len(w) /\ v[j][3] = j - Len(w)
      BY <3>2
    <3>4. QED
      BY <1>9, <2>1, <3>3
  <2>5. QED
    BY <2>1, <2>2, <2>3, <2>4
<1>10. Closings(gs, v) = Closings(gs, w) \o Closing(gs, r, t)
  <2> DEFINE X == {SyntheticEnd(gs, q) : q \in Open(gs)}
             a == Closings(gs, w)
             b == Closing(gs, r, t)
  <2>1. a \in Seq(X) /\ Len(a) = Len(w) /\ \A i \in 1..Len(w) : a[i] = SyntheticEnd(gs, w[i])
    <3>1. \A i \in 1..Len(w) : w[i] \in Open(gs)
      BY <1>5, ElementOfSeq
    <3>2. a = [i \in 1..Len(w) |-> SyntheticEnd(gs, w[i])]
      BY DEF Closings
    <3>3. a \in [1..Len(w) -> X]
      BY <3>1, <3>2
    <3>4. QED
      BY <1>5, <3>2, <3>3, ListIsSeq
  <2>2. b \in Seq(X) /\ Len(b) = n
    <3>1. b \in [1..n -> X]
      BY <1>3
    <3>2. QED
      BY <1>3, <3>1, ListIsSeq
  <2> HIDE DEF X, a, b
  <2>3. /\ a \o b \in Seq(X) /\ Len(a \o b) = Len(w) + n
        /\ \A i \in 1..Len(w) + n : (a \o b)[i] = IF i <= Len(w) THEN a[i] ELSE b[i - Len(w)]
    <3>1. /\ a \o b \in Seq(X) /\ Len(a \o b) = Len(a) + Len(b)
          /\ \A i \in 1..Len(a) + Len(b) : (a \o b)[i] = IF i <= Len(a) THEN a[i] ELSE b[i - Len(a)]
      BY <2>1, <2>2, ConcatProperties
    <3>2. QED
      BY <2>1, <2>2, <3>1
  <2>4. ASSUME NEW i \in 1..Len(v) PROVE (a \o b)[i] = SyntheticEnd(gs, v[i])
    <3>1. CASE i <= Len(w)
      <4>1. i \in 1..Len(w) /\ i \in 1..Len(w) + n
        BY <1>3, <1>5, <3>1
      <4>2. QED
        BY <1>7, <2>1, <2>3, <4>1
    <3>2. CASE ~(i <= Len(w))
      <4>1. i \in 1..Len(w) + n /\ i > Len(w)
        BY <1>3, <1>5, <1>6, <3>2
      <4>2. (a \o b)[i] = b[i - Len(w)] /\ i - Len(w) \in 1..n /\ v[i] = <<r, t, i - Len(w)>>
        BY <1>7, <2>3, <3>2, <4>1
      <4>3. b[i - Len(w)] = SyntheticEnd(gs, <<r, t, i - Len(w)>>)
        BY <1>3, <4>2 DEF b
      <4>4. QED
        BY <4>2, <4>3
    <3>3. QED
      BY <3>1, <3>2
  <2>5. DOMAIN (a \o b) = 1..Len(v) /\ a \o b = [i \in 1..Len(v) |-> (a \o b)[i]]
    <3>1. a \o b \in [1..Len(v) -> X]
      BY <1>6, <2>3, LenProperties
    <3>2. QED
      BY <3>1
  <2>6. a \o b = [i \in 1..Len(v) |-> SyntheticEnd(gs, v[i])]
    BY <2>4, <2>5
  <2>7. QED
    BY <2>6 DEF Closings, a, b
<1>11. ListsOpen(v, gs, k + 1)
  BY <1>6, <1>8, <1>9 DEF ListsOpen
<1>12. QED
  BY <1>10, <1>11 DEF r, t
-----------------------------------------------------------------------------
LEMMA ClosingsAreSeq ==
    ASSUME NEW gs, NEW w \in Seq(Open(gs))
    PROVE  /\ Closings(gs, w) \in Seq({SyntheticEnd(gs, q) : q \in Open(gs)})
           /\ Len(Closings(gs, w)) = Len(w) /\ Len(w) \in Nat
           /\ \A i \in 1..Len(w) : w[i] \in Open(gs) /\ Closings(gs, w)[i] = SyntheticEnd(gs, w[i])
<1> DEFINE X == {SyntheticEnd(gs, q) : q \in Open(gs)}
           c == Closings(gs, w)
<1>1. Len(w) \in Nat /\ \A i \in 1..Len(w) : w[i] \in Open(gs)
  BY LenProperties, ElementOfSeq
<1>2. c = [i \in 1..Len(w) |-> SyntheticEnd(gs, w[i])]
  BY DEF Closings
<1> HIDE DEF c
<1>3. c \in [1..Len(w) -> X]
  BY <1>1, <1>2
<1> HIDE DEF X
<1>4. c \in Seq(X) /\ Len(c) = Len(w)
  BY <1>1, <1>3, ListIsSeq
<1>5. QED
  BY <1>1, <1>2, <1>4 DEF c, X

LEMMA RepairIs ==
    ASSUME NEW S, NEW gs \in Seq(S)
    PROVE  \E w : Closes(w, gs) /\ Repair(gs) = Retained(gs) \o Closings(gs, w)
<1> DEFINE N == Len(TracksInOrder)
           X == {SyntheticEnd(gs, q) : q \in Open(gs)}
           Y == S \union X
           ret == Retained(gs)
           F(s, k) == s \o Closing(gs, TracksInOrder[k][1], TracksInOrder[k][2])
           Solves(f) == f = [k \in 0..N |-> IF k = 0 THEN ret ELSE F(f[k - 1], k)]
<1>1. Len(gs) \in Nat /\ N \in Nat
  BY LenProperties, TracksListed
<1>2. ret \in Seq(Y)
  <2>1. ret \in Seq(S) /\ S \subseteq Y
    BY RetainedIs
  <2>2. QED
    BY <2>1, SeqMonotonic
<1>3. ASSUME NEW k \in 1..N
      PROVE  Closing(gs, TracksInOrder[k][1], TracksInOrder[k][2]) \in Seq(Y)
  <2> DEFINE r == TracksInOrder[k][1]
             t == TracksInOrder[k][2]
             n == OpenAtEnd(gs, r, t)
             c == Closing(gs, r, t)
  <2>1. r \in Realms /\ t \in Tracks
    BY TracksListed
  <2> HIDE DEF r, t
  <2>2. /\ n \in Nat /\ \A j \in 1..n : <<r, t, j>> \in Open(gs)
        /\ c = [j \in 1..n |-> SyntheticEnd(gs, <<r, t, j>>)]
    BY <1>1, <2>1, ClosingIs
  <2> HIDE DEF n, c
  <2>3. c \in [1..n -> Y]
    BY <2>2
  <2> HIDE DEF Y
  <2>4. c \in Seq(Y)
    BY <2>2, <2>3, ListIsSeq
  <2>5. QED
    BY <2>4 DEF c, r, t
<1>4. Repair(gs) = (CHOOSE f : Solves(f))[N]
  BY DEF Repair
<1>5. \A s \in Seq(Y), k \in 1..N : F(s, k) \in Seq(Y)
  <2> HIDE DEF Y
  <2>1. QED
    BY <1>3, ConcatProperties
<1> HIDE DEF F, ret, Y, N
<1>6. \E f : Solves(f)
  <2> DEFINE G == [q \in Seq(Y) \X (1..N) |-> F(q[1], q[2])]
  <2>1. Steps(G, Seq(Y), N)
    BY <1>5 DEF Steps
  <2>2. \A s \in Seq(Y), k \in 1..N : G[<<s, k>>] = F(s, k)
    OBVIOUS
  <2> HIDE DEF G
  <2>3. \E f : Recurs(f, N, Seq(Y), ret, G)
    BY <1>1, <1>2, <2>1, Recursion
  <2>4. PICK f : f \in [0..N -> Seq(Y)] /\ f[0] = ret /\ \A k \in 1..N : f[k] = G[<<f[k - 1], k>>]
    BY <2>3 DEF Recurs
  <2>5. ASSUME NEW k \in 0..N PROVE f[k] = IF k = 0 THEN ret ELSE F(f[k - 1], k)
    <3>1. CASE k = 0
      BY <2>4, <3>1
    <3>2. CASE k # 0
      <4>1. k \in 1..N /\ k - 1 \in 0..N
        BY <1>1, <3>2
      <4>2. f[k] = F(f[k - 1], k)
        BY <2>2, <2>4, <4>1
      <4>3. QED
        BY <3>2, <4>2
    <3>3. QED
      BY <3>1, <3>2
  <2>6. Solves(f)
    BY <2>4, <2>5
  <2>7. QED
    BY <2>6
<1> DEFINE f == CHOOSE h : Solves(h)
<1>7. f[0] = ret /\ \A k \in 1..N : f[k] = F(f[k - 1], k)
  <2>1. Solves(f)
    BY <1>6
  <2> HIDE DEF f
  <2>2. ASSUME NEW k \in 1..N PROVE f[k] = F(f[k - 1], k)
    <3>1. k \in 0..N /\ k # 0
      OBVIOUS
    <3>2. QED
      BY <2>1, <3>1
  <2>3. f[0] = ret
    BY <1>1, <2>1
  <2>4. QED
    BY <2>2, <2>3
<1>8. Repair(gs) = f[N]
  BY <1>4
<1> HIDE DEF f, Solves
<1> DEFINE Good(k) == \E w : ListsOpen(w, gs, k) /\ f[k] = ret \o Closings(gs, w)
           T == {k \in 0..N : Good(k)}
<1>9. 0 \in T
  <2>1. <<>> \in Seq(Open(gs)) /\ Len(<<>>) = 0 /\ \A q \in Open(gs) : ~Among(q, 0)
    BY EmptySeq DEF Among
  <2>2. ListsOpen(<<>>, gs, 0)
    BY <2>1 DEF ListsOpen
  <2>3. Closings(gs, <<>>) = <<>>
    BY <2>1 DEF Closings
  <2>4. ret \o <<>> = ret
    BY <1>2, ConcatEmptySeq
  <2>5. Good(0)
    BY <1>7, <2>2, <2>3, <2>4
  <2>6. QED
    BY <1>1, <2>5
<1>10. ASSUME NEW k \in T, k < N PROVE k + 1 \in T
  <2>1. k \in Nat /\ k + 1 \in 1..N /\ (k + 1) - 1 = k /\ k + 1 \in 0..N
    BY <1>1, <1>10
  <2>2. PICK w : ListsOpen(w, gs, k) /\ f[k] = ret \o Closings(gs, w)
    OBVIOUS
  <2> DEFINE c == Closing(gs, TracksInOrder[k + 1][1], TracksInOrder[k + 1][2])
  <2>3. PICK v : ListsOpen(v, gs, k + 1) /\ Closings(gs, v) = Closings(gs, w) \o c
    BY <1>1, <1>10, <2>1, <2>2, ListsMore DEF N
  <2>4. f[k + 1] = f[k] \o c
    BY <1>7, <2>1 DEF F
  <2>5. Closings(gs, w) \in Seq(Y)
    <3>1. Closings(gs, w) \in Seq(X) /\ X \subseteq Y
      BY <2>2, ClosingsAreSeq DEF ListsOpen, Y
    <3> HIDE DEF X
    <3>2. QED
      BY <3>1, SeqMonotonic
  <2>6. c \in Seq(Y)
    BY <1>3, <2>1
  <2>7. (ret \o Closings(gs, w)) \o c = ret \o (Closings(gs, w) \o c)
    <3> DEFINE d == Closings(gs, w)
    <3>1. ret \in Seq(Y) /\ d \in Seq(Y) /\ c \in Seq(Y)
      BY <1>2, <2>5, <2>6
    <3> HIDE DEF c, d
    <3>2. (ret \o d) \o c = ret \o (d \o c)
      BY <3>1, ConcatAssociative
    <3>3. QED
      BY <3>2 DEF d
  <2>8. f[k + 1] = ret \o Closings(gs, v)
    BY <2>2, <2>3, <2>4, <2>7
  <2>9. QED
    BY <2>1, <2>3, <2>8
<1>11. T \in SUBSET Nat
  BY <1>1
<1> HIDE DEF T
<1>12. N \in T
  <2>1. 0..N \subseteq T
    BY <1>1, <1>9, <1>10, <1>11, UpTo
  <2>2. QED
    BY <1>1, <2>1
<1>13. QED
  BY <1>8, <1>12 DEF T, Closes, N, ret
-----------------------------------------------------------------------------
(***************************************************************************)
(* Events: the groups sorted, retained, closed and sorted again.           *)
(***************************************************************************)
LEMMA SortedIs ==
    ASSUME NEW S, Fitting(S), NEW gs \in Seq(S)
    PROVE  /\ \E p : Sorts(p, gs)
           /\ Sorted(gs) \in Seq(S) /\ Len(Sorted(gs)) = Len(gs) /\ Len(gs) \in Nat
<1>1. PICK p : Sorts(p, gs)
  BY FittingKeyed, SortedSorts
<1>2. Len(gs) \in Nat
  BY LenProperties
<1>3. /\ Sorted(gs) = [k \in 1..Len(gs) |-> gs[p[k]]]
      /\ \A k \in 1..Len(gs) : p[k] \in 1..Len(gs)
  BY <1>1 DEF Sorts, Permutes
<1>4. \A k \in 1..Len(gs) : gs[p[k]] \in S
  BY <1>3, ElementOfSeq
<1>5. Sorted(gs) \in [1..Len(gs) -> S]
  BY <1>3, <1>4
<1>6. QED
  BY <1>1, <1>2, <1>5, ListIsSeq

\* What the trace of gs can be made of.
Emitted(S, gs) == S \union {SyntheticEnd(gs, q) : q \in Open(gs)}

LEMMA EmittedFits ==
    ASSUME NEW S, Fitting(S), NEW gs \in Seq(S)
    PROVE  Fitting(Emitted(S, gs))
<1>1. \A q \in Open(gs) : Fits(SyntheticEnd(gs, q))
  BY SyntheticEndIs
<1>2. QED
  BY <1>1 DEF Fitting, Emitted

\* w closes what gs leaves open, behind what is retained of gs.
Splits(w, gs) ==
    /\ Closes(w, gs) /\ w \in Seq(Open(gs)) /\ Len(w) \in Nat
    /\ Len(Retained(gs)) \in Nat /\ Len(Repair(gs)) = Len(Retained(gs)) + Len(w)
    /\ \A k \in 1..Len(Retained(gs)) : Repair(gs)[k] = Retained(gs)[k]
    /\ \A k \in 1..Len(w) :
         /\ w[k] \in Open(gs) /\ Len(Retained(gs)) + k \in 1..Len(Repair(gs))
         /\ Repair(gs)[Len(Retained(gs)) + k] = SyntheticEnd(gs, w[k])

LEMMA RepairSplits ==
    ASSUME NEW S, NEW gs \in Seq(S)
    PROVE  Repair(gs) \in Seq(Emitted(S, gs)) /\ \E w : Splits(w, gs)
<1> DEFINE X == {SyntheticEnd(gs, q) : q \in Open(gs)}
           ret == Retained(gs)
           rep == Repair(gs)
<1>1. PICK w : Closes(w, gs) /\ rep = ret \o Closings(gs, w)
  BY RepairIs
<1>2. w \in Seq(Open(gs))
  BY <1>1 DEF Closes, ListsOpen
<1> DEFINE c == Closings(gs, w)
<1>3. /\ c \in Seq(X) /\ Len(c) = Len(w) /\ Len(w) \in Nat
      /\ \A i \in 1..Len(w) : w[i] \in Open(gs) /\ c[i] = SyntheticEnd(gs, w[i])
  BY <1>2, ClosingsAreSeq
<1>4. ret \in Seq(S) /\ Len(ret) \in Nat
  BY RetainedIs, LenProperties
<1>5. ret \in Seq(Emitted(S, gs)) /\ c \in Seq(Emitted(S, gs))
  <2>1. S \subseteq Emitted(S, gs) /\ X \subseteq Emitted(S, gs)
    BY DEF Emitted
  <2> HIDE DEF X, ret, c
  <2>2. QED
    BY <1>3, <1>4, <2>1, SeqMonotonic
<1> HIDE DEF ret, c, rep
<1>6. /\ rep \in Seq(Emitted(S, gs)) /\ Len(rep) = Len(ret) + Len(c)
      /\ \A i \in 1..Len(ret) + Len(c) : rep[i] = IF i <= Len(ret) THEN ret[i] ELSE c[i - Len(ret)]
  BY <1>1, <1>5, ConcatProperties DEF c
<1>7. \A k \in 1..Len(ret) : rep[k] = ret[k]
  BY <1>3, <1>4, <1>6
<1>8. ASSUME NEW k \in 1..Len(w)
      PROVE  Len(ret) + k \in 1..Len(rep) /\ rep[Len(ret) + k] = SyntheticEnd(gs, w[k])
  <2>1. /\ Len(ret) + k \in 1..Len(ret) + Len(c) /\ ~(Len(ret) + k <= Len(ret))
        /\ (Len(ret) + k) - Len(ret) = k
    BY <1>3, <1>4
  <2>2. QED
    BY <1>3, <1>6, <2>1
<1>9. QED
  BY <1>1, <1>2, <1>3, <1>4, <1>6, <1>7, <1>8 DEF Splits, ret, rep

\* An event is one of the groups, or an end the repair has added.
LEMMA EventIs ==
    ASSUME NEW S, Fitting(S), NEW gs \in Seq(S)
    PROVE  \A k \in DOMAIN Events(gs) :
             \/ \E i \in 1..Len(gs) : Events(gs)[k] = gs[i]
             \/ \E o \in Open(Sorted(gs)) : Events(gs)[k] = SyntheticEnd(Sorted(gs), o)
<1> DEFINE s == Sorted(gs)
           ret == Retained(s)
           rep == Repair(s)
           Y == Emitted(S, s)
<1>1. PICK p : Sorts(p, gs)
  BY SortedIs
<1>2. s \in Seq(S) /\ Len(s) = Len(gs) /\ Len(gs) \in Nat
  BY SortedIs
<1> HIDE DEF s
<1>3. rep \in Seq(Y) /\ Fitting(Y)
  BY <1>2, RepairSplits, EmittedFits
<1>4. PICK w : Splits(w, s)
  BY <1>2, RepairSplits
<1>5. PICK e : Keeps(e, s)
  BY <1>2, RetainedIs
<1>6. ASSUME NEW k \in 1..Len(rep)
      PROVE  \/ \E i \in 1..Len(gs) : rep[k] = gs[i]
             \/ \E o \in Open(s) : rep[k] = SyntheticEnd(s, o)
  <2>1. Len(ret) \in Nat /\ Len(w) \in Nat /\ Len(rep) = Len(ret) + Len(w)
    BY <1>4 DEF Splits
  <2>2. CASE k <= Len(ret)
    <3>1. k \in 1..Len(ret) /\ rep[k] = ret[k]
      BY <1>4, <2>1, <2>2 DEF Splits
    <3>2. ret[k] = s[e[k]] /\ e[k] \in 1..Len(s)
      BY <1>5, <3>1 DEF Keeps, Climbs
    <3>3. s[e[k]] = gs[p[e[k]]] /\ p[e[k]] \in 1..Len(gs)
      BY <1>1, <1>2, <3>2 DEF Sorts, Permutes, s
    <3>4. QED
      BY <3>1, <3>2, <3>3
  <2>3. CASE ~(k <= Len(ret))
    <3>1. k - Len(ret) \in 1..Len(w) /\ Len(ret) + (k - Len(ret)) = k
      BY <2>1, <2>3
    <3>2. QED
      BY <1>4, <3>1 DEF Splits
  <2>4. QED
    BY <2>2, <2>3
<1>7. PICK q : Sorts(q, rep)
  BY <1>3, SortedIs
<1>8. DOMAIN Events(gs) = 1..Len(rep) /\ \A k \in 1..Len(rep) : Events(gs)[k] = rep[q[k]]
  BY <1>7 DEF Events, Sorts, s
<1>9. \A k \in 1..Len(rep) : q[k] \in 1..Len(rep)
  BY <1>7 DEF Sorts, Permutes
<1> HIDE DEF rep
<1>10. QED
  BY <1>6, <1>8, <1>9 DEF s
-----------------------------------------------------------------------------
(***************************************************************************)
(* The invariant.                                                          *)
(***************************************************************************)
Ingested ==
    {EventGroup(q[1], q[2], q[3], q[4]) : q \in Realms \X Clocks \X Times \X Shapes}

\* The groups of a realm arrive in the order of their times.
InTime(gs) ==
    \A i, j \in 1..Len(gs) : i < j /\ gs[i].realm = gs[j].realm => gs[i].time <= gs[j].time

Counted == \A r \in DOMAIN health : health[r] \in Nat

\* What finish() has left: the trace and its health.
Left ==
    /\ status # "open" => status = Outcome(Events(groups), RepairedHealth)
    /\ Finished => events = Events(groups) /\ reported = RepairedHealth

Collected == groups \in Seq(Ingested) /\ InTime(groups) /\ Counted /\ Left

LEMMA IngestedFits == Fitting(Ingested) /\ \A g \in Ingested : g.name # None
<1>1. MaxTime \in Nat /\ Times \subseteq 0..MaxTime
  BY CollectorAssumption
<1>2. \A s \in Shapes : s.track \in Tracks /\ s.name # None
  BY CollectorAssumption
<1>3. ASSUME NEW g \in Ingested PROVE Fits(g) /\ g.name # None
  <2>1. PICK q \in Realms \X Clocks \X Times \X Shapes : g = EventGroup(q[1], q[2], q[3], q[4])
    BY DEF Ingested
  <2>2. q[1] \in Realms /\ q[3] \in Times /\ q[4] \in Shapes
    OBVIOUS
  <2>3. g.realm = q[1] /\ g.time = q[3] /\ g.track = q[4].track /\ g.name = q[4].name
    BY <2>1 DEF EventGroup
  <2>4. QED
    BY <1>1, <1>2, <2>2, <2>3 DEF Fits
<1>4. QED
  BY <1>3 DEF Fitting

LEMMA OpenGroups ==
    ASSUME NEW S, Fitting(S), NEW gs \in Seq(S), NEW r \in Realms, Repairs(Sorted(gs), r) > 0
    PROVE  \E i \in 1..Len(gs) : gs[i].realm = r
<1> DEFINE s == Sorted(gs)
           D == {i \in Unmatched(s) : s[i].realm = r}
           P == {p \in Tracks \X (1..Len(s)) : p[2] <= OpenAtEnd(s, r, p[1])}
<1>1. PICK p : Sorts(p, gs)
  BY SortedIs
<1>2. s \in Seq(S) /\ Len(s) = Len(gs) /\ Len(gs) \in Nat /\ DOMAIN s = 1..Len(s)
  BY SortedIs, LenProperties
<1>3. Repairs(s, r) = Cardinality(D) + Cardinality(P)
  BY DEF Repairs
<1>4. \E i \in 1..Len(s) : s[i].realm = r
  <2> HIDE DEF s
  <2> SUFFICES ASSUME \A i \in 1..Len(s) : s[i].realm # r PROVE FALSE
    OBVIOUS
  <2>1. D = {}
    BY <1>2 DEF Unmatched
  <2>2. P = {}
    <3>1. ASSUME NEW t \in Tracks, NEW k \in 1..Len(s) PROVE ~(k <= OpenAtEnd(s, r, t))
      <4>1. Len(s) \in 0..Len(s)
        BY <1>2
      <4>2. OpenAtEnd(s, r, t) \in 0..Len(s) /\ ~(OpenAtEnd(s, r, t) > 0)
        BY <1>2, <4>1, DepthBound DEF OpenAtEnd, On
      <4>3. QED
        BY <1>2, <4>2
    <3>2. QED
      BY <3>1
  <2>3. Cardinality(D) = 0 /\ Cardinality(P) = 0
    BY <2>1, <2>2, FS_EmptySet
  <2>4. Repairs(s, r) = 0
    BY <1>3, <2>3
  <2>5. QED
    BY <2>4 DEF s
<1>5. PICK i \in 1..Len(s) : s[i].realm = r
  BY <1>4
<1>6. s[i] = gs[p[i]] /\ p[i] \in 1..Len(gs)
  BY <1>1, <1>2, <1>5 DEF Sorts, Permutes
<1>7. QED
  BY <1>5, <1>6

\* What finish() panics at.
LEMMA PanicIs ==
    ASSUME NEW S, Fitting(S), groups \in Seq(S),
           References, Fittable, ~Indexed(RepairedHealth)
    PROVE  ~(DOMAIN health \subseteq DOMAIN realms)
<1>1. DOMAIN RepairedHealth = DOMAIN health \union {r \in Realms : Repairs(Sorted(groups), r) > 0}
  BY DEF RepairedHealth
<1>2. DOMAIN groups = 1..Len(groups)
  BY LenProperties
<1>3. ASSUME NEW r \in Realms, Repairs(Sorted(groups), r) > 0 PROVE r \in DOMAIN realms
  <2>1. PICK i \in 1..Len(groups) : groups[i].realm = r
    BY <1>3, OpenGroups
  <2>2. QED
    BY <1>2, <2>1 DEF References, Referenced
<1>4. Calibrated \subseteq DOMAIN realms
  BY DEF Fittable
<1>5. QED
  BY <1>1, <1>3, <1>4 DEF Indexed

LEMMA InitCollected == Init => Collected
<1>1. <<>> \in Seq(Ingested) /\ Len(<<>>) = 0
  BY EmptySeq
<1>2. Init => groups = <<>> /\ status = "open" /\ DOMAIN health = {}
  BY DEF Init, Absent
<1>3. QED
  BY <1>1, <1>2 DEF Collected, InTime, Left, Counted, Finished

LEMMA IngestCollected ==
    ASSUME Collected, NEW r \in Realms, NEW b \in Batches(r), IngestBatch(r, b)
    PROVE  groups' \in Seq(Ingested) /\ InTime(groups')
<1> DEFINE since == {t \in Times : \A k \in Arrivals(r) : groups[k].time <= t}
           Of(n) == {c \in [1..n -> [shape : Shapes, clock : Clocks, time : since]] :
                       \A i, j \in 1..n : i < j => c[i].time <= c[j].time}
           more == [k \in DOMAIN b |-> EventGroup(r, b[k].clock, b[k].time, b[k].shape)]
<1>1. PICK n \in 1..MaxBatch : b \in Of(n)
  BY DEF Batches
<1>2. n \in Nat
  BY CollectorAssumption
<1>3. /\ DOMAIN b = 1..n
      /\ \A k \in 1..n : b[k].shape \in Shapes /\ b[k].clock \in Clocks /\ b[k].time \in since
      /\ \A i, j \in 1..n : i < j => b[i].time <= b[j].time
  BY <1>1
<1> HIDE DEF Of
<1>4. /\ DOMAIN more = 1..n
      /\ \A k \in 1..n : /\ more[k] = EventGroup(r, b[k].clock, b[k].time, b[k].shape)
                         /\ more[k].realm = r /\ more[k].time = b[k].time
      /\ more = [k \in 1..n |-> more[k]]
  BY <1>3 DEF EventGroup
<1> HIDE DEF more
<1>5. \A k \in 1..n : more[k] \in Ingested
  <2>1. ASSUME NEW k \in 1..n PROVE more[k] \in Ingested
    <3> DEFINE q == <<r, b[k].clock, b[k].time, b[k].shape>>
    <3>1. q \in Realms \X Clocks \X Times \X Shapes
      BY <1>3
    <3>2. more[k] = EventGroup(q[1], q[2], q[3], q[4])
      BY <1>4
    <3> HIDE DEF q
    <3>3. QED
      BY <3>1, <3>2 DEF Ingested
  <2>2. QED
    BY <2>1
<1>6. more \in Seq(Ingested) /\ Len(more) = n
  <2>1. more \in [1..n -> Ingested]
    BY <1>4, <1>5
  <2>2. QED
    BY <1>2, <2>1, ListIsSeq
<1> DEFINE m == Len(groups)
<1>7. groups \in Seq(Ingested) /\ m \in Nat /\ DOMAIN groups = 1..m /\ groups' = groups \o more
  BY LenProperties DEF Collected, IngestBatch, more
<1>8. /\ groups' \in Seq(Ingested) /\ Len(groups') = m + n
      /\ \A i \in 1..m + n : groups'[i] = IF i <= m THEN groups[i] ELSE more[i - m]
  BY <1>6, <1>7, ConcatProperties
<1> HIDE DEF m
<1>9. ASSUME NEW i \in 1..m + n, NEW j \in 1..m + n, i < j, groups'[i].realm = groups'[j].realm
      PROVE  groups'[i].time <= groups'[j].time
  <2>1. i \in Nat /\ j \in Nat
    OBVIOUS
  <2>2. CASE j <= m
    <3>1. i \in 1..m /\ j \in 1..m /\ groups'[i] = groups[i] /\ groups'[j] = groups[j]
      BY <1>2, <1>7, <1>8, <1>9, <2>1, <2>2
    <3>2. QED
      BY <1>9, <3>1 DEF Collected, InTime, m
  <2>3. CASE i <= m /\ ~(j <= m)
    <3>1. i \in 1..m /\ j - m \in 1..n /\ groups'[i] = groups[i] /\ groups'[j] = more[j - m]
      BY <1>2, <1>7, <1>8, <2>1, <2>3
    <3>2. groups[i].realm = r /\ groups'[j].time = b[j - m].time /\ b[j - m].time \in since
      BY <1>3, <1>4, <1>9, <3>1
    <3>3. i \in Arrivals(r)
      BY <1>7, <3>1, <3>2 DEF Arrivals
    <3>4. QED
      BY <3>1, <3>2, <3>3
  <2>4. CASE ~(i <= m)
    <3>1. ~(j <= m) /\ i - m \in 1..n /\ j - m \in 1..n /\ i - m < j - m
      BY <1>2, <1>7, <1>9, <2>1, <2>4
    <3>2. groups'[i] = more[i - m] /\ groups'[j] = more[j - m]
      BY <1>8, <2>4, <3>1
    <3>3. b[i - m].time <= b[j - m].time
      BY <1>3, <3>1
    <3>4. QED
      BY <1>4, <3>1, <3>2, <3>3
  <2>5. QED
    BY <2>2, <2>3, <2>4
<1>10. QED
  BY <1>8, <1>9 DEF InTime
-----------------------------------------------------------------------------
LEMMA RepairsCount ==
    ASSUME NEW gs, Len(gs) \in Nat, DOMAIN gs = 1..Len(gs), NEW r
    PROVE  /\ IsFiniteSet({i \in Unmatched(gs) : gs[i].realm = r})
           /\ IsFiniteSet({p \in Tracks \X (1..Len(gs)) : p[2] <= OpenAtEnd(gs, r, p[1])})
           /\ Repairs(gs, r) \in Nat
<1> DEFINE D == {i \in Unmatched(gs) : gs[i].realm = r}
           P == {p \in Tracks \X (1..Len(gs)) : p[2] <= OpenAtEnd(gs, r, p[1])}
<1>1. IsFiniteSet(D) /\ Cardinality(D) \in Nat
  <2>1. D \in SUBSET (1..Len(gs))
    BY DEF Unmatched
  <2> HIDE DEF D
  <2>2. QED
    BY <2>1, UpToFinite
<1>2. IsFiniteSet(P) /\ Cardinality(P) \in Nat
  <2>1. IsFiniteSet(Tracks) /\ IsFiniteSet(1..Len(gs))
    BY CollectorAssumption, FS_Interval
  <2>2. IsFiniteSet(Tracks \X (1..Len(gs)))
    BY <2>1, FS_Product
  <2>3. P \in SUBSET (Tracks \X (1..Len(gs)))
    OBVIOUS
  <2> HIDE DEF P
  <2>4. QED
    BY <2>2, <2>3, FS_Subset, FS_CardinalityType
<1>3. Repairs(gs, r) = Cardinality(D) + Cardinality(P)
  BY DEF Repairs
<1> HIDE DEF D, P
<1>4. Repairs(gs, r) \in Nat
  BY <1>1, <1>2, <1>3
<1>5. QED
  BY <1>1, <1>2, <1>4 DEF D, P

LEMMA FinishCollected ==
    ASSUME Collected, Finish
    PROVE  Collected'
<1> DEFINE outcome == Outcome(Events(groups), RepairedHealth)
<1>1. /\ status = "open" /\ status' = outcome
      /\ events' = (IF outcome = "finished" THEN Events(groups) ELSE events)
      /\ reported' = (IF outcome = "finished" THEN RepairedHealth ELSE reported)
      /\ groups' = groups /\ health' = health
      /\ realms' = realms /\ metadata' = metadata /\ calibrations' = calibrations
  BY DEF Finish, registry
<1>2. groups \in Seq(Ingested) /\ InTime(groups) /\ Counted
  BY DEF Collected
<1>3. Events(groups)' = Events(groups) /\ RepairedHealth' = RepairedHealth
  BY <1>1 DEF RepairedHealth
<1>4. outcome' = outcome
  BY <1>1, <1>3 DEF Outcome, References, Referenced, Fittable, Calibrated, Indexed, Reported, Emittable
<1> HIDE DEF outcome
<1>5. Left'
  BY <1>1, <1>3, <1>4 DEF Left, Finished, outcome
<1>6. InTime(groups)' /\ Counted'
  BY <1>1, <1>2 DEF InTime, Counted
<1>7. QED
  BY <1>1, <1>2, <1>5, <1>6 DEF Collected

LEMMA NextCollected == Collected /\ [Next]_vars => Collected'
<1> SUFFICES ASSUME Collected, [Next]_vars PROVE Collected'
  OBVIOUS
\* Whatever keeps the groups while the collector is there.
<1>1. ASSUME groups' = groups, status' = "open", Counted' PROVE Collected'
  BY <1>1 DEF Collected, InTime, Left, Finished
<1>2. ASSUME NEW r \in Realms, NEW d \in RealmDefs, RegisterRealm(r, d) PROVE Collected'
  BY <1>1, <1>2 DEF RegisterRealm, result, Collected, Counted
<1>3. ASSUME NEW n \in Names, NEW label \in Labels, RegisterMetadata(n, label) PROVE Collected'
  BY <1>1, <1>3 DEF RegisterMetadata, result, Collected, Counted
<1>4. ASSUME NEW r \in Realms, NEW s \in Samples[r], AddCalibration(r, s) PROVE Collected'
  BY <1>1, <1>4 DEF AddCalibration, result, Collected, Counted
<1>5. ASSUME NEW r \in HealthOf, (\E n \in RepairsSet : SetHealth(r, n)) \/ SetTransportHealth(r)
      PROVE  Collected'
  <2>1. PICK n \in RepairsSet \union {0} : health' = Extend(health, r, n)
    BY <1>5 DEF SetHealth, SetTransportHealth
  <2>2. groups' = groups /\ status' = "open"
    BY <1>5 DEF SetHealth, SetTransportHealth, result
  <2>3. n \in Nat
    BY CollectorAssumption
  <2>4. Counted'
    BY <2>1, <2>3 DEF Collected, Counted, Extend
  <2>5. QED
    BY <1>1, <2>2, <2>4
<1>6. ASSUME NEW r \in Realms, NEW b \in Batches(r), IngestBatch(r, b) PROVE Collected'
  <2>1. groups' \in Seq(Ingested) /\ InTime(groups')
    BY <1>6, IngestCollected
  <2>2. status' = "open" /\ health' = health
    BY <1>6 DEF IngestBatch, result
  <2>3. Left' /\ Counted' /\ InTime(groups)'
    BY <2>1, <2>2 DEF Collected, Left, Counted, Finished, InTime
  <2>4. QED
    BY <2>1, <2>3 DEF Collected
<1>7. ASSUME Finish PROVE Collected'
  BY <1>7, FinishCollected
<1>8. ASSUME UNCHANGED vars PROVE Collected'
  <2>1. /\ groups' = groups /\ health' = health /\ status' = status /\ events' = events
        /\ reported' = reported /\ realms' = realms /\ metadata' = metadata
        /\ calibrations' = calibrations
    BY <1>8 DEF vars, registry, result
  <2>2. Events(groups)' = Events(groups) /\ RepairedHealth' = RepairedHealth
    BY <2>1 DEF RepairedHealth
  <2>3. Outcome(Events(groups), RepairedHealth)' = Outcome(Events(groups), RepairedHealth)
    BY <2>1, <2>2 DEF Outcome, References, Referenced, Fittable, Calibrated, Indexed, Reported, Emittable
  <2>4. Left'
    BY <2>1, <2>2, <2>3 DEF Collected, Left, Finished
  <2>5. QED
    BY <2>1, <2>4 DEF Collected, InTime, Counted
<1>9. QED
  BY <1>2, <1>3, <1>4, <1>5, <1>6, <1>7, <1>8 DEF Next

LEMMA AlwaysCollected == Spec => []Collected
  BY InitCollected, NextCollected, PTL DEF Spec

-----------------------------------------------------------------------------
(***************************************************************************)
(* finish() panics only where the application has set the health of a      *)
(* realm it never registered (PanicNeedsHealth).                           *)
(***************************************************************************)
THEOREM PanicsNeedHealth == Spec => []PanicNeedsHealth
<1>1. ASSUME Collected, status = "panic" PROVE ~(DOMAIN health \subseteq DOMAIN realms)
  <2>1. References /\ Fittable /\ ~Indexed(RepairedHealth)
    BY <1>1 DEF Collected, Left, Outcome
  <2>2. groups \in Seq(Ingested) /\ Fitting(Ingested)
    BY <1>1, IngestedFits DEF Collected
  <2>3. QED
    BY <2>1, <2>2, PanicIs
<1>2. Collected => PanicNeedsHealth
  BY <1>1 DEF PanicNeedsHealth
<1>3. QED
  BY <1>2, AlwaysCollected, PTL

\* validate_references asks for the labels that are looked up, no more.
LEMMA AskedIsLookedUp == ASSUME NEW g PROVE Mentions(g) = LookedUp(g)
<1>1. CASE g.kind = "log"
  BY <1>1 DEF LookedUp, Mentions
<1>2. CASE g.kind = "end"
  BY <1>2 DEF LookedUp, Mentions
<1>3. CASE g.kind \in {"begin", "instant"}
  BY <1>3 DEF LookedUp, Mentions
<1>4. CASE g.kind \notin {"log", "end", "begin", "instant"}
  BY <1>4 DEF LookedUp, Mentions
<1>5. QED
  BY <1>1, <1>2, <1>3, <1>4

\* What it asks for is enough after the repair, too.
LEMMA CollectedSuffices ==
    ASSUME Collected, References
    PROVE  Emittable(Events(groups))
<1> SUFFICES ASSUME NEW k \in DOMAIN Events(groups)
             PROVE  LookedUp(Events(groups)[k]) \subseteq DOMAIN metadata
  BY DEF Emittable
<1> DEFINE e == Events(groups)[k]
<1>1. groups \in Seq(Ingested) /\ Fitting(Ingested)
  BY IngestedFits DEF Collected
<1>2. DOMAIN groups = 1..Len(groups)
  BY <1>1, LenProperties
<1>3. \/ \E i \in 1..Len(groups) : e = groups[i]
      \/ \E o \in Open(Sorted(groups)) : e = SyntheticEnd(Sorted(groups), o)
  BY <1>1, EventIs
<1> HIDE DEF e
<1>4. CASE \E i \in 1..Len(groups) : e = groups[i]
  <2>1. Mentions(e) \subseteq DOMAIN metadata
    BY <1>2, <1>4 DEF References, Referenced
  <2>2. QED
    BY <2>1, AskedIsLookedUp DEF e
<1>5. CASE \E o \in Open(Sorted(groups)) : e = SyntheticEnd(Sorted(groups), o)
  <2>1. Sorted(groups) \in Seq(Ingested)
    BY <1>1, SortedIs
  <2>2. e.kind = "end" /\ e.fields = {}
    BY <1>1, <1>5, <2>1, SyntheticEndIs
  <2>3. LookedUp(e) = {}
    BY <2>2 DEF LookedUp
  <2>4. QED
    BY <2>3 DEF e
<1>6. QED
  BY <1>3, <1>4, <1>5

-----------------------------------------------------------------------------
(***************************************************************************)
(* The way of a group into the trace.                                      *)
(***************************************************************************)
\* Of one realm, a sort keeps the order of what is in order already.
LEMMA SortKeeps ==
    ASSUME NEW S, Fitting(S), NEW gs \in Seq(S), NEW p, Sorts(p, gs),
           NEW a \in 1..Len(gs), NEW b \in 1..Len(gs), gs[p[a]].realm = gs[p[b]].realm
    PROVE  /\ p[a] < p[b] /\ gs[p[a]].time <= gs[p[b]].time => a < b
           /\ a < b => gs[p[a]].time <= gs[p[b]].time
<1> DEFINE x == gs[p[a]].time
           y == gs[p[b]].time
<1>1. Len(gs) \in Nat /\ p[a] \in 1..Len(gs) /\ p[b] \in 1..Len(gs)
  BY LenProperties DEF Sorts, Permutes
<1>2. x \in Nat /\ y \in Nat /\ gs[p[a]].realm \in Nat
  BY <1>1, FittingKeyed, ElementOfSeq DEF Keyed
<1>3. b < a => Precedes(gs, p[b], p[a])
  BY DEF Sorts
<1>4. a < b => Precedes(gs, p[a], p[b])
  BY DEF Sorts
<1>5. /\ Precedes(gs, p[b], p[a]) => y < x \/ (y <= x /\ p[b] < p[a])
      /\ Precedes(gs, p[a], p[b]) => x <= y
  BY <1>2 DEF Precedes, Earlier
<1> HIDE DEF x, y
<1>6. p[a] < p[b] /\ x <= y => a < b
  <2> SUFFICES ASSUME p[a] < p[b], x <= y, ~(a < b) PROVE FALSE
    OBVIOUS
  <2>1. a # b /\ b < a
    <3>1. a \in Nat /\ b \in Nat /\ a # b
      BY <1>1
    <3>2. QED
      BY <3>1
  <2>2. y < x \/ (y <= x /\ p[b] < p[a])
    BY <1>3, <1>5, <2>1
  <2>3. p[a] \in Nat /\ p[b] \in Nat
    BY <1>1
  <2>4. QED
    BY <1>2, <2>2, <2>3
<1>7. a < b => x <= y
  BY <1>4, <1>5
<1>8. QED
  BY <1>6, <1>7 DEF x, y

\* p sorts gs, e retains, w closes, and q sorts what came of it.
Traced(gs, p, e, w, q) ==
    LET s == Sorted(gs)
        m == Len(Retained(s))
        rep == Repair(s)
    IN /\ Len(gs) \in Nat /\ Len(s) = Len(gs) /\ m \in Nat /\ Len(w) \in Nat
       /\ Len(rep) = m + Len(w) /\ Len(Events(gs)) = Len(rep) /\ DOMAIN Events(gs) = 1..Len(rep)
       /\ Sorts(p, gs) /\ \A k \in 1..Len(gs) : p[k] \in 1..Len(gs) /\ s[k] = gs[p[k]]
       /\ Climbs(e, m, (1..Len(gs)) \ Unmatched(s))
       /\ \A k \in 1..m : k \in 1..Len(rep) /\ e[k] \in 1..Len(gs) /\ rep[k] = s[e[k]]
       /\ Closes(w, s) /\ w \in Seq(Open(s))
       /\ \A k \in 1..Len(w) :
            /\ m + k \in 1..Len(rep) /\ w[k] \in Open(s) /\ rep[m + k] = SyntheticEnd(s, w[k])
       /\ Sorts(q, rep)
       /\ \A k \in 1..Len(rep) : q[k] \in 1..Len(rep) /\ Events(gs)[k] = rep[q[k]]

LEMMA TraceIs ==
    ASSUME NEW S, Fitting(S), NEW gs \in Seq(S)
    PROVE  /\ Sorted(gs) \in Seq(S)
           /\ Fitting(Emitted(S, Sorted(gs))) /\ Repair(Sorted(gs)) \in Seq(Emitted(S, Sorted(gs)))
           /\ \E p, e, w, q : Traced(gs, p, e, w, q)
<1> DEFINE s == Sorted(gs)
           rep == Repair(s)
           m == Len(Retained(s))
<1>1. s \in Seq(S) /\ Len(s) = Len(gs) /\ Len(gs) \in Nat
  BY SortedIs
<1>2. PICK p : Sorts(p, gs)
  BY SortedIs
<1>3. \A k \in 1..Len(gs) : p[k] \in 1..Len(gs) /\ s[k] = gs[p[k]]
  BY <1>2 DEF Sorts, Permutes
<1> HIDE DEF s
<1>4. rep \in Seq(Emitted(S, s)) /\ Fitting(Emitted(S, s))
  BY <1>1, RepairSplits, EmittedFits
<1>5. PICK w : Splits(w, s)
  BY <1>1, RepairSplits
<1>6. PICK e : Keeps(e, s)
  BY <1>1, RetainedIs
<1>7. /\ Closes(w, s) /\ w \in Seq(Open(s)) /\ Len(w) \in Nat /\ m \in Nat
      /\ Len(rep) = m + Len(w)
      /\ \A k \in 1..m : rep[k] = Retained(s)[k]
      /\ \A k \in 1..Len(w) :
           /\ m + k \in 1..Len(rep) /\ w[k] \in Open(s) /\ rep[m + k] = SyntheticEnd(s, w[k])
  BY <1>5 DEF Splits
<1>8. /\ Climbs(e, m, (1..Len(gs)) \ Unmatched(s))
      /\ \A k \in 1..m : e[k] \in 1..Len(gs) /\ Retained(s)[k] = s[e[k]]
  BY <1>1, <1>6 DEF Keeps, Climbs
<1>9. \A k \in 1..m : k \in 1..Len(rep) /\ e[k] \in 1..Len(gs) /\ rep[k] = s[e[k]]
  <2> HIDE DEF m, rep
  <2>1. QED
    BY <1>7, <1>8
<1>10. PICK q : Sorts(q, rep)
  BY <1>4, SortedIs
<1>11. Len(Events(gs)) = Len(rep) /\ DOMAIN Events(gs) = 1..Len(rep)
  <2>1. Events(gs) = Sorted(rep)
    BY DEF Events, s
  <2>2. Sorted(rep) \in Seq(Emitted(S, s)) /\ Len(Sorted(rep)) = Len(rep)
    BY <1>4, SortedIs
  <2>3. QED
    BY <2>1, <2>2, LenProperties
<1>12. \A k \in 1..Len(rep) : q[k] \in 1..Len(rep) /\ Events(gs)[k] = rep[q[k]]
  BY <1>10 DEF Sorts, Permutes, Events, s
<1>13. Traced(gs, p, e, w, q)
  BY <1>1, <1>2, <1>3, <1>7, <1>8, <1>9, <1>10, <1>11, <1>12 DEF Traced, s, m, rep
<1>14. QED
  BY <1>1, <1>4, <1>13 DEF s, rep

\* What is retained is in the order of its times, and what is added comes after
\* all of its realm and in order itself.
LEMMA RepairInTime ==
    ASSUME NEW S, Fitting(S), NEW gs \in Seq(S), NEW p, NEW e, NEW w, NEW q,
           Traced(gs, p, e, w, q)
    PROVE  LET rep == Repair(Sorted(gs))
               m == Len(Retained(Sorted(gs)))
           IN \A x, y \in 1..Len(rep) :
                /\ x < y /\ rep[x].realm = rep[y].realm
                /\ x <= m \/ rep[x].track = rep[y].track
                => rep[x].time <= rep[y].time
<1> DEFINE s == Sorted(gs)
           rep == Repair(s)
           m == Len(Retained(s))
<1> SUFFICES ASSUME NEW x \in 1..Len(rep), NEW y \in 1..Len(rep), x < y,
                    rep[x].realm = rep[y].realm, x <= m \/ rep[x].track = rep[y].track
             PROVE  rep[x].time <= rep[y].time
  OBVIOUS
<1>1. s \in Seq(S)
  BY TraceIs
<1>2. /\ Len(gs) \in Nat /\ Len(s) = Len(gs) /\ m \in Nat /\ Len(w) \in Nat
      /\ Len(rep) = m + Len(w) /\ Sorts(p, gs)
      /\ \A k \in 1..Len(gs) : p[k] \in 1..Len(gs) /\ s[k] = gs[p[k]]
      /\ \A i, j \in 1..m : i < j => e[i] < e[j]
      /\ \A k \in 1..m : e[k] \in 1..Len(gs) /\ rep[k] = s[e[k]]
      /\ Closes(w, s)
      /\ \A k \in 1..Len(w) : w[k] \in Open(s) /\ rep[m + k] = SyntheticEnd(s, w[k])
  BY DEF Traced, Climbs
<1> HIDE DEF s, rep, m
<1>3. x \in Nat /\ y \in Nat
  BY <1>2
<1>4. CASE y <= m
  <2>1. x \in 1..m /\ y \in 1..m
    BY <1>2, <1>3, <1>4
  <2>2. e[x] \in 1..Len(gs) /\ e[y] \in 1..Len(gs) /\ e[x] < e[y]
    BY <1>2, <2>1
  <2>3. rep[x] = gs[p[e[x]]] /\ rep[y] = gs[p[e[y]]]
    BY <1>2, <2>1, <2>2
  <2> DEFINE a == e[x]
             b == e[y]
  <2>4. /\ a \in 1..Len(gs) /\ b \in 1..Len(gs) /\ a < b
        /\ gs[p[a]].realm = gs[p[b]].realm
    BY <2>2, <2>3
  <2> HIDE DEF a, b
  <2>5. gs[p[a]].time <= gs[p[b]].time
    BY <1>2, <2>4, SortKeeps
  <2>6. QED
    BY <2>3, <2>5 DEF a, b
<1>5. CASE x <= m /\ ~(y <= m)
  <2>1. x \in 1..m /\ y - m \in 1..Len(w) /\ m + (y - m) = y
    BY <1>2, <1>3, <1>5
  <2>2. w[y - m] \in Open(s) /\ rep[y] = SyntheticEnd(s, w[y - m])
    BY <1>2, <2>1
  <2>3. rep[x] = s[e[x]] /\ e[x] \in 1..Len(s)
    BY <1>2, <2>1
  <2>4. /\ SyntheticEnd(s, w[y - m]).realm = w[y - m][1]
        /\ \A j \in 1..Len(s) :
             s[j].realm = w[y - m][1] => s[j].time <= SyntheticEnd(s, w[y - m]).time
    BY <1>1, <2>2, SyntheticEndIs
  <2>5. QED
    BY <2>2, <2>3, <2>4
<1>6. CASE ~(x <= m)
  <2>1. /\ x - m \in 1..Len(w) /\ m + (x - m) = x /\ y - m \in 1..Len(w) /\ m + (y - m) = y
        /\ x - m < y - m
    BY <1>2, <1>3, <1>6
  <2> DEFINE a == w[x - m]
             b == w[y - m]
  <2>2. a \in Open(s) /\ rep[x] = SyntheticEnd(s, a) /\ b \in Open(s) /\ rep[y] = SyntheticEnd(s, b)
    BY <1>2, <2>1
  <2>3. /\ SyntheticEnd(s, a).realm = a[1] /\ SyntheticEnd(s, a).track = a[2]
        /\ SyntheticEnd(s, b).realm = b[1] /\ SyntheticEnd(s, b).track = b[2]
    BY <1>1, <2>2, SyntheticEndIs
  <2>4. a[1] = b[1] /\ a[2] = b[2]
    BY <1>6, <2>2, <2>3
  <2>5. a[3] < b[3]
    BY <1>2, <2>1, <2>4 DEF Closes, ListsOpen
  <2>6. a[3] <= b[3]
    <3>1. a[3] \in Nat /\ b[3] \in Nat
      BY <1>1, <2>2, OpenIs
    <3>2. QED
      BY <2>5, <3>1
  <2> HIDE DEF a, b
  <2>7. QED
    BY <1>1, <2>2, <2>4, <2>6, SyntheticEndIs
<1>7. QED
  BY <1>4, <1>5, <1>6

-----------------------------------------------------------------------------
LEMMA SyntheticLast ==
    ASSUME NEW S, Fitting(S), NEW gs \in Seq(S), \A g \in S : g.name # None,
           NEW i \in DOMAIN Events(gs), NEW j \in DOMAIN Events(gs),
           Events(gs)[i].realm = Events(gs)[j].realm,
           Events(gs)[i].name = None, Events(gs)[j].name # None
    PROVE  j < i /\ Events(gs)[j].time <= Events(gs)[i].time
<1> DEFINE s == Sorted(gs)
           rep == Repair(s)
           m == Len(Retained(s))
           Y == Emitted(S, s)
<1>1. s \in Seq(S) /\ Fitting(Y) /\ rep \in Seq(Y)
  BY TraceIs
<1>2. PICK p, e, w, q : Traced(gs, p, e, w, q)
  BY TraceIs
<1>3. \A x, y \in 1..Len(rep) :
        x < y /\ rep[x].realm = rep[y].realm /\ (x <= m \/ rep[x].track = rep[y].track)
          => rep[x].time <= rep[y].time
  BY <1>2, RepairInTime
<1>4. /\ Len(gs) \in Nat /\ Len(s) = Len(gs) /\ m \in Nat /\ Len(w) \in Nat
      /\ Len(rep) = m + Len(w) /\ DOMAIN Events(gs) = 1..Len(rep)
      /\ \A k \in 1..m : e[k] \in 1..Len(gs) /\ rep[k] = s[e[k]]
      /\ \A k \in 1..Len(w) : w[k] \in Open(s) /\ rep[m + k] = SyntheticEnd(s, w[k])
      /\ Sorts(q, rep)
      /\ \A k \in 1..Len(rep) : q[k] \in 1..Len(rep) /\ Events(gs)[k] = rep[q[k]]
  BY <1>2 DEF Traced
<1>5. i \in 1..Len(rep) /\ j \in 1..Len(rep) /\ q[i] \in 1..Len(rep) /\ q[j] \in 1..Len(rep)
      /\ Events(gs)[i] = rep[q[i]] /\ Events(gs)[j] = rep[q[j]]
  BY <1>4
<1> HIDE DEF s, rep, m, Y
<1>6. \A k \in 1..Len(rep) : k <= m => rep[k].name # None
  <2>1. ASSUME NEW k \in 1..Len(rep), k <= m PROVE rep[k].name # None
    <3>1. k \in 1..m
      BY <1>4, <2>1
    <3>2. rep[k] = s[e[k]] /\ s[e[k]] \in S
      BY <1>1, <1>4, <3>1, ElementOfSeq
    <3>3. QED
      BY <3>2
  <2>2. QED
    BY <2>1
<1>7. \A k \in 1..Len(rep) : ~(k <= m) => rep[k].name = None
  <2>1. ASSUME NEW k \in 1..Len(rep), ~(k <= m) PROVE rep[k].name = None
    <3>1. k - m \in 1..Len(w) /\ m + (k - m) = k
      BY <1>4, <2>1
    <3>2. w[k - m] \in Open(s) /\ rep[k] = SyntheticEnd(s, w[k - m])
      BY <1>4, <3>1
    <3>3. QED
      BY <1>1, <3>2, SyntheticEndIs
  <2>2. QED
    BY <2>1
<1>8. q[j] <= m /\ ~(q[i] <= m)
  BY <1>5, <1>6, <1>7
<1>9. q[j] < q[i]
  BY <1>4, <1>5, <1>8
<1>10. rep[q[j]].realm = rep[q[i]].realm /\ rep[q[j]].time <= rep[q[i]].time
  BY <1>3, <1>5, <1>8, <1>9
<1>11. j < i
  BY <1>1, <1>4, <1>5, <1>9, <1>10, SortKeeps
<1>12. QED
  BY <1>5, <1>10, <1>11

LEMMA CollectedEndsLast == Collected => SyntheticEndsLast
<1> SUFFICES ASSUME Collected, Finished, NEW i \in DOMAIN events, NEW j \in DOMAIN events,
                    events[i].realm = events[j].realm, events[i].name = None, events[j].name # None
             PROVE  j < i /\ events[j].time <= events[i].time
  BY DEF SyntheticEndsLast
<1>1. groups \in Seq(Ingested) /\ events = Events(groups)
  BY DEF Collected, Left
<1>2. QED
  BY <1>1, IngestedFits, SyntheticLast

(***************************************************************************)
(* The synthetic ends of a realm come after everything it recorded, where  *)
(* the timestamps stop at u64::MAX as well (SyntheticEndsLast).            *)
(***************************************************************************)
THEOREM RepairsAreLast == Spec => []SyntheticEndsLast
  BY CollectedEndsLast, AlwaysCollected, PTL
-----------------------------------------------------------------------------
(***************************************************************************)
(* Number: counting the groups of a track.                                 *)
(***************************************************************************)
Counts(gs, r, t, kind, I) == {i \in I : On(gs[i], r, t) /\ gs[i].kind = kind}

LEMMA Greatest ==
    ASSUME NEW N \in Nat, NEW T \in SUBSET (0..N), T # {}
    PROVE  \E x \in T : \A y \in T : y <= x
<1> DEFINE M == {N - x : x \in T}
<1>1. M \in SUBSET Nat /\ M # {}
  <2>1. \A x \in T : x \in 0..N
    OBVIOUS
  <2>2. \A x \in T : N - x \in Nat
    BY <2>1
  <2>3. QED
    BY <2>2
<1>2. PICK z \in M : \A y \in M : z <= y
  BY <1>1, Least
<1>3. PICK x \in T : z = N - x
  BY <1>2
<1>4. ASSUME NEW y \in T PROVE y <= x
  <2>1. N - x <= N - y /\ x \in 0..N /\ y \in 0..N
    BY <1>2, <1>3
  <2>2. QED
    BY <2>1
<1>5. QED
  BY <1>4

LEMMA NumberNat ==
    ASSUME NEW gs, NEW r, NEW t, NEW kind, NEW I, IsFiniteSet(I)
    PROVE  /\ IsFiniteSet(Counts(gs, r, t, kind, I)) /\ Number(gs, r, t, kind, I) \in Nat
           /\ Number(gs, r, t, kind, I) = Cardinality(Counts(gs, r, t, kind, I))
<1>1. Counts(gs, r, t, kind, I) \in SUBSET I
  BY DEF Counts
<1>2. Number(gs, r, t, kind, I) = Cardinality(Counts(gs, r, t, kind, I))
  BY DEF Number, Counts
<1>3. IsFiniteSet(Counts(gs, r, t, kind, I))
  BY <1>1, FS_Subset
<1>4. QED
  BY <1>2, <1>3, FS_CardinalityType

LEMMA NumberAdd ==
    ASSUME NEW gs, NEW r, NEW t, NEW kind, NEW I, IsFiniteSet(I), NEW x, x \notin I
    PROVE  /\ On(gs[x], r, t) /\ gs[x].kind = kind
                => Number(gs, r, t, kind, I \union {x}) = Number(gs, r, t, kind, I) + 1
           /\ ~(On(gs[x], r, t) /\ gs[x].kind = kind)
                => Number(gs, r, t, kind, I \union {x}) = Number(gs, r, t, kind, I)
<1> DEFINE C == Counts(gs, r, t, kind, I)
           D == Counts(gs, r, t, kind, I \union {x})
<1>1. IsFiniteSet(I \union {x})
  BY FS_AddElement
<1>2. IsFiniteSet(C) /\ Number(gs, r, t, kind, I) = Cardinality(C)
      /\ Number(gs, r, t, kind, I \union {x}) = Cardinality(D)
  BY <1>1, NumberNat
<1>3. x \notin C
  BY DEF Counts
<1>4. On(gs[x], r, t) /\ gs[x].kind = kind => D = C \union {x}
  BY DEF Counts
<1>5. ~(On(gs[x], r, t) /\ gs[x].kind = kind) => D = C
  BY DEF Counts
<1>6. Cardinality(C \union {x}) = Cardinality(C) + 1
  BY <1>2, <1>3, FS_AddElement
<1>7. QED
  BY <1>2, <1>4, <1>5, <1>6

\* Where the groups of the track are the same, their number is.
LEMMA NumberSame ==
    ASSUME NEW gs, NEW r, NEW t, NEW I, NEW J,
           \A x \in I \union J : On(gs[x], r, t) => (x \in I <=> x \in J)
    PROVE  \A kind : Number(gs, r, t, kind, I) = Number(gs, r, t, kind, J)
<1>1. ASSUME NEW kind PROVE Number(gs, r, t, kind, I) = Number(gs, r, t, kind, J)
  <2>1. Counts(gs, r, t, kind, I) = Counts(gs, r, t, kind, J)
    BY DEF Counts
  <2>2. QED
    BY <2>1 DEF Number, Counts
<1>2. QED
  BY <1>1

Image(f, I) == {f[i] : i \in I}

\* Where f takes the places of hs to those of the same groups in gs.
LEMMA NumberAlong ==
    ASSUME NEW gs, NEW hs, NEW r, NEW t, NEW kind, NEW I, IsFiniteSet(I), NEW f,
           \A i \in I : hs[i] = gs[f[i]],
           \A i, j \in I : f[i] = f[j] => i = j
    PROVE  Number(hs, r, t, kind, I) = Number(gs, r, t, kind, Image(f, I))
<1> DEFINE C == Counts(hs, r, t, kind, I)
           D == Counts(gs, r, t, kind, Image(f, I))
           g == [i \in C |-> f[i]]
<1>1. IsFiniteSet(C) /\ Number(hs, r, t, kind, I) = Cardinality(C)
  BY NumberNat
<1>2. Number(gs, r, t, kind, Image(f, I)) = Cardinality(D)
  BY DEF Number, Counts
<1>3. C \subseteq I
  BY DEF Counts
<1>4. \A i \in C : f[i] \in D
  BY DEF Counts, Image
<1>5. \A x \in D : \E i \in C : f[i] = x
  BY DEF Counts, Image
<1> HIDE DEF C, D
<1>6. g \in Bijection(C, D)
  BY <1>3, <1>4, <1>5 DEF Bijection, Injection, IsInjective, Surjection
<1>7. Cardinality(D) = Cardinality(C)
  BY <1>1, <1>6, FS_Bijection DEF ExistsBijection
<1>8. QED
  BY <1>1, <1>2, <1>7

-----------------------------------------------------------------------------
\* Of what is retained, as many spans are open as the depth says.
LEMMA RetainedDepth ==
    ASSUME NEW gs, Len(gs) \in Nat, DOMAIN gs = 1..Len(gs), NEW r, NEW t
    PROVE  LET K(i) == ((1..Len(gs)) \ Unmatched(gs)) \cap (1..i)
           IN \A i \in 0..Len(gs) :
                Number(gs, r, t, "begin", K(i))
                  = Number(gs, r, t, "end", K(i)) + Depth(gs, r, t)[i]
<1> DEFINE n == Len(gs)
           I == (1..n) \ Unmatched(gs)
           K(i) == I \cap (1..i)
           d == Depth(gs, r, t)
           B(i) == Number(gs, r, t, "begin", K(i))
           E(i) == Number(gs, r, t, "end", K(i))
           T == {i \in 0..n : B(i) = E(i) + d[i]}
<1>1. d \in [0..n -> Nat] /\ d[0] = 0 /\ \A i \in 1..n : d[i] = After(gs[i], r, t, d[i - 1])
  BY DepthIs DEF Deepens
<1>2. \A i \in 1..n : i \in Unmatched(gs) <=>
        gs[i].kind = "end" /\ Depth(gs, gs[i].realm, gs[i].track)[i - 1] = 0
  BY DEF Unmatched
<1> HIDE DEF d
<1>3. \A i \in 1..n : On(gs[i], r, t) =>
        (i \in I <=> ~(gs[i].kind = "end" /\ d[i - 1] = 0))
  BY <1>2 DEF On, d
<1> HIDE DEF I
<1>4. \A i \in 0..n : IsFiniteSet(K(i)) /\ B(i) \in Nat /\ E(i) \in Nat
  <2>1. ASSUME NEW i \in 0..n PROVE IsFiniteSet(K(i)) /\ B(i) \in Nat /\ E(i) \in Nat
    <3>1. i \in Nat /\ K(i) \in SUBSET (1..i)
      OBVIOUS
    <3> HIDE DEF K
    <3>2. IsFiniteSet(K(i))
      BY <3>1, UpToFinite
    <3>3. QED
      BY <3>2, NumberNat
  <2>2. QED
    BY <2>1
<1>5. 0 \in T
  <2>1. K(0) = {}
    OBVIOUS
  <2>2. B(0) = 0 /\ E(0) = 0
    BY <2>1, FS_EmptySet DEF Number
  <2>3. QED
    BY <1>1, <2>2
<1>6. ASSUME NEW i \in T, i < n PROVE i + 1 \in T
  <2> DEFINE x == i + 1
  <2>1. i \in 0..n /\ x \in 1..n /\ x - 1 = i /\ x \in 0..n /\ d[i] \in Nat /\ B(i) = E(i) + d[i]
    BY <1>1, <1>6
  <2>2. d[x] = After(gs[x], r, t, d[i])
    BY <1>1, <2>1
  <2>3. x \notin K(i) /\ K(x) = IF x \in I THEN K(i) \union {x} ELSE K(i)
    <3>1. \A y : y \in 1..x <=> y \in 1..i \/ y = x
      BY <2>1
    <3>2. x \notin 1..i
      BY <2>1
    <3>3. QED
      BY <3>1, <3>2
  <2> HIDE DEF K, x
  <2>4. /\ IsFiniteSet(K(i)) /\ B(i) \in Nat /\ E(i) \in Nat
    BY <1>4, <2>1
  <2>5. x \notin I => B(x) = B(i) /\ E(x) = E(i)
    BY <2>3
  <2>6. x \in I =>
          /\ B(x) = B(i) + IF On(gs[x], r, t) /\ gs[x].kind = "begin" THEN 1 ELSE 0
          /\ E(x) = E(i) + IF On(gs[x], r, t) /\ gs[x].kind = "end" THEN 1 ELSE 0
    <3> SUFFICES ASSUME x \in I
                 PROVE  /\ B(x) = B(i) + IF On(gs[x], r, t) /\ gs[x].kind = "begin" THEN 1 ELSE 0
                        /\ E(x) = E(i) + IF On(gs[x], r, t) /\ gs[x].kind = "end" THEN 1 ELSE 0
      OBVIOUS
    <3>1. K(x) = K(i) \union {x}
      BY <2>3
    <3>2. B(x) = B(i) + IF On(gs[x], r, t) /\ gs[x].kind = "begin" THEN 1 ELSE 0
      <4>1. On(gs[x], r, t) /\ gs[x].kind = "begin" => B(x) = B(i) + 1
        BY <2>3, <2>4, <3>1, NumberAdd
      <4>2. ~(On(gs[x], r, t) /\ gs[x].kind = "begin") => B(x) = B(i)
        BY <2>3, <2>4, <3>1, NumberAdd
      <4> HIDE DEF B
      <4>3. QED
        BY <2>4, <4>1, <4>2
    <3>3. E(x) = E(i) + IF On(gs[x], r, t) /\ gs[x].kind = "end" THEN 1 ELSE 0
      <4>1. On(gs[x], r, t) /\ gs[x].kind = "end" => E(x) = E(i) + 1
        BY <2>3, <2>4, <3>1, NumberAdd
      <4>2. ~(On(gs[x], r, t) /\ gs[x].kind = "end") => E(x) = E(i)
        BY <2>3, <2>4, <3>1, NumberAdd
      <4> HIDE DEF E
      <4>3. QED
        BY <2>4, <4>1, <4>2
    <3>4. QED
      BY <3>2, <3>3
  <2> HIDE DEF B, E
  <2>7. CASE On(gs[x], r, t) /\ gs[x].kind = "begin"
    <3>1. x \in I /\ d[x] = d[i] + 1
      BY <1>3, <2>1, <2>2, <2>7, AfterIs
    <3>2. B(x) = B(i) + 1 /\ E(x) = E(i)
      BY <2>4, <2>6, <2>7, <3>1
    <3>3. B(x) = E(x) + d[x]
      BY <2>1, <2>4, <3>1, <3>2
    <3>4. QED
      BY <2>1, <3>3 DEF x
  <2>8. CASE On(gs[x], r, t) /\ gs[x].kind = "end" /\ d[i] = 0
    <3>1. x \notin I /\ d[x] = 0
      BY <1>3, <2>1, <2>2, <2>8, AfterIs
    <3>2. QED
      BY <2>1, <2>5, <2>8, <3>1 DEF x
  <2>9. CASE On(gs[x], r, t) /\ gs[x].kind = "end" /\ d[i] # 0
    <3>1. x \in I /\ d[x] = d[i] - 1
      BY <1>3, <2>1, <2>2, <2>9, AfterIs
    <3>2. B(x) = B(i) /\ E(x) = E(i) + 1
      BY <2>4, <2>6, <2>9, <3>1
    <3>3. QED
      BY <2>1, <2>4, <3>1, <3>2 DEF x
  <2>10. CASE ~(On(gs[x], r, t) /\ gs[x].kind \in {"begin", "end"})
    <3>1. d[x] = d[i]
      BY <2>1, <2>2, <2>10, AfterIs
    <3>2. B(x) = B(i) /\ E(x) = E(i)
      BY <2>4, <2>5, <2>6, <2>10
    <3>3. QED
      BY <2>1, <3>1, <3>2 DEF x
  <2>11. QED
    BY <2>7, <2>8, <2>9, <2>10
<1>7. T \in SUBSET Nat /\ n \in Nat
  OBVIOUS
<1> HIDE DEF T
<1>8. 0..n \subseteq T
  BY <1>5, <1>6, <1>7, UpTo
<1>9. QED
  BY <1>8 DEF T, d, I
-----------------------------------------------------------------------------
LEMMA ListedTracks ==
    ASSUME NEW gs, NEW q \in Open(gs)
    PROVE  Among(q, Len(TracksInOrder))
<1>1. <<q[1], q[2]>> \in Realms \X Tracks
  BY DEF Open
<1>2. QED
  BY <1>1, TracksListed DEF Among

\* The places behind the first m, up to y, where w closes a span of the track.
Closed(w, m, y, r, t) == {x \in m + 1..y : w[x - m][1] = r /\ w[x - m][2] = t}

\* As many ends are added to a track as it has open spans.
LEMMA ClosingsNumber ==
    ASSUME NEW gs, Len(gs) \in Nat, NEW w, Closes(w, gs), NEW m \in Nat,
           NEW r \in Realms, NEW t \in Tracks
    PROVE  /\ IsFiniteSet(Closed(w, m, m + Len(w), r, t))
           /\ Cardinality(Closed(w, m, m + Len(w), r, t)) = OpenAtEnd(gs, r, t)
<1> DEFINE l == Len(w)
           n == OpenAtEnd(gs, r, t)
           Q == Closed(w, m, m + l, r, t)
           f == [x \in Q |-> w[x - m][3]]
<1>1. /\ w \in Seq(Open(gs)) /\ l \in Nat /\ \A k \in 1..l : w[k] \in Open(gs)
      /\ \A q \in Open(gs) : Among(q, Len(TracksInOrder)) <=> \E k \in 1..l : w[k] = q
      /\ \A i, j \in 1..l : i < j /\ w[i][1] = w[j][1] /\ w[i][2] = w[j][2] => w[i][3] < w[j][3]
  BY LenProperties, ElementOfSeq DEF Closes, ListsOpen
<1>2. n \in Nat /\ n \in 0..Len(gs) /\ \A k \in 1..n : <<r, t, k>> \in Open(gs)
  BY ClosingIs
<1> HIDE DEF l, n
<1>3. /\ \A x \in m + 1..m + l : x - m \in 1..l /\ x \in Nat
      /\ Q = {x \in m + 1..m + l : w[x - m][1] = r /\ w[x - m][2] = t}
  BY <1>1 DEF Closed
<1> HIDE DEF Q
<1>4. IsFiniteSet(Q)
  <2>1. Q \in SUBSET (1..m + l) /\ m + l \in Nat
    BY <1>1, <1>3
  <2>2. QED
    BY <2>1, UpToFinite
<1>5. ASSUME NEW x \in Q PROVE w[x - m][3] \in 1..n
  <2>1. w[x - m] \in Open(gs) /\ w[x - m][1] = r /\ w[x - m][2] = t
    BY <1>1, <1>3
  <2>2. w[x - m][3] \in 1..Len(gs) /\ w[x - m][3] <= n
    BY <2>1 DEF Open, n
  <2>3. QED
    BY <1>2, <2>2
<1>6. ASSUME NEW x \in Q, NEW y \in Q, w[x - m][3] = w[y - m][3] PROVE x = y
  <2>1. x - m \in 1..l /\ y - m \in 1..l /\ x \in Nat /\ y \in Nat
    BY <1>3
  <2>2. w[x - m][1] = w[y - m][1] /\ w[x - m][2] = w[y - m][2]
    BY <1>3
  <2>3. w[x - m][3] \in Nat /\ w[y - m][3] \in Nat
    BY <1>2, <1>5
  <2>4. ~(x - m < y - m) /\ ~(y - m < x - m)
    BY <1>1, <1>6, <2>1, <2>2, <2>3
  <2>5. QED
    BY <2>1, <2>4
<1>7. ASSUME NEW k \in 1..n PROVE \E x \in Q : w[x - m][3] = k
  <2>1. <<r, t, k>> \in Open(gs)
    BY <1>2
  <2>2. PICK i \in 1..l : w[i] = <<r, t, k>>
    BY <1>1, <2>1, ListedTracks
  <2>3. m + i \in m + 1..m + l /\ (m + i) - m = i
    BY <1>1
  <2>4. m + i \in Q
    BY <1>3, <2>2, <2>3
  <2>5. QED
    BY <2>2, <2>3, <2>4
<1>8. f \in Bijection(Q, 1..n)
  BY <1>5, <1>6, <1>7 DEF Bijection, Injection, IsInjective, Surjection
<1>9. Cardinality(1..n) = n /\ Cardinality(1..n) = Cardinality(Q)
  <2>1. Cardinality(1..n) = n
    BY <1>2, FS_Interval
  <2>2. QED
    BY <1>4, <1>8, <2>1, FS_Bijection DEF ExistsBijection
<1>10. QED
  BY <1>4, <1>9 DEF Q, l, n

\* The repair leaves nothing to close that is not open, and nothing open.
LEMMA RepairBalanced ==
    ASSUME NEW S, Fitting(S), NEW gs \in Seq(S), NEW p, NEW e, NEW w, NEW q,
           Traced(gs, p, e, w, q), NEW r \in Realms, NEW t \in Tracks
    PROVE  LET rep == Repair(Sorted(gs))
               ends(y) == Number(rep, r, t, "end", 1..y)
               begins(y) == Number(rep, r, t, "begin", 1..y)
           IN /\ \A y \in 0..Len(rep) : ends(y) <= begins(y)
              /\ ends(Len(rep)) = begins(Len(rep))
<1> DEFINE s == Sorted(gs)
           n == Len(gs)
           rep == Repair(s)
           m == Len(Retained(s))
           I == (1..n) \ Unmatched(s)
           K(i) == I \cap (1..i)
           d == Depth(s, r, t)
           ends(y) == Number(rep, r, t, "end", 1..y)
           begins(y) == Number(rep, r, t, "begin", 1..y)
<1>1. s \in Seq(S)
  BY TraceIs
<1>2. /\ n \in Nat /\ Len(s) = n /\ m \in Nat /\ Len(w) \in Nat
      /\ Len(rep) = m + Len(w)
      /\ Climbs(e, m, I)
      /\ \A k \in 1..m : e[k] \in 1..n /\ rep[k] = s[e[k]]
      /\ Closes(w, s)
      /\ \A k \in 1..Len(w) : w[k] \in Open(s) /\ rep[m + k] = SyntheticEnd(s, w[k])
  BY DEF Traced
<1> HIDE DEF s, rep
<1>3. /\ d \in [0..n -> Nat] /\ d[n] = OpenAtEnd(s, r, t)
      /\ \A i \in 0..n : Number(s, r, t, "begin", K(i)) = Number(s, r, t, "end", K(i)) + d[i]
  <2>1. DOMAIN s = 1..n
    BY <1>1, <1>2, LenProperties
  <2>2. d \in [0..n -> Nat]
    BY <1>2, DepthIs DEF Deepens
  <2>3. QED
    BY <1>2, <2>1, <2>2, RetainedDepth DEF OpenAtEnd
<1>4. I \subseteq 1..n
  OBVIOUS
<1> HIDE DEF I, d, m, n
<1>5. /\ \A k \in 1..m : e[k] \in I /\ e[k] \in Nat
      /\ \A x \in I : \E k \in 1..m : e[k] = x
      /\ \A i, j \in 1..m : i < j => e[i] < e[j]
  BY <1>2 DEF Climbs
<1>6. \A y \in Nat : IsFiniteSet(1..y) /\ ends(y) \in Nat /\ begins(y) \in Nat
  <2>1. ASSUME NEW y \in Nat PROVE IsFiniteSet(1..y)
    BY FS_Interval
  <2>2. QED
    BY <2>1, NumberNat
<1>7. ASSUME NEW y \in 0..m, NEW i \in 0..n, Image(e, 1..y) = K(i)
      PROVE  begins(y) = ends(y) + d[i]
  <2>1. IsFiniteSet(1..y)
    <3>1. y \in Nat
      BY <1>2
    <3>2. QED
      BY <1>6, <3>1
  <2>2. \A k \in 1..y : k \in 1..m
    BY <1>2
  <2>3. /\ \A k \in 1..y : rep[k] = s[e[k]]
        /\ \A j, k \in 1..y : e[j] = e[k] => j = k
    <3>1. ASSUME NEW j \in 1..y, NEW k \in 1..y, e[j] = e[k] PROVE j = k
      <4>1. ~(e[j] < e[k]) /\ ~(e[k] < e[j])
        BY <1>5, <2>2, <3>1
      <4>2. ~(j < k) /\ ~(k < j)
        BY <1>5, <2>2, <4>1
      <4>3. QED
        BY <4>2
    <3>2. QED
      BY <1>2, <2>2, <3>1
  <2>4. \A kind : Number(rep, r, t, kind, 1..y) = Number(s, r, t, kind, Image(e, 1..y))
    <3> DEFINE J == 1..y
    <3>1. /\ IsFiniteSet(J) /\ \A k \in J : rep[k] = s[e[k]]
          /\ \A j, k \in J : e[j] = e[k] => j = k
      BY <2>1, <2>3
    <3> HIDE DEF J
    <3>2. ASSUME NEW kind PROVE Number(rep, r, t, kind, J) = Number(s, r, t, kind, Image(e, J))
      BY <3>1, NumberAlong
    <3>3. QED
      BY <3>2 DEF J
  <2>5. QED
    BY <1>3, <1>7, <2>4
<1>8. ASSUME NEW y \in 0..m PROVE \E i \in 0..n : Image(e, 1..y) = K(i)
  <2>1. CASE y = 0
    <3>1. Image(e, 1..y) = {} /\ K(0) = {} /\ 0 \in 0..n
      BY <1>2, <2>1 DEF Image
    <3>2. QED
      BY <3>1
  <2>2. CASE y # 0
    <3>1. y \in 1..m /\ e[y] \in 0..n /\ \A k \in 1..y : k \in 1..m
      BY <1>2, <2>2
    <3>2. ASSUME NEW x PROVE x \in Image(e, 1..y) <=> x \in K(e[y])
      <4>1. ASSUME NEW k \in 1..y, x = e[k] PROVE x \in I /\ x \in 1..e[y]
        <5>1. k = y \/ k < y
          BY <1>2
        <5>2. e[k] \in 1..n /\ e[k] \in I /\ e[y] \in Nat /\ e[k] <= e[y]
          BY <1>2, <1>5, <3>1, <5>1
        <5>3. QED
          BY <1>2, <4>1, <5>2
      <4>2. ASSUME x \in I, x \in 1..e[y] PROVE x \in Image(e, 1..y)
        <5>1. PICK k \in 1..m : e[k] = x
          BY <1>5, <4>2
        <5>2. ~(e[y] < e[k])
          BY <1>5, <3>1, <4>2, <5>1
        <5>3. ~(y < k)
          BY <1>5, <3>1, <5>2
        <5>4. k \in 1..y
          BY <1>2, <5>3
        <5>5. QED
          BY <5>1, <5>4 DEF Image
      <4>3. QED
        BY <4>1, <4>2 DEF Image
    <3>3. Image(e, 1..y) = K(e[y])
      BY <3>2
    <3>4. QED
      BY <3>1, <3>3
  <2>3. QED
    BY <2>1, <2>2
<1>9. \A y \in 0..m : ends(y) <= begins(y)
  <2>1. ASSUME NEW y \in 0..m PROVE ends(y) <= begins(y)
    <3>1. PICK i \in 0..n : Image(e, 1..y) = K(i)
      BY <1>8
    <3>2. begins(y) = ends(y) + d[i] /\ d[i] \in Nat /\ y \in Nat
      BY <1>2, <1>3, <1>7, <3>1
    <3>3. ends(y) \in Nat
      BY <1>6, <3>2
    <3> HIDE DEF begins, ends
    <3>4. QED
      BY <3>2, <3>3
  <2>2. QED
    BY <2>1
<1>10. begins(m) = ends(m) + d[n]
  <2>1. Image(e, 1..m) = K(n)
    BY <1>4, <1>5 DEF Image
  <2>2. m \in 0..m /\ n \in 0..n
    BY <1>2
  <2>3. QED
    BY <1>7, <2>1, <2>2
<1> DEFINE Q(y) == Closed(w, m, y, r, t)
<1>11. \A x \in m + 1..Len(rep) :
         /\ x \in Nat /\ rep[x].kind = "end"
         /\ On(rep[x], r, t) <=> w[x - m][1] = r /\ w[x - m][2] = t
  <2>1. ASSUME NEW x \in m + 1..Len(rep)
        PROVE  /\ x \in Nat /\ rep[x].kind = "end"
               /\ On(rep[x], r, t) <=> w[x - m][1] = r /\ w[x - m][2] = t
    <3>1. x \in Nat /\ x - m \in 1..Len(w) /\ m + (x - m) = x
      BY <1>2
    <3>2. w[x - m] \in Open(s) /\ rep[x] = SyntheticEnd(s, w[x - m])
      BY <1>2, <3>1
    <3>3. rep[x].kind = "end" /\ rep[x].realm = w[x - m][1] /\ rep[x].track = w[x - m][2]
      BY <1>1, <3>2, SyntheticEndIs
    <3>4. QED
      BY <3>1, <3>3 DEF On
  <2>2. QED
    BY <2>1
<1>12. IsFiniteSet(Q(Len(rep))) /\ Cardinality(Q(Len(rep))) = d[n]
  <2>1. m + Len(w) = Len(rep) /\ Len(s) \in Nat
    BY <1>2
  <2>2. /\ IsFiniteSet(Closed(w, m, m + Len(w), r, t))
        /\ Cardinality(Closed(w, m, m + Len(w), r, t)) = OpenAtEnd(s, r, t)
    BY <1>2, <2>1, ClosingsNumber
  <2>3. QED
    BY <1>3, <2>1, <2>2
<1>13. ASSUME NEW y \in m..Len(rep)
       PROVE  begins(y) = begins(m) /\ ends(y) = ends(m) + Cardinality(Q(y)) /\ IsFiniteSet(Q(y))
  <2>1. \A x : x \in 1..y <=> x \in 1..m \/ x \in m + 1..y
    BY <1>2
  <2>2. m \in Nat /\ y \in Nat /\ \A x \in m + 1..y : x \in m + 1..Len(rep) /\ x \notin 1..m
    BY <1>2
  <2>3. Counts(rep, r, t, "begin", 1..y) = Counts(rep, r, t, "begin", 1..m)
    BY <1>11, <2>1, <2>2 DEF Counts
  <2>4. Counts(rep, r, t, "end", 1..y) = Counts(rep, r, t, "end", 1..m) \union Q(y)
    BY <1>11, <2>1, <2>2 DEF Counts, Closed
  <2>5. Counts(rep, r, t, "end", 1..m) \cap Q(y) = {}
    BY <2>2 DEF Counts, Closed
  <2>6. IsFiniteSet(Q(y))
    <3>1. Q(y) \in SUBSET Q(Len(rep))
      BY <2>2 DEF Closed
    <3> HIDE DEF Q
    <3>2. QED
      BY <1>12, <3>1, FS_Subset
  <2> HIDE DEF Q
  <2>7. begins(y) = begins(m)
    BY <1>6, <2>2, <2>3, NumberNat
  <2>8. /\ IsFiniteSet(Counts(rep, r, t, "end", 1..m))
        /\ ends(m) = Cardinality(Counts(rep, r, t, "end", 1..m))
        /\ ends(y) = Cardinality(Counts(rep, r, t, "end", 1..y))
    BY <1>6, <2>2, NumberNat
  <2> DEFINE A == Counts(rep, r, t, "end", 1..m)
             Z == Q(y)
  <2>9. Cardinality(A \union Z) = Cardinality(A) + Cardinality(Z) - Cardinality(A \cap Z)
    <3>1. IsFiniteSet(A) /\ IsFiniteSet(Z)
      BY <2>6, <2>8
    <3> HIDE DEF A, Z
    <3>2. QED
      BY <3>1, FS_Union
  <2>10. Cardinality(A \cap Z) = 0 /\ Cardinality(A) \in Nat /\ Cardinality(Z) \in Nat
    BY <2>5, <2>6, <2>8, FS_EmptySet, FS_CardinalityType
  <2>11. ends(y) = Cardinality(A) + Cardinality(Z)
    <3>1. ends(y) = Cardinality(A \union Z)
      BY <2>4, <2>8
    <3> HIDE DEF A, Z, ends
    <3>2. QED
      BY <2>9, <2>10, <3>1
  <2>12. QED
    BY <2>6, <2>7, <2>8, <2>11
<1>14. \A y \in m..Len(rep) : ends(y) <= begins(y)
  <2>1. ASSUME NEW y \in m..Len(rep) PROVE ends(y) <= begins(y)
    <3>1. Q(y) \in SUBSET Q(Len(rep))
      BY <1>2 DEF Closed
    <3>2. Cardinality(Q(y)) <= d[n] /\ Cardinality(Q(y)) \in Nat /\ d[n] \in Nat
      <4>1. n \in 0..n
        BY <1>2
      <4> HIDE DEF Q
      <4>2. QED
        BY <1>3, <1>12, <1>13, <3>1, <4>1, FS_Subset, FS_CardinalityType
    <3>3. ends(m) \in Nat
      BY <1>2, <1>6
    <3> HIDE DEF ends, begins, Q
    <3>4. QED
      BY <1>10, <1>13, <3>2, <3>3
  <2>2. QED
    BY <2>1
<1>15. ends(Len(rep)) = begins(Len(rep))
  <2>1. Len(rep) \in m..Len(rep)
    BY <1>2
  <2> HIDE DEF ends, begins, Q
  <2>2. QED
    BY <1>10, <1>12, <1>13, <2>1
<1>16. ASSUME NEW y \in 0..Len(rep) PROVE ends(y) <= begins(y)
  <2>1. y \in 0..m \/ y \in m..Len(rep)
    BY <1>2
  <2>2. QED
    BY <1>9, <1>14, <2>1
<1>17. QED
  BY <1>15, <1>16 DEF s, rep
-----------------------------------------------------------------------------
\* The second sort keeps the order of a track: what it puts first of a track is
\* what came first.
LEMMA FirstOfTrack ==
    ASSUME NEW S, Fitting(S), NEW gs \in Seq(S), NEW p, NEW e, NEW w, NEW q,
           Traced(gs, p, e, w, q), NEW r \in Realms, NEW t \in Tracks,
           NEW k \in 0..Len(Repair(Sorted(gs)))
    PROVE  LET rep == Repair(Sorted(gs))
           IN \E y \in 0..Len(rep) : \A x \in Image(q, 1..k) \union 1..y :
                On(rep[x], r, t) => (x \in Image(q, 1..k) <=> x \in 1..y)
<1> DEFINE s == Sorted(gs)
           rep == Repair(s)
           m == Len(Retained(s))
           Y == Emitted(S, s)
           J == Image(q, 1..k)
           T == {0} \union {x \in J : On(rep[x], r, t)}
<1>1. rep \in Seq(Y) /\ Fitting(Y)
  BY TraceIs
<1>2. \A x, y \in 1..Len(rep) :
        x < y /\ rep[x].realm = rep[y].realm /\ (x <= m \/ rep[x].track = rep[y].track)
          => rep[x].time <= rep[y].time
  BY RepairInTime
<1>3. /\ Sorts(q, rep)
      /\ \A a \in 1..Len(rep) : q[a] \in 1..Len(rep)
      /\ \A x \in 1..Len(rep) : \E a \in 1..Len(rep) : q[a] = x
  BY DEF Traced, Sorts, Permutes
<1> HIDE DEF s, rep, m, Y
<1>4. Len(rep) \in Nat /\ k \in 0..Len(rep)
  <2>1. k \in 0..Len(rep)
    BY DEF rep, s
  <2>2. QED
    BY <1>1, <2>1, LenProperties
<1>5. J \subseteq 1..Len(rep)
  <2>1. \A a \in 1..k : a \in 1..Len(rep)
    BY <1>4
  <2>2. QED
    BY <1>3, <2>1 DEF Image
<1>6. \E y \in T : \A x \in T : x <= y
  <2>1. T \in SUBSET (0..Len(rep)) /\ T # {}
    BY <1>4, <1>5
  <2> HIDE DEF T
  <2>2. QED
    BY <1>4, <2>1, Greatest
<1>7. PICK y \in T : \A x \in T : x <= y
  BY <1>6
<1>8. y \in 0..Len(rep)
  BY <1>4, <1>5
<1>9. ASSUME NEW x \in J, On(rep[x], r, t) PROVE x \in 1..y
  BY <1>4, <1>5, <1>7, <1>8, <1>9
<1>10. ASSUME NEW x \in 1..y, On(rep[x], r, t) PROVE x \in J
  <2>1. y # 0 /\ y \in J /\ On(rep[y], r, t) /\ x \in 1..Len(rep) /\ y \in 1..Len(rep)
    BY <1>4, <1>5, <1>8
  <2>2. PICK a \in 1..k : q[a] = y
    BY <2>1 DEF Image
  <2>3. PICK b \in 1..Len(rep) : q[b] = x
    BY <1>3, <2>1
  <2>4. a \in 1..Len(rep)
    BY <1>4
  <2>5. CASE x = y
    BY <2>1, <2>5
  <2>6. CASE x # y
    <3>1. x < y
      BY <1>8, <2>6
    <3>2. rep[x].realm = rep[y].realm /\ rep[x].track = rep[y].track
      BY <1>10, <2>1 DEF On
    <3>3. rep[x].time <= rep[y].time
      BY <1>2, <2>1, <3>1, <3>2
    <3>4. b < a
      BY <1>1, <1>3, <2>2, <2>3, <2>4, <3>1, <3>2, <3>3, SortKeeps
    <3>5. b \in 1..k
      BY <1>4, <3>4
    <3>6. QED
      BY <2>3, <3>5 DEF Image
  <2>7. QED
    BY <2>5, <2>6
<1>11. QED
  BY <1>8, <1>9, <1>10 DEF rep, s

LEMMA EventsBalanced ==
    ASSUME NEW S, Fitting(S), NEW gs \in Seq(S), NEW r \in Realms, NEW t \in Tracks
    PROVE  LET ends(n) == Number(Events(gs), r, t, "end", 1..n)
               begins(n) == Number(Events(gs), r, t, "begin", 1..n)
           IN /\ \A n \in 0..Len(Events(gs)) : ends(n) <= begins(n)
              /\ ends(Len(Events(gs))) = begins(Len(Events(gs)))
<1> DEFINE s == Sorted(gs)
           rep == Repair(s)
           ev == Events(gs)
<1>1. PICK p, e, w, q : Traced(gs, p, e, w, q)
  BY TraceIs
<1>2. /\ Len(rep) \in Nat /\ Len(ev) = Len(rep)
      /\ \A k \in 1..Len(rep) : q[k] \in 1..Len(rep) /\ ev[k] = rep[q[k]]
      /\ \A i, j \in 1..Len(rep) : q[i] = q[j] => i = j
      /\ \A x \in 1..Len(rep) : \E a \in 1..Len(rep) : q[a] = x
  <2>1. /\ Len(rep) = Len(Retained(s)) + Len(w) /\ Len(Retained(s)) \in Nat /\ Len(w) \in Nat
        /\ Len(ev) = Len(rep)
        /\ \A k \in 1..Len(rep) : q[k] \in 1..Len(rep) /\ ev[k] = rep[q[k]]
        /\ Sorts(q, rep)
    BY <1>1 DEF Traced
  <2> HIDE DEF rep, ev, s
  <2>2. /\ \A i, j \in 1..Len(rep) : q[i] = q[j] => i = j
        /\ \A x \in 1..Len(rep) : \E a \in 1..Len(rep) : q[a] = x
    BY <2>1 DEF Sorts, Permutes
  <2>3. Len(rep) \in Nat
    BY <2>1
  <2>4. QED
    BY <2>1, <2>2, <2>3
<1>3. /\ \A y \in 0..Len(rep) : Number(rep, r, t, "end", 1..y) <= Number(rep, r, t, "begin", 1..y)
      /\ Number(rep, r, t, "end", 1..Len(rep)) = Number(rep, r, t, "begin", 1..Len(rep))
  BY <1>1, RepairBalanced
<1>4. ASSUME NEW k \in 0..Len(rep), NEW kind
      PROVE  Number(ev, r, t, kind, 1..k) = Number(rep, r, t, kind, Image(q, 1..k))
  <2> DEFINE I == 1..k
  <2>1. IsFiniteSet(I) /\ \A i \in I : i \in 1..Len(rep)
    BY <1>2, FS_Interval
  <2> HIDE DEF I, ev, rep
  <2>2. (\A i \in I : ev[i] = rep[q[i]]) /\ (\A i, j \in I : q[i] = q[j] => i = j)
    BY <1>2, <2>1
  <2>3. Number(ev, r, t, kind, I) = Number(rep, r, t, kind, Image(q, I))
    BY <2>1, <2>2, NumberAlong
  <2>4. QED
    BY <2>3 DEF I
<1>5. ASSUME NEW k \in 0..Len(rep)
      PROVE  Number(ev, r, t, "end", 1..k) <= Number(ev, r, t, "begin", 1..k)
  <2>1. PICK y \in 0..Len(rep) : \A x \in Image(q, 1..k) \union 1..y :
                 On(rep[x], r, t) => (x \in Image(q, 1..k) <=> x \in 1..y)
    BY <1>1, FirstOfTrack
  <2> HIDE DEF ev, rep
  <2>2. \A kind : Number(rep, r, t, kind, Image(q, 1..k)) = Number(rep, r, t, kind, 1..y)
    BY <2>1, NumberSame
  <2>3. QED
    BY <1>3, <1>4, <2>2
<1>6. Number(ev, r, t, "end", 1..Len(rep)) = Number(ev, r, t, "begin", 1..Len(rep))
  <2> HIDE DEF ev, rep
  <2>1. Image(q, 1..Len(rep)) = 1..Len(rep)
    <3> DEFINE N == 1..Len(rep)
    <3>1. (\A k \in N : q[k] \in N) /\ (\A x \in N : \E a \in N : q[a] = x)
      BY <1>2
    <3> HIDE DEF N
    <3>2. {q[a] : a \in N} = N
      BY <3>1
    <3>3. QED
      BY <3>2 DEF Image, N
  <2>2. Len(rep) \in 0..Len(rep)
    BY <1>2
  <2>3. QED
    BY <1>3, <1>4, <2>1, <2>2
<1> HIDE DEF ev, rep
<1>7. QED
  BY <1>2, <1>5, <1>6 DEF ev

LEMMA CollectedBalanced == Collected => SlicesBalanced
<1> SUFFICES ASSUME Collected, Finished PROVE SlicesBalanced
  BY DEF SlicesBalanced
<1>1. groups \in Seq(Ingested) /\ events = Events(groups) /\ Fitting(Ingested)
  BY IngestedFits DEF Collected, Left
<1>2. ASSUME NEW r \in Realms, NEW t \in Tracks
      PROVE  LET ends(n) == Number(events, r, t, "end", 1..n)
                 begins(n) == Number(events, r, t, "begin", 1..n)
             IN /\ \A n \in 0..Len(events) : ends(n) <= begins(n)
                /\ ends(Len(events)) = begins(Len(events))
  BY <1>1, EventsBalanced
<1>3. QED
  BY <1>2 DEF SlicesBalanced

(***************************************************************************)
(* Every track of a finished trace is a sequence of nested slices, all of  *)
(* them closed (SlicesBalanced).                                           *)
(***************************************************************************)
THEOREM TracksAreBalanced == Spec => []SlicesBalanced
  BY CollectedBalanced, AlwaysCollected, PTL
-----------------------------------------------------------------------------
(***************************************************************************)
(* Of a realm: what is real, what is discarded, what is added.             *)
(***************************************************************************)
LEMMA SameSize ==
    ASSUME NEW A, IsFiniteSet(A), NEW B, NEW f,
           \A a \in A : f[a] \in B,
           \A a, b \in A : f[a] = f[b] => a = b,
           \A x \in B : \E a \in A : f[a] = x
    PROVE  IsFiniteSet(B) /\ Cardinality(A) = Cardinality(B)
<1> DEFINE g == [a \in A |-> f[a]]
<1>1. g \in Bijection(A, B)
  BY DEF Bijection, Injection, IsInjective, Surjection
<1>2. QED
  BY <1>1, FS_Bijection DEF ExistsBijection

LEMMA RealIs ==
    ASSUME NEW S, Fitting(S), \A g \in S : g.name # None, NEW gs \in Seq(S),
           NEW p, NEW e, NEW w, NEW q, Traced(gs, p, e, w, q)
    PROVE  LET rep == Repair(Sorted(gs))
               m == Len(Retained(Sorted(gs)))
           IN \A x \in 1..Len(rep) :
                /\ x <= m <=> rep[x].name # None
                /\ x <= m => x \in 1..m
                /\ ~(x <= m) => /\ x - m \in 1..Len(w) /\ w[x - m] \in Open(Sorted(gs))
                                /\ rep[x].realm = w[x - m][1]
<1> DEFINE s == Sorted(gs)
           rep == Repair(s)
           m == Len(Retained(s))
<1>1. s \in Seq(S)
  BY TraceIs
<1>2. /\ Len(s) = Len(gs) /\ m \in Nat /\ Len(w) \in Nat /\ Len(rep) = m + Len(w)
      /\ \A k \in 1..m : e[k] \in 1..Len(gs) /\ rep[k] = s[e[k]]
      /\ \A k \in 1..Len(w) : w[k] \in Open(s) /\ rep[m + k] = SyntheticEnd(s, w[k])
  BY DEF Traced
<1> HIDE DEF s, rep, m
<1>3. ASSUME NEW x \in 1..Len(rep), x <= m PROVE x \in 1..m /\ rep[x].name # None
  <2>1. x \in 1..m
    BY <1>2, <1>3
  <2>2. rep[x] = s[e[x]] /\ s[e[x]] \in S
    BY <1>1, <1>2, <2>1, ElementOfSeq
  <2>3. QED
    BY <2>1, <2>2
<1>4. ASSUME NEW x \in 1..Len(rep), ~(x <= m)
      PROVE  /\ x - m \in 1..Len(w) /\ w[x - m] \in Open(s)
             /\ rep[x].realm = w[x - m][1] /\ rep[x].name = None
  <2>1. x - m \in 1..Len(w) /\ m + (x - m) = x
    BY <1>2, <1>4
  <2>2. w[x - m] \in Open(s) /\ rep[x] = SyntheticEnd(s, w[x - m])
    BY <1>2, <2>1
  <2>3. QED
    BY <1>1, <2>1, <2>2, SyntheticEndIs
<1>5. QED
  BY <1>3, <1>4 DEF s, rep, m

RealOf(gs, r) == {k \in DOMAIN Events(gs) : Events(gs)[k].realm = r /\ Events(gs)[k].name # None}
AddedOf(gs, r) == {k \in DOMAIN Events(gs) : Events(gs)[k].realm = r /\ Events(gs)[k].name = None}
PlacesOf(gs, r) == {k \in 1..Len(gs) : gs[k].realm = r}

\* What is real has its places in the sorted groups, among the retained ones.
LEMMA RealPlaces ==
    ASSUME NEW S, Fitting(S), \A g \in S : g.name # None, NEW gs \in Seq(S),
           NEW p, NEW e, NEW w, NEW q, Traced(gs, p, e, w, q), NEW r
    PROVE  LET s == Sorted(gs)
           IN /\ \A k \in RealOf(gs, r) :
                   /\ q[k] \in 1..Len(Retained(s)) /\ e[q[k]] \in PlacesOf(s, r) \ Unmatched(s)
                   /\ Events(gs)[k] = s[e[q[k]]]
              /\ \A j, k \in RealOf(gs, r) : e[q[j]] = e[q[k]] => j = k
              /\ \A i \in PlacesOf(s, r) \ Unmatched(s) : \E k \in RealOf(gs, r) : e[q[k]] = i
<1> DEFINE s == Sorted(gs)
           rep == Repair(s)
           m == Len(Retained(s))
           ev == Events(gs)
<1>1. \A x \in 1..Len(rep) : (x <= m <=> rep[x].name # None) /\ (x <= m => x \in 1..m)
  BY RealIs
<1>2. /\ Len(s) = Len(gs) /\ DOMAIN ev = 1..Len(rep) /\ m \in Nat
      /\ Climbs(e, m, (1..Len(gs)) \ Unmatched(s))
      /\ \A x \in 1..m : x \in 1..Len(rep) /\ rep[x] = s[e[x]]
      /\ \A k \in 1..Len(rep) : q[k] \in 1..Len(rep) /\ ev[k] = rep[q[k]]
      /\ Sorts(q, rep)
  BY DEF Traced
<1> HIDE DEF s, rep, m, ev
<1>3. /\ \A j, k \in 1..Len(rep) : q[j] = q[k] => j = k
      /\ \A x \in 1..Len(rep) : \E k \in 1..Len(rep) : q[k] = x
  BY <1>2 DEF Sorts, Permutes
<1>4. /\ \A x \in 1..m : e[x] \in (1..Len(s)) \ Unmatched(s)
      /\ \A i \in (1..Len(s)) \ Unmatched(s) : \E x \in 1..m : e[x] = i
  BY <1>2 DEF Climbs
<1>5. ASSUME NEW x \in 1..m, NEW y \in 1..m, e[x] = e[y] PROVE x = y
  <2>1. (x < y => e[x] < e[y]) /\ (y < x => e[y] < e[x]) /\ e[x] \in 1..Len(gs)
    BY <1>2 DEF Climbs
  <2>2. ~(x < y) /\ ~(y < x)
    BY <1>5, <2>1
  <2>3. QED
    BY <1>2, <2>2
<1>6. RealOf(gs, r) = {k \in 1..Len(rep) : ev[k].realm = r /\ ev[k].name # None}
  BY <1>2 DEF RealOf, ev
<1>7. ASSUME NEW k \in RealOf(gs, r)
      PROVE  q[k] \in 1..m /\ e[q[k]] \in PlacesOf(s, r) \ Unmatched(s) /\ ev[k] = s[e[q[k]]]
  <2>1. k \in 1..Len(rep) /\ q[k] \in 1..Len(rep) /\ ev[k] = rep[q[k]]
        /\ ev[k].realm = r /\ ev[k].name # None
    BY <1>2, <1>6
  <2>2. q[k] \in 1..m
    BY <1>1, <2>1
  <2>3. ev[k] = s[e[q[k]]] /\ e[q[k]] \in (1..Len(s)) \ Unmatched(s)
    BY <1>2, <1>4, <2>1, <2>2
  <2>4. QED
    BY <2>1, <2>2, <2>3 DEF PlacesOf
<1>8. ASSUME NEW j \in RealOf(gs, r), NEW k \in RealOf(gs, r), e[q[j]] = e[q[k]] PROVE j = k
  <2>1. q[j] \in 1..m /\ q[k] \in 1..m /\ j \in 1..Len(rep) /\ k \in 1..Len(rep)
    BY <1>6, <1>7
  <2>2. q[j] = q[k]
    BY <1>5, <1>8, <2>1
  <2>3. QED
    BY <1>3, <2>1, <2>2
<1>9. ASSUME NEW i \in PlacesOf(s, r) \ Unmatched(s) PROVE \E k \in RealOf(gs, r) : e[q[k]] = i
  <2>1. i \in (1..Len(s)) \ Unmatched(s) /\ s[i].realm = r
    BY DEF PlacesOf
  <2>2. PICK x \in 1..m : e[x] = i
    BY <1>4, <2>1
  <2>3. x \in 1..Len(rep) /\ rep[x] = s[i] /\ x <= m
    BY <1>2, <2>2
  <2>4. PICK k \in 1..Len(rep) : q[k] = x
    BY <1>3, <2>3
  <2>5. ev[k] = s[i] /\ ev[k].name # None
    BY <1>1, <1>2, <2>3, <2>4
  <2>6. k \in RealOf(gs, r)
    BY <1>6, <2>1, <2>5
  <2>7. QED
    BY <2>2, <2>4, <2>6
<1>10. QED
  BY <1>7, <1>8, <1>9 DEF s, m, ev

\* The additions of a realm are its open spans.
LEMMA AddedCount ==
    ASSUME NEW S, Fitting(S), \A g \in S : g.name # None, NEW gs \in Seq(S), NEW r \in Realms
    PROVE  LET s == Sorted(gs)
           IN Cardinality(AddedOf(gs, r))
                = Cardinality({c \in Tracks \X (1..Len(s)) : c[2] <= OpenAtEnd(s, r, c[1])})
<1> DEFINE s == Sorted(gs)
           rep == Repair(s)
           m == Len(Retained(s))
           ev == Events(gs)
           P == {c \in Tracks \X (1..Len(s)) : c[2] <= OpenAtEnd(s, r, c[1])}
           A == AddedOf(gs, r)
<1>1. PICK p, e, w, q : Traced(gs, p, e, w, q)
  BY TraceIs
<1>2. \A x \in 1..Len(rep) :
        /\ x <= m <=> rep[x].name # None
        /\ ~(x <= m) => /\ x - m \in 1..Len(w) /\ w[x - m] \in Open(s)
                        /\ rep[x].realm = w[x - m][1]
  BY <1>1, RealIs
<1>3. /\ DOMAIN ev = 1..Len(rep) /\ m \in Nat /\ Len(w) \in Nat /\ Len(rep) = m + Len(w)
      /\ \A k \in 1..Len(w) : m + k \in 1..Len(rep)
      /\ \A k \in 1..Len(rep) : q[k] \in 1..Len(rep) /\ ev[k] = rep[q[k]]
      /\ Sorts(q, rep) /\ Closes(w, s) /\ Len(s) \in Nat
  BY <1>1 DEF Traced
<1> HIDE DEF s, rep, m, ev
<1>4. /\ \A j, k \in 1..Len(rep) : q[j] = q[k] => j = k
      /\ \A x \in 1..Len(rep) : \E k \in 1..Len(rep) : q[k] = x
  BY <1>3 DEF Sorts, Permutes
<1>5. A = {k \in 1..Len(rep) : ev[k].realm = r /\ ev[k].name = None}
  BY <1>3 DEF AddedOf, ev
<1> HIDE DEF A
<1> DEFINE place(k) == q[k] - m
           f == [k \in A |-> <<w[place(k)][2], w[place(k)][3]>>]
<1>6. ASSUME NEW k \in A
      PROVE  /\ k \in 1..Len(rep) /\ q[k] \in 1..Len(rep) /\ place(k) \in 1..Len(w)
             /\ w[place(k)] \in Open(s) /\ w[place(k)][1] = r
  <2>1. k \in 1..Len(rep) /\ q[k] \in 1..Len(rep) /\ ev[k] = rep[q[k]]
        /\ ev[k].realm = r /\ ev[k].name = None
    BY <1>3, <1>5
  <2>2. ~(q[k] <= m)
    BY <1>2, <2>1
  <2>3. QED
    BY <1>2, <2>1, <2>2
<1>7. ASSUME NEW k \in A PROVE f[k] \in P
  <2>1. w[place(k)] \in Open(s) /\ w[place(k)][1] = r
    BY <1>6
  <2> DEFINE o == w[place(k)]
  <2>2. f[k] = <<o[2], o[3]>>
    OBVIOUS
  <2> HIDE DEF o, f
  <2>3. o \in Open(s) /\ o[1] = r
    BY <2>1 DEF o
  <2>4. o[2] \in Tracks /\ o[3] \in 1..Len(s) /\ o[3] <= OpenAtEnd(s, r, o[2])
    BY <2>3 DEF Open
  <2>5. QED
    BY <2>2, <2>4
<1>8. ASSUME NEW j \in A, NEW k \in A, f[j] = f[k] PROVE j = k
  <2>1. /\ j \in 1..Len(rep) /\ k \in 1..Len(rep) /\ q[j] \in Nat /\ q[k] \in Nat
        /\ place(j) \in 1..Len(w) /\ place(k) \in 1..Len(w)
    BY <1>3, <1>6
  <2>2. /\ w[place(j)][1] = w[place(k)][1] /\ w[place(j)][2] = w[place(k)][2]
        /\ w[place(j)][3] = w[place(k)][3] /\ w[place(j)] \in Open(s)
    BY <1>6, <1>8
  <2>3. w[place(j)][3] \in Nat
    BY <1>3, <2>2 DEF Open
  <2>4. /\ place(j) < place(k) => w[place(j)][3] < w[place(k)][3]
        /\ place(k) < place(j) => w[place(k)][3] < w[place(j)][3]
    BY <1>3, <2>1, <2>2 DEF Closes, ListsOpen
  <2>5. ~(place(j) < place(k)) /\ ~(place(k) < place(j))
    BY <2>2, <2>3, <2>4
  <2>6. q[j] = q[k]
    BY <1>3, <2>1, <2>5
  <2>7. QED
    BY <1>4, <2>1, <2>6
<1>9. ASSUME NEW c \in P PROVE \E k \in A : f[k] = c
  <2>1. c = <<c[1], c[2]>> /\ c[1] \in Tracks /\ c[2] \in 1..Len(s) /\ c[2] <= OpenAtEnd(s, r, c[1])
    OBVIOUS
  <2> HIDE DEF P
  <2> DEFINE o == <<r, c[1], c[2]>>
  <2>2. o \in Open(s)
    BY <2>1 DEF Open
  <2>3. PICK i \in 1..Len(w) : w[i] = o
    BY <1>3, <2>2, ListedTracks DEF Closes, ListsOpen
  <2>4. m + i \in 1..Len(rep) /\ (m + i) - m = i /\ ~(m + i <= m)
    BY <1>3
  <2>5. PICK k \in 1..Len(rep) : q[k] = m + i
    BY <1>4, <2>4
  <2>6. ev[k] = rep[m + i] /\ ev[k].name = None /\ ev[k].realm = r
    <3>1. ev[k] = rep[m + i]
      BY <1>3, <2>5
    <3>2. rep[m + i].realm = w[i][1] /\ rep[m + i].name = None
      BY <1>2, <2>4
    <3>3. QED
      BY <2>3, <3>1, <3>2
  <2>7. k \in A /\ place(k) = i
    BY <1>5, <2>4, <2>5, <2>6
  <2>8. f[k] = <<o[2], o[3]>>
    BY <2>3, <2>7
  <2>9. QED
    BY <2>1, <2>7, <2>8
<1>10. IsFiniteSet(A)
  <2>1. A \in SUBSET (1..Len(rep)) /\ Len(rep) \in Nat
    BY <1>3, <1>5
  <2>2. QED
    BY <2>1, UpToFinite
<1> HIDE DEF f, P
<1>11. Cardinality(A) = Cardinality(P)
  BY <1>7, <1>8, <1>9, <1>10, SameSize
<1>12. QED
  BY <1>11 DEF A, P, s

LEMMA RepairsAre ==
    ASSUME NEW S, Fitting(S), \A g \in S : g.name # None, NEW gs \in Seq(S), NEW r \in Realms
    PROVE  /\ {Cardinality(AddedOf(gs, r)), Cardinality(PlacesOf(gs, r)),
                Cardinality(RealOf(gs, r))} \subseteq Nat
           /\ Repairs(Sorted(gs), r)
                = Cardinality(AddedOf(gs, r))
                    + (Cardinality(PlacesOf(gs, r)) - Cardinality(RealOf(gs, r)))
<1> DEFINE s == Sorted(gs)
           U == {i \in Unmatched(s) : s[i].realm = r}
           P == {c \in Tracks \X (1..Len(s)) : c[2] <= OpenAtEnd(s, r, c[1])}
           V == PlacesOf(s, r) \ Unmatched(s)
           W == PlacesOf(s, r)
<1>1. PICK p, e, w, q : Traced(gs, p, e, w, q)
  BY TraceIs
<1>2. s \in Seq(S)
  BY TraceIs
<1>3. /\ Len(gs) \in Nat /\ Len(s) = Len(gs) /\ Sorts(p, gs)
      /\ DOMAIN Events(gs) = 1..Len(Repair(s)) /\ Len(Events(gs)) = Len(Repair(s))
      /\ Len(Retained(s)) \in Nat /\ Len(w) \in Nat /\ Len(Repair(s)) = Len(Retained(s)) + Len(w)
      /\ \A k \in 1..Len(gs) : p[k] \in 1..Len(gs) /\ s[k] = gs[p[k]]
  BY <1>1 DEF Traced
<1>4. DOMAIN s = 1..Len(s)
  BY <1>2, LenProperties
<1>5. Repairs(s, r) = Cardinality(U) + Cardinality(P)
  BY DEF Repairs
<1>6. Cardinality(AddedOf(gs, r)) = Cardinality(P)
  BY AddedCount
<1>7. Cardinality(RealOf(gs, r)) = Cardinality(V)
  <2> DEFINE f == [k \in RealOf(gs, r) |-> e[q[k]]]
             A == RealOf(gs, r)
  <2>1. IsFiniteSet(A)
    <3>1. A \in SUBSET (1..Len(Repair(s))) /\ Len(Repair(s)) \in Nat
      BY <1>3 DEF RealOf
    <3> HIDE DEF A
    <3>2. QED
      BY <3>1, UpToFinite
  <2>2. /\ \A k \in A : f[k] \in V
        /\ \A j, k \in A : f[j] = f[k] => j = k
        /\ \A i \in V : \E k \in A : f[k] = i
    BY <1>1, RealPlaces
  <2> HIDE DEF f, A, V
  <2>3. Cardinality(A) = Cardinality(V)
    BY <2>1, <2>2, SameSize
  <2>4. QED
    BY <2>3 DEF A
<1> HIDE DEF s
<1>8. IsFiniteSet(W) /\ IsFiniteSet(U) /\ IsFiniteSet(V) /\ Cardinality(W) \in Nat
      /\ Cardinality(U) \in Nat /\ Cardinality(V) \in Nat
  <2>1. W \in SUBSET (1..Len(s)) /\ U \in SUBSET (1..Len(s)) /\ V \in SUBSET (1..Len(s))
    BY <1>4 DEF PlacesOf, Unmatched
  <2> HIDE DEF W, U, V
  <2>2. QED
    BY <1>3, <2>1, UpToFinite
<1>9. Cardinality(W) = Cardinality(PlacesOf(gs, r))
  <2> DEFINE B == PlacesOf(gs, r)
  <2>1. /\ \A i, j \in 1..Len(gs) : p[i] = p[j] => i = j
        /\ \A x \in 1..Len(gs) : \E i \in 1..Len(gs) : p[i] = x
    BY <1>3 DEF Sorts, Permutes
  <2>2. /\ \A i : i \in W <=> i \in 1..Len(gs) /\ gs[p[i]].realm = r
        /\ \A x : x \in B <=> x \in 1..Len(gs) /\ gs[x].realm = r
    BY <1>3 DEF PlacesOf
  <2> HIDE DEF W, B
  <2>3. Cardinality(W) = Cardinality(B)
    <3>1. \A i \in W : p[i] \in B
      BY <1>3, <2>2
    <3>2. \A i, j \in W : p[i] = p[j] => i = j
      BY <2>1, <2>2
    <3>3. ASSUME NEW x \in B PROVE \E i \in W : p[i] = x
      <4>1. PICK i \in 1..Len(gs) : p[i] = x
        BY <2>1, <2>2
      <4>2. QED
        BY <2>2, <4>1
    <3>4. QED
      BY <1>8, <3>1, <3>2, <3>3, SameSize
  <2>4. QED
    BY <2>3 DEF B
<1>10. Cardinality(W) = Cardinality(V) + Cardinality(U)
  <2>1. W = V \union U /\ V \cap U = {}
    BY <1>4 DEF PlacesOf, Unmatched
  <2> HIDE DEF W, U, V
  <2>2. Cardinality(V \union U) = Cardinality(V) + Cardinality(U) - Cardinality(V \cap U)
    BY <1>8, FS_Union
  <2>3. Cardinality(V \cap U) = 0
    BY <2>1, FS_EmptySet
  <2>4. QED
    BY <1>8, <2>1, <2>2, <2>3
<1> DEFINE z == Cardinality(P)
<1>11. z \in Nat
  <2>1. IsFiniteSet(P)
    BY <1>3, <1>4, RepairsCount
  <2>2. QED
    BY <2>1, FS_CardinalityType
<1> HIDE DEF W, U, V, P, z
<1>12. Repairs(s, r) = Cardinality(U) + z /\ Cardinality(AddedOf(gs, r)) = z
  BY <1>5, <1>6 DEF z
<1>13. QED
  BY <1>7, <1>8, <1>9, <1>10, <1>11, <1>12 DEF s

LEMMA CollectedReported == Collected => RepairsReported
<1> DEFINE A(r) == {k \in DOMAIN events : events[k].realm = r} \ Real(r)
           R(r) == Repairs(Sorted(groups), r)
<1> SUFFICES ASSUME Collected, Finished, NEW r \in Realms
             PROVE  Count(reported, r)
                      = Count(health, r) + Cardinality(A(r))
                          + (Cardinality(Arrivals(r)) - Cardinality(Real(r)))
  BY DEF RepairsReported
<1>1. /\ groups \in Seq(Ingested) /\ events = Events(groups) /\ Fitting(Ingested)
      /\ \A g \in Ingested : g.name # None
      /\ reported = RepairedHealth /\ Counted
  BY IngestedFits DEF Collected, Left
<1>2. Arrivals(r) = PlacesOf(groups, r)
  BY <1>1, LenProperties DEF Arrivals, PlacesOf
<1>3. Real(r) = RealOf(groups, r)
  BY <1>1 DEF Real, RealOf
<1>4. A(r) = AddedOf(groups, r)
  BY <1>1 DEF Real, AddedOf
<1>5. /\ {Cardinality(AddedOf(groups, r)), Cardinality(PlacesOf(groups, r)),
          Cardinality(RealOf(groups, r))} \subseteq Nat
      /\ R(r) = Cardinality(AddedOf(groups, r))
                  + (Cardinality(PlacesOf(groups, r)) - Cardinality(RealOf(groups, r)))
  BY <1>1, RepairsAre
<1>6. R(r) \in Nat
  <2>1. Sorted(groups) \in Seq(Ingested)
    BY <1>1, SortedIs
  <2>2. Len(Sorted(groups)) \in Nat /\ DOMAIN Sorted(groups) = 1..Len(Sorted(groups))
    BY <2>1, LenProperties
  <2>3. QED
    BY <2>2, RepairsCount
<1>7. reported = [x \in DOMAIN health \union {q \in Realms : R(q) > 0} |->
                    R(x) + IF x \in DOMAIN health THEN health[x] ELSE 0]
  BY <1>1 DEF RepairedHealth
<1> HIDE DEF A, R
<1>8. Count(reported, r) = R(r) + Count(health, r)
  <2>1. r \in DOMAIN reported <=> r \in DOMAIN health \/ R(r) > 0
    BY <1>7
  <2>2. CASE r \in DOMAIN reported
    BY <1>7, <2>2 DEF Count
  <2>3. CASE r \notin DOMAIN reported
    <3>1. R(r) = 0 /\ r \notin DOMAIN health
      BY <1>6, <2>1, <2>3
    <3>2. QED
      BY <2>3, <3>1 DEF Count
  <2>4. QED
    BY <2>2, <2>3
<1>9. Count(health, r) \in Nat
  BY <1>1 DEF Counted, Count
<1>10. QED
  BY <1>2, <1>3, <1>4, <1>5, <1>8, <1>9

(***************************************************************************)
(* To what was reported of a realm, its health adds the ends the repair    *)
(* added and the ones it discarded (RepairsReported).                      *)
(***************************************************************************)
THEOREM HealthCountsRepairs == Spec => []RepairsReported
  BY CollectedReported, AlwaysCollected, PTL
-----------------------------------------------------------------------------
(***************************************************************************)
(* The order of a producer.                                                *)
(***************************************************************************)
\* A sort does not touch the order of a realm whose groups came in time.
LEMMA SortClimbs ==
    ASSUME NEW S, Fitting(S), NEW gs \in Seq(S), InTime(gs), NEW p, Sorts(p, gs),
           NEW a \in 1..Len(gs), NEW b \in 1..Len(gs), gs[p[a]].realm = gs[p[b]].realm
    PROVE  a < b <=> p[a] < p[b]
<1>1. Len(gs) \in Nat /\ p[a] \in 1..Len(gs) /\ p[b] \in 1..Len(gs) /\ (p[a] = p[b] => a = b)
  BY LenProperties DEF Sorts, Permutes
<1>2. p[a] < p[b] => a < b
  <2>1. p[a] < p[b] => gs[p[a]].time <= gs[p[b]].time
    BY <1>1 DEF InTime
  <2>2. QED
    BY <2>1, SortKeeps
<1>3. p[b] < p[a] => b < a
  <2>1. p[b] < p[a] => gs[p[b]].time <= gs[p[a]].time
    BY <1>1 DEF InTime
  <2>2. QED
    BY <2>1, SortKeeps
<1>4. p[a] < p[b] \/ p[b] < p[a] \/ p[a] = p[b]
  BY <1>1
<1>5. QED
  BY <1>1, <1>2, <1>3, <1>4

\* Groups of other tracks do not change the depth.
LEMMA DepthFlat ==
    ASSUME NEW gs, Len(gs) \in Nat, NEW r, NEW t, NEW a \in 0..Len(gs), NEW b \in 0..Len(gs), a <= b,
           \A x \in a + 1..b : ~On(gs[x], r, t)
    PROVE  Depth(gs, r, t)[b] = Depth(gs, r, t)[a]
<1> DEFINE d == Depth(gs, r, t)
           T == {n \in 0..b - a : d[a + n] = d[a]}
<1>1. d \in [0..Len(gs) -> Nat] /\ \A i \in 1..Len(gs) : d[i] = After(gs[i], r, t, d[i - 1])
  BY DepthIs DEF Deepens
<1> HIDE DEF d
<1>2. 0 \in T /\ T \in SUBSET Nat /\ b - a \in Nat
  OBVIOUS
<1>3. ASSUME NEW n \in T, n < b - a PROVE n + 1 \in T
  <2>1. /\ a + n + 1 \in a + 1..b /\ a + n + 1 \in 1..Len(gs) /\ (a + n + 1) - 1 = a + n
        /\ a + n \in 0..Len(gs) /\ n + 1 \in 0..b - a /\ a + (n + 1) = a + n + 1
    BY <1>3
  <2>2. d[a + n + 1] = After(gs[a + n + 1], r, t, d[a + n]) /\ d[a + n] \in Nat
    BY <1>1, <2>1
  <2>3. d[a + n + 1] = d[a + n]
    BY <2>1, <2>2, AfterIs
  <2>4. QED
    BY <2>1, <2>3
<1> HIDE DEF T
<1>4. 0..b - a \subseteq T
  BY <1>2, <1>3, UpTo
<1>5. b - a \in T /\ a + (b - a) = b
  BY <1>2, <1>4
<1>6. QED
  BY <1>5 DEF T, d

\* n groups of s hold those of the track that the first m of gs hold.
Cut(gs, p, r, t, n, m) == \A x \in 1..Len(gs) : On(gs[p[x]], r, t) => (x <= n <=> p[x] <= m)

LEMMA SameDepth ==
    ASSUME NEW S, Fitting(S), NEW gs \in Seq(S), InTime(gs), NEW p, Sorts(p, gs), NEW r, NEW t,
           NEW n \in 0..Len(gs), NEW m \in 0..Len(gs), Cut(gs, p, r, t, n, m)
    PROVE  Depth(Sorted(gs), r, t)[n] = Depth(gs, r, t)[m]
<1> DEFINE s == Sorted(gs)
           N == Len(gs)
           ds == Depth(s, r, t)
           dg == Depth(gs, r, t)
           T == {k \in 0..N : \A i \in 0..N : Cut(gs, p, r, t, i, k) => ds[i] = dg[k]}
<1>1. N \in Nat /\ Len(s) = N
  BY SortedIs
<1>2. /\ \A x \in 1..N : s[x] = gs[p[x]] /\ p[x] \in 1..N
      /\ \A y \in 1..N : \E x \in 1..N : p[x] = y
      /\ \A x, y \in 1..N : p[x] = p[y] => x = y
  BY DEF Sorts, Permutes
<1> HIDE DEF s
<1>3. /\ ds \in [0..N -> Nat] /\ ds[0] = 0
      /\ \A i \in 1..N : ds[i] = After(s[i], r, t, ds[i - 1])
  <2>1. Deepens(ds, s, r, t)
    BY <1>1, DepthIs
  <2> HIDE DEF ds
  <2>2. QED
    BY <1>1, <2>1 DEF Deepens
<1>4. /\ dg \in [0..N -> Nat] /\ dg[0] = 0
      /\ \A i \in 1..N : dg[i] = After(gs[i], r, t, dg[i - 1])
  <2>1. Deepens(dg, gs, r, t)
    BY <1>1, DepthIs
  <2> HIDE DEF dg
  <2>2. QED
    BY <1>1, <2>1 DEF Deepens
<1>5. \A a, b \in 0..N : a <= b /\ (\A x \in a + 1..b : ~On(s[x], r, t)) => ds[b] = ds[a]
  BY <1>1, DepthFlat
<1> HIDE DEF N, ds, dg
<1>6. 0 \in T /\ T \in SUBSET Nat
  <2>1. ASSUME NEW i \in 0..N, Cut(gs, p, r, t, i, 0) PROVE ds[i] = dg[0]
    <3>1. ASSUME NEW x \in 0 + 1..i PROVE ~On(s[x], r, t)
      <4>1. x \in 1..N /\ x <= i
        BY <1>1
      <4>2. s[x] = gs[p[x]] /\ p[x] \in 1..N
        BY <1>2, <4>1
      <4>3. ~(p[x] <= 0)
        BY <4>2
      <4>4. QED
        BY <2>1, <4>1, <4>2, <4>3 DEF Cut, N
    <3>2. 0 \in 0..N /\ 0 <= i
      BY <1>1
    <3>3. ds[i] = ds[0]
      BY <1>5, <3>1, <3>2
    <3>4. QED
      BY <1>3, <1>4, <3>3
  <2>2. QED
    BY <1>1, <2>1
<1>7. ASSUME NEW k \in T, k < N PROVE k + 1 \in T
  <2>1. k \in Nat /\ k \in 0..N /\ k + 1 \in 1..N /\ k + 1 \in 0..N /\ (k + 1) - 1 = k
    BY <1>1, <1>7
  <2>2. dg[k + 1] = After(gs[k + 1], r, t, dg[k]) /\ dg[k] \in Nat
    BY <1>4, <2>1
  <2>3. ASSUME NEW i \in 0..N, Cut(gs, p, r, t, i, k + 1) PROVE ds[i] = dg[k + 1]
    <3>1. CASE ~On(gs[k + 1], r, t)
      <4>1. ASSUME NEW x \in 1..N, On(gs[p[x]], r, t) PROVE x <= i <=> p[x] <= k
        <5>1. p[x] # k + 1 /\ p[x] \in Nat
          <6>1. p[x] \in 1..N
            BY <1>2
          <6>2. gs[p[x]] # gs[k + 1]
            BY <3>1, <4>1
          <6>3. QED
            BY <6>1, <6>2
        <5>2. x <= i <=> p[x] <= k + 1
          BY <2>3, <4>1 DEF Cut, N
        <5>3. QED
          BY <2>1, <5>1, <5>2
      <4>2. Cut(gs, p, r, t, i, k)
        BY <4>1 DEF Cut, N
      <4>3. ds[i] = dg[k]
        BY <4>2
      <4>4. QED
        BY <2>2, <3>1, <4>3, AfterIs
    <3>2. CASE On(gs[k + 1], r, t)
      <4>1. PICK x \in 1..N : p[x] = k + 1
        BY <1>2, <2>1
      <4>2. \A y \in 1..N : On(gs[p[y]], r, t) => (y < x <=> p[y] < p[x])
        <5>1. ASSUME NEW y \in 1..N, On(gs[p[y]], r, t) PROVE y < x <=> p[y] < p[x]
          <6>1. gs[p[y]].realm = gs[p[x]].realm /\ y \in 1..Len(gs) /\ x \in 1..Len(gs)
            BY <3>2, <4>1, <5>1 DEF On, N
          <6>2. QED
            BY <6>1, SortClimbs
        <5>2. QED
          BY <5>1
      <4>3. x \in Nat /\ x - 1 \in 0..N /\ x \in 0..N
        BY <1>1
      <4>4. ASSUME NEW y \in 1..N, On(gs[p[y]], r, t) PROVE y <= x - 1 <=> p[y] <= k
        <5>1. p[y] \in Nat /\ y \in Nat
          BY <1>2
        <5>2. (y <= x - 1 <=> y < x) /\ (p[y] <= k <=> p[y] < k + 1)
          BY <2>1, <4>3, <5>1
        <5>3. QED
          BY <4>1, <4>2, <4>4, <5>2
      <4>5. Cut(gs, p, r, t, x - 1, k)
        BY <4>4 DEF Cut, N
      <4>6. ds[x - 1] = dg[k]
        BY <4>3, <4>5
      <4>7. ds[x] = dg[k + 1]
        <5>1. ds[x] = After(s[x], r, t, ds[x - 1])
          BY <1>3
        <5>2. s[x] = gs[k + 1]
          BY <1>2, <4>1
        <5>3. QED
          BY <2>2, <4>6, <5>1, <5>2
      <4>8. x <= i
        <5>1. p[x] <= k + 1
          BY <2>1, <4>1
        <5>2. QED
          BY <2>3, <3>2, <4>1, <5>1 DEF Cut, N
      <4>9. ASSUME NEW y \in x + 1..i PROVE ~On(s[y], r, t)
        <5>1. y \in 1..N /\ y <= i /\ ~(y < x) /\ y # x /\ y \in Nat
          BY <1>1, <4>3
        <5>2. s[y] = gs[p[y]] /\ p[y] \in Nat /\ p[y] # p[x]
          <6>1. s[y] = gs[p[y]] /\ p[y] \in 1..N
            BY <1>2, <5>1
          <6>2. p[y] # p[x]
            BY <1>2, <5>1
          <6>3. QED
            BY <6>1, <6>2
        <5>3. SUFFICES ASSUME On(gs[p[y]], r, t) PROVE FALSE
          BY <5>2
        <5>4. p[y] <= k + 1
          BY <2>3, <5>1, <5>3 DEF Cut, N
        <5>5. p[y] < p[x]
          BY <2>1, <4>1, <5>2, <5>4
        <5>6. QED
          BY <4>2, <5>1, <5>3, <5>5
      <4>10. ds[i] = ds[x]
        BY <1>5, <4>3, <4>8, <4>9
      <4>11. QED
        BY <4>7, <4>10
    <3>3. QED
      BY <3>1, <3>2
  <2>4. QED
    BY <2>1, <2>3
<1> HIDE DEF T
<1>8. 0..N \subseteq T
  BY <1>1, <1>6, <1>7, UpTo
<1>9. m \in T /\ n \in 0..N
  BY <1>8 DEF N
<1>10. QED
  BY <1>9 DEF T, ds, dg, s

-----------------------------------------------------------------------------
\* While a span stays open, its depth is the balance of what came after it.
LEMMA Balance ==
    ASSUME NEW gs, Len(gs) \in Nat, NEW r, NEW t, NEW j \in 1..Len(gs), NEW k \in j..Len(gs),
           Depth(gs, r, t)[j] > 0,
           \A n \in j..k : \/ Depth(gs, r, t)[n] > 0
                           \/ Number(gs, r, t, "end", j + 1..n) <= Number(gs, r, t, "begin", j + 1..n)
    PROVE  \A n \in j..k :
             /\ Number(gs, r, t, "end", j + 1..n) \in Nat /\ Number(gs, r, t, "begin", j + 1..n) \in Nat
             /\ Depth(gs, r, t)[n] + Number(gs, r, t, "end", j + 1..n)
                  = Depth(gs, r, t)[j] + Number(gs, r, t, "begin", j + 1..n)
<1> DEFINE N == Len(gs)
           d == Depth(gs, r, t)
           E(n) == Number(gs, r, t, "end", j + 1..n)
           B(n) == Number(gs, r, t, "begin", j + 1..n)
           T == {i \in 0..k - j : d[j + i] + E(j + i) = d[j] + B(j + i)}
<1>1. d \in [0..N -> Nat] /\ \A i \in 1..N : d[i] = After(gs[i], r, t, d[i - 1])
  BY DepthIs DEF Deepens
<1>2. d[j] > 0 /\ \A n \in j..k : d[n] > 0 \/ E(n) <= B(n)
  OBVIOUS
<1> HIDE DEF d
<1>3. \A n \in j..k : IsFiniteSet(j + 1..n) /\ E(n) \in Nat /\ B(n) \in Nat
  <2>1. ASSUME NEW n \in j..k PROVE IsFiniteSet(j + 1..n)
    <3>1. j + 1 \in Int /\ n \in Int
      OBVIOUS
    <3>2. QED
      BY <3>1, FS_Interval
  <2>2. QED
    BY <2>1, NumberNat
<1>4. 0 \in T /\ T \in SUBSET Nat /\ k - j \in Nat
  <2>1. j + 1..j = {} /\ j + 0 = j
    OBVIOUS
  <2>2. E(j + 0) = 0 /\ B(j + 0) = 0
    BY <2>1, FS_EmptySet DEF Number
  <2> HIDE DEF E, B
  <2>3. d[j] \in Nat /\ 0 \in 0..k - j
    BY <1>1
  <2>4. QED
    BY <2>1, <2>2, <2>3
<1>5. ASSUME NEW i \in T, i < k - j PROVE i + 1 \in T
  <2> DEFINE n == j + i
             x == n + 1
  <2>1. /\ i \in Nat /\ n \in j..k /\ x \in j..k /\ x \in 1..N /\ x - 1 = n /\ n \in 0..N
        /\ i + 1 \in 0..k - j /\ j + (i + 1) = x /\ d[n] + E(n) = d[j] + B(n) /\ j \in 0..N
    BY <1>5
  <2>2. j + 1..x = (j + 1..n) \union {x} /\ x \notin j + 1..n
    BY <2>1
  <2> HIDE DEF n, x
  <2>3. /\ E(n) \in Nat /\ B(n) \in Nat /\ IsFiniteSet(j + 1..n)
        /\ d[x] = After(gs[x], r, t, d[n]) /\ d[n] \in Nat /\ d[j] \in Nat
    BY <1>1, <1>3, <2>1
  <2> DEFINE J == j + 1..n
  <2> HIDE DEF J
  <2>4. /\ On(gs[x], r, t) /\ gs[x].kind = "end" => E(x) = E(n) + 1
        /\ ~(On(gs[x], r, t) /\ gs[x].kind = "end") => E(x) = E(n)
    <3>1. E(n) = Number(gs, r, t, "end", J) /\ E(x) = Number(gs, r, t, "end", J \union {x})
      BY <2>2 DEF J
    <3>2. IsFiniteSet(J) /\ x \notin J
      BY <2>2, <2>3 DEF J
    <3> HIDE DEF E
    <3>3. QED
      BY <3>1, <3>2, NumberAdd
  <2>5. /\ On(gs[x], r, t) /\ gs[x].kind = "begin" => B(x) = B(n) + 1
        /\ ~(On(gs[x], r, t) /\ gs[x].kind = "begin") => B(x) = B(n)
    <3>1. B(n) = Number(gs, r, t, "begin", J) /\ B(x) = Number(gs, r, t, "begin", J \union {x})
      BY <2>2 DEF J
    <3>2. IsFiniteSet(J) /\ x \notin J
      BY <2>2, <2>3 DEF J
    <3> HIDE DEF B
    <3>3. QED
      BY <3>1, <3>2, NumberAdd
  <2> HIDE DEF E, B
  <2>6. d[n] > 0
    BY <1>2, <2>1, <2>3
  <2> DEFINE dn == d[n]
             dj == d[j]
             En == E(n)
             Bn == B(n)
  <2>7. dn \in Nat /\ dj \in Nat /\ En \in Nat /\ Bn \in Nat /\ dn + En = dj + Bn
    BY <2>1, <2>3
  <2>8. CASE On(gs[x], r, t) /\ gs[x].kind = "begin"
    <3>1. d[x] = d[n] + 1 /\ B(x) = B(n) + 1 /\ E(x) = E(n)
      BY <2>3, <2>4, <2>5, <2>8, AfterIs
    <3>2. d[x] + E(x) = d[j] + B(x)
      <4>1. (dn + 1) + En = dj + (Bn + 1) /\ (dn - 1) + (En + 1) = dj + Bn
        <5> HIDE DEF dn, En, dj, Bn
        <5>1. QED
          BY <2>7
      <4>2. QED
        BY <2>7, <3>1, <4>1
    <3>3. QED
      BY <2>1, <3>2
  <2>9. CASE On(gs[x], r, t) /\ gs[x].kind = "end"
    <3>1. d[x] = d[n] - 1 /\ B(x) = B(n) /\ E(x) = E(n) + 1
      BY <2>3, <2>4, <2>5, <2>6, <2>9, AfterIs
    <3>2. d[x] + E(x) = d[j] + B(x)
      <4>1. (dn + 1) + En = dj + (Bn + 1) /\ (dn - 1) + (En + 1) = dj + Bn
        <5> HIDE DEF dn, En, dj, Bn
        <5>1. QED
          BY <2>7
      <4>2. QED
        BY <2>7, <3>1, <4>1
    <3>3. QED
      BY <2>1, <3>2
  <2>10. CASE ~(On(gs[x], r, t) /\ gs[x].kind \in {"begin", "end"})
    <3>1. d[x] = d[n] /\ B(x) = B(n) /\ E(x) = E(n)
      <4>1. d[x] = d[n]
        BY <2>3, <2>10, AfterIs
      <4>2. B(x) = B(n) /\ E(x) = E(n)
        BY <2>4, <2>5, <2>10
      <4>3. QED
        BY <4>1, <4>2
    <3>2. d[x] + E(x) = d[j] + B(x)
      <4>1. (dn + 1) + En = dj + (Bn + 1) /\ (dn - 1) + (En + 1) = dj + Bn
        <5> HIDE DEF dn, En, dj, Bn
        <5>1. QED
          BY <2>7
      <4>2. QED
        BY <2>7, <3>1, <4>1
    <3>3. QED
      BY <2>1, <3>2
  <2>11. QED
    BY <2>8, <2>9, <2>10
<1> HIDE DEF T
<1>6. 0..k - j \subseteq T
  BY <1>4, <1>5, UpTo
<1>7. ASSUME NEW n \in j..k PROVE d[n] + E(n) = d[j] + B(n)
  <2>1. n - j \in 0..k - j /\ j + (n - j) = n
    OBVIOUS
  <2>2. n - j \in T
    BY <1>6, <2>1
  <2> HIDE DEF E, B
  <2>3. QED
    BY <2>1, <2>2 DEF T
<1>8. QED
  BY <1>3, <1>7 DEF d
-----------------------------------------------------------------------------
\* An end has a match where a span of its track is open.
LEMMA MatchedIs ==
    ASSUME NEW gs, Len(gs) \in Nat, NEW i \in 1..Len(gs)
    PROVE  Matched(gs, i) <=> Depth(gs, gs[i].realm, gs[i].track)[i - 1] > 0
<1> DEFINE N == Len(gs)
           r == gs[i].realm
           t == gs[i].track
           d == Depth(gs, r, t)
           E(j, n) == Number(gs, r, t, "end", j + 1..n)
           B(j, n) == Number(gs, r, t, "begin", j + 1..n)
           Match(j) == /\ On(gs[j], r, t) /\ gs[j].kind = "begin"
                       /\ (\A n \in j..i - 1 : E(j, n) <= B(j, n)) /\ E(j, i - 1) = B(j, i - 1)
<1>1. Matched(gs, i) <=> \E j \in 1..i - 1 : Match(j)
  BY DEF Matched
<1>2. d \in [0..N -> Nat] /\ d[0] = 0 /\ \A x \in 1..N : d[x] = After(gs[x], r, t, d[x - 1])
  BY DepthIs DEF Deepens
<1>3. ASSUME NEW j \in 1..i - 1, d[j] > 0, \A n \in j..i - 1 : d[n] > 0 \/ E(j, n) <= B(j, n)
      PROVE  \A n \in j..i - 1 :
               E(j, n) \in Nat /\ B(j, n) \in Nat /\ d[n] + E(j, n) = d[j] + B(j, n)
  <2>1. j \in 1..N /\ i - 1 \in j..N
    OBVIOUS
  <2>2. QED
    BY <1>3, <2>1, Balance
<1> HIDE DEF d, E, B, r, t
<1>4. ASSUME NEW j \in 1..i - 1, Match(j) PROVE d[i - 1] > 0
  <2>1. j \in 1..N /\ j - 1 \in 0..N /\ j \in j..i - 1 /\ i - 1 \in j..i - 1 /\ i - 1 \in 0..N
    OBVIOUS
  <2>2. d[j] = d[j - 1] + 1 /\ d[j - 1] \in Nat
    BY <1>2, <1>4, <2>1, AfterIs
  <2>3. d[j] > 0 /\ d[j] \in Nat
    BY <2>2
  <2>4. E(j, i - 1) \in Nat /\ B(j, i - 1) \in Nat /\ d[i - 1] + E(j, i - 1) = d[j] + B(j, i - 1)
    BY <1>3, <1>4, <2>1, <2>3
  <2>5. d[i - 1] \in Nat /\ E(j, i - 1) = B(j, i - 1)
    BY <1>2, <1>4, <2>1
  <2>6. QED
    BY <2>3, <2>4, <2>5
<1>5. ASSUME d[i - 1] > 0 PROVE \E j \in 1..i - 1 : Match(j)
  <2> DEFINE D == d[i - 1]
             T == {n \in 0..i - 1 : d[n] < D}
  <2>1. i - 1 \in 0..N /\ i - 1 \in Nat /\ \A n \in 0..i - 1 : n \in 0..N
    OBVIOUS
  <2>2. D \in Nat /\ \A n \in 0..i - 1 : d[n] \in Nat
    BY <1>2, <2>1
  <2>3. \E l \in T : \A x \in T : x <= l
    <3>1. T \in SUBSET (0..i - 1) /\ 0 \in T
      BY <1>2, <1>5, <2>1
    <3> HIDE DEF T
    <3>2. QED
      BY <2>1, <3>1, Greatest
  <2>4. PICK l \in T : \A x \in T : x <= l
    BY <2>3
  <2> HIDE DEF D
  <2>5. l \in 0..i - 1 /\ d[l] < D /\ l # i - 1
    BY <2>2, <2>4 DEF D
  <2> DEFINE j == l + 1
  <2>6. j \in 1..i - 1 /\ j \in 1..N /\ j - 1 = l /\ j \in j..i - 1 /\ i - 1 \in j..i - 1
    BY <2>5
  <2>7. ASSUME NEW n \in j..i - 1 PROVE d[n] >= D /\ d[n] \in Nat
    <3>1. n \in 0..i - 1 /\ ~(n <= l)
      BY <2>5
    <3>2. n \notin T
      BY <2>4, <3>1
    <3>3. d[n] \in Nat /\ ~(d[n] < D)
      BY <2>2, <3>1, <3>2
    <3>4. QED
      BY <2>2, <3>3
  <2> HIDE DEF j, T
  <2>8. d[j] = After(gs[j], r, t, d[l]) /\ d[l] \in Nat /\ d[l] < D /\ d[j] >= D /\ d[j] \in Nat
    BY <1>2, <2>2, <2>5, <2>6, <2>7
  <2>9. On(gs[j], r, t) /\ gs[j].kind = "begin" /\ d[j] = D
    <3>1. ~On(gs[j], r, t) \/ gs[j].kind \notin {"begin", "end"} => d[j] = d[l]
      BY <2>8, AfterIs
    <3>2. On(gs[j], r, t) /\ gs[j].kind = "end" => d[j] = d[l] - 1 \/ (d[j] = 0 /\ d[l] = 0)
      BY <2>8, AfterIs
    <3>3. On(gs[j], r, t) /\ gs[j].kind = "begin" => d[j] = d[l] + 1
      BY <2>8, AfterIs
    <3>4. d[j] # d[l] /\ d[j] # d[l] - 1 /\ ~(d[j] = 0 /\ d[l] = 0)
      BY <2>2, <2>8
    <3>5. On(gs[j], r, t) /\ gs[j].kind = "begin"
      BY <3>1, <3>2, <3>4
    <3>6. QED
      BY <2>2, <2>8, <3>3, <3>5
  <2>10. D > 0
    BY <1>5 DEF D
  <2>11. \A n \in j..i - 1 :
           E(j, n) \in Nat /\ B(j, n) \in Nat /\ d[n] + E(j, n) = d[j] + B(j, n)
    <3>1. \A n \in j..i - 1 : d[n] > 0
      BY <2>2, <2>7, <2>10
    <3>2. d[j] > 0
      BY <2>6, <3>1
    <3>3. QED
      BY <1>3, <2>6, <3>1, <3>2
  <2>12. ASSUME NEW n \in j..i - 1 PROVE E(j, n) <= B(j, n)
    <3>1. E(j, n) \in Nat /\ B(j, n) \in Nat /\ d[n] + E(j, n) = D + B(j, n)
      BY <2>9, <2>11
    <3>2. d[n] >= D /\ d[n] \in Nat
      BY <2>7
    <3>3. QED
      BY <2>2, <3>1, <3>2
  <2>13. E(j, i - 1) = B(j, i - 1)
    <3>1. /\ E(j, i - 1) \in Nat /\ B(j, i - 1) \in Nat
          /\ d[i - 1] + E(j, i - 1) = D + B(j, i - 1) /\ d[i - 1] = D
      BY <2>6, <2>9, <2>11 DEF D
    <3>2. QED
      BY <2>2, <3>1
  <2>14. QED
    BY <2>6, <2>9, <2>12, <2>13
<1>6. Matched(gs, i) <=> d[i - 1] > 0
  BY <1>1, <1>4, <1>5
<1>7. QED
  BY <1>6 DEF d, r, t

KeptOf(gs, r) == {k \in PlacesOf(gs, r) : gs[k].kind = "end" => Matched(gs, k)}

\* The sort takes the places of what is retained to those of what is kept.
LEMMA RetainedKept ==
    ASSUME NEW S, Fitting(S), NEW gs \in Seq(S), InTime(gs), NEW p, Sorts(p, gs), NEW r,
           NEW i \in PlacesOf(Sorted(gs), r)
    PROVE  p[i] \in PlacesOf(gs, r) /\ (i \notin Unmatched(Sorted(gs)) <=> p[i] \in KeptOf(gs, r))
<1> DEFINE s == Sorted(gs)
           g == gs[p[i]]
           t == g.track
<1>1. /\ Len(gs) \in Nat /\ Len(s) = Len(gs) /\ DOMAIN s = 1..Len(gs)
  BY SortedIs, LenProperties
<1>2. i \in 1..Len(gs) /\ s[i] = g /\ p[i] \in 1..Len(gs) /\ g.realm = r
  BY <1>1 DEF PlacesOf, Sorts, Permutes
<1> HIDE DEF s
<1>3. Cut(gs, p, r, t, i - 1, p[i] - 1)
  <2>1. ASSUME NEW x \in 1..Len(gs), On(gs[p[x]], r, t) PROVE x <= i - 1 <=> p[x] <= p[i] - 1
    <3>1. x < i <=> p[x] < p[i]
      BY <1>2, <2>1, SortClimbs DEF On
    <3>2. p[x] \in 1..Len(gs)
      BY DEF Sorts, Permutes
    <3>3. QED
      BY <1>1, <1>2, <3>1, <3>2
  <2>2. QED
    BY <2>1 DEF Cut
<1>4. Depth(s, r, t)[i - 1] = Depth(gs, r, t)[p[i] - 1]
  <2>1. i - 1 \in 0..Len(gs) /\ p[i] - 1 \in 0..Len(gs)
    BY <1>1, <1>2
  <2>2. QED
    BY <1>3, <2>1, SameDepth DEF s
<1>5. Depth(gs, r, t)[p[i] - 1] > 0 <=> Depth(gs, r, t)[p[i] - 1] # 0
  <2>1. Depth(gs, r, t) \in [0..Len(gs) -> Nat] /\ p[i] - 1 \in 0..Len(gs)
    BY <1>1, <1>2, DepthIs DEF Deepens
  <2>2. Depth(gs, r, t)[p[i] - 1] \in Nat
    BY <2>1
  <2>3. QED
    BY <2>2
<1>6. Matched(gs, p[i]) <=> Depth(gs, r, t)[p[i] - 1] > 0
  BY <1>1, <1>2, MatchedIs
<1>7. i \in Unmatched(s) <=> g.kind = "end" /\ Depth(s, r, t)[i - 1] = 0
  BY <1>1, <1>2 DEF Unmatched
<1>8. p[i] \in PlacesOf(gs, r)
  BY <1>2 DEF PlacesOf
<1>9. QED
  BY <1>4, <1>5, <1>6, <1>7, <1>8 DEF KeptOf, s

\* The way into the trace keeps the order of a realm.
LEMMA RealClimbs ==
    ASSUME NEW S, Fitting(S), \A g \in S : g.name # None, NEW gs \in Seq(S), InTime(gs),
           NEW p, NEW e, NEW w, NEW q, Traced(gs, p, e, w, q), NEW r,
           NEW j \in RealOf(gs, r), NEW k \in RealOf(gs, r), j < k
    PROVE  p[e[q[j]]] < p[e[q[k]]]
<1> DEFINE s == Sorted(gs)
           rep == Repair(s)
           m == Len(Retained(s))
           Y == Emitted(S, s)
           x == q[j]
           y == q[k]
<1>1. rep \in Seq(Y) /\ Fitting(Y)
  BY TraceIs
<1>2. \A a, b \in 1..Len(rep) :
        a < b /\ rep[a].realm = rep[b].realm /\ (a <= m \/ rep[a].track = rep[b].track)
          => rep[a].time <= rep[b].time
  BY RepairInTime
<1>3. /\ x \in 1..m /\ y \in 1..m
      /\ e[x] \in PlacesOf(s, r) /\ e[y] \in PlacesOf(s, r)
  BY RealPlaces
<1>4. /\ Len(s) = Len(gs) /\ m \in Nat /\ Sorts(p, gs) /\ Sorts(q, rep)
      /\ \A a, b \in 1..m : a < b => e[a] < e[b]
      /\ \A a \in 1..m : a \in 1..Len(rep) /\ e[a] \in 1..Len(gs) /\ rep[a] = s[e[a]]
      /\ \A a \in 1..Len(gs) : s[a] = gs[p[a]]
      /\ DOMAIN Events(gs) = 1..Len(rep)
  BY DEF Traced, Climbs
<1>5. j \in 1..Len(rep) /\ k \in 1..Len(rep)
  BY <1>4 DEF RealOf
<1> HIDE DEF s, rep, m, Y
<1>6. /\ e[x] \in 1..Len(gs) /\ e[y] \in 1..Len(gs) /\ x \in 1..Len(rep) /\ y \in 1..Len(rep)
      /\ rep[x] = gs[p[e[x]]] /\ rep[y] = gs[p[e[y]]] /\ rep[x].realm = r /\ rep[y].realm = r
  BY <1>3, <1>4 DEF PlacesOf
<1>7. x < y
  <2>1. x # y
    <3>1. x = y => j = k
      BY <1>4, <1>5 DEF Sorts, Permutes
    <3>2. j \in Nat /\ k \in Nat /\ j # k
      BY <1>1, <1>5, LenProperties
    <3>3. QED
      BY <3>1, <3>2
  <2>2. ~(y < x)
    <3> SUFFICES ASSUME y < x PROVE FALSE
      OBVIOUS
    <3>1. y <= m
      BY <1>3, <1>4
    <3>2. rep[y].time <= rep[x].time
      BY <1>2, <1>6, <3>1
    <3>3. Sorts(q, rep) /\ rep[q[k]].realm = rep[q[j]].realm
      BY <1>4, <1>6
    <3>4. q[k] < q[j] /\ rep[q[k]].time <= rep[q[j]].time
      BY <3>2
    <3> HIDE DEF x, y
    <3>5. k < j
      BY <1>1, <1>5, <3>3, <3>4, SortKeeps
    <3>6. j \in Nat /\ k \in Nat
      BY <1>5
    <3>7. QED
      BY <3>5, <3>6
  <2>3. x \in Nat /\ y \in Nat
    BY <1>3
  <2> HIDE DEF x, y
  <2>4. QED
    BY <2>1, <2>2, <2>3
<1>8. e[x] < e[y]
  BY <1>3, <1>4, <1>7
<1> DEFINE a == e[x]
           b == e[y]
<1>9. /\ a \in 1..Len(gs) /\ b \in 1..Len(gs) /\ a < b /\ gs[p[a]].realm = gs[p[b]].realm
  BY <1>6, <1>8
<1> HIDE DEF a, b
<1>10. p[a] < p[b]
  BY <1>4, <1>9, SortClimbs
<1>11. QED
  BY <1>10 DEF a, b

LEMMA OrderKept ==
    ASSUME NEW S, Fitting(S), \A g \in S : g.name # None, NEW gs \in Seq(S), InTime(gs), NEW r
    PROVE  Subsequence(Events(gs), RealOf(gs, r)) = Subsequence(gs, KeptOf(gs, r))
<1> DEFINE s == Sorted(gs)
           ev == Events(gs)
           I == RealOf(gs, r)
           K == KeptOf(gs, r)
           V == PlacesOf(s, r) \ Unmatched(s)
           M == Cardinality(I)
<1>1. PICK p, e, w, q : Traced(gs, p, e, w, q)
  BY TraceIs
<1>2. /\ Len(gs) \in Nat /\ Sorts(p, gs) /\ Len(s) = Len(gs)
      /\ DOMAIN ev = 1..Len(Repair(s)) /\ Len(Repair(s)) = Len(Retained(s)) + Len(w)
      /\ Len(Retained(s)) \in Nat /\ Len(w) \in Nat
      /\ \A i \in 1..Len(gs) : s[i] = gs[p[i]]
  BY <1>1 DEF Traced
<1> DEFINE c(k) == p[e[q[k]]]
<1>3. /\ \A k \in I : e[q[k]] \in V /\ ev[k] = s[e[q[k]]]
      /\ \A i \in V : \E k \in I : e[q[k]] = i
  BY <1>1, RealPlaces
<1>4. \A j, k \in I : j < k => c(j) < c(k)
  BY <1>1, RealClimbs
<1>5. \A i \in V : p[i] \in K /\ i \in 1..Len(gs)
  BY <1>2, RetainedKept DEF PlacesOf
<1>6. ASSUME NEW x \in K PROVE \E i \in V : p[i] = x
  <2>1. x \in 1..Len(gs) /\ gs[x].realm = r
    BY DEF KeptOf, PlacesOf
  <2>2. PICK i \in 1..Len(gs) : p[i] = x
    BY <1>2, <2>1 DEF Sorts, Permutes
  <2>3. i \in PlacesOf(s, r)
    BY <1>2, <2>1, <2>2 DEF PlacesOf
  <2>4. i \notin Unmatched(s)
    BY <1>2, <2>2, <2>3, RetainedKept
  <2>5. QED
    BY <2>2, <2>3, <2>4
<1>7. I \in SUBSET Nat /\ IsFiniteSet(I)
  <2>1. I \in SUBSET (1..Len(Repair(s))) /\ Len(Repair(s)) \in Nat
    BY <1>2 DEF RealOf
  <2> HIDE DEF I
  <2>2. QED
    BY <2>1, UpToFinite
<1>8. K \in SUBSET Nat /\ IsFiniteSet(K)
  <2>1. K \in SUBSET (1..Len(gs))
    BY DEF KeptOf, PlacesOf
  <2> HIDE DEF K
  <2>2. QED
    BY <1>2, <2>1, UpToFinite
<1>9. \A k \in I : c(k) \in K /\ ev[k] = gs[c(k)]
  BY <1>2, <1>3, <1>5
<1>10. \A x \in K : \E k \in I : c(k) = x
  BY <1>3, <1>6
<1> HIDE DEF I, K, V, c, s, ev
<1>11. PICK f : Climbs(f, Cardinality(I), I) /\ Subsequence(ev, I) = [k \in 1..Cardinality(I) |-> ev[f[k]]]
  BY <1>7, SubsequenceIs
<1>12. M \in Nat
  BY <1>7, FS_CardinalityType
<1>13. /\ f \in [1..M -> I] /\ (\A x \in I : \E k \in 1..M : f[k] = x)
       /\ \A i, j \in 1..M : i < j => f[i] < f[j]
  BY <1>11 DEF Climbs
<1>14. Subsequence(ev, I) = [k \in 1..M |-> ev[f[k]]]
  BY <1>11
<1> HIDE DEF M
<1> DEFINE b == [k \in 1..M |-> c(f[k])]
<1>15. Climbs(b, M, K)
  <2>1. b \in [1..M -> K]
    BY <1>9, <1>13
  <2>2. \A x \in K : \E k \in 1..M : b[k] = x
    BY <1>10, <1>13
  <2>3. \A i, j \in 1..M : i < j => b[i] < b[j]
    BY <1>4, <1>13
  <2> HIDE DEF b
  <2>4. QED
    BY <2>1, <2>2, <2>3 DEF Climbs
<1>16. Subsequence(gs, K) = [k \in 1..M |-> gs[b[k]]]
  <2> HIDE DEF b
  <2>1. QED
    BY <1>8, <1>12, <1>15, SubsequenceAlong
<1>17. \A k \in 1..M : ev[f[k]] = gs[b[k]]
  BY <1>9, <1>13
<1> HIDE DEF b
<1>18. QED
  BY <1>14, <1>16, <1>17 DEF I, K, ev

LEMMA RealmByRealm ==
    ASSUME NEW S, Fitting(S), NEW gs \in Seq(S),
           NEW i \in DOMAIN Events(gs), NEW j \in DOMAIN Events(gs), i < j
    PROVE  Events(gs)[i].realm <= Events(gs)[j].realm
<1> DEFINE rep == Repair(Sorted(gs))
           a == Events(gs)[i]
           b == Events(gs)[j]
<1>1. PICK p, e, w, q : Traced(gs, p, e, w, q)
  BY TraceIs
<1>2. /\ DOMAIN Events(gs) = 1..Len(rep) /\ Sorts(q, rep)
      /\ \A k \in 1..Len(rep) : q[k] \in 1..Len(rep) /\ Events(gs)[k] = rep[q[k]]
  BY <1>1 DEF Traced
<1>3. rep \in Seq(Emitted(S, Sorted(gs))) /\ Fitting(Emitted(S, Sorted(gs)))
  BY TraceIs
<1> HIDE DEF rep
<1>4. i \in 1..Len(rep) /\ j \in 1..Len(rep) /\ a = rep[q[i]] /\ b = rep[q[j]]
  BY <1>2
<1>5. a.realm \in Nat /\ b.realm \in Nat
  <2>1. a \in Emitted(S, Sorted(gs)) /\ b \in Emitted(S, Sorted(gs))
    BY <1>2, <1>3, <1>4, ElementOfSeq
  <2>2. QED
    BY <1>3, <2>1, FittingKeyed DEF Keyed
<1>6. Earlier(a, b) \/ ~Earlier(b, a)
  BY <1>2, <1>4 DEF Sorts, Precedes
<1> HIDE DEF a, b
<1>7. a.realm <= b.realm
  BY <1>5, <1>6 DEF Earlier
<1>8. QED
  BY <1>7 DEF a, b

LEMMA CollectedOrder == Collected => ProducerOrderKept
<1> SUFFICES ASSUME Collected, Finished PROVE ProducerOrderKept
  BY DEF ProducerOrderKept
<1>1. /\ groups \in Seq(Ingested) /\ InTime(groups) /\ events = Events(groups) /\ Fitting(Ingested)
      /\ \A g \in Ingested : g.name # None
  BY IngestedFits DEF Collected, Left
<1>2. ASSUME NEW r \in Realms PROVE Subsequence(events, Real(r)) = Subsequence(groups, Kept(r))
  <2>1. Kept(r) = KeptOf(groups, r)
    <3>1. DOMAIN groups = 1..Len(groups)
      BY <1>1, LenProperties
    <3>2. QED
      BY <3>1 DEF Kept, KeptOf, Arrivals, PlacesOf
  <2>2. Real(r) = RealOf(groups, r)
    BY <1>1 DEF Real, RealOf
  <2>3. Subsequence(Events(groups), RealOf(groups, r)) = Subsequence(groups, KeptOf(groups, r))
    BY <1>1, OrderKept
  <2>4. QED
    BY <1>1, <2>1, <2>2, <2>3
<1>3. \A i, j \in DOMAIN events : i < j => events[i].realm <= events[j].realm
  BY <1>1, RealmByRealm
<1>4. QED
  BY <1>2, <1>3 DEF ProducerOrderKept

(***************************************************************************)
(* The trace holds what each producer sent, in its order, without the ends *)
(* that match no begin, realm after realm (ProducerOrderKept).             *)
(***************************************************************************)
THEOREM TraceIsWhatWasSent == Spec => []ProducerOrderKept
  BY CollectedOrder, AlwaysCollected, PTL

-----------------------------------------------------------------------------
(***************************************************************************)
(* What is registered, and what finish() has found of it.                  *)
(***************************************************************************)
OneClock(samples) == \A k \in 1..Len(samples) : samples[k].clock = samples[1].clock

Registers ==
    /\ DOMAIN realms \subseteq Realms
    /\ \A r \in DOMAIN realms : realms[r].rate \in Nat \ {0}
    /\ DOMAIN metadata \subseteq Names
    /\ DOMAIN calibrations = Realms
    /\ \A r \in Realms : calibrations[r] \in Seq(Samples[r]) /\ OneClock(calibrations[r])

Passed == References /\ Fittable /\ Indexed(reported) /\ Emittable(events) /\ Reported(reported)

Checked == Registers /\ (Finished => Passed)

LEMMA InitChecked == Init => Checked
<1> SUFFICES ASSUME Init PROVE Checked
  OBVIOUS
<1>1. DOMAIN realms = {} /\ DOMAIN metadata = {} /\ ~Finished
  BY DEF Init, Absent, Finished
<1>2. DOMAIN calibrations = Realms /\ \A r \in Realms : calibrations[r] = <<>>
  BY DEF Init
<1>3. \A r \in Realms : calibrations[r] \in Seq(Samples[r]) /\ OneClock(calibrations[r])
  <2>1. \A r \in Realms : <<>> \in Seq(Samples[r])
    BY EmptySeq
  <2>2. OneClock(<<>>)
    BY DEF OneClock
  <2> HIDE DEF OneClock
  <2>3. QED
    BY <1>2, <2>1, <2>2
<1>4. QED
  BY <1>1, <1>2, <1>3 DEF Checked, Registers

LEMMA ExtendIs ==
    ASSUME NEW f, NEW x, NEW v
    PROVE  DOMAIN Extend(f, x, v) = DOMAIN f \union {x}
  BY DEF Extend

LEMMA CalibrationRegisters ==
    ASSUME Registers, NEW r \in Realms, NEW s \in Samples[r], AddCalibration(r, s)
    PROVE  Registers'
<1> DEFINE c == calibrations[r]
<1>1. /\ c \in Seq(Samples[r]) /\ OneClock(c) /\ Monotonic(c, s)
      /\ calibrations' = [calibrations EXCEPT ![r] = Append(c, s)]
      /\ realms' = realms /\ metadata' = metadata
  BY DEF Registers, AddCalibration
<1>2. DOMAIN calibrations' = Realms /\ \A q \in Realms : q # r => calibrations'[q] = calibrations[q]
  BY <1>1 DEF Registers
<1>3. calibrations'[r] = Append(c, s)
  BY <1>1 DEF Registers
<1> HIDE DEF c
<1>4. /\ Append(c, s) \in Seq(Samples[r]) /\ Len(c) \in Nat /\ Len(Append(c, s)) = Len(c) + 1
      /\ \A k \in 1..Len(c) : Append(c, s)[k] = c[k]
      /\ Append(c, s)[Len(c) + 1] = s
  BY <1>1, AppendProperties, LenProperties
<1>5. OneClock(Append(c, s))
  <2>1. CASE Len(c) = 0
    BY <1>4, <2>1 DEF OneClock
  <2>2. CASE Len(c) # 0
    <3>1. c # <<>>
      BY <2>2, EmptySeq
    <3>2. 1 \in 1..Len(c) /\ Len(c) \in 1..Len(c)
      BY <1>4, <2>2
    <3>3. c[Len(c)].clock = s.clock /\ c[Len(c)].clock = c[1].clock
      BY <1>1, <3>1, <3>2 DEF Monotonic, OneClock
    <3>4. \A k \in 1..Len(c) : c[k].clock = c[1].clock
      BY <1>1 DEF OneClock
    <3>5. \A k \in 1..Len(c) + 1 : k \in 1..Len(c) \/ k = Len(c) + 1
      BY <1>4
    <3>6. QED
      BY <1>4, <3>2, <3>3, <3>4, <3>5 DEF OneClock
  <2>3. QED
    BY <2>1, <2>2
<1>6. QED
  BY <1>1, <1>2, <1>3, <1>4, <1>5 DEF Registers, OneClock

LEMMA NextChecked == Checked /\ [Next]_vars => Checked'
<1> SUFFICES ASSUME Checked, [Next]_vars PROVE Checked'
  OBVIOUS
<1>1. ASSUME registry' = registry PROVE Registers'
  BY <1>1 DEF Checked, Registers, registry, OneClock
<1>2. ASSUME status' = "open" PROVE Finished' => Passed'
  BY <1>2 DEF Finished
<1>3. ASSUME NEW r \in Realms, NEW d \in RealmDefs, RegisterRealm(r, d) PROVE Checked'
  <2>1. /\ realms' = Extend(realms, r, d) /\ d.rate # 0 /\ d.rate \in Nat
        /\ metadata' = metadata /\ calibrations' = calibrations /\ status' = "open"
    BY <1>3, PacketsAssumption DEF RegisterRealm, result
  <2>2. DOMAIN realms' = DOMAIN realms \union {r}
    BY <2>1, ExtendIs
  <2>3. \A q \in DOMAIN realms' : realms'[q] = IF q = r THEN d ELSE realms[q]
    <3>1. realms' = [y \in DOMAIN realms \union {r} |-> IF y = r THEN d ELSE realms[y]]
      BY <2>1 DEF Extend
    <3>2. QED
      BY <3>1
  <2>4. Registers'
    BY <2>1, <2>2, <2>3 DEF Checked, Registers, OneClock
  <2>5. QED
    BY <1>2, <2>1, <2>4 DEF Checked
<1>4. ASSUME NEW n \in Names, NEW label \in Labels, RegisterMetadata(n, label) PROVE Checked'
  <2>1. /\ metadata' = Extend(metadata, n, label)
        /\ realms' = realms /\ calibrations' = calibrations /\ status' = "open"
    BY <1>4 DEF RegisterMetadata, result
  <2>2. DOMAIN metadata' = DOMAIN metadata \union {n}
    BY <2>1, ExtendIs
  <2>3. Registers'
    BY <2>1, <2>2 DEF Checked, Registers, OneClock
  <2>4. QED
    BY <1>2, <2>1, <2>3 DEF Checked
<1>5. ASSUME NEW r \in Realms, NEW s \in Samples[r], AddCalibration(r, s) PROVE Checked'
  <2>1. status' = "open"
    BY <1>5 DEF AddCalibration, result
  <2>2. QED
    BY <1>2, <1>5, <2>1, CalibrationRegisters DEF Checked
<1>6. ASSUME NEW r \in HealthOf, (\E n \in RepairsSet : SetHealth(r, n)) \/ SetTransportHealth(r)
      PROVE  Checked'
  <2>1. registry' = registry /\ status' = "open"
    BY <1>6 DEF SetHealth, SetTransportHealth, result
  <2>2. QED
    BY <1>1, <1>2, <2>1 DEF Checked
<1>7. ASSUME NEW r \in Realms, NEW b \in Batches(r), IngestBatch(r, b) PROVE Checked'
  <2>1. registry' = registry /\ status' = "open"
    BY <1>7 DEF IngestBatch, result
  <2>2. QED
    BY <1>1, <1>2, <2>1 DEF Checked
<1>8. ASSUME Finish PROVE Checked'
  <2> DEFINE outcome == Outcome(Events(groups), RepairedHealth)
  <2>1. /\ registry' = registry /\ groups' = groups /\ status' = outcome
        /\ outcome = "finished" => events' = Events(groups) /\ reported' = RepairedHealth
    BY <1>8 DEF Finish
  <2>2. realms' = realms /\ metadata' = metadata /\ calibrations' = calibrations
    BY <2>1 DEF registry
  <2>3. ASSUME outcome = "finished" PROVE Passed'
    <3>1. /\ References /\ Fittable /\ Indexed(RepairedHealth)
          /\ Emittable(Events(groups)) /\ Reported(RepairedHealth)
      BY <2>3 DEF Outcome
    <3>2. References' /\ Fittable'
      BY <2>1, <2>2, <3>1 DEF References, Referenced, Fittable, Calibrated
    <3>3. Indexed(reported)' /\ Reported(reported)'
      BY <2>1, <2>2, <2>3, <3>1 DEF Indexed, Reported, Calibrated
    <3>4. Emittable(events)'
      BY <2>1, <2>2, <2>3, <3>1 DEF Emittable
    <3>5. QED
      BY <3>2, <3>3, <3>4 DEF Passed
  <2>4. Finished' => outcome = "finished"
    BY <2>1 DEF Finished
  <2> HIDE DEF outcome
  <2>5. QED
    BY <1>1, <2>1, <2>3, <2>4 DEF Checked
<1>9. ASSUME UNCHANGED vars PROVE Checked'
  <2>1. /\ realms' = realms /\ metadata' = metadata /\ calibrations' = calibrations
        /\ groups' = groups /\ reported' = reported /\ health' = health /\ status' = status /\ events' = events
    BY <1>9 DEF vars, registry, result
  <2>2. Registers'
    BY <1>1, <2>1 DEF registry
  <2>3. Finished => Passed' \/ ~Passed
    BY <2>1 DEF Passed, References, Referenced, Fittable, Calibrated, Indexed, Reported, Emittable
  <2>4. Finished' = Finished
    BY <2>1 DEF Finished
  <2>5. QED
    BY <2>2, <2>3, <2>4 DEF Checked
<1>10. QED
  BY <1>3, <1>4, <1>5, <1>6, <1>7, <1>8, <1>9 DEF Next

LEMMA AlwaysChecked == Spec => []Checked
  BY InitChecked, NextChecked, PTL DEF Spec

-----------------------------------------------------------------------------
(***************************************************************************)
(* Where an event comes from.                                              *)
(***************************************************************************)
LEMMA EventSource ==
    ASSUME Collected, Finished
    PROVE  /\ Len(events) \in Nat /\ DOMAIN events = 1..Len(events)
           /\ \A k \in DOMAIN events :
                /\ events[k].track \in Tracks
                /\ \E i \in DOMAIN groups :
                     events[k].realm = groups[i].realm /\ events[k].clock = groups[i].clock
<1> DEFINE s == Sorted(groups)
<1>1. groups \in Seq(Ingested) /\ Fitting(Ingested) /\ events = Events(groups)
  BY IngestedFits DEF Collected, Left
<1>2. DOMAIN groups = 1..Len(groups)
  BY <1>1, LenProperties
<1>3. s \in Seq(Ingested) /\ Len(s) = Len(groups)
  BY <1>1, SortedIs
<1>4. PICK p : Sorts(p, groups)
  BY <1>1, SortedIs
<1>5. \A i \in 1..Len(s) : p[i] \in 1..Len(groups) /\ s[i] = groups[p[i]]
  BY <1>3, <1>4 DEF Sorts, Permutes
<1>6. \E a, e, w, q : Traced(groups, a, e, w, q)
  BY <1>1, TraceIs
<1>7. Len(events) \in Nat /\ DOMAIN events = 1..Len(events)
  BY <1>1, <1>6 DEF Traced
<1> HIDE DEF s
<1>8. ASSUME NEW k \in DOMAIN events
      PROVE  /\ events[k].track \in Tracks
             /\ \E i \in DOMAIN groups :
                  events[k].realm = groups[i].realm /\ events[k].clock = groups[i].clock
  <2>1. \/ \E i \in 1..Len(groups) : events[k] = groups[i]
        \/ \E o \in Open(s) : events[k] = SyntheticEnd(s, o)
    BY <1>1, EventIs DEF s
  <2>2. CASE \E i \in 1..Len(groups) : events[k] = groups[i]
    <3>1. PICK i \in 1..Len(groups) : events[k] = groups[i]
      BY <2>2
    <3>2. groups[i] \in Ingested
      BY <1>1, ElementOfSeq
    <3>3. groups[i].track \in Tracks
      BY <1>1, <3>2 DEF Fitting, Fits
    <3>4. QED
      BY <1>2, <3>1, <3>3
  <2>3. CASE \E o \in Open(s) : events[k] = SyntheticEnd(s, o)
    <3>1. PICK o \in Open(s) : events[k] = SyntheticEnd(s, o)
      BY <2>3
    <3>2. o[2] \in Tracks /\ \E i \in 1..Len(s) : s[i].realm = o[1] /\ LastOf(s, o[1]) = s[i]
      BY <1>1, <1>3, OpenIs
    <3>3. PICK i \in 1..Len(s) : s[i].realm = o[1] /\ LastOf(s, o[1]) = s[i]
      BY <3>2
    <3>4. p[i] \in DOMAIN groups /\ s[i] = groups[p[i]]
      BY <1>2, <1>5
    <3>5. events[k].realm = o[1] /\ events[k].track = o[2] /\ events[k].clock = LastOf(s, o[1]).clock
      BY <3>1 DEF SyntheticEnd
    <3>6. QED
      BY <3>2, <3>3, <3>4, <3>5
  <2>4. QED
    BY <2>1, <2>2, <2>3
<1>9. QED
  BY <1>7, <1>8

LEMMA CalibratedIs ==
    ASSUME Registers, NEW r \in Calibrated
    PROVE  /\ r \in Realms /\ r \in Nat
           /\ calibrations[r] \in Seq(Samples[r]) /\ Len(calibrations[r]) \in Nat \ {0}
           /\ DOMAIN calibrations[r] = 1..Len(calibrations[r])
           /\ \A k \in DOMAIN calibrations[r] :
                /\ calibrations[r][k] \in Samples[r]
                /\ calibrations[r][k].clock = calibrations[r][1].clock
<1>1. r \in Realms /\ r \in Nat /\ calibrations[r] # <<>>
  BY CollectorAssumption DEF Calibrated
<1>2. calibrations[r] \in Seq(Samples[r]) /\ OneClock(calibrations[r])
  BY <1>1 DEF Registers
<1>3. Len(calibrations[r]) \in Nat \ {0} /\ DOMAIN calibrations[r] = 1..Len(calibrations[r])
  BY <1>1, <1>2, LenProperties, EmptySeq
<1>4. \A k \in 1..Len(calibrations[r]) : calibrations[r][k] \in Samples[r]
  BY <1>2, ElementOfSeq
<1>5. QED
  BY <1>1, <1>2, <1>3, <1>4 DEF OneClock

\* The realms of the health that finish() would write.
LEMMA HealthRealms ==
    ASSUME Collected
    PROVE  DOMAIN health \subseteq DOMAIN RepairedHealth
           /\ DOMAIN RepairedHealth \subseteq Used
<1>1. groups \in Seq(Ingested) /\ Fitting(Ingested)
  BY IngestedFits DEF Collected
<1>2. DOMAIN groups = 1..Len(groups)
  BY <1>1, LenProperties
<1>3. DOMAIN RepairedHealth = DOMAIN health \union {r \in Realms : Repairs(Sorted(groups), r) > 0}
  BY DEF RepairedHealth
<1>4. ASSUME NEW r \in Realms, Repairs(Sorted(groups), r) > 0 PROVE r \in Used
  <2>1. \E i \in 1..Len(groups) : groups[i].realm = r
    BY <1>1, <1>4, OpenGroups
  <2>2. QED
    BY <1>2, <2>1 DEF Used
<1>5. QED
  BY <1>3, <1>4 DEF Used

LEMMA CollectedForCause == Collected /\ Checked => LostForCause
<1> DEFINE Clocked(k) == \A i \in DOMAIN calibrations[groups[k].realm] :
                            calibrations[groups[k].realm][i].clock = groups[k].clock
           Labelled(k) == LookedUp(groups[k]) \subseteq DOMAIN metadata
           Complete == /\ Used # {} /\ Used \subseteq Known
                       /\ \A k \in DOMAIN groups : Clocked(k) /\ Labelled(k)
<1> SUFFICES ASSUME Collected, Checked, status # "open" PROVE Finished <=> Complete
  BY DEF LostForCause
<1>1. status = Outcome(Events(groups), RepairedHealth)
  BY DEF Collected, Left
<1>2. Registers
  BY DEF Checked
<1>3. \A r \in Calibrated : calibrations[r] # <<>> /\ 1 \in DOMAIN calibrations[r]
        /\ \A i \in DOMAIN calibrations[r] : calibrations[r][i].clock = calibrations[r][1].clock
  <2>1. ASSUME NEW r \in Calibrated PROVE 1 \in DOMAIN calibrations[r]
    BY <1>2, CalibratedIs
  <2>2. QED
    BY <1>2, <2>1, CalibratedIs DEF Calibrated
<1>4. \A k \in DOMAIN groups : groups[k].realm \in Used
  BY DEF Used
<1>5. ASSUME NEW k \in DOMAIN groups, groups[k].realm \in Calibrated
      PROVE  Clocked(k) <=> calibrations[groups[k].realm][1].clock = groups[k].clock
  BY <1>3, <1>5
<1>6. \A k \in DOMAIN groups : Labelled(k) <=> Mentions(groups[k]) \subseteq DOMAIN metadata
  BY AskedIsLookedUp
<1>7. \A k \in DOMAIN groups : groups[k].realm \in Realms
  <2>1. groups \in Seq(Ingested) /\ DOMAIN groups = 1..Len(groups)
    BY LenProperties DEF Collected
  <2>2. ASSUME NEW k \in DOMAIN groups PROVE groups[k].realm \in Realms
    <3>1. groups[k] \in Ingested
      BY <2>1, ElementOfSeq
    <3>2. QED
      BY <3>1 DEF Ingested, EventGroup
  <2>3. QED
    BY <2>2
<1> HIDE DEF Clocked, Labelled
<1>8. ASSUME Finished PROVE Complete
  <2>1. References /\ Fittable /\ Indexed(RepairedHealth) /\ Reported(RepairedHealth)
    BY <1>1, <1>8 DEF Finished, Outcome
  <2>2. \A k \in DOMAIN groups : groups[k].realm \in Calibrated
    BY <1>7, <2>1 DEF References, Referenced, Calibrated
  <2>3. DOMAIN health \subseteq Calibrated
    BY <2>1, HealthRealms DEF Reported
  <2>4. Used = Calibrated /\ Calibrated # {} /\ Calibrated \subseteq DOMAIN realms
    BY <2>1, <2>2, <2>3 DEF Used, Fittable
  <2>5. \A k \in DOMAIN groups : Clocked(k) /\ Labelled(k)
    BY <1>5, <1>6, <2>1, <2>2 DEF References, Referenced
  <2>6. QED
    BY <2>4, <2>5 DEF Known
<1>9. ASSUME Complete PROVE Finished
  <2>1. Used = Calibrated /\ Calibrated # {} /\ Calibrated \subseteq DOMAIN realms
    BY <1>9 DEF Used, Known
  <2>2. References
    <3>1. ASSUME NEW k \in DOMAIN groups PROVE Referenced(groups[k])
      <4>1. groups[k].realm \in Calibrated /\ groups[k].realm \in DOMAIN realms
        BY <1>4, <2>1
      <4>2. calibrations[groups[k].realm] # <<>>
        BY <1>3, <4>1
      <4>3. Clocked(k) /\ Labelled(k)
        BY <1>9
      <4>4. QED
        BY <1>5, <1>6, <4>1, <4>2, <4>3 DEF Referenced
    <3>2. QED
      BY <3>1 DEF References
  <2>3. Fittable
    BY <2>1 DEF Fittable
  <2>4. Indexed(RepairedHealth) /\ Reported(RepairedHealth)
    BY <2>1, HealthRealms DEF Indexed, Reported
  <2>5. Emittable(Events(groups))
    BY <2>2, CollectedSuffices
  <2>6. QED
    BY <1>1, <2>2, <2>3, <2>4, <2>5 DEF Finished, Outcome
<1>10. QED
  BY <1>8, <1>9

(***************************************************************************)
(* finish() returns the trace when, and only when, every realm it has      *)
(* heard of is registered and sampled, by the clock of its groups, and     *)
(* every label is there (LostForCause): no capture is lost for what the    *)
(* repair takes away, adds or reports.                                     *)
(***************************************************************************)
THEOREM LossHasCause == Spec => []LostForCause
  BY CollectedForCause, AlwaysCollected, AlwaysChecked, PTL

\* The events of a finished trace, and the realms with health.
LEMMA EventKnown ==
    ASSUME Collected, Checked, Finished
    PROVE  /\ Len(events) \in Nat /\ DOMAIN events = 1..Len(events)
           /\ \A k \in DOMAIN events :
                /\ events[k].realm \in Calibrated
                /\ TrackOf(events[k]) \in Nat
                /\ k \in Counters => events[k].name \in Nat
                /\ calibrations[events[k].realm][1].clock = events[k].clock
           /\ DOMAIN reported \subseteq Calibrated
<1>1. Registers /\ References /\ Emittable(events) /\ Reported(reported)
  BY DEF Checked, Passed
<1>2. Len(events) \in Nat /\ DOMAIN events = 1..Len(events)
  BY EventSource
<1>3. DOMAIN reported \subseteq Calibrated
  BY <1>1 DEF Reported
<1>4. DOMAIN metadata \subseteq Nat
  BY <1>1, PacketsAssumption DEF Registers
<1>5. ASSUME NEW k \in DOMAIN events
      PROVE  /\ events[k].realm \in Calibrated
             /\ calibrations[events[k].realm][1].clock = events[k].clock
  <2>1. PICK i \in DOMAIN groups :
          events[k].realm = groups[i].realm /\ events[k].clock = groups[i].clock
    BY EventSource
  <2>2. /\ groups[i].realm \in DOMAIN realms
        /\ calibrations[groups[i].realm] # <<>> /\ calibrations[groups[i].realm][1].clock = groups[i].clock
    BY <1>1 DEF References, Referenced
  <2>3. groups[i].realm \in Realms
    BY <1>1, <2>2 DEF Registers
  <2>4. QED
    BY <2>1, <2>2, <2>3 DEF Calibrated
<1>6. ASSUME NEW k \in DOMAIN events PROVE TrackOf(events[k]) \in Nat
  <2>1. events[k].track \in Nat
    BY EventSource, CollectorAssumption
  <2>2. QED
    BY <2>1 DEF TrackOf
<1>7. ASSUME NEW k \in Counters PROVE events[k].name \in Nat
  <2>1. k \in DOMAIN events /\ events[k].kind = "counter"
    BY DEF Counters
  <2>2. events[k].name \in LookedUp(events[k])
    BY <2>1 DEF LookedUp
  <2>3. LookedUp(events[k]) \subseteq DOMAIN metadata
    BY <1>1, <2>1 DEF Emittable
  <2>4. QED
    BY <1>4, <2>2, <2>3
<1>8. QED
  BY <1>2, <1>3, <1>5, <1>6, <1>7

-----------------------------------------------------------------------------
(***************************************************************************)
(* The lists of the packets: every member of a finite set of tuples, once. *)
(***************************************************************************)
LexOn(S) == {c \in S \X S : Lexical(c[1], c[2])}

LEMMA InOrderLists ==
    ASSUME NEW S, IsFiniteSet(S), TotalOrder(S, LexOn(S))
    PROVE  /\ Cardinality(S) \in Nat /\ DOMAIN InOrder(S) = 1..Cardinality(S)
           /\ \A k \in DOMAIN InOrder(S) : InOrder(S)[k] \in S
           /\ \A x \in S : \E k \in DOMAIN InOrder(S) : InOrder(S)[k] = x
<1> DEFINE N == Cardinality(S)
           R == LexOn(S)
           nth(k) == CHOOSE x \in S : Cardinality({y \in S : Lexical(y, x)}) = k - 1
           f == [k \in 1..N |-> nth(k)]
<1>1. \A x, y \in S : <<y, x>> \in R <=> Lexical(y, x)
  BY DEF LexOn
<1>2. InOrder(S) = f
  BY DEF InOrder, Ordered
<1> HIDE DEF R
<1>3. Picks(f, S, R)
  <2>1. \A x \in S : Below(S, R, x) = {y \in S : Lexical(y, x)}
    BY <1>1 DEF Below
  <2>2. DOMAIN f = 1..N /\ f = [k \in DOMAIN f |-> f[k]]
    <3> HIDE DEF nth
    <3>1. QED
      OBVIOUS
  <2>3. ASSUME NEW k \in 1..N, NEW x \in S, Cardinality(Below(S, R, x)) = k - 1
        PROVE  f[k] \in S /\ Cardinality(Below(S, R, f[k])) = k - 1
    <3>1. Cardinality({y \in S : Lexical(y, x)}) = k - 1
      BY <2>1, <2>3
    <3>2. f[k] = CHOOSE z \in S : Cardinality({y \in S : Lexical(y, z)}) = k - 1
      OBVIOUS
    <3> HIDE DEF f, nth
    <3>3. f[k] \in S /\ Cardinality({y \in S : Lexical(y, f[k])}) = k - 1
      BY <3>1, <3>2
    <3>4. QED
      BY <2>1, <3>3
  <2> HIDE DEF f, nth
  <2>4. QED
    BY <2>2, <2>3 DEF Picks
<1> HIDE DEF f, nth
<1>4. N \in Nat /\ Lists(f, N, S, R)
  <2>1. TotalOrder(S, R)
    BY DEF R
  <2>2. f = InOrderOf(S, R)
    BY <1>3, <2>1, OrderIs
  <2>3. QED
    BY <2>1, <2>2, OrderLists
<1>5. f \in [1..N -> S] /\ \A x \in S : \E k \in 1..N : f[k] = x
  BY <1>4 DEF Lists
<1>6. QED
  BY <1>2, <1>4, <1>5

LEMMA PairsOrdered ==
    ASSUME NEW S \in SUBSET (Nat \X Nat)
    PROVE  TotalOrder(S, LexOn(S))
<1> DEFINE Before(y, x) == y[1] < x[1] \/ (y[1] = x[1] /\ y[2] < x[2])
<1>1. \A x \in S : x[1] \in Int /\ x[2] \in Int /\ x = <<x[1], x[2]>> /\ DOMAIN x = {1, 2}
  OBVIOUS
<1>2. ASSUME NEW x \in S, NEW y \in S PROVE <<y, x>> \in LexOn(S) <=> Before(y, x)
  <2>1. <<y, x>> \in LexOn(S) <=> \E i \in {1, 2} : y[i] < x[i] /\ \A j \in 1..i - 1 : y[j] = x[j]
    BY <1>1 DEF LexOn, Lexical
  <2>2. 1..1 - 1 = {} /\ 1..2 - 1 = {1}
    OBVIOUS
  <2>3. QED
    BY <2>1, <2>2
<1>3. \A x, y \in S : <<x, y>> \in LexOn(S) => <<y, x>> \notin LexOn(S)
  BY <1>1, <1>2
<1>4. ASSUME NEW x \in S, NEW y \in S, NEW z \in S, <<x, y>> \in LexOn(S), <<y, z>> \in LexOn(S)
      PROVE  <<x, z>> \in LexOn(S)
  <2>1. Before(x, y) /\ Before(y, z)
    BY <1>2, <1>4
  <2>2. x[1] \in Int /\ x[2] \in Int /\ y[1] \in Int /\ y[2] \in Int /\ z[1] \in Int /\ z[2] \in Int
    BY <1>1
  <2>3. Before(x, z)
    BY ONLY <2>1, <2>2
  <2>4. QED
    BY <1>2, <2>3
<1>5. ASSUME NEW x \in S, NEW y \in S
      PROVE  x = y \/ <<x, y>> \in LexOn(S) \/ <<y, x>> \in LexOn(S)
  <2>1. /\ x[1] \in Int /\ x[2] \in Int /\ y[1] \in Int /\ y[2] \in Int
        /\ x = <<x[1], x[2]>> /\ y = <<y[1], y[2]>>
    BY <1>1
  <2>2. (x[1] = y[1] /\ x[2] = y[2]) \/ Before(x, y) \/ Before(y, x)
    BY ONLY <2>1
  <2>3. QED
    BY <1>2, <2>1, <2>2
<1>6. QED
  BY <1>3, <1>4, <1>5 DEF TotalOrder

LEMMA TriplesOrdered ==
    ASSUME NEW S \in SUBSET (Nat \X Nat \X Nat)
    PROVE  TotalOrder(S, LexOn(S))
<1> DEFINE Before(y, x) ==
              \/ y[1] < x[1]
              \/ y[1] = x[1] /\ y[2] < x[2]
              \/ y[1] = x[1] /\ y[2] = x[2] /\ y[3] < x[3]
<1>1. \A x \in S : /\ x[1] \in Int /\ x[2] \in Int /\ x[3] \in Int
                   /\ x = <<x[1], x[2], x[3]>> /\ DOMAIN x = {1, 2, 3}
  OBVIOUS
<1>2. ASSUME NEW x \in S, NEW y \in S PROVE <<y, x>> \in LexOn(S) <=> Before(y, x)
  <2>1. <<y, x>> \in LexOn(S) <=> \E i \in {1, 2, 3} : y[i] < x[i] /\ \A j \in 1..i - 1 : y[j] = x[j]
    BY <1>1 DEF LexOn, Lexical
  <2>2. 1..1 - 1 = {} /\ 1..2 - 1 = {1} /\ 1..3 - 1 = {1, 2}
    OBVIOUS
  <2>3. QED
    BY <2>1, <2>2
<1>3. \A x, y \in S : <<x, y>> \in LexOn(S) => <<y, x>> \notin LexOn(S)
  BY <1>1, <1>2
<1>4. ASSUME NEW x \in S, NEW y \in S, NEW z \in S, <<x, y>> \in LexOn(S), <<y, z>> \in LexOn(S)
      PROVE  <<x, z>> \in LexOn(S)
  <2>1. Before(x, y) /\ Before(y, z)
    BY <1>2, <1>4
  <2>2. /\ x[1] \in Int /\ x[2] \in Int /\ x[3] \in Int /\ y[1] \in Int /\ y[2] \in Int
        /\ y[3] \in Int /\ z[1] \in Int /\ z[2] \in Int /\ z[3] \in Int
    BY <1>1
  <2>3. Before(x, z)
    BY ONLY <2>1, <2>2
  <2>4. QED
    BY <1>2, <2>3
<1>5. ASSUME NEW x \in S, NEW y \in S
      PROVE  x = y \/ <<x, y>> \in LexOn(S) \/ <<y, x>> \in LexOn(S)
  <2>1. /\ x[1] \in Int /\ x[2] \in Int /\ x[3] \in Int /\ y[1] \in Int /\ y[2] \in Int
        /\ y[3] \in Int /\ x = <<x[1], x[2], x[3]>> /\ y = <<y[1], y[2], y[3]>>
    BY <1>1
  <2>2. (x[1] = y[1] /\ x[2] = y[2] /\ x[3] = y[3]) \/ Before(x, y) \/ Before(y, x)
    BY ONLY <2>1
  <2>3. QED
    BY <1>2, <2>1, <2>2
<1>6. QED
  BY <1>3, <1>4, <1>5 DEF TotalOrder

-----------------------------------------------------------------------------
\* The realms of a BTreeMap.
Rising(S) == Ordered(S, <)

LEMMA NumbersListed ==
    ASSUME NEW S \in SUBSET Nat, IsFiniteSet(S)
    PROVE  /\ Cardinality(S) \in Nat /\ DOMAIN Rising(S) = 1..Cardinality(S)
           /\ \A k \in DOMAIN Rising(S) : Rising(S)[k] \in S
<1> DEFINE N == Cardinality(S)
           nth(k) == CHOOSE x \in S : Cardinality({y \in S : y < x}) = k - 1
           f == [k \in 1..N |-> nth(k)]
<1>1. TotalOrder(S, Less) /\ \A x \in S : Below(S, Less, x) = {y \in S : y < x}
  BY LessOrders
<1>2. Rising(S) = f
  BY DEF Rising, Ordered
<1>3. Picks(f, S, Less)
  <2>1. DOMAIN f = 1..N /\ f = [k \in DOMAIN f |-> f[k]]
    <3> HIDE DEF nth
    <3>1. QED
      OBVIOUS
  <2>2. ASSUME NEW k \in 1..N, NEW x \in S, Cardinality(Below(S, Less, x)) = k - 1
        PROVE  f[k] \in S /\ Cardinality(Below(S, Less, f[k])) = k - 1
    <3>1. Cardinality({y \in S : y < x}) = k - 1
      BY <1>1, <2>2
    <3>2. f[k] = CHOOSE z \in S : Cardinality({y \in S : y < z}) = k - 1
      OBVIOUS
    <3> HIDE DEF f, nth
    <3>3. f[k] \in S /\ Cardinality({y \in S : y < f[k]}) = k - 1
      BY <3>1, <3>2
    <3>4. QED
      BY <1>1, <3>3
  <2> HIDE DEF f, nth
  <2>3. QED
    BY <2>1, <2>2 DEF Picks
<1> HIDE DEF f, nth
<1>4. N \in Nat /\ Lists(f, N, S, Less)
  <2>1. f = InOrderOf(S, Less)
    BY <1>1, <1>3, OrderIs
  <2>2. QED
    BY <1>1, <2>1, OrderLists
<1>5. f \in [1..N -> S]
  BY <1>4 DEF Lists
<1>6. QED
  BY <1>2, <1>4, <1>5

LEMMA ImageFinite ==
    ASSUME NEW S, IsFiniteSet(S), NEW f
    PROVE  IsFiniteSet({f[x] : x \in S})
<1> DEFINE T == {f[x] : x \in S}
           g == [x \in S |-> f[x]]
<1>1. g \in Surjection(S, T)
  BY DEF Surjection
<1> HIDE DEF g, T
<1>2. IsFiniteSet(T)
  BY <1>1, FS_Surjection
<1>3. QED
  BY <1>2 DEF T

\* The places of the samples.
SamplePlaces == UNION {{<<r, k>> : k \in DOMAIN calibrations[r]} : r \in Calibrated}

LEMMA SamplesListed ==
    ASSUME Registers
    PROVE  /\ SamplesInOrder = InOrder(SamplePlaces)
           /\ \A p : p \in SamplePlaces <=>
                p = <<p[1], p[2]>> /\ p[1] \in Calibrated /\ p[2] \in DOMAIN calibrations[p[1]]
           /\ \E s \in Nat :
                /\ DOMAIN SamplesInOrder = 1..s
                /\ \A n \in 1..s : SamplesInOrder[n] \in SamplePlaces
                /\ \A p \in SamplePlaces : \E n \in 1..s : SamplesInOrder[n] = p
<1> DEFINE Places(r) == {<<r, k>> : k \in DOMAIN calibrations[r]}
           all == [r \in Calibrated |-> Places(r)]
<1>1. SamplesInOrder = InOrder(SamplePlaces)
  BY DEF SamplesInOrder, SamplePlaces
<1>2. \A p : p \in SamplePlaces <=>
        p = <<p[1], p[2]>> /\ p[1] \in Calibrated /\ p[2] \in DOMAIN calibrations[p[1]]
  BY DEF SamplePlaces
<1>3. SamplePlaces \in SUBSET (Nat \X Nat)
  <2>1. ASSUME NEW p \in SamplePlaces PROVE p \in Nat \X Nat
    <3>1. p = <<p[1], p[2]>> /\ p[1] \in Calibrated /\ p[2] \in DOMAIN calibrations[p[1]]
      BY <1>2
    <3>2. p[1] \in Nat /\ p[2] \in Nat
      BY <3>1, CalibratedIs
    <3>3. QED
      BY <3>1, <3>2
  <2>2. QED
    BY <2>1
<1>4. IsFiniteSet(SamplePlaces)
  <2>1. IsFiniteSet(Calibrated)
    BY CollectorAssumption, FS_Subset DEF Calibrated
  <2>2. ASSUME NEW r \in Calibrated PROVE IsFiniteSet(Places(r))
    <3> DEFINE f == [k \in DOMAIN calibrations[r] |-> <<r, k>>]
    <3>1. IsFiniteSet(DOMAIN calibrations[r])
      BY CalibratedIs, FS_Interval
    <3>2. Places(r) = {f[k] : k \in DOMAIN calibrations[r]}
      OBVIOUS
    <3> HIDE DEF f, Places
    <3>3. QED
      BY <3>1, <3>2, ImageFinite
  <2>3. SamplePlaces = UNION {all[r] : r \in Calibrated}
    BY DEF SamplePlaces
  <2>4. \A r \in Calibrated : all[r] = Places(r)
    OBVIOUS
  <2> HIDE DEF all, Places
  <2>5. IsFiniteSet({all[r] : r \in Calibrated})
    BY <2>1, ImageFinite
  <2>6. \A T \in {all[r] : r \in Calibrated} : IsFiniteSet(T)
    BY <2>2, <2>4
  <2>7. QED
    BY <2>3, <2>5, <2>6, FS_UNION
<1>5. TotalOrder(SamplePlaces, LexOn(SamplePlaces))
  BY <1>3, PairsOrdered
<1>6. QED
  BY <1>1, <1>2, <1>4, <1>5, InOrderLists

\* What the lists of the tracks hold.
LEMMA TracksAre ==
    ASSUME Collected, Checked, Finished
    PROVE  /\ \E t \in Nat :
                /\ DOMAIN InOrder(EventTracks) = 1..t
                /\ \A x \in EventTracks : \E n \in 1..t : InOrder(EventTracks)[n] = x
           /\ \E c \in Nat :
                /\ DOMAIN InOrder(CounterTracks) = 1..c
                /\ \A n \in 1..c : InOrder(CounterTracks)[n] \in CounterTracks
                /\ \A x \in CounterTracks : \E n \in 1..c : InOrder(CounterTracks)[n] = x
<1> DEFINE rs == DOMAIN reported \union Calibrated
           own == [r \in rs |-> <<r, 0>>]
           at == [k \in DOMAIN events |-> <<events[k].realm, TrackOf(events[k])>>]
           of == [k \in Counters |-> <<events[k].realm, TrackOf(events[k]), events[k].name>>]
<1>1. Registers
  BY DEF Checked
<1>2. /\ Len(events) \in Nat /\ DOMAIN events = 1..Len(events)
      /\ DOMAIN reported \subseteq Calibrated /\ Counters \subseteq DOMAIN events
  BY EventKnown DEF Counters
<1>3. \A k \in DOMAIN events :
        /\ events[k].realm \in Nat /\ TrackOf(events[k]) \in Nat
        /\ k \in Counters => events[k].name \in Nat
  BY <1>1, EventKnown, CalibratedIs
<1>4. rs \subseteq Realms /\ IsFiniteSet(rs) /\ \A r \in rs : r \in Nat
  <2>1. rs \subseteq Realms
    BY <1>2 DEF Calibrated
  <2> HIDE DEF rs
  <2>2. QED
    BY <2>1, CollectorAssumption, FS_Subset
<1>5. IsFiniteSet(DOMAIN events) /\ IsFiniteSet(Counters)
  <2>1. IsFiniteSet(DOMAIN events)
    BY <1>2, FS_Interval
  <2>2. QED
    BY <1>2, <2>1, FS_Subset
<1>6. EventTracks = {own[r] : r \in rs} \union {at[k] : k \in DOMAIN events}
  BY DEF EventTracks
<1>7. CounterTracks = {of[k] : k \in Counters}
  BY DEF CounterTracks
<1>8. EventTracks \in SUBSET (Nat \X Nat)
  <2>1. \A r \in rs : own[r] \in Nat \X Nat
    BY <1>4
  <2>2. \A k \in DOMAIN events : at[k] \in Nat \X Nat
    BY <1>3
  <2> HIDE DEF rs, own, at
  <2>3. QED
    BY <1>6, <2>1, <2>2
<1>9. CounterTracks \in SUBSET (Nat \X Nat \X Nat)
  <2>1. \A k \in Counters : of[k] \in Nat \X Nat \X Nat
    BY <1>2, <1>3
  <2> HIDE DEF of
  <2>2. QED
    BY <1>7, <2>1
<1> HIDE DEF rs, own, at, of
<1>10. IsFiniteSet(EventTracks) /\ IsFiniteSet(CounterTracks)
  <2>1. IsFiniteSet({own[r] : r \in rs}) /\ IsFiniteSet({at[k] : k \in DOMAIN events})
    BY <1>4, <1>5, ImageFinite
  <2>2. IsFiniteSet({of[k] : k \in Counters})
    BY <1>5, ImageFinite
  <2>3. QED
    BY <1>6, <1>7, <2>1, <2>2, FS_Union
<1>11. TotalOrder(EventTracks, LexOn(EventTracks)) /\ TotalOrder(CounterTracks, LexOn(CounterTracks))
  BY <1>8, <1>9, PairsOrdered, TriplesOrdered
<1>12. QED
  BY <1>10, <1>11, InOrderLists

-----------------------------------------------------------------------------
(***************************************************************************)
(* Packets: one list behind the other.                                     *)
(***************************************************************************)
IsList(f, m) == m \in Nat /\ f = [k \in 1..m |-> f[k]]

\* h is the m members of f, then the n members of g.
Joins(h, f, m, g, n) ==
    /\ IsList(h, m + n) /\ DOMAIN h = 1..m + n
    /\ \A k \in 1..m : k \in 1..m + n /\ h[k] = f[k]
    /\ \A k \in 1..n : m + k \in 1..m + n /\ h[m + k] = g[k]
    /\ \A k \in 1..m + n : k \in 1..m \/ (k - m \in 1..n /\ h[k] = g[k - m])

LEMMA JoinedIs ==
    ASSUME NEW f, NEW m, IsList(f, m), NEW g, NEW n, IsList(g, n)
    PROVE  Joins(f \o g, f, m, g, n)
<1> DEFINE S == {f[k] : k \in 1..m} \union {g[k] : k \in 1..n}
           h == f \o g
<1>1. m \in Nat /\ n \in Nat
  BY DEF IsList
<1>2. f \in [1..m -> S] /\ g \in [1..n -> S]
  <2>1. (\A k \in 1..m : f[k] \in S) /\ (\A k \in 1..n : g[k] \in S)
    OBVIOUS
  <2> HIDE DEF S
  <2>2. QED
    BY <2>1 DEF IsList
<1> HIDE DEF S
<1>3. f \in Seq(S) /\ Len(f) = m /\ g \in Seq(S) /\ Len(g) = n
  BY <1>1, <1>2, ListIsSeq
<1>4. /\ h \in Seq(S) /\ Len(h) = m + n
      /\ \A i \in 1..m + n : h[i] = IF i <= m THEN f[i] ELSE g[i - m]
  BY <1>3, ConcatProperties
<1> HIDE DEF h
<1>5. DOMAIN h = 1..m + n /\ h = [k \in 1..m + n |-> h[k]]
  <2>1. h \in [1..Len(h) -> S]
    BY <1>4, LenProperties
  <2>2. QED
    BY <1>4, <2>1
<1>6. ASSUME NEW k \in 1..m PROVE k \in 1..m + n /\ h[k] = f[k]
  <2>1. k \in 1..m + n /\ k <= m
    BY <1>1
  <2>2. QED
    BY <1>4, <2>1
<1>7. ASSUME NEW k \in 1..n PROVE m + k \in 1..m + n /\ h[m + k] = g[k]
  <2>1. m + k \in 1..m + n /\ ~(m + k <= m) /\ (m + k) - m = k
    BY <1>1
  <2>2. QED
    BY <1>4, <2>1
<1>8. ASSUME NEW k \in 1..m + n, k \notin 1..m PROVE k - m \in 1..n /\ h[k] = g[k - m]
  <2>1. k - m \in 1..n /\ ~(k <= m)
    BY <1>1, <1>8
  <2>2. QED
    BY <1>4, <2>1
<1>9. QED
  BY <1>1, <1>5, <1>6, <1>7, <1>8 DEF IsList, Joins, h

EventDescriptors ==
    [n \in DOMAIN InOrder(EventTracks) |->
       [packet |-> "track", parent |-> None,
        uuid |-> EventUuid(InOrder(EventTracks)[n][1], InOrder(EventTracks)[n][2])]]

CounterDescriptors ==
    LET c == InOrder(CounterTracks)
    IN [n \in DOMAIN c |->
          [packet |-> "track", uuid |-> CounterUuid(c[n][1], c[n][2], c[n][3]),
           parent |-> EventUuid(c[n][1], c[n][2])]]

\* A packet that comes when all descriptors are written.
Late(p) ==
    \/ \E n \in DOMAIN Diagnostics : p = Diagnostics[n]
    \/ \E n \in DOMAIN EventPackets : p = EventPackets[n]
    \/ \E n \in DOMAIN HealthPackets : p = HealthPackets[n]

\* s snapshots, t tracks, c tracks of counters, then the events.
LaidOut(packets, s, t, c, last) ==
    /\ s \in Nat /\ t \in Nat /\ c \in Nat /\ last \in Nat
    /\ DOMAIN packets = 1..last /\ s + t + c <= last
    /\ DOMAIN ClockSnapshots = 1..s /\ DOMAIN EventDescriptors = 1..t
    /\ DOMAIN CounterDescriptors = 1..c
    /\ \A k \in 1..s : packets[k] = ClockSnapshots[k]
    /\ \A k \in 1..t : packets[s + k] = EventDescriptors[k]
    /\ \A k \in 1..c : packets[s + t + k] = CounterDescriptors[k]
    /\ \A k \in 1..last : k > s + t + c => Late(packets[k])

LEMMA SnapshotsAre ==
    ASSUME Registers
    PROVE  /\ \E s \in Nat : IsList(ClockSnapshots, s) /\ DOMAIN ClockSnapshots = 1..s
                             /\ IsList(Diagnostics, s) /\ DOMAIN Diagnostics = 1..s
           /\ DOMAIN ClockSnapshots = DOMAIN SamplesInOrder
           /\ DOMAIN Diagnostics = DOMAIN SamplesInOrder
<1>1. PICK s \in Nat : DOMAIN SamplesInOrder = 1..s
  BY SamplesListed
<1> DEFINE o == Min({Fitted(p[1], p[2]) : p \in Range(SamplesInOrder)})
           S(n) == Snapshot(SamplesInOrder[n][1], SamplesInOrder[n][2], o)
           D(n) == TrackEvent(SamplesInOrder[n][1], EventUuid(SamplesInOrder[n][1], 0),
                              SourceNs(SamplesInOrder[n][1], SamplesInOrder[n][2]))
<1>2. ClockSnapshots = [n \in DOMAIN SamplesInOrder |-> S(n)]
  BY DEF ClockSnapshots
<1>3. Diagnostics = [n \in DOMAIN SamplesInOrder |-> D(n)]
  BY DEF Diagnostics
<1> HIDE DEF S, D
<1>4. QED
  BY <1>1, <1>2, <1>3 DEF IsList

LEMMA PacketsAre ==
    ASSUME Collected, Checked, Finished
    PROVE  \E s, t, c, last : LaidOut(Packets, s, t, c, last)
<1>1. Registers
  BY DEF Checked
<1>2. PICK s \in Nat : /\ IsList(ClockSnapshots, s) /\ DOMAIN ClockSnapshots = 1..s
                       /\ IsList(Diagnostics, s) /\ DOMAIN Diagnostics = 1..s
  BY <1>1, SnapshotsAre
<1>3. PICK t \in Nat : DOMAIN InOrder(EventTracks) = 1..t
  BY TracksAre
<1>4. PICK c \in Nat : DOMAIN InOrder(CounterTracks) = 1..c
  BY TracksAre
<1>5. IsList(EventDescriptors, t) /\ DOMAIN EventDescriptors = 1..t
  <2> DEFINE E(n) == [packet |-> "track", parent |-> None,
        uuid |-> EventUuid(InOrder(EventTracks)[n][1], InOrder(EventTracks)[n][2])]
  <2>1. EventDescriptors = [n \in 1..t |-> E(n)]
    BY <1>3 DEF EventDescriptors
  <2> HIDE DEF E
  <2>2. QED
    BY <2>1 DEF IsList
<1>6. IsList(CounterDescriptors, c) /\ DOMAIN CounterDescriptors = 1..c
  <2> DEFINE x == InOrder(CounterTracks)
             C(n) == [packet |-> "track", uuid |-> CounterUuid(x[n][1], x[n][2], x[n][3]),
                      parent |-> EventUuid(x[n][1], x[n][2])]
  <2>1. CounterDescriptors = [n \in 1..c |-> C(n)]
    BY <1>4 DEF CounterDescriptors
  <2> HIDE DEF C
  <2>2. QED
    BY <2>1 DEF IsList
<1>7. Len(events) \in Nat /\ DOMAIN events = 1..Len(events) /\ DOMAIN reported \subseteq Calibrated
  BY EventKnown
<1>8. IsList(EventPackets, Len(events)) /\ DOMAIN EventPackets = 1..Len(events)
  <2> DEFINE P(n) ==
        LET e == events[n]
            uuid == IF n \in Counters THEN CounterUuid(e.realm, TrackOf(e), e.name)
                    ELSE EventUuid(e.realm, TrackOf(e))
        IN TrackEvent(e.realm, uuid, TicksToNs(e.time, Rate(e.realm)))
  <2>1. EventPackets = [n \in DOMAIN events |-> P(n)]
    BY DEF EventPackets
  <2> HIDE DEF P
  <2>2. QED
    BY <1>7, <2>1 DEF IsList
<1>9. PICK h \in Nat : IsList(HealthPackets, h) /\ DOMAIN HealthPackets = 1..h
  <2>1. DOMAIN reported \in SUBSET Nat /\ IsFiniteSet(DOMAIN reported)
    <3>1. DOMAIN reported \subseteq Realms
      BY <1>7 DEF Calibrated
    <3>2. QED
      BY <3>1, CollectorAssumption, FS_Subset
  <2>2. PICK h \in Nat : DOMAIN Rising(DOMAIN reported) = 1..h
    BY <2>1, NumbersListed
  <2> DEFINE H(n) == TrackEvent(Rising(DOMAIN reported)[n], EventUuid(Rising(DOMAIN reported)[n], 0),
        SourceNs(Rising(DOMAIN reported)[n], Len(calibrations[Rising(DOMAIN reported)[n]])))
  <2>3. HealthPackets = [n \in DOMAIN Rising(DOMAIN reported) |-> H(n)]
    BY DEF HealthPackets, Rising, Ordered
  <2> HIDE DEF H
  <2>4. QED
    BY <2>2, <2>3 DEF IsList
<1> DEFINE tracks == EventDescriptors \o CounterDescriptors
           front == ClockSnapshots \o tracks
           known == front \o Diagnostics
           main == known \o EventPackets
<1>10. Descriptors = tracks
  BY DEF Descriptors, EventDescriptors, CounterDescriptors
<1>11. Packets = main \o HealthPackets
  BY <1>10 DEF Packets
<1>12. /\ IsList(tracks, t + c)
       /\ \A k \in 1..t : k \in 1..t + c /\ tracks[k] = EventDescriptors[k]
       /\ \A k \in 1..c : t + k \in 1..t + c /\ tracks[t + k] = CounterDescriptors[k]
  <2>1. Joins(tracks, EventDescriptors, t, CounterDescriptors, c)
    BY <1>5, <1>6, JoinedIs
  <2>2. QED
    BY <2>1 DEF Joins
<1> HIDE DEF tracks
<1>13. /\ IsList(front, s + (t + c))
       /\ \A k \in 1..s : k \in 1..s + (t + c) /\ front[k] = ClockSnapshots[k]
       /\ \A k \in 1..t + c : s + k \in 1..s + (t + c) /\ front[s + k] = tracks[k]
  <2>1. Joins(front, ClockSnapshots, s, tracks, t + c)
    BY <1>2, <1>12, JoinedIs
  <2>2. QED
    BY <2>1 DEF Joins
<1> HIDE DEF front
<1> DEFINE a == s + (t + c)
<1>14. /\ IsList(known, a + s)
       /\ \A k \in 1..a : k \in 1..a + s /\ known[k] = front[k]
       /\ \A k \in 1..a + s : k \in 1..a \/ (k - a \in 1..s /\ known[k] = Diagnostics[k - a])
  <2>1. Joins(known, front, a, Diagnostics, s)
    BY <1>2, <1>13, JoinedIs
  <2>2. QED
    BY <2>1 DEF Joins
<1> HIDE DEF known
<1>15. /\ IsList(main, (a + s) + Len(events))
       /\ \A k \in 1..a + s : k \in 1..(a + s) + Len(events) /\ main[k] = known[k]
       /\ \A k \in 1..(a + s) + Len(events) :
            \/ k \in 1..a + s
            \/ k - (a + s) \in 1..Len(events) /\ main[k] = EventPackets[k - (a + s)]
  <2>1. Joins(main, known, a + s, EventPackets, Len(events))
    BY <1>8, <1>14, JoinedIs
  <2>2. QED
    BY <2>1 DEF Joins
<1> HIDE DEF main
<1> DEFINE b == (a + s) + Len(events)
<1>16. /\ DOMAIN Packets = 1..b + h
       /\ \A k \in 1..b : k \in 1..b + h /\ Packets[k] = main[k]
       /\ \A k \in 1..b + h : k \in 1..b \/ (k - b \in 1..h /\ Packets[k] = HealthPackets[k - b])
  <2>1. Joins(Packets, main, b, HealthPackets, h)
    BY <1>9, <1>11, <1>15, JoinedIs
  <2>2. QED
    BY <2>1 DEF Joins
<1>17. a \in Nat /\ b \in Nat /\ a <= a + s /\ a + s <= b /\ a <= b /\ a + s \in Nat
       /\ b + h \in Nat /\ a <= b + h /\ a = s + t + c
  BY <1>2, <1>3, <1>4, <1>7, <1>9
<1> HIDE DEF b
<1>18. \A k \in 1..a : Packets[k] = front[k]
  <2>1. \A k \in 1..a : k \in 1..a + s /\ k \in 1..b
    BY <1>17
  <2>2. QED
    BY <1>14, <1>15, <1>16, <2>1 DEF b
<1>19. \A k \in 1..s : Packets[k] = ClockSnapshots[k]
  BY <1>13, <1>18
<1>20. \A k \in 1..t : Packets[s + k] = EventDescriptors[k]
  <2>1. \A k \in 1..t : k \in 1..t + c /\ s + k \in 1..a
    BY <1>12, <1>13
  <2>2. QED
    BY <1>12, <1>13, <1>18, <2>1
<1>21. \A k \in 1..c : Packets[s + t + k] = CounterDescriptors[k]
  <2>1. \A k \in 1..c : s + t + k = s + (t + k)
    BY <1>2, <1>3
  <2>2. \A k \in 1..c : t + k \in 1..t + c /\ s + (t + k) \in 1..a
    BY <1>12, <1>13
  <2>3. QED
    BY <1>12, <1>13, <1>18, <2>1, <2>2
<1>22. ASSUME NEW k \in 1..b + h, k > s + t + c PROVE Late(Packets[k])
  <2>1. k \notin 1..a
    BY <1>17, <1>22
  <2>2. CASE k \in 1..a + s
    <3>1. k - a \in 1..s /\ known[k] = Diagnostics[k - a]
      BY <1>14, <2>1, <2>2
    <3>2. k \in 1..b /\ Packets[k] = known[k]
      BY <1>15, <1>16, <2>2 DEF b
    <3>3. QED
      BY <1>2, <3>1, <3>2 DEF Late
  <2>3. CASE k \in 1..b /\ k \notin 1..a + s
    <3>1. k - (a + s) \in 1..Len(events) /\ main[k] = EventPackets[k - (a + s)]
      BY <1>15, <2>3 DEF b
    <3>2. Packets[k] = main[k]
      BY <1>16, <2>3
    <3> HIDE DEF a
    <3>3. QED
      BY <1>8, <3>1, <3>2 DEF Late
  <2>4. CASE k \notin 1..b
    <3>1. k - b \in 1..h /\ Packets[k] = HealthPackets[k - b]
      BY <1>16, <2>4
    <3>2. QED
      BY <1>9, <3>1 DEF Late
  <2>5. QED
    BY <2>2, <2>3, <2>4
<1>23. LaidOut(Packets, s, t, c, b + h)
  <2>1. s + t + c <= b + h
    BY <1>17
  <2>2. b + h \in Nat /\ s \in Nat /\ t \in Nat /\ c \in Nat
    BY <1>17
  <2> HIDE DEF a
  <2>3. QED
    BY <1>2, <1>5, <1>6, <1>16, <1>19, <1>20, <1>21, <1>22, <2>1, <2>2 DEF LaidOut
<1>24. QED
  BY <1>23

-----------------------------------------------------------------------------
(***************************************************************************)
(* Before the first event every clock and every track is known.            *)
(***************************************************************************)
\* The samples of a realm have a snapshot.
LEMMA SnapshotOf ==
    ASSUME Registers, NEW r \in Calibrated
    PROVE  \E n \in DOMAIN ClockSnapshots :
             ClockSnapshots[n].packet = "snapshot" /\ ClockSnapshots[n].realm = r
<1>1. <<r, 1>> \in SamplePlaces
  <2>1. 1 \in DOMAIN calibrations[r]
    BY CalibratedIs
  <2>2. QED
    BY <2>1 DEF SamplePlaces
<1>2. PICK n \in DOMAIN SamplesInOrder : SamplesInOrder[n] = <<r, 1>>
  BY <1>1, SamplesListed
<1> DEFINE o == Min({Fitted(p[1], p[2]) : p \in Range(SamplesInOrder)})
<1>3. ClockSnapshots[n] = Snapshot(SamplesInOrder[n][1], SamplesInOrder[n][2], o)
  BY <1>2 DEF ClockSnapshots
<1>4. ClockSnapshots[n].packet = "snapshot" /\ ClockSnapshots[n].realm = SamplesInOrder[n][1]
  <2> HIDE DEF o
  <2>1. QED
    BY <1>3 DEF Snapshot
<1>5. SamplesInOrder[n][1] = r
  BY <1>2
<1>6. QED
  BY <1>2, <1>4, <1>5, SnapshotsAre

\* A packet behind the descriptors is an event of a described track.
LEMMA LateIs ==
    ASSUME Collected, Checked, Finished, NEW p, Late(p)
    PROVE  /\ p.packet = "event" /\ p.realm \in Calibrated
           /\ \/ \E x \in EventTracks : p.uuid = EventUuid(x[1], x[2])
              \/ \E x \in CounterTracks : p.uuid = CounterUuid(x[1], x[2], x[3])
<1>1. Registers
  BY DEF Checked
<1>2. DOMAIN reported \subseteq Calibrated /\ \A k \in DOMAIN events : events[k].realm \in Calibrated
  BY EventKnown
<1>3. ASSUME NEW r \in DOMAIN reported \union Calibrated
      PROVE  \E x \in EventTracks : EventUuid(r, 0) = EventUuid(x[1], x[2])
  <2>1. <<r, 0>> \in EventTracks
    BY DEF EventTracks
  <2>2. QED
    BY <2>1
<1>4. CASE \E n \in DOMAIN Diagnostics : p = Diagnostics[n]
  <2>1. PICK n \in DOMAIN Diagnostics : p = Diagnostics[n]
    BY <1>4
  <2> DEFINE q == SamplesInOrder[n]
  <2>2. n \in DOMAIN SamplesInOrder
    BY <1>1, <2>1, SnapshotsAre
  <2>3. p = TrackEvent(q[1], EventUuid(q[1], 0), SourceNs(q[1], q[2]))
    BY <2>1, <2>2 DEF Diagnostics
  <2>4. q \in SamplePlaces
    BY <1>1, <2>2, SamplesListed
  <2> HIDE DEF q
  <2>5. q[1] \in Calibrated
    BY <1>1, <2>4, SamplesListed
  <2>6. p.packet = "event" /\ p.realm = q[1] /\ p.uuid = EventUuid(q[1], 0)
    BY <2>3 DEF TrackEvent
  <2>7. QED
    BY <1>3, <2>5, <2>6
<1>5. CASE \E n \in DOMAIN EventPackets : p = EventPackets[n]
  <2>1. PICK n \in DOMAIN EventPackets : p = EventPackets[n]
    BY <1>5
  <2> DEFINE e == events[n]
             u == IF n \in Counters THEN CounterUuid(e.realm, TrackOf(e), e.name)
                  ELSE EventUuid(e.realm, TrackOf(e))
  <2>2. n \in DOMAIN events
    BY <2>1 DEF EventPackets
  <2>3. p = TrackEvent(e.realm, u, TicksToNs(e.time, Rate(e.realm)))
    BY <2>1, <2>2 DEF EventPackets
  <2>4. p.packet = "event" /\ p.realm = e.realm /\ p.uuid = u
    <3> HIDE DEF u, e
    <3>1. QED
      BY <2>3 DEF TrackEvent
  <2>5. CASE n \in Counters
    <3>1. <<e.realm, TrackOf(e), e.name>> \in CounterTracks
      BY <2>5 DEF CounterTracks
    <3>2. u = CounterUuid(e.realm, TrackOf(e), e.name)
      BY <2>5
    <3> HIDE DEF e, u
    <3>3. \E x \in CounterTracks : u = CounterUuid(x[1], x[2], x[3])
      BY <3>1, <3>2
    <3>4. QED
      BY <1>2, <2>2, <2>4, <3>3 DEF e
  <2>6. CASE n \notin Counters
    <3>1. <<e.realm, TrackOf(e)>> \in EventTracks
      BY <2>2 DEF EventTracks
    <3>2. u = EventUuid(e.realm, TrackOf(e))
      BY <2>6
    <3> HIDE DEF e, u
    <3>3. \E x \in EventTracks : u = EventUuid(x[1], x[2])
      BY <3>1, <3>2
    <3>4. QED
      BY <1>2, <2>2, <2>4, <3>3 DEF e
  <2>7. QED
    BY <2>5, <2>6
<1>6. CASE \E n \in DOMAIN HealthPackets : p = HealthPackets[n]
  <2>1. PICK n \in DOMAIN HealthPackets : p = HealthPackets[n]
    BY <1>6
  <2> DEFINE r == Rising(DOMAIN reported)[n]
  <2>2. n \in DOMAIN Rising(DOMAIN reported)
        /\ p = TrackEvent(r, EventUuid(r, 0), SourceNs(r, Len(calibrations[r])))
    BY <2>1 DEF HealthPackets, Rising, Ordered
  <2>3. r \in DOMAIN reported
    <3>1. DOMAIN reported \in SUBSET Nat /\ IsFiniteSet(DOMAIN reported)
      <4>1. DOMAIN reported \subseteq Realms
        BY <1>2 DEF Calibrated
      <4>2. QED
        BY <4>1, CollectorAssumption, FS_Subset
    <3>2. QED
      BY <2>2, <3>1, NumbersListed
  <2> HIDE DEF r
  <2>4. p.packet = "event" /\ p.realm = r /\ p.uuid = EventUuid(r, 0)
    BY <2>2 DEF TrackEvent
  <2>5. QED
    BY <1>2, <1>3, <2>3, <2>4
<1>7. QED
  BY <1>4, <1>5, <1>6 DEF Late

\* Every track has its descriptor.
LEMMA DescriptorOf ==
    ASSUME Collected, Checked, Finished
    PROVE  /\ \A x \in EventTracks : \E n \in DOMAIN EventDescriptors :
                EventDescriptors[n].packet = "track" /\ EventDescriptors[n].uuid = EventUuid(x[1], x[2])
           /\ \A x \in CounterTracks : \E n \in DOMAIN CounterDescriptors :
                /\ CounterDescriptors[n].packet = "track"
                /\ CounterDescriptors[n].uuid = CounterUuid(x[1], x[2], x[3])
           /\ \A n \in DOMAIN EventDescriptors :
                EventDescriptors[n].packet = "track" /\ EventDescriptors[n].parent = None
           /\ \A n \in DOMAIN CounterDescriptors :
                /\ CounterDescriptors[n].packet = "track"
                /\ \E x \in EventTracks : CounterDescriptors[n].parent = EventUuid(x[1], x[2])
<1> DEFINE f == InOrder(EventTracks)
           g == InOrder(CounterTracks)
<1>1. /\ \A x \in EventTracks : \E n \in DOMAIN f : f[n] = x
      /\ \A n \in DOMAIN g : g[n] \in CounterTracks
      /\ \A x \in CounterTracks : \E n \in DOMAIN g : g[n] = x
  BY TracksAre
<1>2. DOMAIN EventDescriptors = DOMAIN f /\ DOMAIN CounterDescriptors = DOMAIN g
  BY DEF EventDescriptors, CounterDescriptors
<1>3. ASSUME NEW n \in DOMAIN f
      PROVE  /\ EventDescriptors[n].packet = "track" /\ EventDescriptors[n].parent = None
             /\ EventDescriptors[n].uuid = EventUuid(f[n][1], f[n][2])
  BY DEF EventDescriptors
<1>4. ASSUME NEW n \in DOMAIN g
      PROVE  /\ CounterDescriptors[n].packet = "track"
             /\ CounterDescriptors[n].uuid = CounterUuid(g[n][1], g[n][2], g[n][3])
             /\ CounterDescriptors[n].parent = EventUuid(g[n][1], g[n][2])
  BY DEF CounterDescriptors
<1> HIDE DEF f, g
<1>5. ASSUME NEW x \in CounterTracks PROVE <<x[1], x[2]>> \in EventTracks
  <2>1. PICK k \in Counters : x = <<events[k].realm, TrackOf(events[k]), events[k].name>>
    BY DEF CounterTracks
  <2>2. k \in DOMAIN events /\ x[1] = events[k].realm /\ x[2] = TrackOf(events[k])
    BY <2>1 DEF Counters
  <2>3. QED
    BY <2>2 DEF EventTracks
<1>6. ASSUME NEW n \in DOMAIN g
      PROVE  \E x \in EventTracks : CounterDescriptors[n].parent = EventUuid(x[1], x[2])
  <2>1. <<g[n][1], g[n][2]>> \in EventTracks
    BY <1>1, <1>5
  <2>2. QED
    BY <1>4, <2>1
<1>7. QED
  BY <1>1, <1>2, <1>3, <1>4, <1>6

LEMMA PacketsDescribed ==
    ASSUME Collected, Checked, Finished, NEW n \in DOMAIN Packets
    PROVE  /\ Packets[n].packet = "event" =>
                Described(Packets, n, Packets[n].uuid) /\ Related(Packets, n, Packets[n].realm)
           /\ Packets[n].packet = "track" /\ Packets[n].parent # None =>
                Described(Packets, n, Packets[n].parent)
<1>1. PICK s, t, c, last : LaidOut(Packets, s, t, c, last)
  BY PacketsAre
<1>2. /\ s \in Nat /\ t \in Nat /\ c \in Nat /\ last \in Nat /\ n \in 1..last
      /\ DOMAIN ClockSnapshots = 1..s /\ DOMAIN EventDescriptors = 1..t
      /\ DOMAIN CounterDescriptors = 1..c
      /\ \A k \in 1..s : Packets[k] = ClockSnapshots[k]
      /\ \A k \in 1..t : Packets[s + k] = EventDescriptors[k]
      /\ \A k \in 1..c : Packets[s + t + k] = CounterDescriptors[k]
      /\ \A k \in 1..last : k > s + t + c => Late(Packets[k])
  BY <1>1 DEF LaidOut
<1>3. Registers
  BY DEF Checked
<1> DEFINE p == Packets[n]
<1> HIDE DEF p
<1>4. CASE n \in 1..s
  <2> DEFINE o == Min({Fitted(q[1], q[2]) : q \in Range(SamplesInOrder)})
  <2>1. n \in DOMAIN SamplesInOrder
    BY <1>2, <1>3, <1>4, SnapshotsAre
  <2>2. p = Snapshot(SamplesInOrder[n][1], SamplesInOrder[n][2], o)
    BY <1>2, <1>4, <2>1 DEF ClockSnapshots, p
  <2> HIDE DEF o
  <2>3. p.packet = "snapshot"
    BY <2>2 DEF Snapshot
  <2>4. QED
    BY <2>3 DEF p
\* A track is described as soon as all events' tracks are.
<1>5. ASSUME n > s + t, NEW x \in EventTracks PROVE Described(Packets, n, EventUuid(x[1], x[2]))
  <2>1. PICK k \in 1..t : EventDescriptors[k].packet = "track"
                          /\ EventDescriptors[k].uuid = EventUuid(x[1], x[2])
    BY <1>2, DescriptorOf
  <2>2. s + k \in 1..n - 1
    BY <1>2, <1>5
  <2>3. QED
    BY <1>2, <2>1, <2>2 DEF Described
<1>6. CASE n \in s + 1..s + t
  <2>1. n - s \in 1..t /\ s + (n - s) = n
    BY <1>2, <1>6
  <2>2. p = EventDescriptors[n - s]
    BY <1>2, <2>1 DEF p
  <2>3. p.packet = "track" /\ p.parent = None
    BY <1>2, <2>1, <2>2, DescriptorOf
  <2>4. QED
    BY <2>3 DEF p
<1>7. CASE n \in s + t + 1..s + t + c
  <2>1. n - (s + t) \in 1..c /\ s + t + (n - (s + t)) = n /\ n > s + t
    BY <1>2, <1>7
  <2>2. p = CounterDescriptors[n - (s + t)]
    BY <1>2, <2>1 DEF p
  <2>3. p.packet = "track" /\ \E x \in EventTracks : p.parent = EventUuid(x[1], x[2])
    BY <1>2, <2>1, <2>2, DescriptorOf
  <2>4. Described(Packets, n, p.parent)
    BY <1>5, <2>1, <2>3
  <2>5. QED
    BY <2>3, <2>4 DEF p
<1>8. CASE n > s + t + c
  <2>1. Late(p)
    BY <1>2, <1>8 DEF p
  <2>2. /\ p.packet = "event" /\ p.realm \in Calibrated
        /\ \/ \E x \in EventTracks : p.uuid = EventUuid(x[1], x[2])
           \/ \E x \in CounterTracks : p.uuid = CounterUuid(x[1], x[2], x[3])
    BY <2>1, LateIs
  <2>3. n > s + t
    BY <1>2, <1>8
  <2>4. ASSUME NEW x \in CounterTracks
        PROVE  Described(Packets, n, CounterUuid(x[1], x[2], x[3]))
    <3>1. PICK k \in 1..c : CounterDescriptors[k].packet = "track"
                            /\ CounterDescriptors[k].uuid = CounterUuid(x[1], x[2], x[3])
      BY <1>2, DescriptorOf
    <3>2. s + t + k \in 1..n - 1
      BY <1>2, <1>8
    <3>3. QED
      BY <1>2, <3>1, <3>2 DEF Described
  <2>5. Described(Packets, n, p.uuid)
    BY <1>5, <2>2, <2>3, <2>4
  <2>6. Related(Packets, n, p.realm)
    <3>1. PICK k \in 1..s : ClockSnapshots[k].packet = "snapshot" /\ ClockSnapshots[k].realm = p.realm
      BY <1>2, <1>3, <2>2, SnapshotOf
    <3>2. k \in 1..n - 1
      BY <1>2, <1>8
    <3>3. QED
      BY <1>2, <3>1, <3>2 DEF Related
  <2>7. QED
    BY <2>2, <2>5, <2>6 DEF p
<1>9. n \in 1..s \/ n \in s + 1..s + t \/ n \in s + t + 1..s + t + c \/ n > s + t + c
  BY <1>2
<1>10. QED
  BY <1>4, <1>6, <1>7, <1>8, <1>9

LEMMA FinishedDescribes == Collected /\ Checked => DescribedFirst
<1> SUFFICES ASSUME Collected, Checked, Finished PROVE DescribedFirst
  BY DEF DescribedFirst
<1>1. ASSUME NEW n \in DOMAIN events, NEW k \in DOMAIN calibrations[events[n].realm]
      PROVE  calibrations[events[n].realm][k].clock = events[n].clock
  <2>1. /\ events[n].realm \in Calibrated
        /\ calibrations[events[n].realm][1].clock = events[n].clock
    BY EventKnown
  <2>2. Registers
    BY DEF Checked
  <2>3. QED
    BY <2>1, <2>2, CalibratedIs
<1>2. ASSUME NEW n \in DOMAIN Packets
      PROVE  /\ Packets[n].packet = "event" =>
                  Described(Packets, n, Packets[n].uuid) /\ Related(Packets, n, Packets[n].realm)
             /\ Packets[n].packet = "track" /\ Packets[n].parent # None =>
                  Described(Packets, n, Packets[n].parent)
  BY PacketsDescribed
<1>3. QED
  BY <1>1, <1>2 DEF DescribedFirst

(***************************************************************************)
(* A reader of a finished trace knows the track of every event, the parent *)
(* of every track and the clock of every realm before it meets them.       *)
(***************************************************************************)
THEOREM TraceDescribesFirst == Spec => []DescribedFirst
  BY FinishedDescribes, AlwaysCollected, AlwaysChecked, PTL

-----------------------------------------------------------------------------
(***************************************************************************)
(* The clock fit.                                                          *)
(***************************************************************************)
LEMMA DivisionIs ==
    ASSUME NEW a \in Nat, NEW b \in Nat \ {0}
    PROVE  a \div b \in Nat
  OBVIOUS

LEMMA ProductIs ==
    ASSUME NEW a \in Nat, NEW b \in Nat
    PROVE  a * b \in Nat
  OBVIOUS

LEMMA TicksToNsIs ==
    ASSUME NEW ticks \in Nat, NEW rate \in Nat \ {0}
    PROVE  TicksToNs(ticks, rate) \in 0..MaxNanos
<1> DEFINE ns == (ticks * Second) \div rate
<1>1. Second \in Nat /\ MaxNanos \in Nat
  BY PacketsAssumption
<1>2. ns \in Nat
  <2>1. ticks * Second \in Nat
    BY <1>1, ProductIs
  <2>2. QED
    BY <2>1, DivisionIs
<1> HIDE DEF ns
<1>3. SmallerOf(ns, MaxNanos) \in 0..MaxNanos
  BY <1>1, <1>2 DEF SmallerOf
<1>4. QED
  BY <1>3 DEF TicksToNs, ns

LEMMA SourceIs ==
    ASSUME Registers, Fittable, NEW r \in Calibrated, NEW k \in DOMAIN calibrations[r]
    PROVE  /\ SourceNs(r, k) \in 0..MaxNanos /\ MaxNanos \in Nat
           /\ calibrations[r][k].reference \in 0..MaxNanos
           /\ Offset(r, k) \in Int
<1>1. calibrations[r][k] \in Samples[r] /\ r \in Realms
  BY CalibratedIs
<1>2. calibrations[r][k].time \in Nat /\ calibrations[r][k].reference \in 0..MaxNanos
  BY <1>1, PacketsAssumption
<1>3. Rate(r) \in Nat \ {0}
  <2>1. r \in DOMAIN realms
    BY DEF Fittable
  <2>2. QED
    BY <2>1 DEF Registers, Rate
<1>4. SourceNs(r, k) \in 0..MaxNanos
  BY <1>2, <1>3, TicksToNsIs DEF SourceNs
<1>5. MaxNanos \in Nat
  BY PacketsAssumption
<1>6. Offset(r, k) \in Int
  BY <1>2, <1>4, <1>5 DEF Offset
<1>7. QED
  BY <1>2, <1>4, <1>5, <1>6

\* Of offsets, the smaller first, and of equal ones that of the earlier sample.
OffsetLess(r) ==
    {c \in (DOMAIN calibrations[r]) \X (DOMAIN calibrations[r]) :
        \/ Offset(r, c[1]) < Offset(r, c[2])
        \/ Offset(r, c[1]) = Offset(r, c[2]) /\ c[1] < c[2]}

\* f lists the samples of r by their offsets.
ByOffset(f, r) == Lists(f, Len(calibrations[r]), DOMAIN calibrations[r], OffsetLess(r))

LEMMA OffsetsOrdered ==
    ASSUME Registers, Fittable, NEW r \in Calibrated
    PROVE  TotalOrder(DOMAIN calibrations[r], OffsetLess(r))
<1> DEFINE D == DOMAIN calibrations[r]
           O(k) == Offset(r, k)
           R == OffsetLess(r)
           Before(i, j) == O(i) < O(j) \/ (O(i) = O(j) /\ i < j)
<1>1. \A k \in D : O(k) \in Int /\ k \in Int
  BY SourceIs, CalibratedIs
<1>2. \A i, j \in D : <<i, j>> \in R <=> Before(i, j)
  BY DEF OffsetLess
<1> HIDE DEF D, O, R
<1>3. \A x, y \in D : <<x, y>> \in R => <<y, x>> \notin R
  BY <1>1, <1>2
<1>4. ASSUME NEW x \in D, NEW y \in D, NEW z \in D, <<x, y>> \in R, <<y, z>> \in R
      PROVE  <<x, z>> \in R
  <2>1. Before(x, y) /\ Before(y, z)
    BY <1>2, <1>4
  <2>2. O(x) \in Int /\ O(y) \in Int /\ O(z) \in Int /\ x \in Int /\ y \in Int /\ z \in Int
    BY <1>1
  <2>3. Before(x, z)
    BY ONLY <2>1, <2>2
  <2>4. QED
    BY <1>2, <2>3
<1>5. ASSUME NEW x \in D, NEW y \in D PROVE x = y \/ <<x, y>> \in R \/ <<y, x>> \in R
  <2>1. O(x) \in Int /\ O(y) \in Int /\ x \in Int /\ y \in Int
    BY <1>1
  <2>2. x = y \/ Before(x, y) \/ Before(y, x)
    BY ONLY <2>1
  <2>3. QED
    BY <1>2, <2>2
<1>6. TotalOrder(D, R)
  BY <1>3, <1>4, <1>5 DEF TotalOrder
<1>7. QED
  BY <1>6 DEF D, R

LEMMA FittedOffsetIs ==
    ASSUME Registers, Fittable, NEW r \in Calibrated
    PROVE  \E f : /\ ByOffset(f, r)
                  /\ FittedOffset(r) = Offset(r, f[Len(calibrations[r]) \div 2 + 1])
<1> DEFINE D == DOMAIN calibrations[r]
           N == Cardinality(D)
           R == OffsetLess(r)
           Before(i, j) == Offset(r, i) < Offset(r, j) \/ (Offset(r, i) = Offset(r, j) /\ i < j)
           nth(k) == CHOOSE x \in D : Cardinality({y \in D : Before(y, x)}) = k - 1
           f == [k \in 1..N |-> nth(k)]
<1>1. D = 1..Len(calibrations[r]) /\ Len(calibrations[r]) \in Nat
  BY CalibratedIs
<1>2. IsFiniteSet(D) /\ N = Len(calibrations[r])
  BY <1>1, FS_Interval
<1>3. \A x, y \in D : <<y, x>> \in R <=> Before(y, x)
  BY DEF OffsetLess
<1>4. TotalOrder(D, R)
  BY OffsetsOrdered
<1>5. FittedOffset(r) = Offset(r, f[Len(f) \div 2 + 1])
  BY DEF FittedOffset, Ordered
<1>6. Picks(f, D, R)
  <2> HIDE DEF D, R
  <2>1. \A x \in D : Below(D, R, x) = {y \in D : Before(y, x)}
    BY <1>3 DEF Below
  <2>2. DOMAIN f = 1..N /\ f = [k \in DOMAIN f |-> f[k]]
    <3> HIDE DEF nth
    <3>1. QED
      OBVIOUS
  <2>3. ASSUME NEW k \in 1..N, NEW x \in D, Cardinality(Below(D, R, x)) = k - 1
        PROVE  f[k] \in D /\ Cardinality(Below(D, R, f[k])) = k - 1
    <3>1. Cardinality({y \in D : Before(y, x)}) = k - 1
      BY <2>1, <2>3
    <3>2. f[k] = CHOOSE z \in D : Cardinality({y \in D : Before(y, z)}) = k - 1
      OBVIOUS
    <3> HIDE DEF f, nth, Before
    <3>3. f[k] \in D /\ Cardinality({y \in D : Before(y, f[k])}) = k - 1
      BY <3>1, <3>2
    <3>4. QED
      BY <2>1, <3>3
  <2> HIDE DEF f, nth, Before
  <2>4. QED
    BY <2>2, <2>3 DEF Picks
<1> HIDE DEF f, nth, Before, R, D
<1>7. Lists(f, N, D, R)
  <2>1. f = InOrderOf(D, R)
    BY <1>2, <1>4, <1>6, OrderIs
  <2>2. QED
    BY <1>2, <1>4, <2>1, OrderLists
<1>8. Len(f) = N
  <2>1. f \in [1..N -> D]
    BY <1>7 DEF Lists
  <2>2. QED
    BY <1>1, <1>2, <2>1, ListIsSeq
<1>9. ByOffset(f, r) /\ FittedOffset(r) = Offset(r, f[Len(calibrations[r]) \div 2 + 1])
  BY <1>2, <1>5, <1>7, <1>8 DEF ByOffset, D, R
<1>10. QED
  BY <1>9

LEMMA HalfIs ==
    ASSUME NEW n \in Nat \ {0}
    PROVE  /\ n \div 2 + 1 \in 1..n /\ n \div 2 \in Nat
           /\ 2 * (n \div 2) <= n /\ n <= 2 * (n \div 2) + 1
  OBVIOUS

LEMMA FittedIs ==
    ASSUME Registers, Fittable, NEW r \in Calibrated
    PROVE  /\ FittedOffset(r) \in Int
           /\ \A k \in DOMAIN calibrations[r] :
                /\ Fitted(r, k) \in 0..MaxNanos
                /\ SourceNs(r, k) + FittedOffset(r) \in 0..MaxNanos
                     => Fitted(r, k) = SourceNs(r, k) + FittedOffset(r)
<1> DEFINE n == Len(calibrations[r])
<1>1. PICK f : ByOffset(f, r) /\ FittedOffset(r) = Offset(r, f[n \div 2 + 1])
  BY FittedOffsetIs
<1>2. n \in Nat \ {0}
  BY CalibratedIs
<1> HIDE DEF n
<1>3. n \div 2 + 1 \in 1..n
  BY <1>2, HalfIs
<1>4. f \in [1..n -> DOMAIN calibrations[r]]
  BY <1>1 DEF ByOffset, Lists, n
<1>5. f[n \div 2 + 1] \in DOMAIN calibrations[r]
  BY <1>3, <1>4
<1>6. FittedOffset(r) \in Int
  BY <1>1, <1>5, SourceIs
<1>7. ASSUME NEW k \in DOMAIN calibrations[r]
      PROVE  /\ Fitted(r, k) \in 0..MaxNanos
             /\ SourceNs(r, k) + FittedOffset(r) \in 0..MaxNanos
                  => Fitted(r, k) = SourceNs(r, k) + FittedOffset(r)
  <2> DEFINE x == SourceNs(r, k) + FittedOffset(r)
  <2>1. x \in Int /\ MaxNanos \in Nat
    BY <1>6, SourceIs
  <2>2. Fitted(r, k) = SmallerOf(LargerOf(x, 0), MaxNanos)
    BY DEF Fitted
  <2> HIDE DEF x
  <2>3. /\ SmallerOf(LargerOf(x, 0), MaxNanos) \in 0..MaxNanos
        /\ x \in 0..MaxNanos => SmallerOf(LargerOf(x, 0), MaxNanos) = x
    BY <2>1 DEF SmallerOf, LargerOf
  <2>4. QED
    BY <2>2, <2>3 DEF x
<1>8. QED
  BY <1>6, <1>7

LEMMA MinIs ==
    ASSUME NEW T \in SUBSET Nat, T # {}
    PROVE  Min(T) \in T /\ \A y \in T : Min(T) <= y
<1>1. \E x \in T : \A y \in T : x <= y
  BY Least
<1>2. Min(T) = CHOOSE x \in T : \A y \in T : x <= y
  BY DEF Min
<1>3. QED
  BY <1>1, <1>2

-----------------------------------------------------------------------------
(***************************************************************************)
(* OneTimeline.                                                            *)
(***************************************************************************)
\* The reference time of a snapshot, where nothing is clamped and nothing wraps.
LEMMA SnapshotIs ==
    ASSUME Registers, Fittable, NEW p \in Range(ClockSnapshots),
           \A k \in DOMAIN calibrations[p.realm] :
             SourceNs(p.realm, k) + FittedOffset(p.realm) \in 0..MaxNanos - Second
    PROVE  LET origin == Min({Fitted(s[1], s[2]) : s \in Range(SamplesInOrder)})
           IN /\ origin \in Nat /\ p.source \in Nat /\ FittedOffset(p.realm) \in Int
              /\ p.reference = p.source + FittedOffset(p.realm) - origin + Second
<1> DEFINE T == {Fitted(s[1], s[2]) : s \in Range(SamplesInOrder)}
           origin == Min(T)
<1>1. Second \in Nat \ {0} /\ MaxNanos \in Nat
  BY PacketsAssumption
<1>2. PICK n \in DOMAIN ClockSnapshots : p = ClockSnapshots[n]
  BY DEF Range
<1>3. n \in DOMAIN SamplesInOrder
  BY <1>2, SnapshotsAre
<1> DEFINE r == SamplesInOrder[n][1]
           k == SamplesInOrder[n][2]
<1>4. p = Snapshot(r, k, origin)
  BY <1>2, <1>3 DEF ClockSnapshots
<1>5. r \in Calibrated /\ k \in DOMAIN calibrations[r]
  BY <1>3, SamplesListed
<1>6. T \in SUBSET (0..MaxNanos) /\ Fitted(r, k) \in T
  <2>1. ASSUME NEW s \in Range(SamplesInOrder) PROVE Fitted(s[1], s[2]) \in 0..MaxNanos
    <3>1. s \in SamplePlaces
      BY SamplesListed DEF Range
    <3>2. s[1] \in Calibrated /\ s[2] \in DOMAIN calibrations[s[1]]
      BY <3>1, SamplesListed
    <3>3. QED
      BY <3>2, FittedIs
  <2>2. SamplesInOrder[n] \in Range(SamplesInOrder)
    BY <1>3 DEF Range
  <2>3. QED
    BY <2>1, <2>2
<1> HIDE DEF T, origin, r, k
<1>7. origin \in Nat /\ origin <= Fitted(r, k)
  <2>1. T \in SUBSET Nat /\ T # {}
    BY <1>1, <1>6
  <2>2. QED
    BY <1>6, <2>1, MinIs DEF origin
<1>8. /\ p.realm = r /\ p.source = SourceNs(r, k)
      /\ p.reference = (LargerOf(Fitted(r, k) - origin, 0) + Second) % (MaxNanos + 1)
  BY <1>4 DEF Snapshot
<1> DEFINE x == SourceNs(r, k) + FittedOffset(r)
<1>9. SourceNs(r, k) \in Nat /\ FittedOffset(r) \in Int
  BY <1>1, <1>5, SourceIs, FittedIs
<1>10. x \in 0..MaxNanos - Second
  BY <1>5, <1>8
<1>11. Fitted(r, k) = x
  <2>1. x \in 0..MaxNanos
    BY <1>1, <1>10
  <2>2. QED
    BY <1>5, <2>1, FittedIs
<1> DEFINE y == LargerOf(Fitted(r, k) - origin, 0) + Second
<1>12. y = x - origin + Second /\ y \in 0..MaxNanos
  <2> HIDE DEF x
  <2>1. LargerOf(x - origin, 0) = x - origin
    BY <1>7, <1>10, <1>11 DEF LargerOf
  <2>2. QED
    BY <1>1, <1>7, <1>10, <1>11, <2>1
<1> HIDE DEF y
<1>13. y % (MaxNanos + 1) = y
  BY <1>1, <1>12
<1>14. p.reference = SourceNs(r, k) + FittedOffset(r) - origin + Second
  <2>1. p.reference = y % (MaxNanos + 1)
    BY <1>8 DEF y
  <2>2. p.reference = y /\ y = x - origin + Second
    BY <1>12, <1>13, <2>1
  <2>3. QED
    BY <1>1, <1>7, <1>9, <2>2
<1>15. QED
  BY <1>7, <1>8, <1>9, <1>14 DEF origin, T

LEMMA FinishedRelates == Checked => OneTimeline
<1> SUFFICES ASSUME Checked, Finished,
                    NEW p \in Range(ClockSnapshots), NEW q \in Range(ClockSnapshots),
                    p.realm = q.realm,
                    \A k \in DOMAIN calibrations[p.realm] :
                      SourceNs(p.realm, k) + FittedOffset(p.realm) \in 0..MaxNanos - Second
             PROVE  p.reference - q.reference = p.source - q.source
  BY DEF OneTimeline
<1> DEFINE o == Min({Fitted(s[1], s[2]) : s \in Range(SamplesInOrder)})
           m == FittedOffset(p.realm)
<1>1. Registers /\ Fittable
  BY DEF Checked, Passed
<1>2. /\ o \in Nat /\ p.source \in Nat /\ m \in Int /\ p.reference = p.source + m - o + Second
  BY <1>1, SnapshotIs
<1>3. /\ q.source \in Nat /\ q.reference = q.source + m - o + Second
  BY <1>1, SnapshotIs
<1>4. Second \in Nat
  BY PacketsAssumption
<1> HIDE DEF o, m
<1>5. QED
  BY <1>2, <1>3, <1>4

(***************************************************************************)
(* The snapshots of a realm have one offset, wherever its predicted times  *)
(* fit in a u64 with a second to spare.                                    *)
(***************************************************************************)
THEOREM OneOffset == Spec => []OneTimeline
  BY FinishedRelates, AlwaysChecked, PTL

-----------------------------------------------------------------------------
(***************************************************************************)
(* Total.                                                                  *)
(***************************************************************************)
Magnitude(v) == IF v < 0 THEN 0 - v ELSE v

LEMMA MagnitudeIs ==
    ASSUME NEW v \in Int
    PROVE  Magnitude(v) \in Nat
  BY DEF Magnitude

\* t sums up the magnitudes of e.
Sums(t, e, n) ==
    /\ \A k \in 0..n : t[k] \in Nat
    /\ t[0] = 0 /\ \A k \in 1..n : t[k] = t[k - 1] + Magnitude(e[k])

LEMMA TotalIs ==
    ASSUME NEW n \in Nat, NEW e \in [1..n -> Int]
    PROVE  \E t : Sums(t, e, n) /\ Total(e) = t[n]
<1> DEFINE F(d, i) == d + Magnitude(e[i])
           Solves(f) == f = [k \in 0..n |-> IF k = 0 THEN 0 ELSE F(f[k - 1], k)]
           t == CHOOSE f : Solves(f)
<1>1. Len(e) = n
  BY ListIsSeq
<1>2. Total(e) = t[n]
  BY <1>1 DEF Total, Magnitude
<1>3. \A d \in Nat, i \in 1..n : F(d, i) \in Nat
  <2>1. \A i \in 1..n : Magnitude(e[i]) \in Nat
    BY MagnitudeIs
  <2>2. QED
    BY <2>1
<1> HIDE DEF F
<1>4. \E f : Solves(f)
  <2> DEFINE G == [q \in Nat \X (1..n) |-> F(q[1], q[2])]
  <2>1. G \in [Nat \X (1..n) -> Nat]
    BY <1>3
  <2>2. \A d \in Nat, i \in 1..n : G[<<d, i>>] = F(d, i)
    OBVIOUS
  <2> HIDE DEF G
  <2>3. PICK f \in [0..n -> Nat] : f[0] = 0 /\ \A i \in 1..n : f[i] = G[<<f[i - 1], i>>]
    <3>1. Steps(G, Nat, n) /\ n \in Nat /\ 0 \in Nat
      BY <2>1 DEF Steps
    <3>2. \E f : Recurs(f, n, Nat, 0, G)
      BY <3>1, Recursion
    <3>3. QED
      BY <3>2 DEF Recurs
  <2>4. ASSUME NEW i \in 0..n PROVE f[i] = IF i = 0 THEN 0 ELSE F(f[i - 1], i)
    <3>1. CASE i = 0
      BY <2>3, <3>1
    <3>2. CASE i # 0
      <4>1. i \in 1..n /\ i - 1 \in 0..n
        BY <3>2
      <4>2. f[i] = F(f[i - 1], i)
        BY <2>2, <2>3, <4>1
      <4>3. QED
        BY <3>2, <4>2
    <3>3. QED
      BY <3>1, <3>2
  <2>5. Solves(f)
    BY <2>4
  <2>6. QED
    BY <2>5
<1>5. Solves(t)
  BY <1>4
<1> HIDE DEF t
<1>6. t[0] = 0 /\ \A i \in 1..n : t[i] = F(t[i - 1], i)
  <2>1. ASSUME NEW i \in 1..n PROVE t[i] = F(t[i - 1], i)
    <3>1. i \in 0..n /\ i # 0
      OBVIOUS
    <3>2. QED
      BY <1>5, <3>1
  <2>2. t[0] = 0
    BY <1>5
  <2>3. QED
    BY <2>1, <2>2
<1>7. \A i \in 0..n : t[i] \in Nat
  <2> DEFINE T == {i \in 0..n : t[i] \in Nat}
  <2>1. 0 \in T /\ T \in SUBSET Nat
    BY <1>6
  <2>2. ASSUME NEW i \in T, i < n PROVE i + 1 \in T
    <3>1. i + 1 \in 1..n /\ (i + 1) - 1 = i /\ i + 1 \in 0..n
      BY <2>2
    <3>2. t[i + 1] = F(t[i], i + 1)
      BY <1>6, <3>1
    <3>3. QED
      BY <1>3, <3>1, <3>2
  <2> HIDE DEF T
  <2>3. 0..n \subseteq T
    BY <2>1, <2>2, UpTo
  <2>4. QED
    BY <2>3 DEF T
<1>8. Sums(t, e, n)
  BY <1>6, <1>7 DEF Sums, F
<1>9. QED
  BY <1>2, <1>8

LEMMA MoreTimes ==
    ASSUME NEW d \in Nat, NEW x \in Nat
    PROVE  /\ d * x \in Nat /\ d * (x + 1) = d * x + d /\ d * (x + 2) = d * x + d + d
           /\ \A y \in Nat : x <= y => d * x <= d * y
<1>1. d * x \in Nat /\ d * (x + 1) = d * x + d /\ d * (x + 2) = d * x + d + d
  OBVIOUS
<1>2. ASSUME NEW y \in Nat, x <= y PROVE d * x <= d * y
  <2> DEFINE z == y - x
  <2>1. z \in Nat /\ y = x + z
    BY <1>2
  <2> HIDE DEF z
  <2>2. d * (x + z) = d * x + d * z
    BY <2>1
  <2>3. d * z \in Nat
    BY <2>1, ProductIs
  <2>4. QED
    BY <1>1, <2>1, <2>2, <2>3
<1>3. QED
  BY <1>1, <1>2

LEMMA Gains ==
    ASSUME NEW s \in Nat, NEW t \in Nat, NEW u \in Nat, NEW v \in Nat,
           NEW x \in Nat, NEW y \in Nat, NEW d \in Nat, s + u <= t + v
    PROVE  /\ x + d <= y => (s + x) + (u + d + d) <= (t + y) + (v + d)
           /\ x <= y + d => (s + x) + u <= (t + y) + (v + d)
  OBVIOUS

\* Where half of the errors of b are greater by d, and no other is smaller by
\* more than d, the total is no smaller.
LEMMA Outweighs ==
    ASSUME NEW n \in Nat, NEW a \in [1..n -> Int], NEW b \in [1..n -> Int], NEW d \in Nat,
           NEW G \in SUBSET (1..n), n <= 2 * Cardinality(G),
           \A i \in G : Magnitude(a[i]) + d <= Magnitude(b[i]),
           \A i \in (1..n) \ G : Magnitude(a[i]) <= Magnitude(b[i]) + d
    PROVE  Total(a) <= Total(b)
<1>1. PICK s : Sums(s, a, n) /\ Total(a) = s[n]
  BY TotalIs
<1>2. PICK t : Sums(t, b, n) /\ Total(b) = t[n]
  BY TotalIs
<1> DEFINE H(j) == G \intersect (1..j)
           P(j) == Cardinality(H(j))
           T == {j \in 0..n : s[j] + d * (2 * P(j)) <= t[j] + d * j}
<1>3. \A j \in 0..n : s[j] \in Nat /\ t[j] \in Nat
  BY <1>1, <1>2 DEF Sums
<1>4. \A j \in 0..n : IsFiniteSet(H(j)) /\ P(j) \in Nat
  <2>1. ASSUME NEW j \in 0..n PROVE IsFiniteSet(H(j)) /\ P(j) \in Nat
    <3>1. H(j) \in SUBSET (1..n)
      OBVIOUS
    <3> HIDE DEF H
    <3>2. QED
      BY <3>1, UpToFinite
  <2>2. QED
    BY <2>1
<1>5. 0 \in T
  <2>1. H(0) = {}
    OBVIOUS
  <2>2. P(0) = 0
    BY <2>1, FS_EmptySet
  <2>3. s[0] = 0 /\ t[0] = 0
    BY <1>1, <1>2 DEF Sums
  <2> HIDE DEF P
  <2>4. 2 * P(0) = 0
    BY <2>2
  <2>5. s[0] + d * (2 * P(0)) = 0 /\ t[0] + d * 0 = 0
    BY <2>3, <2>4
  <2>6. QED
    BY <2>5
<1>6. ASSUME NEW j \in T, j < n PROVE j + 1 \in T
  <2>1. /\ j \in 0..n /\ j \in Nat /\ j + 1 \in 0..n /\ j + 1 \in 1..n /\ (j + 1) - 1 = j
        /\ s[j] + d * (2 * P(j)) <= t[j] + d * j
    BY <1>6
  <2>2. /\ s[j + 1] = s[j] + Magnitude(a[j + 1]) /\ t[j + 1] = t[j] + Magnitude(b[j + 1])
        /\ Magnitude(a[j + 1]) \in Nat /\ Magnitude(b[j + 1]) \in Nat
    BY <1>1, <1>2, <2>1, MagnitudeIs DEF Sums
  <2>3. s[j] \in Nat /\ t[j] \in Nat /\ P(j) \in Nat /\ IsFiniteSet(H(j)) /\ j + 1 \notin H(j)
    <3>1. j + 1 \notin H(j)
      BY <2>1
    <3> HIDE DEF H, P
    <3>2. QED
      BY <1>3, <1>4, <2>1, <3>1
  <2> DEFINE x == 2 * P(j)
             u == d * x
             v == d * j
  <2> HIDE DEF P
  <2>4. x \in Nat
    BY <2>3
  <2>5. u \in Nat /\ v \in Nat /\ d * (x + 2) = u + d + d /\ d * (j + 1) = v + d
    <3> HIDE DEF x
    <3>1. QED
      BY <2>1, <2>4, MoreTimes
  <2>6. CASE j + 1 \in G
    <3>1. H(j + 1) = H(j) \union {j + 1}
      <4>1. j \in Nat
        BY <2>1
      <4>2. 1..j + 1 = (1..j) \union {j + 1}
        BY ONLY <4>1
      <4>3. QED
        BY <2>6, <4>2
    <3>2. P(j + 1) = P(j) + 1
      BY <2>3, <3>1, FS_AddElement DEF P
    <3>3. 2 * P(j + 1) = x + 2
      BY <2>3, <3>2
    <3>4. Magnitude(a[j + 1]) + d <= Magnitude(b[j + 1])
      BY <2>6
    <3> HIDE DEF x, u, v, H
    <3>5. s[j + 1] + (u + d + d) <= t[j + 1] + (v + d)
      <4>1. s[j] + u <= t[j] + v
        BY <2>1 DEF u, v, x
      <4>2. (s[j] + Magnitude(a[j + 1])) + (u + d + d) <= (t[j] + Magnitude(b[j + 1])) + (v + d)
        BY <2>2, <2>3, <2>5, <3>4, <4>1, Gains
      <4>3. QED
        BY <2>2, <4>2
    <3>6. s[j + 1] + d * (2 * P(j + 1)) <= t[j + 1] + d * (j + 1)
      BY <2>5, <3>3, <3>5
    <3>7. QED
      BY <2>1, <3>6
  <2>7. CASE j + 1 \notin G
    <3>1. H(j + 1) = H(j)
      <4>1. j \in Nat
        BY <2>1
      <4>2. 1..j + 1 = (1..j) \union {j + 1}
        BY ONLY <4>1
      <4>3. QED
        BY <2>7, <4>2
    <3>2. P(j + 1) = P(j)
      BY <3>1 DEF P
    <3>3. Magnitude(a[j + 1]) <= Magnitude(b[j + 1]) + d
      BY <2>1, <2>7
    <3> HIDE DEF H
    <3>4. d * (2 * P(j + 1)) = u
      BY <3>2
    <3> HIDE DEF x, u, v
    <3>5. s[j + 1] + u <= t[j + 1] + (v + d)
      <4>1. s[j] + u <= t[j] + v
        BY <2>1 DEF u, v, x
      <4>2. (s[j] + Magnitude(a[j + 1])) + u <= (t[j] + Magnitude(b[j + 1])) + (v + d)
        BY <2>2, <2>3, <2>5, <3>3, <4>1, Gains
      <4>3. QED
        BY <2>2, <4>2
    <3>6. s[j + 1] + d * (2 * P(j + 1)) <= t[j + 1] + d * (j + 1)
      BY <2>5, <3>4, <3>5
    <3>7. QED
      BY <2>1, <3>6
  <2>8. QED
    BY <2>6, <2>7
<1>7. n \in T
  <2>1. T \in SUBSET Nat
    OBVIOUS
  <2> HIDE DEF T
  <2>2. 0..n \subseteq T
    BY <1>5, <1>6, <2>1, UpTo
  <2>3. QED
    BY <2>2
<1>8. H(n) = G
  OBVIOUS
<1>9. P(n) = Cardinality(G) /\ P(n) \in Nat
  <2>1. n \in 0..n
    OBVIOUS
  <2> HIDE DEF H
  <2>2. P(n) = Cardinality(G)
    BY <1>8
  <2> HIDE DEF P
  <2>3. QED
    BY <1>4, <2>1, <2>2
<1> HIDE DEF P, H
<1>10. s[n] + d * (2 * P(n)) <= t[n] + d * n
  BY <1>7
<1> DEFINE x == 2 * P(n)
<1>11. x \in Nat /\ n <= x
  BY <1>9
<1> HIDE DEF x, T
<1>12. d * n <= d * x /\ d * n \in Nat /\ d * x \in Nat
  BY <1>11, MoreTimes
<1>13. s[n] + d * x <= t[n] + d * n
  BY <1>10 DEF x
<1> DEFINE u == d * x
           v == d * n
<1> HIDE DEF u, v
<1>14. s[n] + u <= t[n] + v /\ v <= u /\ u \in Nat /\ v \in Nat
  BY <1>12, <1>13 DEF u, v
<1>15. s[n] \in Nat /\ t[n] \in Nat
  BY <1>3
<1>16. s[n] <= t[n]
  BY <1>14, <1>15
<1>17. QED
  BY <1>1, <1>2, <1>16

-----------------------------------------------------------------------------
(***************************************************************************)
(* FitOptimal: half of the offsets, or more, are no greater than their     *)
(* median, and half, or more, are no smaller.                              *)
(***************************************************************************)
LEMMA NoFewer ==
    ASSUME NEW lo \in Int, NEW hi \in Int, lo <= hi, NEW G, IsFiniteSet(G), NEW f,
           \A a \in lo..hi : f[a] \in G,
           \A a, b \in lo..hi : f[a] = f[b] => a = b
    PROVE  hi - lo + 1 <= Cardinality(G)
<1> DEFINE g == [a \in lo..hi |-> f[a]]
<1>1. g \in Injection(lo..hi, G)
  BY DEF Injection, IsInjective
<1> HIDE DEF g
<1>2. Cardinality(lo..hi) <= Cardinality(G)
  BY <1>1, FS_Injection
<1>3. Cardinality(lo..hi) = hi - lo + 1
  BY FS_Interval
<1>4. QED
  BY <1>2, <1>3

LEMMA MedianIs ==
    ASSUME Registers, Fittable, NEW r \in Calibrated
    PROVE  LET D == DOMAIN calibrations[r]
               n == Len(calibrations[r])
               m == FittedOffset(r)
           IN /\ n <= 2 * Cardinality({i \in D : Offset(r, i) <= m})
              /\ n <= 2 * Cardinality({i \in D : m <= Offset(r, i)})
<1> DEFINE D == DOMAIN calibrations[r]
           n == Len(calibrations[r])
           m == FittedOffset(r)
           O(i) == Offset(r, i)
           h == n \div 2 + 1
           Low == {i \in D : O(i) <= m}
           High == {i \in D : m <= O(i)}
<1>1. n \in Nat \ {0} /\ D = 1..n
  BY CalibratedIs
<1>2. \A i \in D : O(i) \in Int
  BY SourceIs
<1>3. PICK f : ByOffset(f, r) /\ m = O(f[h])
  BY FittedOffsetIs
<1>4. f \in [1..n -> D] /\ \A i, j \in 1..n : i < j => <<f[i], f[j]>> \in OffsetLess(r)
  BY <1>3 DEF ByOffset, Lists
<1>5. \A i, j \in 1..n : i < j => f[i] # f[j] /\ O(f[i]) <= O(f[j])
  <2>1. ASSUME NEW i \in 1..n, NEW j \in 1..n, i < j PROVE f[i] # f[j] /\ O(f[i]) <= O(f[j])
    <3>1. <<f[i], f[j]>> \in OffsetLess(r) /\ f[i] \in D /\ f[j] \in D
      BY <1>4, <2>1
    <3>2. \/ O(f[i]) < O(f[j])
          \/ O(f[i]) = O(f[j]) /\ f[i] < f[j]
      BY <3>1 DEF OffsetLess
    <3>3. f[i] # f[j]
      BY <3>1, OffsetsOrdered DEF TotalOrder
    <3>4. O(f[i]) \in Int /\ O(f[j]) \in Int
      BY <1>2, <3>1
    <3> HIDE DEF O, D
    <3>5. QED
      BY <3>2, <3>3, <3>4
  <2>2. QED
    BY <2>1
<1> HIDE DEF n, D, O, m
<1>6. h \in 1..n /\ h \in Int /\ n <= 2 * h /\ n <= 2 * (n - h + 1)
  <2>1. n \div 2 + 1 \in 1..n /\ n \div 2 \in Nat /\ 2 * (n \div 2) <= n /\ n <= 2 * (n \div 2) + 1
    BY <1>1, HalfIs
  <2> DEFINE q == n \div 2
  <2> HIDE DEF q
  <2>2. h = q + 1 /\ q + 1 \in 1..n /\ q \in Nat /\ 2 * q <= n /\ n <= 2 * q + 1
    BY <2>1 DEF q
  <2> HIDE DEF h
  <2>3. QED
    BY <1>1, <2>2
<1> HIDE DEF h
<1>7. IsFiniteSet(Low) /\ IsFiniteSet(High) /\ Cardinality(Low) \in Nat /\ Cardinality(High) \in Nat
  <2>1. Low \in SUBSET (1..n) /\ High \in SUBSET (1..n) /\ n \in Nat
    BY <1>1
  <2> HIDE DEF Low, High
  <2>2. QED
    BY <2>1, UpToFinite
<1>8. \A i, j \in 1..n : f[i] = f[j] => i = j
  <2>1. \A i, j \in 1..n : i < j \/ j < i \/ i = j
    BY <1>1
  <2>2. QED
    BY <1>5, <2>1
<1>9. h <= Cardinality(Low)
  <2>1. \A a \in 1..h : a \in 1..n /\ (a < h \/ a = h)
    BY <1>1, <1>6
  <2>2. O(f[h]) <= O(f[h])
    BY <1>2, <1>4, <1>6
  <2>3. \A a \in 1..h : f[a] \in D /\ O(f[a]) <= m
    BY <1>3, <1>4, <1>5, <1>6, <2>1, <2>2
  <2>4. \A a \in 1..h : f[a] \in Low
    BY <2>3
  <2>5. \A a, b \in 1..h : f[a] = f[b] => a = b
    BY <1>8, <2>1
  <2>6. 1 \in Int /\ 1 <= h
    BY <1>6
  <2> HIDE DEF Low
  <2>7. h - 1 + 1 <= Cardinality(Low)
    BY <1>6, <1>7, <2>4, <2>5, <2>6, NoFewer
  <2>8. QED
    BY <1>6, <2>7
<1>10. n - h + 1 <= Cardinality(High)
  <2>1. \A a \in h..n : a \in 1..n /\ (h < a \/ a = h)
    BY <1>1, <1>6
  <2>2. O(f[h]) <= O(f[h])
    BY <1>2, <1>4, <1>6
  <2>3. \A a \in h..n : f[a] \in D /\ m <= O(f[a])
    BY <1>3, <1>4, <1>5, <1>6, <2>1, <2>2
  <2>4. \A a \in h..n : f[a] \in High
    BY <2>3
  <2>5. \A a, b \in h..n : f[a] = f[b] => a = b
    BY <1>8, <2>1
  <2>6. n \in Int /\ h <= n
    BY <1>1, <1>6
  <2> HIDE DEF High
  <2>7. QED
    BY <1>6, <1>7, <2>4, <2>5, <2>6, NoFewer
<1> HIDE DEF Low, High
<1>11. n <= 2 * Cardinality(Low) /\ n <= 2 * Cardinality(High)
  BY <1>1, <1>6, <1>7, <1>9, <1>10
<1>12. QED
  BY <1>11 DEF Low, High, D, O, n, m

\* The clamp leaves no greater error.
LEMMA ResidualIs ==
    ASSUME Registers, Fittable, NEW r \in Calibrated, NEW k \in DOMAIN calibrations[r]
    PROVE  /\ Residual(r, k) \in Int
           /\ Magnitude(Residual(r, k)) <= Magnitude(Offset(r, k) - FittedOffset(r))
<1> DEFINE s == SourceNs(r, k)
           m == FittedOffset(r)
           ref == calibrations[r][k].reference
<1>1. s \in Int /\ m \in Int /\ MaxNanos \in Nat /\ ref \in 0..MaxNanos
  BY SourceIs, FittedIs
<1>2. Residual(r, k) = ref - SmallerOf(LargerOf(s + m, 0), MaxNanos)
  BY DEF Residual, Fitted
<1>3. Offset(r, k) = ref - s
  BY DEF Offset
<1> HIDE DEF s, m, ref
<1> DEFINE x == s + m
           F == SmallerOf(LargerOf(x, 0), MaxNanos)
<1>4. x \in Int /\ (ref - s) - m = ref - x
  BY <1>1
<1> HIDE DEF x
<1>5. F \in Int /\ Magnitude(ref - F) <= Magnitude(ref - x)
  BY <1>1, <1>4 DEF SmallerOf, LargerOf, Magnitude
<1>6. Residual(r, k) = ref - F
  BY <1>2 DEF x
<1> HIDE DEF F
<1>7. QED
  BY <1>1, <1>3, <1>4, <1>5, <1>6 DEF m

LEMMA FarBy ==
    ASSUME NEW o \in Int, NEW m \in Int, NEW c \in Int
    PROVE  /\ m <= c /\ o <= m => Magnitude(o - m) + (c - m) <= Magnitude(o - c)
           /\ m <= c => Magnitude(o - m) <= Magnitude(o - c) + (c - m)
           /\ c <= m /\ m <= o => Magnitude(o - m) + (m - c) <= Magnitude(o - c)
           /\ c <= m => Magnitude(o - m) <= Magnitude(o - c) + (m - c)
  BY DEF Magnitude

\* No offset at all has a smaller total error.
LEMMA RealmOptimal ==
    ASSUME Registers, Fittable, NEW r \in Calibrated, NEW c \in Int
    PROVE  LET samples == DOMAIN calibrations[r]
           IN Total([i \in samples |-> Residual(r, i)])
                <= Total([i \in samples |-> Offset(r, i) - c])
<1> DEFINE D == DOMAIN calibrations[r]
           n == Len(calibrations[r])
           m == FittedOffset(r)
           O(i) == Offset(r, i)
           E(i) == Residual(r, i)
           a == [i \in D |-> E(i)]
           b == [i \in D |-> O(i) - c]
           Low == {i \in D : O(i) <= m}
           High == {i \in D : m <= O(i)}
<1>1. n \in Nat /\ D = 1..n
  BY CalibratedIs
<1>2. m \in Int /\ \A i \in D : O(i) \in Int
  BY FittedIs, SourceIs
<1>3. \A i \in D : E(i) \in Int /\ Magnitude(E(i)) <= Magnitude(O(i) - m)
  BY ResidualIs
<1>4. n <= 2 * Cardinality(Low) /\ n <= 2 * Cardinality(High)
  BY MedianIs
<1> HIDE DEF D, n, m, O, E
<1>5. a \in [1..n -> Int] /\ b \in [1..n -> Int] /\ Low \in SUBSET (1..n) /\ High \in SUBSET (1..n)
  BY <1>1, <1>2, <1>3
<1>6. \A i \in 1..n : a[i] = E(i) /\ b[i] = O(i) - c /\ i \in D
  BY <1>1
<1>7. \A i \in 1..n : /\ Magnitude(E(i)) \in Nat /\ Magnitude(O(i) - m) \in Nat
                      /\ Magnitude(O(i) - c) \in Nat
  <2>1. ASSUME NEW i \in 1..n PROVE E(i) \in Int /\ O(i) - m \in Int /\ O(i) - c \in Int
    <3>1. E(i) \in Int /\ O(i) \in Int
      BY <1>2, <1>3, <1>6
    <3> HIDE DEF a, b
    <3>2. QED
      BY <1>2, <3>1
  <2>2. QED
    BY <2>1, MagnitudeIs
<1>8. CASE m <= c
  <2> DEFINE d == c - m
  <2>1. d \in Nat
    BY <1>2, <1>8
  <2>2. ASSUME NEW i \in Low PROVE Magnitude(a[i]) + d <= Magnitude(b[i])
    <3>1. i \in 1..n /\ O(i) <= m
      BY <1>5
    <3>2. Magnitude(O(i) - m) + (c - m) <= Magnitude(O(i) - c)
      BY <1>2, <1>6, <1>8, <3>1, FarBy
    <3>3. Magnitude(E(i)) <= Magnitude(O(i) - m)
      BY <1>3, <1>6, <3>1
    <3>4. a[i] = E(i) /\ b[i] = O(i) - c
      BY <1>6, <3>1
    <3>5. Magnitude(E(i)) + d <= Magnitude(O(i) - c)
      BY <1>7, <2>1, <3>1, <3>2, <3>3
    <3> HIDE DEF a, b, d
    <3>6. QED
      BY <3>4, <3>5
  <2>3. ASSUME NEW i \in (1..n) \ Low PROVE Magnitude(a[i]) <= Magnitude(b[i]) + d
    <3>1. i \in 1..n
      OBVIOUS
    <3>2. Magnitude(O(i) - m) <= Magnitude(O(i) - c) + (c - m)
      BY <1>2, <1>6, <1>8, <3>1, FarBy
    <3>3. Magnitude(E(i)) <= Magnitude(O(i) - m)
      BY <1>3, <1>6, <3>1
    <3>4. a[i] = E(i) /\ b[i] = O(i) - c
      BY <1>6, <3>1
    <3>5. Magnitude(E(i)) <= Magnitude(O(i) - c) + d
      BY <1>7, <2>1, <3>1, <3>2, <3>3
    <3> HIDE DEF a, b, d
    <3>6. QED
      BY <3>4, <3>5
  <2> HIDE DEF a, b, d, Low, High
  <2>4. Total(a) <= Total(b)
    BY <1>1, <1>4, <1>5, <2>1, <2>2, <2>3, Outweighs
  <2>5. QED
    BY <2>4 DEF a, b, D, E, O
<1>9. CASE ~(m <= c)
  <2> DEFINE d == m - c
  <2>1. d \in Nat /\ c <= m
    BY <1>2, <1>9
  <2>2. ASSUME NEW i \in High PROVE Magnitude(a[i]) + d <= Magnitude(b[i])
    <3>1. i \in 1..n /\ m <= O(i)
      BY <1>5
    <3>2. Magnitude(O(i) - m) + (m - c) <= Magnitude(O(i) - c)
      BY <1>2, <1>6, <2>1, <3>1, FarBy
    <3>3. Magnitude(E(i)) <= Magnitude(O(i) - m)
      BY <1>3, <1>6, <3>1
    <3>4. a[i] = E(i) /\ b[i] = O(i) - c
      BY <1>6, <3>1
    <3>5. Magnitude(E(i)) + d <= Magnitude(O(i) - c)
      BY <1>7, <2>1, <3>1, <3>2, <3>3
    <3> HIDE DEF a, b, d
    <3>6. QED
      BY <3>4, <3>5
  <2>3. ASSUME NEW i \in (1..n) \ High PROVE Magnitude(a[i]) <= Magnitude(b[i]) + d
    <3>1. i \in 1..n
      OBVIOUS
    <3>2. Magnitude(O(i) - m) <= Magnitude(O(i) - c) + (m - c)
      BY <1>2, <1>6, <2>1, <3>1, FarBy
    <3>3. Magnitude(E(i)) <= Magnitude(O(i) - m)
      BY <1>3, <1>6, <3>1
    <3>4. a[i] = E(i) /\ b[i] = O(i) - c
      BY <1>6, <3>1
    <3>5. Magnitude(E(i)) <= Magnitude(O(i) - c) + d
      BY <1>7, <2>1, <3>1, <3>2, <3>3
    <3> HIDE DEF a, b, d
    <3>6. QED
      BY <3>4, <3>5
  <2> HIDE DEF a, b, d, Low, High
  <2>4. Total(a) <= Total(b)
    BY <1>1, <1>4, <1>5, <2>1, <2>2, <2>3, Outweighs
  <2>5. QED
    BY <2>4 DEF a, b, D, E, O
<1>10. QED
  BY <1>8, <1>9

LEMMA FinishedFits ==
    Checked =>
      /\ FitOptimal
      /\ Finished =>
           \A r \in Calibrated, c \in Int :
             LET samples == DOMAIN calibrations[r]
             IN Total([i \in samples |-> Residual(r, i)]) <= Total([i \in samples |-> Offset(r, i) - c])
<1>1. ASSUME Checked, Finished, NEW r \in Calibrated, NEW c \in Int
      PROVE  Total([i \in DOMAIN calibrations[r] |-> Residual(r, i)])
               <= Total([i \in DOMAIN calibrations[r] |-> Offset(r, i) - c])
  <2>1. Registers /\ Fittable
    BY <1>1 DEF Checked, Passed
  <2>2. QED
    BY <1>1, <2>1, RealmOptimal
<1>2. ASSUME Checked, Finished, NEW r \in Calibrated, NEW k \in DOMAIN calibrations[r]
      PROVE  Total([i \in DOMAIN calibrations[r] |-> Residual(r, i)])
               <= Total([i \in DOMAIN calibrations[r] |-> Offset(r, i) - Offset(r, k)])
  <2>1. Offset(r, k) \in Int
    BY <1>2, SourceIs DEF Checked, Passed
  <2>2. QED
    BY <1>1, <1>2, <2>1
<1>3. Checked => FitOptimal
  BY <1>2 DEF FitOptimal
<1>4. QED
  BY <1>1, <1>3

(***************************************************************************)
(* No offset of a realm that is taken from one of its samples fits them    *)
(* with a smaller total error.                                             *)
(***************************************************************************)
THEOREM FitIsOptimal == Spec => []FitOptimal
<1>1. Checked => FitOptimal
  BY FinishedFits
<1>2. QED
  BY <1>1, AlwaysChecked, PTL

(***************************************************************************)
(* And no offset whatsoever does.                                          *)
(***************************************************************************)
THEOREM NoOffsetIsBetter ==
    Spec => [](Finished =>
                 \A r \in Calibrated, c \in Int :
                   LET samples == DOMAIN calibrations[r]
                   IN Total([i \in samples |-> Residual(r, i)])
                        <= Total([i \in samples |-> Offset(r, i) - c]))
<1> DEFINE Best ==
              Finished =>
                \A r \in Calibrated, c \in Int :
                  LET samples == DOMAIN calibrations[r]
                  IN Total([i \in samples |-> Residual(r, i)])
                       <= Total([i \in samples |-> Offset(r, i) - c])
<1>1. Checked => Best
  BY FinishedFits
<1>2. QED
  BY <1>1, AlwaysChecked, PTL
=============================================================================
