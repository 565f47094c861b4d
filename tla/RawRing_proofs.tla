---------------------------- MODULE RawRing_proofs ----------------------------
(***************************************************************************)
(* For every capacity that divides the range of usize, as powers of two    *)
(* do, and every width of the sequences: the ring is the bounded queue of  *)
(* whole groups, also when its sequences wrap.                             *)
(*                                                                         *)
(* The write sequence is at most Capacity ahead of the read sequence       *)
(* (RingInv), so that the slots from the one to the other are distinct and *)
(* a record that is pushed overwrites none that is unread.  Draining reads *)
(* group by group; how far it comes (DrainedIs) is what Fit says of the    *)
(* unread records.                                                         *)
(***************************************************************************)
EXTENDS RawRing, SequenceTheorems, NaturalsInduction, WellFoundedInduction, TLAPS

(***************************************************************************)
(* Remainders.                                                             *)
(***************************************************************************)
LEMMA Division ==
    ASSUME NEW a \in Int, NEW b \in Nat \ {0}
    PROVE  a \div b \in Int /\ a % b \in 0..b - 1 /\ a = b * (a \div b) + (a % b)
<1>1. a \div b \in Int
  OBVIOUS
<1>2. a % b \in 0..b - 1
  OBVIOUS
<1>3. a = b * (a \div b) + (a % b)
  OBVIOUS
<1>4. QED
  BY <1>1, <1>2, <1>3

LEMMA Products ==
    ASSUME NEW a \in Nat, NEW d \in Nat \ {0}
    PROVE  a * d >= a
<1>1. d - 1 \in Nat /\ a * d = a * (d - 1) + a
  OBVIOUS
<1>2. a * (d - 1) \in Nat
  BY <1>1
<1>3. QED
  BY <1>1, <1>2

LEMMA Quotient ==
    ASSUME NEW b \in Nat \ {0}, NEW p \in Int, NEW q \in Int, NEW r \in 0..b - 1, NEW s \in 0..b - 1,
           b * p + r = b * q + s
    PROVE  r = s
<1>1. ASSUME NEW x \in Int, NEW y \in Int, NEW u \in 0..b - 1, NEW v \in 0..b - 1,
             b * x + u = b * y + v
      PROVE  ~ (x < y)
  <2> SUFFICES ASSUME x < y PROVE FALSE
    OBVIOUS
  <2>1. y - x \in Nat \ {0} /\ b * (y - x) = b * y - b * x
    OBVIOUS
  <2>2. b * (y - x) >= b
    BY <2>1, Products
  <2>3. b * x \in Int /\ b * y \in Int
    OBVIOUS
  <2> DEFINE bx == b * x
             by == b * y
  <2>4. by - bx >= b /\ bx \in Int /\ by \in Int /\ bx + u = by + v
    BY <1>1, <2>1, <2>2, <2>3
  <2> HIDE DEF bx, by
  <2>5. QED
    BY <2>4
<1>2. ~ (p < q) /\ ~ (q < p)
  BY <1>1
<1>3. p = q
  BY <1>2
<1>4. b * p = b * q /\ b * q \in Int
  BY <1>3
<1> DEFINE bq == b * q
<1>5. bq \in Int /\ bq + r = bq + s
  BY <1>4
<1> HIDE DEF bq
<1>6. QED
  BY <1>5

LEMMA Remainder ==
    ASSUME NEW b \in Nat \ {0}, NEW q \in Int, NEW r \in 0..b - 1
    PROVE  (b * q + r) % b = r
<1> DEFINE a == b * q + r
<1>1. a \in Int /\ a = b * q + r
  OBVIOUS
<1> HIDE DEF a
<1> DEFINE p == a \div b
           s == a % b
<1>2. p \in Int /\ s \in 0..b - 1 /\ b * p + s = b * q + r
  BY <1>1, Division
<1> HIDE DEF p, s
<1>3. s = r
  BY <1>2, Quotient
<1>4. QED
  BY <1>3 DEF s, a

\* A remainder may be taken first by a multiple of the divisor.
LEMMA Coarser ==
    ASSUME NEW m \in Int, NEW a \in Nat \ {0}, NEW b \in Nat \ {0}, a % b = 0
    PROVE  (m % a) % b = m % b
<1> DEFINE r == m % a
           q == m \div a
           p == a \div b
           s == r \div b
           t == r % b
<1>1. q \in Int /\ r \in Int /\ m = a * q + r
  BY Division
<1>2. p \in Int /\ a = b * p
  <2>1. p \in Int /\ a = b * p + (a % b)
    BY Division
  <2>2. QED
    BY <2>1
<1> HIDE DEF r, q, p
<1>3. s \in Int /\ t \in 0..b - 1 /\ r = b * s + t
  BY <1>1, Division
<1> HIDE DEF s, t
<1>4. m = b * (p * q + s) + t
  <2>1. a * q = b * (p * q) /\ p * q \in Int
    BY <1>1, <1>2
  <2>2. b * (p * q + s) = b * (p * q) + b * s
    BY <1>3, <2>1
  <2>3. QED
    BY <1>1, <1>3, <2>1, <2>2
<1>5. p * q + s \in Int
  BY <1>1, <1>2, <1>3
<1>6. m % b = t
  BY <1>3, <1>4, <1>5, Remainder
<1>7. QED
  BY <1>6 DEF r, t

\* ... and before something is added.
LEMMA Later ==
    ASSUME NEW m \in Int, NEW k \in Int, NEW a \in Nat \ {0}
    PROVE  ((m % a) + k) % a = (m + k) % a
<1> DEFINE q == m \div a
           r == m % a
           s == (r + k) \div a
           t == (r + k) % a
<1>1. q \in Int /\ r \in Int /\ m = a * q + r
  BY Division
<1> HIDE DEF q, r
<1>2. r + k \in Int
  BY <1>1
<1>3. s \in Int /\ t \in 0..a - 1 /\ r + k = a * s + t
  BY <1>2, Division
<1> HIDE DEF s, t
<1>4. m + k = a * (q + s) + t
  <2>1. a * (q + s) = a * q + a * s /\ a * q \in Int /\ a * s \in Int
    BY <1>1, <1>3
  <2>2. QED
    BY <1>1, <1>3, <2>1
<1>5. q + s \in Int
  BY <1>1, <1>3
<1>6. (m + k) % a = t
  BY <1>3, <1>4, <1>5, Remainder
<1>7. QED
  BY <1>6 DEF r, t

LEMMA Small == ASSUME NEW b \in Nat \ {0}, NEW r \in 0..b - 1 PROVE r % b = r
<1>1. b * 0 + r = r
  OBVIOUS
<1>2. QED
  BY <1>1, Remainder

\* Numbers less than b apart have different remainders.
LEMMA Apart ==
    ASSUME NEW b \in Nat \ {0}, NEW m \in Int, NEW i \in Int, NEW j \in Int,
           i < j, j < i + b
    PROVE  (m + i) % b # (m + j) % b
<1> SUFFICES ASSUME (m + i) % b = (m + j) % b PROVE FALSE
  OBVIOUS
<1> DEFINE t == (m + i) % b
           p == (m + i) \div b
           q == (m + j) \div b
<1>1. p \in Int /\ q \in Int /\ t \in Int /\ m + i = b * p + t /\ m + j = b * q + t
  <2>1. m + i \in Int /\ m + j \in Int
    OBVIOUS
  <2>2. QED
    BY <2>1, Division
<1> HIDE DEF t, p, q
<1> DEFINE d == j - i
<1>2. d \in 1..b - 1 /\ b * q - b * p = d
  <2>1. b * p \in Int /\ b * q \in Int
    BY <1>1
  <2>2. QED
    BY <1>1, <2>1
<1> HIDE DEF d
<1>3. b * q + 0 = b * p + d
  <2>1. b * p \in Int /\ b * q \in Int
    BY <1>1
  <2>2. QED
    BY <1>2, <2>1
<1>4. 0 \in 0..b - 1 /\ d \in 0..b - 1
  BY <1>2
<1>5. 0 = d
  BY <1>1, <1>3, <1>4, Quotient
<1>6. QED
  BY <1>2, <1>5

-----------------------------------------------------------------------------
(***************************************************************************)
(* The sequences and the slots.                                            *)
(***************************************************************************)
\* The slots keep their order when a sequence passes the width of usize.
Divides == UsizeRange % Capacity = 0

\* write is n records ahead of read.
Ahead(n) == n \in 0..Capacity /\ write = Wrap(read + n)

RingInv ==
    /\ read \in 0..SeqRange - 1
    /\ \E n \in 0..Capacity : Ahead(n)
    /\ DOMAIN records = 0..Capacity - 1

LEMMA Ranges ==
    /\ Capacity \in Nat \ {0} /\ UsizeRange \in Nat \ {0} /\ SeqRange \in Nat \ {0}
    /\ Capacity < UsizeRange /\ UsizeRange <= SeqRange
<1>1. /\ Capacity \in Nat \ {0} /\ UsizeRange \in Nat \ {0} /\ SeqRange \in Nat \ {0}
      /\ Capacity < UsizeRange /\ SeqRange % UsizeRange = 0
  BY RingAssumption
<1>2. SeqRange < UsizeRange => SeqRange \in 0..UsizeRange - 1
  BY <1>1
<1>3. SeqRange < UsizeRange => SeqRange % UsizeRange = SeqRange
  BY <1>1, <1>2, Small
<1>4. QED
  BY <1>1, <1>3

LEMMA WrapIs == ASSUME NEW m \in Int PROVE Wrap(m) \in 0..SeqRange - 1
  BY Ranges, Division DEF Wrap

LEMMA WrapLater ==
    ASSUME NEW m \in Int, NEW k \in Int
    PROVE  Wrap(Wrap(m) + k) = Wrap(m + k)
  BY Ranges, Later DEF Wrap

LEMMA OccupancyIs ==
    ASSUME RingInv, NEW n, Ahead(n)
    PROVE  Occupancy = n
<1>1. read \in Int /\ n \in Int /\ n \in 0..SeqRange - 1 /\ n \in 0..UsizeRange - 1
  BY Ranges DEF RingInv, Ahead
<1>2. write - read = Wrap(read + n) + (0 - read)
  <2>1. Wrap(read + n) \in Int
    BY <1>1, WrapIs
  <2>2. QED
    BY <1>1, <2>1 DEF Ahead
<1>3. Wrap(Wrap(read + n) + (0 - read)) = Wrap((read + n) + (0 - read))
  <2>1. read + n \in Int /\ 0 - read \in Int
    BY <1>1
  <2>2. QED
    BY <2>1, WrapLater
<1>4. (read + n) + (0 - read) = n
  BY <1>1
<1>5. Wrap(n) = n /\ Usize(n) = n
  BY <1>1, Ranges, Small DEF Wrap, Usize
<1>6. QED
  BY <1>2, <1>3, <1>4, <1>5 DEF Occupancy

LEMMA SlotIs ==
    ASSUME Divides, NEW m \in Int
    PROVE  Slot(Wrap(m)) = m % Capacity /\ m % Capacity \in 0..Capacity - 1
<1>1. (m % SeqRange) % UsizeRange = m % UsizeRange
  BY RingAssumption, Ranges, Coarser
<1>2. (m % UsizeRange) % Capacity = m % Capacity
  BY Ranges, Coarser DEF Divides
<1>3. QED
  BY <1>1, <1>2, Ranges, Division DEF Slot, Usize, Wrap

\* A record is at the place that its number has.
LEMMA AtIs ==
    ASSUME Divides, RingInv, NEW k \in Int
    PROVE  At(k) = records[(read + k) % Capacity] /\ (read + k) % Capacity \in DOMAIN records
<1>1. read + k \in Int
  BY Ranges DEF RingInv
<1>2. QED
  BY <1>1, SlotIs DEF At, RingInv

LEMMA InitRing == Init => RingInv /\ Ahead(0)
<1> SUFFICES ASSUME Init PROVE RingInv /\ Ahead(0)
  OBVIOUS
<1>1. read = 0 /\ write = 0 /\ DOMAIN records = 0..Capacity - 1
  BY DEF Init
<1>2. 0 \in 0..SeqRange - 1 /\ 0 \in 0..Capacity /\ 0 + 0 = 0
  BY Ranges
<1>3. Wrap(0) = 0
  BY <1>2, Ranges, Small DEF Wrap
<1>4. Ahead(0)
  BY <1>1, <1>2, <1>3 DEF Ahead
<1>5. QED
  BY <1>1, <1>2, <1>4 DEF RingInv

-----------------------------------------------------------------------------
(***************************************************************************)
(* The unread records.                                                     *)
(***************************************************************************)
LEMMA ListIsSeq ==
    ASSUME NEW S, NEW n \in Nat, NEW f \in [1..n -> S]
    PROVE  f \in Seq(S) /\ Len(f) = n
<1>1. f \in Seq(S)
  BY SeqDef
<1>2. Len(f) \in Nat /\ DOMAIN f = 1..Len(f) /\ DOMAIN f = 1..n
  BY <1>1, LenProperties
<1>3. ASSUME NEW a \in Nat, NEW b \in Nat, 1..a = 1..b PROVE a <= b
  <2>1. a = 0 \/ a \in 1..a
    OBVIOUS
  <2>2. a = 0 \/ a \in 1..b
    BY <1>3, <2>1
  <2>3. QED
    BY <2>2
<1>4. Len(f) <= n /\ n <= Len(f)
  BY <1>2, <1>3
<1>5. QED
  BY <1>1, <1>2, <1>4

\* n records from a number on, in the slots slots.
View(slots, from, n) == [i \in 1..n |-> slots[(from + (i - 1)) % Capacity]]

LEMMA ViewIs ==
    ASSUME NEW slots, NEW from \in Int, NEW n \in Nat,
           NEW S, \A s \in 0..Capacity - 1 : slots[s] \in S
    PROVE  View(slots, from, n) \in Seq(S) /\ Len(View(slots, from, n)) = n
<1>1. \A i \in 1..n : (from + (i - 1)) % Capacity \in 0..Capacity - 1
  <2> SUFFICES ASSUME NEW i \in 1..n PROVE (from + (i - 1)) % Capacity \in 0..Capacity - 1
    OBVIOUS
  <2>1. from + (i - 1) \in Int
    OBVIOUS
  <2>2. QED
    BY <2>1, Ranges, Division
<1>2. View(slots, from, n) \in [1..n -> S]
  BY <1>1 DEF View
<1>3. QED
  BY <1>2, ListIsSeq

LEMMA WindowIs ==
    Divides /\ RingInv =>
        \A n \in 0..Capacity :
            Ahead(n) => Occupancy = n /\ Window = View(records, read, n)
<1> SUFFICES ASSUME Divides, RingInv, NEW n \in 0..Capacity, Ahead(n)
             PROVE  Occupancy = n /\ Window = View(records, read, n)
  OBVIOUS
<1>1. Occupancy = n
  BY OccupancyIs
<1>2. \A i \in 1..n : At(i - 1) = records[(read + (i - 1)) % Capacity]
  <2> SUFFICES ASSUME NEW i \in 1..n PROVE At(i - 1) = records[(read + (i - 1)) % Capacity]
    OBVIOUS
  <2>1. i - 1 \in Int
    OBVIOUS
  <2>2. QED
    BY <2>1, AtIs
<1>3. QED
  BY <1>1, <1>2 DEF Window, View

\* The same of the next state.
LEMMA WindowNext ==
    (Divides /\ RingInv =>
        \A n \in 0..Capacity :
            Ahead(n) => Occupancy = n /\ Window = View(records, read, n))'
  BY WindowIs, PTL

-----------------------------------------------------------------------------
(***************************************************************************)
(* Emitting.                                                               *)
(***************************************************************************)
LEMMA GroupIs ==
    ASSUME NEW call \in Calls
    PROVE  /\ Len(Group(call)) \in Nat \ {0}
           /\ \E S : Group(call) \in Seq(S)
<1> DEFINE n == 1 + Len(call.fields)
           g == Group(call)
           S == {g[i] : i \in 1..n}
<1>1. n \in Nat \ {0}
  BY RingAssumption
<1>2. DOMAIN g = 1..n /\ g = [i \in 1..n |-> g[i]]
  BY DEF Group
<1> HIDE DEF g, n
<1>3. g \in [1..n -> S]
  BY <1>2
<1>4. g \in Seq(S) /\ Len(g) = n
  BY <1>1, <1>3, ListIsSeq
<1>5. QED
  BY <1>1, <1>4 DEF g

Writers(g, s) == {i \in 1..Len(g) : Slot(Wrap(write + i - 1)) = s}
Latest(I) == CHOOSE i \in I : \A j \in I : j <= i

LEMMA PushedAt ==
    ASSUME Divides, RingInv, NEW n, Ahead(n), NEW i \in Nat
    PROVE  Slot(Wrap(write + i - 1)) = (read + (n + i - 1)) % Capacity
<1>1. read \in Int /\ n \in Int
  BY Ranges DEF RingInv, Ahead
<1>2. Wrap(write + i - 1) = Wrap(read + (n + i - 1))
  <2>1. read + n \in Int /\ i - 1 \in Int
    BY <1>1
  <2>2. Wrap(Wrap(read + n) + (i - 1)) = Wrap((read + n) + (i - 1))
    BY <2>1, WrapLater
  <2>3. Wrap(read + n) \in Int
    BY <2>1, WrapIs, Ranges
  <2>4. write + i - 1 = Wrap(read + n) + (i - 1) /\ (read + n) + (i - 1) = read + (n + i - 1)
    BY <1>1, <2>3 DEF Ahead
  <2>5. QED
    BY <2>2, <2>4
<1>3. read + (n + i - 1) \in Int
  BY <1>1
<1>4. QED
  BY <1>2, <1>3, SlotIs

\* No record that is unread is written to, and each slot is written once.
LEMMA WritersAre ==
    ASSUME Divides, RingInv, NEW n, Ahead(n), NEW g, Len(g) \in Nat, n + Len(g) <= Capacity
    PROVE  /\ \A i \in 1..n : Writers(g, (read + (i - 1)) % Capacity) = {}
           /\ \A i \in 1..Len(g) : Writers(g, (read + (n + i - 1)) % Capacity) = {i}
<1>1. read \in Int /\ n \in Nat /\ Capacity \in Nat \ {0}
  BY Ranges DEF RingInv, Ahead
<1>2. \A j \in 1..Len(g) : Slot(Wrap(write + j - 1)) = (read + (n + j - 1)) % Capacity
  BY PushedAt
<1>3. ASSUME NEW a \in 0..Capacity - 1, NEW b \in 0..Capacity - 1, a # b
      PROVE  (read + a) % Capacity # (read + b) % Capacity
  <2>1. (a < b /\ b < a + Capacity) \/ (b < a /\ a < b + Capacity)
    BY <1>1, <1>3
  <2>2. a \in Int /\ b \in Int
    BY <1>1
  <2>3. QED
    BY <1>1, <2>1, <2>2, Apart
<1>4. ASSUME NEW i \in 1..n, NEW j \in 1..Len(g)
      PROVE  (read + (i - 1)) % Capacity # (read + (n + j - 1)) % Capacity
  <2>1. i - 1 \in 0..Capacity - 1 /\ n + j - 1 \in 0..Capacity - 1 /\ i - 1 # n + j - 1
    BY <1>1
  <2>2. QED
    BY <1>3, <2>1
<1>5. ASSUME NEW i \in 1..Len(g), NEW j \in 1..Len(g), i # j
      PROVE  (read + (n + i - 1)) % Capacity # (read + (n + j - 1)) % Capacity
  <2>1. n + i - 1 \in 0..Capacity - 1 /\ n + j - 1 \in 0..Capacity - 1 /\ n + i - 1 # n + j - 1
    BY <1>1, <1>5
  <2>2. QED
    BY <1>3, <2>1
<1>6. QED
  BY <1>2, <1>4, <1>5 DEF Writers

LEMMA Pushes ==
    ASSUME Divides, RingInv, NEW n, Ahead(n), NEW call \in Calls, EmitRecorded(call)
    PROVE  /\ n + Len(Group(call)) \in 0..Capacity /\ read' = read
           /\ write' = Wrap(read + (n + Len(Group(call))))
           /\ DOMAIN records' = DOMAIN records
           /\ \A i \in 1..n :
                records'[(read + (i - 1)) % Capacity] = records[(read + (i - 1)) % Capacity]
           /\ \A i \in 1..Len(Group(call)) :
                records'[(read + (n + i - 1)) % Capacity] = Group(call)[i]
<1> DEFINE g == Group(call)
<1>1. read \in Int /\ n \in 0..Capacity /\ Capacity \in Nat \ {0} /\ DOMAIN records = 0..Capacity - 1
  BY Ranges DEF RingInv, Ahead
<1>2. Len(g) \in Nat
  BY GroupIs
<1>3. Occupancy = n
  BY OccupancyIs
<1>4. /\ read' = read /\ write' = Wrap(write + Len(g)) /\ Occupancy + Len(g) <= Capacity
      /\ records' = [s \in DOMAIN records |->
                       IF Writers(g, s) = {} THEN records[s] ELSE g[Latest(Writers(g, s))]]
  BY DEF EmitRecorded, Reserve, Writers, Latest
<1> HIDE DEF g
<1>5. n + Len(g) \in 0..Capacity
  BY <1>1, <1>2, <1>3, <1>4
<1>6. write' = Wrap(read + (n + Len(g)))
  <2>1. read + n \in Int /\ (read + n) + Len(g) = read + (n + Len(g))
    BY <1>1, <1>2
  <2>2. write = Wrap(read + n)
    BY DEF Ahead
  <2>3. QED
    BY <1>2, <1>4, <2>1, <2>2, WrapLater
<1>7. \A k \in Int : (read + k) % Capacity \in DOMAIN records
  <2>1. \A k \in Int : read + k \in Int
    BY <1>1
  <2>2. QED
    BY <1>1, <2>1, Division
<1>8. /\ \A i \in 1..n : Writers(g, (read + (i - 1)) % Capacity) = {}
      /\ \A i \in 1..Len(g) : Writers(g, (read + (n + i - 1)) % Capacity) = {i}
  BY <1>2, <1>5, <1>1, WritersAre
<1>9. ASSUME NEW i \in 1..n
      PROVE  records'[(read + (i - 1)) % Capacity] = records[(read + (i - 1)) % Capacity]
  <2>1. i - 1 \in Int
    OBVIOUS
  <2>2. QED
    BY <1>4, <1>7, <1>8, <2>1
<1>10. ASSUME NEW i \in 1..Len(g)
       PROVE  records'[(read + (n + i - 1)) % Capacity] = g[i]
  <2>1. n + i - 1 \in Int /\ i <= i
    BY <1>1
  <2>2. Latest({i}) = i
    BY <2>1 DEF Latest
  <2>3. Writers(g, (read + (n + i - 1)) % Capacity) # {}
    BY <1>8
  <2>4. QED
    BY <1>4, <1>7, <1>8, <2>1, <2>2, <2>3
<1>11. QED
  BY <1>4, <1>5, <1>6, <1>9, <1>10 DEF g

\* An accepted group stands behind the records that are unread.
LEMMA Recorded ==
    ASSUME Divides, RingInv, NEW call \in Calls, EmitRecorded(call)
    PROVE  RingInv' /\ Queue!Accept(Group(call))
<1> DEFINE g == Group(call)
           c == Len(g)
<1>1. PICK n \in 0..Capacity : Ahead(n)
  BY DEF RingInv
<1>2. /\ n + c \in 0..Capacity /\ read' = read /\ write' = Wrap(read + (n + c))
      /\ DOMAIN records' = DOMAIN records
      /\ \A i \in 1..n :
            records'[(read + (i - 1)) % Capacity] = records[(read + (i - 1)) % Capacity]
      /\ \A i \in 1..c : records'[(read + (n + i - 1)) % Capacity] = g[i]
  BY <1>1, Pushes
<1>3. read \in Int /\ DOMAIN records = 0..Capacity - 1
  BY Ranges DEF RingInv
<1>4. PICK S : g \in Seq(S)
  BY GroupIs
<1>5. n \in Nat /\ c \in Nat \ {0} /\ Len(g) = c
  BY Ranges, GroupIs
<1> HIDE DEF g, c
<1>6. RingInv' /\ Ahead(n + c)'
  <2>1. Ahead(n + c)'
    BY <1>2 DEF Ahead
  <2>2. (read \in 0..SeqRange - 1)' /\ (DOMAIN records = 0..Capacity - 1)'
    BY <1>2 DEF RingInv
  <2>3. QED
    BY <1>2, <2>1, <2>2 DEF RingInv
<1> DEFINE old == View(records, read, n)
           new == View(records', read, n + c)
           All == S \union {records[s] : s \in 0..Capacity - 1}
                    \union {records'[s] : s \in 0..Capacity - 1}
<1>7. Occupancy = n /\ Window = old
  BY <1>1, WindowIs
<1>8. Occupancy' = n + c /\ Window' = new
  BY <1>2, <1>6, WindowNext
<1>9. old \in Seq(All) /\ Len(old) = n /\ g \in Seq(All)
  <2>1. \A s \in 0..Capacity - 1 : records[s] \in All
    OBVIOUS
  <2>2. g \in Seq(All)
    <3>1. S \subseteq All
      OBVIOUS
    <3> HIDE DEF All
    <3>2. QED
      BY <1>4, <3>1, LenProperties, SeqDef
  <2> HIDE DEF All
  <2>3. QED
    BY <1>3, <1>5, <2>1, <2>2, ViewIs
<1>10. new \in Seq(All) /\ Len(new) = n + c
  <2>1. \A s \in 0..Capacity - 1 : records'[s] \in All
    OBVIOUS
  <2>2. n + c \in Nat
    BY <1>5
  <2> HIDE DEF All
  <2>3. QED
    BY <1>3, <2>1, <2>2, ViewIs
<1> HIDE DEF All, old
<1>11. old \o g \in Seq(All) /\ Len(old \o g) = n + c
       /\ \A i \in 1..n + c : (old \o g)[i] = IF i <= n THEN old[i] ELSE g[i - n]
  BY <1>5, <1>9, ConcatProperties
<1> HIDE DEF new
<1>12. \A i \in 1..n : new[i] = old[i]
  <2> SUFFICES ASSUME NEW i \in 1..n PROVE new[i] = old[i]
    OBVIOUS
  <2>1. i \in 1..n + c
    BY <1>5
  <2>2. QED
    BY <1>2, <2>1 DEF View, old, new
<1>13. ASSUME NEW i \in 1..n + c, ~ (i <= n)
       PROVE  new[i] = g[i - n]
  <2>1. i - n \in 1..c /\ n + (i - n) - 1 = i - 1
    BY <1>5, <1>13
  <2>2. records'[(read + (n + (i - n) - 1)) % Capacity] = g[i - n]
    BY <1>2, <2>1
  <2>3. QED
    BY <2>1, <2>2 DEF View, new
<1>14. new = old \o g
  <2>1. ASSUME NEW i \in 1..n + c PROVE new[i] = (old \o g)[i]
    <3>1. CASE i <= n
      <4>1. i \in 1..n
        BY <3>1
      <4>2. QED
        BY <1>11, <1>12, <3>1, <4>1
    <3>2. CASE ~ (i <= n)
      BY <1>11, <1>13, <3>2
    <3>3. QED
      BY <3>1, <3>2
  <2>2. QED
    BY <1>10, <1>11, <2>1, SeqEqual
<1>15. UNCHANGED <<dropped, destination>> /\ highWater' = Peak
  BY DEF EmitRecorded
<1>16. Queue!Accept(g)
  BY <1>2, <1>5, <1>7, <1>8, <1>9, <1>10, <1>14, <1>15 DEF Queue!Accept, Peak
<1>17. QED
  BY <1>6, <1>16 DEF g

LEMMA Keeps == UNCHANGED ring => UNCHANGED Window /\ (RingInv => RingInv')
<1> SUFFICES ASSUME UNCHANGED ring
             PROVE  UNCHANGED Window /\ (RingInv => RingInv')
  OBVIOUS
<1>1. records' = records /\ read' = read /\ write' = write
  BY DEF ring
<1>2. UNCHANGED Window
  BY <1>1 DEF Window, Occupancy, At
<1>3. RingInv => RingInv'
  BY <1>1 DEF RingInv, Ahead
<1>4. QED
  BY <1>2, <1>3

LEMMA Refused ==
    ASSUME Divides, RingInv, NEW call \in Calls, EmitDropped(call)
    PROVE  RingInv' /\ Queue!Refuse(Group(call))
<1> DEFINE g == Group(call)
<1>1. PICK n \in 0..Capacity : Ahead(n)
  BY DEF RingInv
<1>2. Occupancy = n /\ Window = View(records, read, n) /\ n \in Nat
  BY <1>1, WindowIs, Ranges
<1>3. Len(Window) = n
  <2>1. read \in Int /\ \A s \in 0..Capacity - 1 : records[s] \in {records[u] : u \in 0..Capacity - 1}
    BY Ranges DEF RingInv
  <2>2. QED
    BY <1>2, <2>1, ViewIs
<1>4. Len(g) \in Nat
  BY GroupIs
<1>5. ~ Reserve(Len(g)) /\ dropped' = Saturate(dropped + Len(g))
      /\ UNCHANGED <<ring, highWater, destination>>
  BY DEF EmitDropped
<1> HIDE DEF g
<1>6. Len(Window) + Len(g) > Capacity
  BY <1>2, <1>3, <1>4, <1>5, Ranges DEF Reserve
<1>7. Queue!Refuse(g)
  BY <1>5, <1>6, Keeps DEF Queue!Refuse, Queue!Saturate, Saturate
<1>8. QED
  BY <1>5, <1>7, Keeps DEF g

-----------------------------------------------------------------------------
(***************************************************************************)
(* Draining.                                                               *)
(***************************************************************************)
LEMMA Least ==
    ASSUME NEW T \in SUBSET Nat, T # {}
    PROVE  \E x \in T : \A y \in T : x <= y
<1> DEFINE R == OpToRel(<, Nat)
<1>1. IsWellFoundedOn(R, Nat)
  BY NatLessThanWellFounded
<1>2. \A x, y \in Nat : y < x => <<y, x>> \in R
  BY DEF OpToRel
<1> HIDE DEF R
<1>3. \E x \in T : \A y \in T : ~ (<<y, x>> \in R)
  BY <1>1, WFMin
<1>4. PICK x \in T : \A y \in T : ~ (<<y, x>> \in R)
  BY <1>3
<1>5. ASSUME NEW y \in T PROVE x <= y
  <2>1. x \in Nat /\ y \in Nat /\ ~ (y < x)
    BY <1>2, <1>4
  <2>2. QED
    BY <2>1
<1>6. QED
  BY <1>5

LEMMA Greatest ==
    ASSUME NEW N \in Nat, NEW T \in SUBSET (0..N), T # {}
    PROVE  \E x \in T : \A y \in T : y <= x
<1> DEFINE U == {n \in Nat : N - n \in T}
<1>1. U # {} /\ U \in SUBSET Nat
  <2>1. PICK t \in T : TRUE
    OBVIOUS
  <2>2. t \in 0..N /\ N - t \in Nat /\ N - (N - t) = t
    OBVIOUS
  <2>3. N - t \in U
    BY <2>1, <2>2
  <2>4. QED
    BY <2>3
<1>2. PICK x \in U : \A y \in U : x <= y
  BY <1>1, Least
<1>3. ASSUME NEW y \in T PROVE y <= N - x
  <2>1. y \in 0..N /\ N - y \in Nat /\ N - (N - y) = y
    OBVIOUS
  <2>2. x <= N - y
    BY <1>2, <2>1
  <2>3. QED
    BY <1>2, <2>1, <2>2
<1>4. QED
  BY <1>2, <1>3


\* The ends of groups behind k, and how far a drain comes from k.
Ends(k) == {j \in k + 1..Occupancy : At(j - 1).end}
Reached(k, room) == {k} \union {j \in Ends(k) : j <= room}
Farthest(k, room) == CHOOSE m \in Reached(k, room) : \A j \in Reached(k, room) : j <= m

LEMMA FarthestIs ==
    ASSUME Occupancy \in Nat, NEW k \in 0..Occupancy, NEW room \in Nat
    PROVE  /\ Farthest(k, room) \in Reached(k, room)
           /\ \A j \in Reached(k, room) : j <= Farthest(k, room)
<1>1. Reached(k, room) \in SUBSET (0..Occupancy) /\ Reached(k, room) # {}
  BY DEF Reached, Ends
<1>2. \E m \in Reached(k, room) : \A j \in Reached(k, room) : j <= m
  BY <1>1, Greatest
<1>3. QED
  BY <1>2 DEF Farthest

LEMMA GroupFromIs ==
    ASSUME Occupancy \in Nat, NEW k \in 0..Occupancy
    PROVE  /\ Ends(k) = {} => GroupFrom(k) = 0
           /\ Ends(k) # {} => /\ GroupFrom(k) \in Ends(k)
                              /\ \A j \in Ends(k) : GroupFrom(k) <= j
<1>1. Ends(k) \in SUBSET Nat
  BY DEF Ends
<1>2. Ends(k) # {} => \E j \in Ends(k) : \A i \in Ends(k) : j <= i
  BY <1>1, Least
<1>3. GroupFrom(k) = IF Ends(k) = {} THEN 0 ELSE CHOOSE j \in Ends(k) : \A i \in Ends(k) : j <= i
  BY DEF GroupFrom, Ends
<1>4. QED
  BY <1>2, <1>3

LEMMA FarthestSteps ==
    ASSUME Occupancy \in Nat, NEW k \in 0..Occupancy, NEW room \in Nat
    PROVE  Farthest(k, room) =
             IF GroupFrom(k) = 0 \/ GroupFrom(k) > room
             THEN k ELSE Farthest(GroupFrom(k), room)
<1> DEFINE G == GroupFrom(k)
<1>1. \A j \in Ends(k) : j \in Nat /\ j > k /\ j <= Occupancy
  BY DEF Ends
<1>2. CASE G = 0 \/ G > room
  <2>1. \A j \in Ends(k) : ~ (j <= room)
    BY <1>1, <1>2, GroupFromIs
  <2>2. Reached(k, room) = {k}
    BY <2>1 DEF Reached
  <2>3. QED
    BY <1>2, <2>2, FarthestIs
<1>3. CASE ~ (G = 0 \/ G > room)
  <2>1. G \in Ends(k) /\ \A j \in Ends(k) : G <= j
    BY <1>3, GroupFromIs
  <2>2. G \in 0..Occupancy /\ G > k /\ G <= room
    BY <1>1, <1>3, <2>1
  <2>3. Ends(k) = {G} \union Ends(G)
    BY <2>1, <2>2 DEF Ends
  <2> HIDE DEF G
  <2>4. Reached(k, room) = {k} \union Reached(G, room)
    BY <2>2, <2>3 DEF Reached
  <2>5. /\ Farthest(G, room) \in Reached(G, room) /\ \A j \in Reached(G, room) : j <= Farthest(G, room)
        /\ Farthest(k, room) \in Reached(k, room) /\ \A j \in Reached(k, room) : j <= Farthest(k, room)
    BY <2>2, FarthestIs
  <2>6. G \in Reached(G, room)
    BY DEF Reached
  <2>7. Reached(G, room) \subseteq Nat /\ k \in Nat
    BY <2>2 DEF Reached, Ends
  <2> DEFINE a == Farthest(G, room)
             b == Farthest(k, room)
  <2>8. G <= a /\ a \in Nat /\ a <= b /\ b \in Nat
    BY <2>4, <2>5, <2>6, <2>7
  <2>9. b = k \/ b <= a
    BY <2>4, <2>5
  <2> HIDE DEF a, b
  <2>10. a = b
    BY <2>2, <2>7, <2>8, <2>9
  <2>11. QED
    BY <1>3, <2>10 DEF a, b, G
<1>4. QED
  BY <1>2, <1>3

\* Group by group a drain comes as far as whole groups fit.
LEMMA DrainedIs ==
    ASSUME Occupancy \in Nat, NEW room \in Nat
    PROVE  DrainedFrom(room) = Farthest(0, room)
<1> DEFINE Ended(k) == GroupFrom(k) = 0 \/ GroupFrom(k) > room
           Solves(f) == f = [k \in 0..Occupancy |-> IF Ended(k) THEN k ELSE f[GroupFrom(k)]]
           far == [k \in 0..Occupancy |-> Farthest(k, room)]
           reach == CHOOSE f : Solves(f)
<1>1. ASSUME NEW k \in 0..Occupancy, ~ Ended(k)
      PROVE  GroupFrom(k) \in 0..Occupancy /\ GroupFrom(k) > k
  <2>1. GroupFrom(k) \in Ends(k)
    BY <1>1, GroupFromIs
  <2>2. QED
    BY <2>1 DEF Ends
<1>2. \A k \in 0..Occupancy :
        Farthest(k, room) = IF Ended(k) THEN k ELSE Farthest(GroupFrom(k), room)
  BY FarthestSteps
<1> HIDE DEF Ended
<1>3. Solves(far)
  <2>1. \A k \in 0..Occupancy : far[k] = IF Ended(k) THEN k ELSE far[GroupFrom(k)]
    BY <1>1, <1>2
  <2>2. QED
    BY <1>1, <1>2
<1>4. Solves(reach)
  BY <1>3
<1>5. \A k \in 0..Occupancy : reach[k] = IF Ended(k) THEN k ELSE reach[GroupFrom(k)]
  BY <1>4
<1> HIDE DEF Solves, reach, far
<1>6. reach[0] = Farthest(0, room)
  <2> DEFINE Wrong == {d \in 0..Occupancy : reach[Occupancy - d] # Farthest(Occupancy - d, room)}
  <2> SUFFICES ASSUME Wrong # {} PROVE FALSE
    <3>1. Occupancy \in 0..Occupancy /\ Occupancy - Occupancy = 0
      OBVIOUS
    <3>2. QED
      BY <3>1
  <2>1. PICK d \in Wrong : \A e \in Wrong : d <= e
    <3>1. Wrong \in SUBSET Nat
      OBVIOUS
    <3>2. QED
      BY <3>1, Least
  <2> DEFINE k == Occupancy - d
             G == GroupFrom(k)
  <2>2. k \in 0..Occupancy /\ d \in Nat /\ reach[k] # Farthest(k, room)
    BY <2>1
  <2>3. ~ Ended(k) /\ reach[k] = reach[G] /\ Farthest(k, room) = Farthest(G, room)
    BY <1>2, <1>5, <2>2
  <2>4. G \in 0..Occupancy /\ G > k
    BY <1>1, <2>2, <2>3
  <2>5. Occupancy - G \in 0..Occupancy /\ Occupancy - (Occupancy - G) = G /\ Occupancy - G < d
    BY <2>2, <2>4
  <2> HIDE DEF k, G
  <2>6. Occupancy - G \in Wrong
    BY <2>2, <2>3, <2>5
  <2>7. d \in Nat /\ Occupancy - G \in Nat /\ d <= Occupancy - G
    BY <2>1, <2>2, <2>5, <2>6
  <2>8. QED
    BY <2>5, <2>7
<1>7. DrainedFrom(room) = reach[0]
  BY DEF DrainedFrom, reach, Solves, Ended
<1>8. QED
  BY <1>6, <1>7

\* The unread records as a sequence.
LEMMA Unread ==
    ASSUME Divides, RingInv, NEW n, Ahead(n)
    PROVE  /\ n \in Nat /\ Occupancy = n /\ Len(Window) = n
           /\ Window \in Seq({records[s] : s \in 0..Capacity - 1})
           /\ \A i \in 1..n : Window[i] = At(i - 1)
<1>1. n \in 0..Capacity /\ n \in Nat /\ read \in Int
  BY Ranges DEF Ahead, RingInv
<1>2. Occupancy = n /\ Window = View(records, read, n)
  BY <1>1, WindowIs
<1> DEFINE S == {records[s] : s \in 0..Capacity - 1}
<1>3. \A s \in 0..Capacity - 1 : records[s] \in S
  OBVIOUS
<1> HIDE DEF S
<1>4. View(records, read, n) \in Seq(S) /\ Len(View(records, read, n)) = n
  BY <1>1, <1>3, ViewIs
<1>5. \A i \in 1..n : Window[i] = At(i - 1)
  BY <1>2 DEF Window
<1>6. QED
  BY <1>1, <1>2, <1>4, <1>5 DEF S

LEMMA DrainedFits ==
    ASSUME Divides, RingInv, NEW n, Ahead(n), NEW room \in Nat
    PROVE  DrainedFrom(room) \in Fit(Window, room) /\ DrainedFrom(room) \in 0..n
<1>1. n \in Nat /\ Occupancy = n /\ Len(Window) = n /\ \A i \in 1..n : Window[i] = At(i - 1)
  BY Unread
<1>2. DrainedFrom(room) = Farthest(0, room)
  BY <1>1, DrainedIs
<1>3. /\ Farthest(0, room) \in Reached(0, room)
      /\ \A j \in Reached(0, room) : j <= Farthest(0, room)
  <2>1. 0 \in 0..Occupancy
    BY <1>1
  <2>2. QED
    BY <1>1, <2>1, FarthestIs
<1>4. Ends(0) = {j \in 1..Len(Window) : Window[j].end}
  BY <1>1 DEF Ends
<1>5. Reached(0, room) = {k \in Cuts(Window) : k <= room}
  BY <1>4 DEF Reached, Cuts
<1>6. Reached(0, room) \subseteq 0..n
  BY <1>1 DEF Reached, Ends
<1>7. QED
  BY <1>2, <1>3, <1>5, <1>6 DEF Fit

\* What a drain has returned is cut off the unread records in front.
LEMMA Drained ==
    ASSUME Divides, RingInv, NEW room \in 0..Capacity, DrainInto(room)
    PROVE  RingInv' /\ Queue!Drain(room)
<1> DEFINE S == {records[s] : s \in 0..Capacity - 1}
<1>1. PICK n \in 0..Capacity : Ahead(n)
  BY DEF RingInv
<1>2. read \in Int /\ room \in Nat
  BY Ranges DEF RingInv
<1>3. /\ n \in Nat /\ Len(Window) = n /\ Window \in Seq(S)
      /\ \A i \in 1..n : Window[i] = At(i - 1)
  BY <1>1, Unread
<1>4. PICK k \in Fit(Window, room) : k = DrainedFrom(room) /\ k \in 0..n
  BY <1>1, <1>2, DrainedFits
<1>5. /\ destination' = [i \in 1..k |-> At(i - 1)] /\ read' = Wrap(read + k)
      /\ records' = records /\ write' = write /\ highWater' = highWater /\ dropped' = dropped
  BY <1>4 DEF DrainInto
<1> HIDE DEF S
<1>6. k \in Int /\ n - k \in 0..Capacity /\ n - k \in Nat
  BY <1>1, <1>3, <1>4, Ranges
<1>7. \A j \in Int : Wrap(read' + j) = Wrap(read + (k + j))
  <2> SUFFICES ASSUME NEW j \in Int PROVE Wrap(read' + j) = Wrap(read + (k + j))
    OBVIOUS
  <2>1. read + k \in Int /\ (read + k) + j = read + (k + j)
    BY <1>2, <1>6
  <2>2. QED
    BY <1>5, <2>1, WrapLater
<1>8. RingInv' /\ Ahead(n - k)'
  <2>1. write' = Wrap(read' + (n - k))
    <3>1. k + (n - k) = n /\ n - k \in Int
      BY <1>3, <1>6
    <3>2. QED
      BY <1>1, <1>5, <1>7, <3>1 DEF Ahead
  <2>2. Ahead(n - k)'
    BY <1>6, <2>1 DEF Ahead
  <2>3. read' \in 0..SeqRange - 1
    <3>1. read + k \in Int
      BY <1>2, <1>6
    <3>2. QED
      BY <1>5, <3>1, WrapIs
  <2>4. DOMAIN records' = 0..Capacity - 1
    BY <1>5 DEF RingInv
  <2>5. QED
    BY <1>6, <2>2, <2>3, <2>4 DEF RingInv
<1>9. read' \in Int
  BY <1>8, Ranges DEF RingInv
<1>10. Window' = View(records, read', n - k)
  BY <1>5, <1>6, <1>8, WindowNext
<1> DEFINE rest == View(records, read', n - k)
<1>11. \A i \in 1..n - k : rest[i] = Window[k + i]
  <2> SUFFICES ASSUME NEW i \in 1..n - k PROVE rest[i] = Window[k + i]
    OBVIOUS
  <2>1. i - 1 \in Int /\ k + i \in 1..n /\ (k + i) - 1 = k + (i - 1) /\ k + (i - 1) \in Int
    BY <1>3, <1>4
  <2>2. (read' + (i - 1)) % Capacity = (read + (k + (i - 1))) % Capacity
    <3>1. read' + (i - 1) \in Int /\ read + (k + (i - 1)) \in Int
      BY <1>2, <1>9, <2>1
    <3>2. Slot(Wrap(read' + (i - 1))) = (read' + (i - 1)) % Capacity
      BY <3>1, SlotIs
    <3>3. Slot(Wrap(read + (k + (i - 1)))) = (read + (k + (i - 1))) % Capacity
      BY <3>1, SlotIs
    <3>4. QED
      BY <1>7, <2>1, <3>2, <3>3
  <2>3. Window[k + i] = records[(read + (k + (i - 1))) % Capacity]
    BY <1>3, <2>1, AtIs
  <2>4. QED
    BY <2>2, <2>3 DEF View
<1>12. rest \in Seq(S) /\ Len(rest) = n - k
  <2>1. \A s \in 0..Capacity - 1 : records[s] \in S
    BY DEF S
  <2>2. QED
    BY <1>6, <1>9, <2>1, ViewIs
<1> HIDE DEF rest
<1>13. rest = Rest(Window, k)
  <2> DEFINE tail == SubSeq(Window, k + 1, n)
  <2>1. tail \in Seq(S) /\ Len(tail) = n - k /\ \A i \in 1..n - k : tail[i] = Window[k + i]
    <3>1. /\ k + 1 \in Int /\ n \in Int
          /\ \A i \in k + 1..n : i \in 1..n
      BY <1>3, <1>4
    <3> \A i \in k + 1..n : Window[i] \in S
      BY <1>3, <3>1, ElementOfSeq
    <3>2. tail \in Seq(S) /\ Len(tail) = (IF k + 1 <= n THEN n - (k + 1) + 1 ELSE 0)
          /\ \A i \in 1..n - (k + 1) + 1 : tail[i] = Window[(k + 1) + i - 1]
      BY <3>1, SubSeqProperties
    <3>3. n - (k + 1) + 1 = n - k /\ \A i \in 1..n - k : (k + 1) + i - 1 = k + i
      BY <1>3, <1>4
    <3>4. Len(tail) = n - k
      BY <1>3, <1>4, <3>2
    <3>5. QED
      BY <3>2, <3>3, <3>4
  <2> HIDE DEF tail
  <2>2. rest = tail
    BY <1>11, <1>12, <2>1, SeqEqual
  <2>3. QED
    BY <1>3, <2>2 DEF tail, Rest
<1>14. destination' = Taken(Window, k)
  <2> DEFINE front == SubSeq(Window, 1, k)
             given == [i \in 1..k |-> At(i - 1)]
  <2>1. front \in Seq(S) /\ Len(front) = k /\ \A i \in 1..k : front[i] = Window[i]
    <3>1. 1 \in 1..n + 1 /\ k \in 0..n /\ k \in Nat
      BY <1>3, <1>4
    <3>2. front \in Seq(S) /\ Len(front) = (IF 1 <= k THEN k - 1 + 1 ELSE 0)
          /\ \A i \in 1..k - 1 + 1 : front[i] = Window[1 + i - 1]
      BY <1>3, <3>1, SubSeqProperties
    <3>3. k - 1 + 1 = k /\ \A i \in 1..k : 1 + i - 1 = i
      BY <1>6
    <3>4. Len(front) = k
      BY <3>1, <3>2
    <3>5. QED
      BY <3>2, <3>3, <3>4
  <2>2. given \in Seq(S) /\ Len(given) = k
    <3>1. \A i \in 1..k : i \in 1..n /\ given[i] = Window[i]
      BY <1>3, <1>4
    <3>2. \A i \in 1..k : given[i] \in S
      BY <1>3, <3>1, ElementOfSeq
    <3>3. given \in [1..k -> S] /\ k \in Nat
      BY <1>4, <3>2
    <3> HIDE DEF given
    <3>4. QED
      BY <3>3, ListIsSeq
  <2>3. \A i \in 1..k : given[i] = front[i]
    BY <1>3, <1>4, <2>1
  <2> HIDE DEF front, given
  <2>4. given = front
    BY <2>1, <2>2, <2>3, SeqEqual
  <2>5. QED
    BY <1>5, <2>4 DEF front, given, Taken
<1>15. Queue!Drain(room)
  <2>1. /\ Queue!Fit(Window, room) = Fit(Window, room)
        /\ Queue!Taken(Window, k) = Taken(Window, k) /\ Queue!Rest(Window, k) = Rest(Window, k)
    BY DEF Queue!Fit, Queue!Cuts, Queue!Taken, Queue!Rest, Fit, Cuts, Taken, Rest
  <2>2. QED
    BY <1>4, <1>5, <1>10, <1>13, <1>14, <2>1 DEF Queue!Drain, rest
<1>16. QED
  BY <1>8, <1>15

-----------------------------------------------------------------------------
LEMMA NextMaps ==
    ASSUME Divides, RingInv, [Next]_vars
    PROVE  RingInv' /\ [Queue!Next]_(Queue!vars)
<1>1. ASSUME NEW value, SetEnabled(value) PROVE RingInv' /\ UNCHANGED Queue!vars
  BY <1>1, Keeps DEF SetEnabled, health, Queue!vars
<1>2. ASSUME NEW call \in Calls, EmitRecorded(call) PROVE RingInv' /\ Queue!Next
  BY <1>2, Recorded DEF Queue!Next
<1>3. ASSUME NEW call \in Calls, EmitDropped(call) PROVE RingInv' /\ Queue!Next
  BY <1>3, Refused DEF Queue!Next
<1>4. ASSUME NEW room \in 0..Capacity, DrainInto(room) PROVE RingInv' /\ Queue!Next
  BY <1>4, Drained DEF Queue!Next
<1>5. CASE UNCHANGED vars
  BY <1>5, Keeps DEF vars, health, Queue!vars
<1>6. QED
  BY <1>1, <1>2, <1>3, <1>4, <1>5 DEF Next

LEMMA InitMaps == Divides /\ Init => Queue!Init
<1> SUFFICES ASSUME Divides, Init PROVE Queue!Init
  OBVIOUS
<1>1. Window = <<>>
  <2>1. RingInv /\ Ahead(0)
    BY InitRing
  <2>2. Len(Window) = 0 /\ Window \in Seq({records[s] : s \in 0..Capacity - 1})
    BY <2>1, Unread
  <2>3. QED
    BY <2>2, EmptySeq
<1>2. QED
  BY <1>1 DEF Init, Queue!Init

\* With a capacity that divides the range of usize the ring is the bounded queue
\* of whole groups, for every capacity, every width of its sequences and all
\* calls: push, drain_into and occupancy lose, reorder and cut nothing that
\* reserve accepted, however often the sequences wrap.
THEOREM RingImplementsQueue ==
    ASSUME Divides
    PROVE  Spec => ImplementsGroupQueue
<1>1. Init => RingInv /\ Queue!Init
  BY InitRing, InitMaps
<1>2. RingInv /\ [Next]_vars => RingInv' /\ [Queue!Next]_(Queue!vars)
  BY NextMaps
<1>3. QED
  BY <1>1, <1>2, PTL DEF Spec, Queue!Spec, ImplementsGroupQueue

-----------------------------------------------------------------------------
(***************************************************************************)
(* What the queue promises its reader.                                     *)
(***************************************************************************)
Whole == WholeGroups(Window) /\ WholeGroups(destination)

LEMMA GroupEnds ==
    ASSUME NEW call \in Calls
    PROVE  Group(call)[Len(Group(call))].end = TRUE
<1> DEFINE n == 1 + Len(call.fields)
<1>1. n \in Nat \ {0} /\ Len(Group(call)) \in Nat
  BY RingAssumption, GroupIs
<1>2. DOMAIN Group(call) = 1..n
  BY DEF Group
<1>3. Len(Group(call)) = n
  <2>1. PICK S : Group(call) \in Seq(S)
    BY GroupIs
  <2>2. DOMAIN Group(call) = 1..Len(Group(call))
    BY <2>1, LenProperties
  <2>3. ASSUME NEW a \in Nat, NEW b \in Nat, 1..a = 1..b PROVE ~ (a < b)
    <3>1. a < b => b \in 1..b /\ b \notin 1..a
      OBVIOUS
    <3>2. QED
      BY <2>3, <3>1
  <2> HIDE DEF n
  <2>4. ~ (n < Len(Group(call))) /\ ~ (Len(Group(call)) < n)
    BY <1>1, <1>2, <2>2, <2>3
  <2>5. QED
    BY <1>1, <2>4
<1>4. Group(call)[n].end = (n = n)
  BY <1>1 DEF Group
<1> HIDE DEF n
<1>5. QED
  BY <1>3, <1>4

LEMMA NextWhole ==
    ASSUME Divides, RingInv, Whole, [Next]_vars
    PROVE  Whole'
<1>1. PICK n \in 0..Capacity : Ahead(n)
  BY DEF RingInv
<1> DEFINE S == {records[s] : s \in 0..Capacity - 1}
<1>2. n \in Nat /\ Len(Window) = n /\ Window \in Seq(S) /\ (n > 0 => Window[n].end)
  BY <1>1, Unread DEF Whole, WholeGroups
<1> HIDE DEF S
<1>3. ASSUME NEW call \in Calls, EmitRecorded(call) PROVE Whole'
  <2> DEFINE g == Group(call)
             c == Len(g)
  <2>1. Window' = Window \o g /\ destination' = destination
    BY <1>3, Recorded DEF Queue!Accept
  <2>2. PICK T : g \in Seq(T)
    BY GroupIs
  <2>3. c \in Nat \ {0} /\ g[c].end = TRUE
    BY GroupIs, GroupEnds
  <2> HIDE DEF g
  <2> DEFINE All == S \union T
  <2>4. Window \in Seq(All) /\ g \in Seq(All)
    <3>1. S \subseteq All /\ T \subseteq All
      OBVIOUS
    <3> HIDE DEF All
    <3>2. QED
      BY <1>2, <2>2, <3>1, LenProperties, SeqDef
  <2> HIDE DEF All
  <2>5. /\ Len(Window \o g) = n + c
        /\ (Window \o g)[n + c] = IF n + c <= n THEN Window[n + c] ELSE g[n + c - n]
    <3>1. n + c \in 1..n + c
      BY <1>2, <2>3
    <3>2. Len(Window \o g) = Len(Window) + Len(g)
          /\ \A i \in 1..Len(Window) + Len(g) :
               (Window \o g)[i] = IF i <= Len(Window) THEN Window[i] ELSE g[i - Len(Window)]
      BY <2>4, ConcatProperties
    <3>3. QED
      BY <1>2, <3>1, <3>2
  <2>6. ~ (n + c <= n) /\ n + c - n = c
    BY <1>2, <2>3
  <2>7. WholeGroups(Window \o g)
    BY <2>3, <2>5, <2>6 DEF WholeGroups
  <2>8. QED
    BY <2>1, <2>7 DEF Whole
<1>4. ASSUME NEW room \in 0..Capacity, DrainInto(room) PROVE Whole'
  <2>1. PICK k \in Fit(Window, room) :
          destination' = Taken(Window, k) /\ Window' = Rest(Window, k)
    <3>1. /\ Queue!Fit(Window, room) = Fit(Window, room)
          /\ \A k : Queue!Taken(Window, k) = Taken(Window, k) /\ Queue!Rest(Window, k) = Rest(Window, k)
      BY DEF Queue!Fit, Queue!Cuts, Queue!Taken, Queue!Rest, Fit, Cuts, Taken, Rest
    <3>2. QED
      BY <1>4, <3>1, Drained DEF Queue!Drain
  <2>2. k \in 0..n /\ (k > 0 => Window[k].end)
    BY <1>2 DEF Fit, Cuts
  <2>3. \A i \in 1..n : Window[i] \in S
    BY <1>2, ElementOfSeq
  <2>4. Len(Taken(Window, k)) = k /\ (k > 0 => Taken(Window, k)[k] = Window[k])
    <3>1. /\ Len(SubSeq(Window, 1, k)) = IF 1 <= k THEN k - 1 + 1 ELSE 0
          /\ \A i \in 1..k - 1 + 1 : SubSeq(Window, 1, k)[i] = Window[1 + i - 1]
      BY <2>2, <2>3, SubSeqProperties
    <3>2. (k > 0 => k \in 1..k - 1 + 1) /\ 1 + k - 1 = k
      BY <2>2
    <3>3. QED
      BY <2>2, <3>1, <3>2 DEF Taken
  <2>5. Len(Rest(Window, k)) = n - k /\ (n > k => Rest(Window, k)[n - k] = Window[n])
    <3>1. /\ Len(SubSeq(Window, k + 1, n)) = IF k + 1 <= n THEN n - (k + 1) + 1 ELSE 0
          /\ \A i \in 1..n - (k + 1) + 1 : SubSeq(Window, k + 1, n)[i] = Window[(k + 1) + i - 1]
      BY <1>2, <2>2, <2>3, SubSeqProperties
    <3>2. (n > k => n - k \in 1..n - (k + 1) + 1) /\ (k + 1) + (n - k) - 1 = n
      BY <1>2, <2>2
    <3>3. QED
      BY <1>2, <2>2, <3>1, <3>2 DEF Rest
  <2>6. WholeGroups(Taken(Window, k))
    BY <2>2, <2>4 DEF WholeGroups
  <2>7. WholeGroups(Rest(Window, k))
    BY <1>2, <2>2, <2>5 DEF WholeGroups
  <2>8. QED
    BY <2>1, <2>6, <2>7 DEF Whole
<1>5. ASSUME UNCHANGED <<ring, destination>> PROVE Whole'
  BY <1>5, Keeps DEF Whole
<1>6. QED
  BY <1>3, <1>4, <1>5 DEF Next, vars, SetEnabled, EmitDropped

\* What is unread is whole groups, and so is what a drain returns, however little
\* room it had: a reader of the ring never sees a header without its fields.
THEOREM DrainsAreWhole ==
    ASSUME Divides
    PROVE  Spec => [](WholeGroups(Window) /\ WholeGroups(destination))
<1>1. Init => RingInv /\ Whole
  <2> SUFFICES ASSUME Init PROVE RingInv /\ Whole
    OBVIOUS
  <2>1. Window = <<>> /\ destination = <<>> /\ RingInv
    BY InitRing, InitMaps DEF Queue!Init
  <2>2. QED
    BY <2>1, EmptySeq DEF Whole, WholeGroups
<1>2. RingInv /\ Whole /\ [Next]_vars => RingInv' /\ Whole'
  BY NextMaps, NextWhole
<1>3. QED
  BY <1>1, <1>2, PTL DEF Spec, Whole
=============================================================================
