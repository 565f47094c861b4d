------------------------ MODULE ChunkCollector_proofs ------------------------
(***************************************************************************)
(* For every pool, chunk size and payload, whatever the host loses,        *)
(* repeats, reorders or damages: the sink is a prefix of what was sent, a  *)
(* buffer has one owner, complete means all, the validator accepts exactly *)
(* the grammar, and what was ingested splits into whole groups.  The first *)
(* part is about sequences of records: the one-pass validator and the      *)
(* grammar agree because both say the same of every two neighbours.        *)
(***************************************************************************)
EXTENDS ChunkCollector, SequenceTheorems, NaturalsInduction, WellFoundedInduction,
        FiniteSetTheorems, TLAPS

-----------------------------------------------------------------------------
(***************************************************************************)
(* Induction over numbers, up to a bound and over sequences, each over a   *)
(* set that holds what the claim is true of.                               *)
(***************************************************************************)
LEMMA Least ==
    ASSUME NEW T \in SUBSET Nat, T # {}
    PROVE  \E x \in T : \A y \in T : x <= y
<1> DEFINE R == OpToRel(<, Nat)
<1>1. IsWellFoundedOn(R, Nat)
  BY NatLessThanWellFounded
<1>2. \A x, y \in Nat : y < x => <<y, x>> \in R
  BY DEF OpToRel
<1> HIDE DEF R
<1>3. \E x \in T : \A y \in T : ~ (<<y, x>> \in R)
  BY <1>1, WFMin
<1>4. PICK x \in T : \A y \in T : ~ (<<y, x>> \in R)
  BY <1>3
<1>5. ASSUME NEW y \in T PROVE x <= y
  <2>1. x \in Nat /\ y \in Nat /\ ~ (y < x)
    BY <1>2, <1>4
  <2>2. QED
    BY <2>1
<1>6. QED
  BY <1>5

LEMMA UpTo ==
    ASSUME NEW N \in Nat, NEW T \in SUBSET Nat, 0 \in T, \A n \in T : n < N => n + 1 \in T
    PROVE  0..N \subseteq T
<1> DEFINE Missing == {n \in 0..N : n \notin T}
<1> SUFFICES ASSUME Missing # {} PROVE FALSE
  OBVIOUS
<1>1. PICK x \in Missing : \A y \in Missing : x <= y
  <2>1. Missing \in SUBSET Nat
    OBVIOUS
  <2>2. QED
    BY <2>1, Least
<1>2. x # 0 /\ x - 1 \in Nat /\ x - 1 \notin Missing
  BY <1>1
<1>3. QED
  BY <1>1, <1>2

LEMMA Single == ASSUME NEW S, NEW e \in S PROVE <<e>> \in Seq(S) /\ Len(<<e>>) = 1 /\ <<e>>[1] = e
  OBVIOUS

LEMMA Lists ==
    ASSUME NEW S, NEW T \in SUBSET Seq(S), <<>> \in T, \A s \in T, e \in S : Append(s, e) \in T
    PROVE  Seq(S) \subseteq T
<1> DEFINE Short == {n \in Nat : \A s \in Seq(S) : Len(s) = n => s \in T}
<1>1. \A s \in Seq(S) : Len(s) \in Nat /\ (Len(s) = 0 => s = <<>>)
  BY LenProperties, EmptySeq
<1>2. 0 \in Short
  BY <1>1
<1>3. ASSUME NEW n \in Short PROVE n + 1 \in Short
  <2>1. ASSUME NEW s \in Seq(S), Len(s) = n + 1 PROVE s \in T
    <3>1. s # <<>>
      BY <2>1, EmptySeq
    <3>2. PICK r \in Seq(S), e \in S : s = Append(r, e)
      BY <3>1, SequenceEmptyOrAppend
    <3>3. Len(r) = n
      BY <1>1, <2>1, <3>2, AppendProperties
    <3>4. QED
      BY <3>2, <3>3
  <2>2. QED
    BY <2>1
<1>4. ASSUME NEW s \in Seq(S) PROVE s \in T
  <2>1. Len(s) \in Nat
    BY <1>1
  <2> HIDE DEF Short
  <2>2. 0..Len(s) \subseteq Short
    <3>1. Short \in SUBSET Nat
      BY DEF Short
    <3>2. QED
      BY <1>2, <1>3, <2>1, <3>1, UpTo
  <2>3. Len(s) \in Short
    <3>1. Len(s) \in 0..Len(s)
      BY <2>1
    <3>2. QED
      BY <2>2, <3>1
  <2>4. QED
    BY <2>3 DEF Short
<1>5. QED
  BY <1>4

-----------------------------------------------------------------------------
(***************************************************************************)
(* Flatten.                                                                *)
(***************************************************************************)
LEMMA FlattenRecursion ==
    ASSUME NEW S, NEW gs \in Seq(S)
    PROVE  \E f : /\ f = [n \in 0..Len(gs) |-> IF n = 0 THEN <<>> ELSE f[n - 1] \o gs[n]]
                  /\ Flatten(gs) = f[Len(gs)]
<1> DEFINE f == CHOOSE g : g = [n \in 0..Len(gs) |-> IF n = 0 THEN <<>> ELSE g[n - 1] \o gs[n]]
<1>1. Len(gs) \in Nat
  BY LenProperties
<1>2. FiniteNatInductiveDefHypothesis(f, <<>>, LAMBDA v, n : v \o gs[n], 0, Len(gs))
  BY DEF FiniteNatInductiveDefHypothesis
<1>3. FiniteNatInductiveDefConclusion(f, <<>>, LAMBDA v, n : v \o gs[n], 0, Len(gs))
  BY <1>1, <1>2, FiniteNatInductiveDef
<1>4. Flatten(gs) = f[Len(gs)]
  BY DEF Flatten
<1> HIDE DEF f
<1>5. QED
  BY <1>3, <1>4 DEF FiniteNatInductiveDefConclusion

LEMMA FlattenAppend ==
    ASSUME NEW S
    PROVE  /\ Flatten(<<>>) = <<>>
           /\ \A gs \in Seq(S), g \in S : Flatten(Append(gs, g)) = Flatten(gs) \o g
<1>1. Flatten(<<>>) = <<>>
  <2>1. PICK none \in Seq(S) : none = <<>> /\ Len(none) = 0
    BY EmptySeq
  <2>2. PICK f : /\ f = [n \in 0..Len(none) |-> IF n = 0 THEN <<>> ELSE f[n - 1] \o none[n]]
                 /\ Flatten(none) = f[Len(none)]
    BY FlattenRecursion
  <2>3. f[0] = <<>>
    <3>1. 0 \in 0..Len(none)
      BY <2>1
    <3>2. QED
      BY <2>2, <3>1
  <2>4. QED
    BY <2>1, <2>2, <2>3
<1>2. ASSUME NEW gs \in Seq(S), NEW g \in S PROVE Flatten(Append(gs, g)) = Flatten(gs) \o g
  <2> DEFINE N == Len(gs)
             more == Append(gs, g)
  <2>1. N \in Nat /\ more \in Seq(S) /\ Len(more) = N + 1 /\ more[N + 1] = g
        /\ \A i \in 1..N : more[i] = gs[i]
    BY LenProperties, AppendProperties
  <2>2. PICK f : /\ f = [n \in 0..N |-> IF n = 0 THEN <<>> ELSE f[n - 1] \o gs[n]]
                 /\ Flatten(gs) = f[N]
    BY FlattenRecursion
  <2>3. PICK h : /\ h = [n \in 0..Len(more) |-> IF n = 0 THEN <<>> ELSE h[n - 1] \o more[n]]
                 /\ Flatten(more) = h[Len(more)]
    BY <2>1, FlattenRecursion
  <2> HIDE DEF N, more
  <2> DEFINE T == {n \in Nat : n <= N => h[n] = f[n]}
  <2>4. 0 \in T
    BY <2>1, <2>2, <2>3
  <2>5. ASSUME NEW n \in T, n < N PROVE n + 1 \in T
    <3>1. h[n] = f[n] /\ n + 1 \in 0..N /\ n + 1 \in 0..Len(more) /\ more[n + 1] = gs[n + 1]
      BY <2>1, <2>5
    <3>2. n + 1 # 0 /\ (n + 1) - 1 = n
      OBVIOUS
    <3>3. h[n + 1] = h[n] \o more[n + 1]
      BY <2>3, <3>1, <3>2
    <3>4. f[n + 1] = f[n] \o gs[n + 1]
      BY <2>2, <3>1, <3>2
    <3>5. h[n + 1] = f[n + 1]
      BY <3>1, <3>3, <3>4
    <3>6. QED
      BY <3>5
  <2> HIDE DEF T
  <2>6. 0..N \subseteq T
    <3>1. T \in SUBSET Nat
      BY DEF T
    <3>2. QED
      BY <2>1, <2>4, <2>5, <3>1, UpTo
  <2>7. h[N] = f[N]
    BY <2>1, <2>6 DEF T
  <2>8. h[N + 1] = h[N] \o g
    <3>1. N + 1 \in 0..Len(more) /\ N + 1 # 0 /\ (N + 1) - 1 = N
      BY <2>1
    <3>2. h[N + 1] = h[(N + 1) - 1] \o more[N + 1]
      BY <2>3, <3>1
    <3>3. QED
      BY <2>1, <3>1, <3>2
  <2>9. QED
    BY <2>1, <2>2, <2>3, <2>7, <2>8 DEF more
<1>3. QED
  BY <1>1, <1>2

LEMMA FlattenType ==
    ASSUME NEW S
    PROVE  \A gs \in Seq(Seq(S)) : Flatten(gs) \in Seq(S)
<1> DEFINE T == {gs \in Seq(Seq(S)) : Flatten(gs) \in Seq(S)}
<1>1. <<>> \in T
  BY FlattenAppend, EmptySeq
<1>2. ASSUME NEW gs \in T, NEW g \in Seq(S) PROVE Append(gs, g) \in T
  <2>1. Flatten(Append(gs, g)) = Flatten(gs) \o g
    BY FlattenAppend
  <2>2. QED
    BY <2>1, AppendProperties, ConcatProperties
<1> HIDE DEF T
<1>3. Seq(Seq(S)) \subseteq T
  <2>1. T \in SUBSET Seq(Seq(S))
    BY DEF T
  <2>2. QED
    BY <1>1, <1>2, <2>1, Lists
<1>4. QED
  BY <1>3 DEF T

LEMMA FlattenConcat ==
    ASSUME NEW S, NEW fs \in Seq(Seq(S))
    PROVE  \A gs \in Seq(Seq(S)) : Flatten(fs \o gs) = Flatten(fs) \o Flatten(gs)
<1> DEFINE T == {gs \in Seq(Seq(S)) : Flatten(fs \o gs) = Flatten(fs) \o Flatten(gs)}
<1>1. <<>> \in T
  <2>1. Flatten(fs) \in Seq(S)
    BY FlattenType
  <2>2. fs \o <<>> = fs /\ Flatten(fs) \o <<>> = Flatten(fs)
    BY <2>1, ConcatEmptySeq
  <2>3. QED
    BY <2>2, FlattenAppend, EmptySeq
<1>2. ASSUME NEW gs \in T, NEW g \in Seq(S) PROVE Append(gs, g) \in T
  <2>1. fs \o gs \in Seq(Seq(S)) /\ fs \o Append(gs, g) = Append(fs \o gs, g)
    <3>1. PICK one \in Seq(Seq(S)) : one = <<g>>
      BY Single
    <3>2. gs \in Seq(Seq(S)) /\ fs \o gs \in Seq(Seq(S))
      BY ConcatProperties
    <3>3. Append(gs, g) = gs \o one /\ Append(fs \o gs, g) = (fs \o gs) \o one
      BY <3>1, <3>2, AppendIsConcat
    <3>4. (fs \o gs) \o one = fs \o (gs \o one)
      BY <3>2, ConcatAssociative, SMTT(30)
    <3>5. QED
      BY <3>2, <3>3, <3>4
  <2>2. Flatten(fs \o Append(gs, g)) = (Flatten(fs) \o Flatten(gs)) \o g
    BY <2>1, FlattenAppend
  <2>3. Flatten(fs) \in Seq(S) /\ Flatten(gs) \in Seq(S)
    BY FlattenType
  <2>4. (Flatten(fs) \o Flatten(gs)) \o g = Flatten(fs) \o (Flatten(gs) \o g)
    BY <2>3, ConcatAssociative
  <2>5. Flatten(Append(gs, g)) = Flatten(gs) \o g /\ Append(gs, g) \in Seq(Seq(S))
    BY FlattenAppend, AppendProperties
  <2>6. QED
    BY <2>2, <2>4, <2>5
<1> HIDE DEF T
<1>3. Seq(Seq(S)) \subseteq T
  <2>1. T \in SUBSET Seq(Seq(S))
    BY DEF T
  <2>2. QED
    BY <1>1, <1>2, <2>1, Lists
<1>4. QED
  BY <1>3 DEF T

-----------------------------------------------------------------------------
(***************************************************************************)
(* The one-pass validator.                                                 *)
(***************************************************************************)
LEMMA OpenRecursion ==
    ASSUME NEW S, NEW rs \in Seq(S)
    PROVE  /\ Len(rs) \in Nat /\ Open(rs)[0] = Closed
           /\ \A n \in 1..Len(rs) : Open(rs)[n] = Step(Open(rs)[n - 1], rs[n])
<1>1. Len(rs) \in Nat
  BY LenProperties
<1>2. FiniteNatInductiveDefHypothesis(Open(rs), Closed, LAMBDA v, n : Step(v, rs[n]), 0, Len(rs))
  BY DEF FiniteNatInductiveDefHypothesis, Open
<1>3. FiniteNatInductiveDefConclusion(Open(rs), Closed, LAMBDA v, n : Step(v, rs[n]), 0, Len(rs))
  BY <1>1, <1>2, FiniteNatInductiveDef
<1>4. Open(rs) = [n \in 0..Len(rs) |-> IF n = 0 THEN Closed ELSE Step(Open(rs)[n - 1], rs[n])]
  BY <1>3 DEF FiniteNatInductiveDefConclusion
<1>5. Open(rs)[0] = Closed
  <2>1. 0 \in 0..Len(rs)
    BY <1>1
  <2>2. QED
    BY <1>4, <2>1
<1>6. ASSUME NEW n \in 1..Len(rs) PROVE Open(rs)[n] = Step(Open(rs)[n - 1], rs[n])
  <2>1. n \in 0..Len(rs) /\ n # 0
    BY <1>1
  <2>2. QED
    BY <1>4, <2>1
<1>7. QED
  BY <1>1, <1>5, <1>6

LEMMA ValidConcat ==
    ASSUME NEW S, NEW rs \in Seq(S), NEW more \in Seq(S), Valid(rs), Valid(more)
    PROVE  Valid(rs \o more)
<1> DEFINE all == rs \o more
           M == Len(rs)
           N == Len(more)
<1>1. /\ M \in Nat /\ N \in Nat /\ all \in Seq(S) /\ Len(all) = M + N
      /\ \A i \in 1..M : all[i] = rs[i]
      /\ \A i \in 1..N : all[M + i] = more[i]
  <2>1. M \in Nat /\ N \in Nat /\ all \in Seq(S) /\ Len(all) = M + N
        /\ \A i \in 1..M + N : all[i] = IF i <= M THEN rs[i] ELSE more[i - M]
    BY ConcatProperties, LenProperties
  <2> HIDE DEF all, M, N
  <2>2. ASSUME NEW i \in 1..N PROVE all[M + i] = more[i]
    <3>1. M + i \in 1..M + N /\ ~(M + i <= M) /\ (M + i) - M = i
      BY <2>1
    <3>2. QED
      BY <2>1, <3>1
  <2>3. \A i \in 1..M : all[i] = rs[i]
    BY <2>1
  <2>4. QED
    BY <2>1, <2>2, <2>3
<1>2. Open(rs)[0] = Closed /\ \A n \in 1..M : Open(rs)[n] = Step(Open(rs)[n - 1], rs[n])
  BY OpenRecursion
<1>3. Open(more)[0] = Closed /\ \A n \in 1..N : Open(more)[n] = Step(Open(more)[n - 1], more[n])
  BY OpenRecursion
<1>4. Open(all)[0] = Closed /\ \A n \in 1..M + N : Open(all)[n] = Step(Open(all)[n - 1], all[n])
  BY <1>1, OpenRecursion
<1>5. Open(rs)[M] = Closed /\ Open(more)[N] = Closed
  BY DEF Valid
<1> HIDE DEF all, M, N
<1> DEFINE T == {n \in Nat : n <= M => Open(all)[n] = Open(rs)[n]}
<1>6. 0..M \subseteq T
  <2>1. 0 \in T
    BY <1>2, <1>4
  <2>2. ASSUME NEW n \in T, n < M PROVE n + 1 \in T
    <3>1. n + 1 \in 1..M /\ n + 1 \in 1..M + N /\ (n + 1) - 1 = n /\ Open(all)[n] = Open(rs)[n]
      BY <1>1, <2>2
    <3>2. Open(all)[n + 1] = Step(Open(all)[n], all[n + 1])
      BY <1>4, <3>1
    <3>3. Open(rs)[n + 1] = Step(Open(rs)[n], rs[n + 1])
      BY <1>2, <3>1
    <3>4. Open(all)[n + 1] = Open(rs)[n + 1]
      BY <1>1, <3>1, <3>2, <3>3
    <3>5. QED
      BY <3>4
  <2>3. T \in SUBSET Nat
    OBVIOUS
  <2> HIDE DEF T
  <2>4. QED
    BY <1>1, <2>1, <2>2, <2>3, UpTo
<1>7. Open(all)[M] = Closed
  <2>1. M \in 0..M
    BY <1>1
  <2>2. QED
    BY <1>1, <1>5, <1>6, <2>1
<1> DEFINE U == {n \in Nat : n <= N => Open(all)[M + n] = Open(more)[n]}
<1>8. 0..N \subseteq U
  <2>1. 0 \in U
    <3>1. M + 0 = M
      BY <1>1
    <3>2. QED
      BY <1>3, <1>7, <3>1
  <2>2. ASSUME NEW n \in U, n < N PROVE n + 1 \in U
    <3>1. /\ n + 1 \in 1..N /\ (n + 1) - 1 = n /\ M + (n + 1) \in 1..M + N
          /\ (M + (n + 1)) - 1 = M + n /\ Open(all)[M + n] = Open(more)[n]
      BY <1>1, <2>2
    <3>2. Open(all)[M + (n + 1)] = Step(Open(all)[M + n], all[M + (n + 1)])
      BY <1>4, <3>1
    <3>3. Open(more)[n + 1] = Step(Open(more)[n], more[n + 1])
      BY <1>3, <3>1
    <3>4. Open(all)[M + (n + 1)] = Open(more)[n + 1]
      BY <1>1, <3>1, <3>2, <3>3
    <3>5. QED
      BY <3>4
  <2>3. U \in SUBSET Nat
    OBVIOUS
  <2> HIDE DEF U
  <2>4. QED
    BY <1>1, <2>1, <2>2, <2>3, UpTo
<1>9. Open(all)[M + N] = Closed
  <2>1. N \in 0..N
    BY <1>1
  <2>2. QED
    BY <1>1, <1>5, <1>8, <2>1
<1>10. QED
  BY <1>1, <1>9 DEF Valid, all

LEMMA ValidFlatten ==
    ASSUME NEW S
    PROVE  \A gs \in Seq(Seq(S)) : (\A k \in 1..Len(gs) : Valid(gs[k])) => Valid(Flatten(gs))
<1> DEFINE T == {gs \in Seq(Seq(S)) : (\A k \in 1..Len(gs) : Valid(gs[k])) => Valid(Flatten(gs))}
<1>1. <<>> \in T
  <2>1. PICK none \in Seq(S) : none = <<>> /\ Len(none) = 0
    BY EmptySeq
  <2>2. Valid(none)
    BY <2>1, OpenRecursion DEF Valid
  <2>3. <<>> \in Seq(Seq(S)) /\ Flatten(<<>>) = none
    BY <2>1, FlattenAppend, EmptySeq
  <2>4. QED
    BY <2>2, <2>3
<1>2. ASSUME NEW gs \in T, NEW g \in Seq(S) PROVE Append(gs, g) \in T
  <2>1. /\ gs \in Seq(Seq(S)) /\ Append(gs, g) \in Seq(Seq(S))
        /\ Len(gs) \in Nat /\ Len(Append(gs, g)) = Len(gs) + 1
        /\ \A k \in 1..Len(gs) : Append(gs, g)[k] = gs[k]
        /\ Append(gs, g)[Len(gs) + 1] = g
    BY AppendProperties, LenProperties
  <2>2. ASSUME \A k \in 1..Len(gs) + 1 : Valid(Append(gs, g)[k]) PROVE Valid(Flatten(Append(gs, g)))
    <3>1. Valid(g)
      <4>1. Len(gs) + 1 \in 1..Len(gs) + 1
        BY <2>1
      <4>2. QED
        BY <2>1, <2>2, <4>1
    <3>2. ASSUME NEW k \in 1..Len(gs) PROVE Valid(gs[k])
      <4>1. k \in 1..Len(gs) + 1 /\ Append(gs, g)[k] = gs[k]
        BY <2>1
      <4>2. Valid(Append(gs, g)[k])
        BY <2>2, <4>1
      <4>3. QED
        BY <4>1, <4>2
    <3>3. Valid(Flatten(gs))
      BY <3>2
    <3>4. Flatten(gs) \in Seq(S)
      BY <2>1, FlattenType
    <3>5. Valid(Flatten(gs) \o g)
      BY <3>1, <3>3, <3>4, ValidConcat
    <3>6. Flatten(Append(gs, g)) = Flatten(gs) \o g
      BY <2>1, FlattenAppend
    <3>7. QED
      BY <3>5, <3>6
  <2>3. QED
    BY <2>1, <2>2
<1> HIDE DEF T
<1>3. Seq(Seq(S)) \subseteq T
  <2>1. T \in SUBSET Seq(Seq(S))
    BY DEF T
  <2>2. QED
    BY <1>1, <1>2, <2>1, Lists
<1>4. QED
  BY <1>3 DEF T

\* What the pass amounts to, record by record: after an end, and at first, a
\* group starts; otherwise one continues in its context; and the last one ends.
Fresh(rs, n) == n = 1 \/ "end" \in rs[n - 1].flags

Shaped(rs) ==
    /\ \A n \in 1..Len(rs) :
         /\ rs[n].kind = IF Fresh(rs, n) THEN "header" ELSE "field"
         /\ "start" \in rs[n].flags <=> Fresh(rs, n)
         /\ ~Fresh(rs, n) => Context(rs[n]) = Context(rs[n - 1])
    /\ Len(rs) > 0 => "end" \in rs[Len(rs)].flags

KnownKinds(rs) == \A n \in 1..Len(rs) : rs[n].kind \in Kinds

LEMMA Contexts ==
    ASSUME NEW r
    PROVE  Context(r) # Closed /\ Context(r) # Invalid /\ Closed # Invalid
<1>1. Len(<<>>) = 0 /\ Len(<<"invalid">>) = 1 /\ Len(<<r.realm, r.clock, r.time>>) = 3
  OBVIOUS
<1>2. QED
  BY <1>1 DEF Context, Closed, Invalid

LEMMA StepCases ==
    ASSUME NEW open, NEW r
    PROVE  /\ Step(Invalid, r) = Invalid
           /\ Step(open, r) # Invalid =>
                /\ Continues(open, r) \/ Opens(open, r)
                /\ Step(open, r) = IF "end" \in r.flags THEN Closed ELSE Context(r)
  BY Contexts DEF Step, Continues, Opens

LEMMA NeverInvalid ==
    ASSUME NEW S, NEW rs \in Seq(S), Valid(rs), NEW m \in 0..Len(rs)
    PROVE  Open(rs)[m] # Invalid
<1> SUFFICES ASSUME Open(rs)[m] = Invalid PROVE FALSE
  OBVIOUS
<1> DEFINE N == Len(rs)
           T == {n \in Nat : m + n <= N => Open(rs)[m + n] = Invalid}
<1>1. N \in Nat /\ \A n \in 1..N : Open(rs)[n] = Step(Open(rs)[n - 1], rs[n])
  BY OpenRecursion
<1>2. m \in Nat /\ m <= N
  BY <1>1
<1> HIDE DEF N
<1>3. 0 \in T
  <2>1. m + 0 = m
    BY <1>2
  <2>2. QED
    BY <2>1
<1>4. ASSUME NEW n \in T PROVE n + 1 \in T
  <2>1. SUFFICES ASSUME m + (n + 1) <= N PROVE Open(rs)[m + (n + 1)] = Invalid
    OBVIOUS
  <2>2. m + (n + 1) \in 1..N /\ (m + (n + 1)) - 1 = m + n /\ m + n <= N
    BY <1>1, <1>2, <2>1
  <2>3. Open(rs)[m + (n + 1)] = Step(Open(rs)[m + n], rs[m + (n + 1)])
    BY <1>1, <2>2
  <2>4. Open(rs)[m + n] = Invalid
    BY <2>2
  <2>5. QED
    BY <2>3, <2>4, StepCases
<1>5. N - m \in T
  <2>1. N - m \in Nat /\ T \in SUBSET Nat
    BY <1>1, <1>2
  <2> HIDE DEF T
  <2>2. 0..N - m \subseteq T
    BY <1>3, <1>4, <2>1, UpTo
  <2>3. N - m \in 0..N - m
    BY <2>1
  <2>4. QED
    BY <2>2, <2>3
<1>6. Open(rs)[N] = Invalid
  <2>1. m + (N - m) = N
    BY <1>1, <1>2
  <2>2. QED
    BY <1>1, <1>5, <2>1
<1>7. QED
  BY <1>6, Contexts DEF Valid, N

LEMMA ValidIsShaped ==
    ASSUME NEW S, NEW rs \in Seq(S), Valid(rs), KnownKinds(rs)
    PROVE  Shaped(rs)
<1> DEFINE N == Len(rs)
<1>1. /\ N \in Nat /\ Open(rs)[0] = Closed
      /\ \A n \in 1..N : Open(rs)[n] = Step(Open(rs)[n - 1], rs[n])
  BY OpenRecursion
<1>2. ASSUME NEW n \in 1..N
      PROVE  /\ Open(rs)[n] = IF "end" \in rs[n].flags THEN Closed ELSE Context(rs[n])
             /\ Continues(Open(rs)[n - 1], rs[n]) \/ Opens(Open(rs)[n - 1], rs[n])
  <2>1. n \in 0..Len(rs)
    BY <1>1
  <2>2. Open(rs)[n] # Invalid
    BY <2>1, NeverInvalid
  <2>3. QED
    BY <1>1, <2>2, StepCases
<1>3. ASSUME NEW n \in 1..N
      PROVE  Open(rs)[n - 1] = IF Fresh(rs, n) THEN Closed ELSE Context(rs[n - 1])
  <2>1. CASE n = 1
    BY <1>1, <2>1 DEF Fresh
  <2>2. CASE n # 1
    <3>1. n - 1 \in 1..N
      BY <1>1, <2>2
    <3>2. QED
      BY <1>2, <2>2, <3>1 DEF Fresh
  <2>3. QED
    BY <2>1, <2>2
<1>4. ASSUME NEW n \in 1..N
      PROVE  /\ rs[n].kind = IF Fresh(rs, n) THEN "header" ELSE "field"
             /\ "start" \in rs[n].flags <=> Fresh(rs, n)
             /\ ~Fresh(rs, n) => Context(rs[n]) = Context(rs[n - 1])
  <2>1. rs[n].kind \in {"header", "field"}
    BY DEF KnownKinds, Kinds
  <2>2. CASE Fresh(rs, n)
    <3>1. Open(rs)[n - 1] = Closed
      BY <1>3, <2>2
    <3>2. ~Continues(Open(rs)[n - 1], rs[n])
      BY <3>1, Contexts DEF Continues
    <3>3. Opens(Open(rs)[n - 1], rs[n])
      BY <1>2, <3>2
    <3>4. QED
      BY <2>1, <2>2, <3>3 DEF Opens
  <2>3. CASE ~Fresh(rs, n)
    <3>1. Open(rs)[n - 1] = Context(rs[n - 1])
      BY <1>3, <2>3
    <3>2. ~Opens(Open(rs)[n - 1], rs[n])
      BY <3>1, Contexts DEF Opens
    <3>3. Continues(Open(rs)[n - 1], rs[n])
      BY <1>2, <3>2
    <3>4. QED
      BY <2>1, <2>3, <3>1, <3>3 DEF Continues
  <2>4. QED
    BY <2>2, <2>3
<1>5. ASSUME N > 0 PROVE "end" \in rs[N].flags
  <2>1. N \in 1..N
    BY <1>1, <1>5
  <2>2. Open(rs)[N] = Closed
    BY DEF Valid
  <2>3. QED
    BY <1>2, <2>1, <2>2, Contexts
<1>6. QED
  BY <1>4, <1>5 DEF Shaped

LEMMA ShapedIsValid ==
    ASSUME NEW S, NEW rs \in Seq(S), Shaped(rs)
    PROVE  Valid(rs)
<1> DEFINE N == Len(rs)
           T == {n \in Nat : n \in 1..N =>
                   Open(rs)[n] = IF "end" \in rs[n].flags THEN Closed ELSE Context(rs[n])}
<1>1. /\ N \in Nat /\ Open(rs)[0] = Closed
      /\ \A n \in 1..N : Open(rs)[n] = Step(Open(rs)[n - 1], rs[n])
  BY OpenRecursion
<1>2. 0 \in T
  OBVIOUS
<1>3. ASSUME NEW n \in T, n < N PROVE n + 1 \in T
  <2>1. n + 1 \in 1..N /\ (n + 1) - 1 = n
    BY <1>1, <1>3
  <2>2. /\ rs[n + 1].kind = IF Fresh(rs, n + 1) THEN "header" ELSE "field"
        /\ "start" \in rs[n + 1].flags <=> Fresh(rs, n + 1)
        /\ ~Fresh(rs, n + 1) => Context(rs[n + 1]) = Context(rs[n])
    BY <2>1 DEF Shaped
  <2>3. Open(rs)[n] = IF Fresh(rs, n + 1) THEN Closed ELSE Context(rs[n])
    <3>1. CASE n = 0
      BY <1>1, <3>1 DEF Fresh
    <3>2. CASE n # 0
      <4>1. n \in 1..N /\ n + 1 # 1
        BY <2>1, <3>2
      <4>2. QED
        BY <2>1, <4>1 DEF Fresh
    <3>3. QED
      BY <3>1, <3>2
  <2>4. Continues(Open(rs)[n], rs[n + 1]) \/ Opens(Open(rs)[n], rs[n + 1])
    <3>1. CASE Fresh(rs, n + 1)
      BY <2>2, <2>3, <3>1 DEF Opens
    <3>2. CASE ~Fresh(rs, n + 1)
      BY <2>2, <2>3, <3>2 DEF Continues
    <3>3. QED
      BY <3>1, <3>2
  <2>5. Open(rs)[n + 1] = Step(Open(rs)[n], rs[n + 1])
    BY <1>1, <2>1
  <2>6. QED
    BY <2>4, <2>5 DEF Step
<1>4. ASSUME N > 0 PROVE Open(rs)[N] = Closed
  <2>1. N \in 0..N /\ N \in 1..N /\ T \in SUBSET Nat
    BY <1>1, <1>4
  <2> HIDE DEF T
  <2>2. 0..N \subseteq T
    BY <1>1, <1>2, <1>3, <2>1, UpTo
  <2>3. N \in T
    BY <2>1, <2>2
  <2>4. QED
    BY <1>4, <2>1, <2>3 DEF Shaped, T
<1>5. QED
  BY <1>1, <1>4 DEF Valid

LEMMA Greatest ==
    ASSUME NEW N \in Nat, NEW T \in SUBSET (0..N), T # {}
    PROVE  \E x \in T : \A y \in T : y <= x
<1> DEFINE U == {n \in Nat : N - n \in T}
<1>1. U # {} /\ U \in SUBSET Nat
  <2>1. PICK t \in T : TRUE
    OBVIOUS
  <2>2. t \in 0..N /\ N - t \in Nat /\ N - (N - t) = t
    OBVIOUS
  <2>3. N - t \in U
    BY <2>1, <2>2
  <2>4. QED
    BY <2>3
<1>2. PICK x \in U : \A y \in U : x <= y
  BY <1>1, Least
<1>3. ASSUME NEW y \in T PROVE y <= N - x
  <2>1. y \in 0..N /\ N - y \in Nat /\ N - (N - y) = y
    OBVIOUS
  <2>2. x <= N - y
    BY <1>2, <2>1
  <2>3. QED
    BY <1>2, <2>1, <2>2
<1>4. QED
  BY <1>2, <1>3

\* The records from p + 1 to q, for cuts p and q.
LEMMA Piece ==
    ASSUME NEW S, NEW rs \in Seq(S), NEW p \in 0..Len(rs), NEW q \in 0..Len(rs), p < q
    PROVE  LET g == SubSeq(rs, p + 1, q)
           IN /\ g \in Seq(S) /\ Len(g) = q - p /\ q - p \in Nat \ {0}
              /\ \A i \in 1..q - p : p + i \in 1..Len(rs) /\ g[i] = rs[p + i]
<1>1. Len(rs) \in Nat
  BY LenProperties
<1>2. \A i \in p + 1..q : rs[i] \in S
  BY <1>1, ElementOfSeq
<1>3. /\ SubSeq(rs, p + 1, q) \in Seq(S)
      /\ Len(SubSeq(rs, p + 1, q)) = IF p + 1 <= q THEN q - (p + 1) + 1 ELSE 0
      /\ \A i \in 1..q - (p + 1) + 1 : SubSeq(rs, p + 1, q)[i] = rs[(p + 1) + i - 1]
  BY <1>1, <1>2, SubSeqProperties
<1>4. q - (p + 1) + 1 = q - p /\ p + 1 <= q /\ q - p \in Nat \ {0}
  BY <1>1
<1>5. \A i \in 1..q - p : (p + 1) + i - 1 = p + i /\ p + i \in 1..Len(rs)
  BY <1>1
<1>6. QED
  BY <1>3, <1>4, <1>5

\* Between two ends with none in between, a shaped sequence is a group.
LEMMA ShapedGroup ==
    ASSUME NEW S, NEW rs \in Seq(S), Shaped(rs),
           NEW p \in 0..Len(rs), NEW q \in 0..Len(rs), p < q,
           p = 0 \/ "end" \in rs[p].flags, "end" \in rs[q].flags,
           \A k \in p + 1..q - 1 : "end" \notin rs[k].flags
    PROVE  Group(SubSeq(rs, p + 1, q))
<1> DEFINE g == SubSeq(rs, p + 1, q)
           M == q - p
<1>1. /\ Len(rs) \in Nat /\ Len(g) = M /\ M \in Nat \ {0}
      /\ \A i \in 1..M : p + i \in 1..Len(rs) /\ g[i] = rs[p + i]
  BY Piece, LenProperties
<1>2. p \in Nat /\ q \in Nat /\ p + M = q
  BY <1>1
<1> HIDE DEF g, M
<1>3. ASSUME NEW i \in 1..M PROVE Fresh(rs, p + i) <=> i = 1
  <2>1. CASE i = 1
    <3>1. (p + 1) - 1 = p /\ (p = 0 => p + 1 = 1)
      BY <1>2
    <3>2. QED
      BY <2>1, <3>1 DEF Fresh
  <2>2. CASE i # 1
    <3>1. p + i # 1 /\ (p + i) - 1 \in p + 1..q - 1
      BY <1>1, <1>2, <2>2
    <3>2. QED
      BY <2>2, <3>1 DEF Fresh
  <2>3. QED
    BY <2>1, <2>2
<1>4. ASSUME NEW i \in 1..M
      PROVE  /\ g[i].kind = IF i = 1 THEN "header" ELSE "field"
             /\ "start" \in g[i].flags <=> i = 1
             /\ "end" \in g[i].flags <=> i = M
  <2>1. p + i \in 1..Len(rs) /\ g[i] = rs[p + i]
    BY <1>1
  <2>2. "end" \in rs[p + i].flags <=> i = M
    <3>1. CASE i = M
      BY <1>2, <3>1
    <3>2. CASE i # M
      <4>1. p + i \in p + 1..q - 1
        BY <1>1, <1>2, <3>2
      <4>2. QED
        BY <3>2, <4>1
    <3>3. QED
      BY <3>1, <3>2
  <2>3. QED
    BY <1>3, <2>1, <2>2 DEF Shaped
<1> DEFINE T == {n \in Nat : n + 1 <= M => Context(g[n + 1]) = Context(g[1])}
<1>5. 0 \in T
  BY <1>1
<1>6. ASSUME NEW n \in T PROVE n + 1 \in T
  <2>1. SUFFICES ASSUME (n + 1) + 1 <= M PROVE Context(g[(n + 1) + 1]) = Context(g[1])
    OBVIOUS
  <2>2. /\ (n + 1) + 1 \in 1..M /\ n + 1 \in 1..M /\ (n + 1) + 1 # 1 /\ n + 1 <= M
        /\ (p + ((n + 1) + 1)) - 1 = p + (n + 1)
    BY <1>1, <1>2, <2>1
  <2>3. ~Fresh(rs, p + ((n + 1) + 1)) /\ p + ((n + 1) + 1) \in 1..Len(rs)
    BY <1>1, <1>3, <2>2
  <2>4. Context(rs[p + ((n + 1) + 1)]) = Context(rs[p + (n + 1)])
    BY <2>2, <2>3 DEF Shaped
  <2>5. g[(n + 1) + 1] = rs[p + ((n + 1) + 1)] /\ g[n + 1] = rs[p + (n + 1)]
    BY <1>1, <2>2
  <2>6. QED
    BY <2>2, <2>4, <2>5
<1>7. ASSUME NEW i \in 1..M PROVE Context(g[i]) = Context(g[1])
  <2>1. M \in Nat /\ T \in SUBSET Nat
    BY <1>1
  <2> HIDE DEF T
  <2>2. 0..M \subseteq T
    BY <1>5, <1>6, <2>1, UpTo
  <2>3. i - 1 \in 0..M /\ (i - 1) + 1 = i /\ i <= M
    BY <2>1
  <2>4. i - 1 \in T
    BY <2>2, <2>3
  <2>5. QED
    BY <2>3, <2>4 DEF T
<1>8. Group(g)
  BY <1>1, <1>4, <1>7 DEF Group
<1>9. QED
  BY <1>8 DEF g

LEMMA ShapedIsSentence ==
    ASSUME NEW S, NEW rs \in Seq(S), Shaped(rs)
    PROVE  Sentence(rs)
<1> DEFINE N == Len(rs)
           cuts == {0} \union {n \in 1..N : "end" \in rs[n].flags}
<1>1. N \in Nat
  BY LenProperties
<1>2. cuts \in SUBSET (0..N) /\ {0, N} \subseteq cuts
  <2>1. CASE N = 0
    BY <2>1
  <2>2. CASE N # 0
    <3>1. N \in 1..N /\ N > 0
      BY <1>1, <2>2
    <3>2. QED
      BY <1>1, <3>1 DEF Shaped
  <2>3. QED
    BY <2>1, <2>2
<1>3. ASSUME NEW g \in Pieces(rs, cuts) PROVE Group(g)
  <2>1. PICK pair \in cuts \X cuts :
          /\ pair[1] < pair[2] /\ ~\E k \in cuts : pair[1] < k /\ k < pair[2]
          /\ g = SubSeq(rs, pair[1] + 1, pair[2])
    BY <1>3 DEF Pieces
  <2>2. PICK p \in cuts, q \in cuts :
          p < q /\ (~\E k \in cuts : p < k /\ k < q) /\ g = SubSeq(rs, p + 1, q)
    BY <2>1
  <2>3. p \in 0..N /\ q \in 0..N /\ q # 0
    BY <1>1, <1>2, <2>2
  <2>4. (p = 0 \/ "end" \in rs[p].flags) /\ "end" \in rs[q].flags
    BY <2>2, <2>3
  <2>5. ASSUME NEW k \in p + 1..q - 1 PROVE "end" \notin rs[k].flags
    <3>1. k \in 1..N /\ p < k /\ k < q
      BY <1>1, <2>3
    <3>2. QED
      BY <2>2, <3>1
  <2> HIDE DEF cuts
  <2>6. Group(SubSeq(rs, p + 1, q))
    BY <2>2, <2>3, <2>4, <2>5, ShapedGroup DEF N
  <2>7. QED
    BY <2>2, <2>6
<1>4. QED
  BY <1>2, <1>3 DEF Sentence, N

LEMMA SentenceIsShaped ==
    ASSUME NEW S, NEW rs \in Seq(S), Sentence(rs)
    PROVE  Shaped(rs)
<1> DEFINE N == Len(rs)
<1>1. N \in Nat
  BY LenProperties
<1>2. PICK cuts \in SUBSET (0..N) : 0 \in cuts /\ N \in cuts /\ \A g \in Pieces(rs, cuts) : Group(g)
  BY DEF Sentence
<1>3. ASSUME NEW n \in 1..N
      PROVE  \E p, q \in cuts :
                /\ p < n /\ n <= q /\ (~\E k \in cuts : p < k /\ k < q)
                /\ Group(SubSeq(rs, p + 1, q))
  <2> DEFINE before == {k \in cuts : k < n}
             after == {k \in cuts : n <= k}
  <2>1. before \in SUBSET (0..N) /\ 0 \in before
    <3>1. 0 < n /\ 0 \in cuts /\ cuts \subseteq 0..N
      BY <1>1, <1>2
    <3>2. QED
      BY <3>1
  <2>2. after \in SUBSET Nat /\ N \in after
    <3>1. n <= N /\ N \in cuts /\ cuts \subseteq Nat
      BY <1>1, <1>2
    <3>2. QED
      BY <3>1
  <2> HIDE DEF before, after
  <2>3. PICK p \in before : \A k \in before : k <= p
    BY <1>1, <2>1, Greatest
  <2>4. PICK q \in after : \A k \in after : q <= k
    BY <2>2, Least
  <2>5. p \in cuts /\ q \in cuts /\ p < n /\ n <= q /\ p \in 0..N /\ q \in 0..N
    BY <1>2 DEF before, after
  <2>6. ASSUME NEW k \in cuts, p < k, k < q PROVE FALSE
    <3>1. k \in 0..N
      BY <1>2
    <3>2. CASE k < n
      <4>1. k <= p
        BY <2>3, <3>2 DEF before
      <4>2. QED
        BY <1>1, <2>5, <2>6, <3>1, <4>1
    <3>3. CASE n <= k
      <4>1. q <= k
        BY <2>4, <3>3 DEF after
      <4>2. QED
        BY <1>1, <2>5, <2>6, <3>1, <4>1
    <3>4. QED
      BY <1>1, <3>1, <3>2, <3>3
  <2>7. p < q
    BY <1>1, <2>5
  <2>8. SubSeq(rs, p + 1, q) \in Pieces(rs, cuts)
    <3> DEFINE pair == <<p, q>>
    <3>1. pair \in cuts \X cuts /\ pair[1] = p /\ pair[2] = q
      <4>1. p \in cuts /\ q \in cuts
        BY <2>5
      <4>2. QED
        BY <4>1
    <3> HIDE DEF pair
    <3>2. pair \in {r \in cuts \X cuts : r[1] < r[2] /\ ~\E k \in cuts : r[1] < k /\ k < r[2]}
      BY <2>6, <2>7, <3>1
    <3>3. SubSeq(rs, pair[1] + 1, pair[2]) \in Pieces(rs, cuts)
      BY <3>2 DEF Pieces
    <3>4. QED
      BY <3>1, <3>3
  <2>9. Group(SubSeq(rs, p + 1, q))
    BY <1>2, <2>8
  <2>10. QED
    BY <2>5, <2>6, <2>9
<1>4. ASSUME NEW n \in 1..N, NEW p \in cuts, NEW q \in cuts, p < n, n <= q,
             ~\E k \in cuts : p < k /\ k < q, Group(SubSeq(rs, p + 1, q))
      PROVE  /\ rs[n].kind = IF n = p + 1 THEN "header" ELSE "field"
             /\ "start" \in rs[n].flags <=> n = p + 1
             /\ "end" \in rs[n].flags <=> n = q
             /\ "end" \in rs[n].flags <=> n \in cuts
             /\ n # p + 1 => /\ Context(rs[n]) = Context(rs[n - 1])
                             /\ n - 1 \in 1..N /\ "end" \notin rs[n - 1].flags
  <2> DEFINE g == SubSeq(rs, p + 1, q)
  <2>1. p \in 0..N /\ q \in 0..N /\ p < q
    BY <1>1, <1>2, <1>4
  <2>2. Len(g) = q - p /\ q - p \in Nat \ {0} /\ \A i \in 1..q - p : g[i] = rs[p + i]
    BY <2>1, Piece
  <2>3. Group(g)
    BY <1>4
  <2> HIDE DEF g
  <2>4. n - p \in 1..q - p /\ p + (n - p) = n /\ (n - p = 1 <=> n = p + 1) /\ (n - p = q - p <=> n = q)
    BY <1>1, <1>4, <2>1
  <2>5. g[n - p] = rs[n]
    BY <2>2, <2>4
  <2>6. /\ rs[n].kind = IF n = p + 1 THEN "header" ELSE "field"
        /\ "start" \in rs[n].flags <=> n = p + 1
        /\ "end" \in rs[n].flags <=> n = q
        /\ Context(rs[n]) = Context(g[1])
    BY <2>2, <2>3, <2>4, <2>5 DEF Group
  <2>7. n \in cuts <=> n = q
    <3>1. n \in cuts => ~(n < q)
      BY <1>4
    <3>2. QED
      BY <1>1, <1>4, <2>1, <3>1
  <2>8. n # p + 1 => /\ Context(rs[n]) = Context(rs[n - 1])
                     /\ n - 1 \in 1..N /\ "end" \notin rs[n - 1].flags
    <3>1. SUFFICES ASSUME n # p + 1
                   PROVE  /\ Context(rs[n]) = Context(rs[n - 1])
                          /\ n - 1 \in 1..N /\ "end" \notin rs[n - 1].flags
      OBVIOUS
    <3>2. /\ (n - 1) - p \in 1..q - p /\ p + ((n - 1) - p) = n - 1 /\ (n - 1) - p # q - p
          /\ n - 1 \in 1..N
      BY <1>1, <1>4, <2>1, <3>1
    <3>3. g[(n - 1) - p] = rs[n - 1]
      BY <2>2, <3>2
    <3>4. Context(rs[n - 1]) = Context(g[1]) /\ "end" \notin rs[n - 1].flags
      BY <2>2, <2>3, <3>2, <3>3 DEF Group
    <3>5. QED
      BY <2>6, <3>2, <3>4
  <2>9. QED
    BY <2>6, <2>7, <2>8
<1>5. ASSUME NEW n \in 1..N PROVE "end" \in rs[n].flags <=> n \in cuts
  BY <1>3, <1>4
<1>6. ASSUME NEW n \in 1..N
      PROVE  /\ rs[n].kind = IF Fresh(rs, n) THEN "header" ELSE "field"
             /\ "start" \in rs[n].flags <=> Fresh(rs, n)
             /\ ~Fresh(rs, n) => Context(rs[n]) = Context(rs[n - 1])
  <2>1. PICK p \in cuts, q \in cuts :
            /\ p < n /\ n <= q /\ (~\E k \in cuts : p < k /\ k < q)
            /\ Group(SubSeq(rs, p + 1, q))
    BY <1>3
  <2>2. /\ rs[n].kind = IF n = p + 1 THEN "header" ELSE "field"
        /\ "start" \in rs[n].flags <=> n = p + 1
        /\ n # p + 1 => /\ Context(rs[n]) = Context(rs[n - 1])
                        /\ n - 1 \in 1..N /\ "end" \notin rs[n - 1].flags
    BY <1>4, <2>1
  <2>3. Fresh(rs, n) <=> n = p + 1
    <3>1. CASE n = p + 1
      <4>1. p \in 0..N /\ n - 1 = p
        BY <1>1, <1>2, <3>1
      <4>2. p # 0 => p \in 1..N
        BY <1>1, <4>1
      <4>3. p # 0 => "end" \in rs[p].flags
        BY <1>5, <4>2
      <4>4. p = 0 => n = 1
        BY <3>1
      <4>5. QED
        BY <3>1, <4>1, <4>3, <4>4 DEF Fresh
    <3>2. CASE n # p + 1
      <4>1. n # 1
        BY <1>1, <2>2, <3>2
      <4>2. QED
        BY <2>2, <3>2, <4>1 DEF Fresh
    <3>3. QED
      BY <3>1, <3>2
  <2>4. QED
    BY <2>2, <2>3
<1>7. N > 0 => "end" \in rs[N].flags
  <2>1. N > 0 => N \in 1..N
    BY <1>1
  <2>2. QED
    BY <1>2, <1>5, <2>1
<1>8. QED
  BY <1>6, <1>7 DEF Shaped

\* The one-pass validator accepts the sentences of the grammar and no others.
LEMMA ValidIsSentence ==
    ASSUME NEW S, NEW rs \in Seq(S), KnownKinds(rs)
    PROVE  Valid(rs) <=> Sentence(rs)
  BY ValidIsShaped, ShapedIsSentence, SentenceIsShaped, ShapedIsValid

-----------------------------------------------------------------------------
(***************************************************************************)
(* The loop that splits.                                                   *)
(***************************************************************************)
LEMMA GroupEndFound ==
    ASSUME NEW S, NEW rs \in Seq(S), NEW i \in 1..Len(rs), "end" \in rs[Len(rs)].flags
    PROVE  LET j == GroupEnd(rs, i)
           IN j \in i..Len(rs) /\ "end" \in rs[j].flags /\ \A k \in i..j - 1 : "end" \notin rs[k].flags
<1> DEFINE T == {j \in i..Len(rs) : "end" \in rs[j].flags}
<1>1. Len(rs) \in Nat
  BY LenProperties
<1>2. T \in SUBSET Nat /\ Len(rs) \in T
  BY <1>1
<1>3. PICK j \in T : \A y \in T : j <= y
  <2> HIDE DEF T
  <2>1. QED
    BY <1>2, Least
<1>4. j \in i..Len(rs) /\ "end" \in rs[j].flags
  OBVIOUS
<1>5. ASSUME NEW k \in i..j - 1 PROVE "end" \notin rs[k].flags
  <2>1. k \in i..Len(rs) /\ ~(j <= k)
    BY <1>1, <1>4
  <2>2. k \notin T
    BY <1>3, <2>1
  <2>3. QED
    BY <2>1, <2>2
<1>6. \E jj \in i..Len(rs) : "end" \in rs[jj].flags /\ \A k \in i..jj - 1 : "end" \notin rs[k].flags
  BY <1>4, <1>5
<1>7. QED
  BY <1>6 DEF GroupEnd

\* The loop ends: at the first end there is, and none is beyond the last.
LEMMA SplitRecursion ==
    ASSUME NEW S, NEW rs \in Seq(S), Len(rs) > 0 => "end" \in rs[Len(rs)].flags
    PROVE  \A i \in 1..Len(rs) + 1 :
             SplitFrom(rs)[i] =
               IF i > Len(rs) THEN <<>>
               ELSE <<SubSeq(rs, i, GroupEnd(rs, i))>> \o SplitFrom(rs)[GroupEnd(rs, i) + 1]
<1> DEFINE N == Len(rs)
           Body(f, i) == IF i > N THEN <<>>
                         ELSE <<SubSeq(rs, i, GroupEnd(rs, i))>> \o f[GroupEnd(rs, i) + 1]
           Done(n) == \E f : \A i \in N + 1 - n..N + 1 : f[i] = Body(f, i)
           T == {n \in Nat : n <= N => Done(n)}
<1>1. N \in Nat
  BY LenProperties
<1>2. ASSUME NEW i \in 1..N PROVE GroupEnd(rs, i) \in i..N
  <2>1. N > 0
    BY <1>1
  <2>2. QED
    BY <2>1, GroupEndFound
<1> HIDE DEF N
<1>3. 0 \in T
  <2> DEFINE f == [i \in {N + 1} |-> <<>>]
  <2>1. \A i \in N + 1 - 0..N + 1 : i = N + 1
    BY <1>1
  <2>2. N + 1 > N
    BY <1>1
  <2>3. \A i \in N + 1 - 0..N + 1 : f[i] = Body(f, i)
    BY <2>1, <2>2
  <2>4. Done(0)
    BY <2>3
  <2>5. QED
    BY <2>4
<1>4. ASSUME NEW n \in T, n < N PROVE n + 1 \in T
  <2> DEFINE new == N + 1 - (n + 1)
  <2>1. n \in Nat /\ n <= N /\ Done(n)
    <3> HIDE DEF Done
    <3>1. n \in Nat /\ (n <= N => Done(n))
      OBVIOUS
    <3>2. QED
      BY <1>1, <1>4, <3>1
  <2>2. PICK f : \A i \in N + 1 - n..N + 1 : f[i] = Body(f, i)
    BY <2>1
  <2>3. /\ new \in 1..N /\ new \notin N + 1 - n..N + 1
        /\ \A i \in new..N + 1 : i = new \/ i \in N + 1 - n..N + 1
    BY <1>1, <1>4, <2>1
  <2> HIDE DEF new
  <2> DEFINE h == [i \in new..N + 1 |-> IF i = new THEN Body(f, new) ELSE f[i]]
  <2>4. ASSUME NEW i \in new..N + 1, i <= N
        PROVE  /\ GroupEnd(rs, i) + 1 \in new..N + 1 /\ GroupEnd(rs, i) + 1 # new
               /\ h[GroupEnd(rs, i) + 1] = f[GroupEnd(rs, i) + 1]
    <3>1. i \in 1..N
      BY <1>1, <2>3, <2>4
    <3>2. GroupEnd(rs, i) \in i..N
      BY <1>2, <3>1
    <3>3. GroupEnd(rs, i) + 1 \in new..N + 1 /\ GroupEnd(rs, i) + 1 # new
      BY <1>1, <2>3, <3>1, <3>2
    <3>4. QED
      BY <3>3
  <2>5. ASSUME NEW i \in new..N + 1 PROVE h[i] = Body(h, i)
    <3>1. h[i] = Body(f, i)
      <4>1. CASE i = new
        BY <4>1
      <4>2. CASE i # new
        <5>1. h[i] = f[i] /\ i \in N + 1 - n..N + 1
          BY <2>3, <4>2
        <5>2. f[i] = Body(f, i)
          BY <2>2, <5>1
        <5>3. QED
          BY <5>1, <5>2
      <4>3. QED
        BY <4>1, <4>2
    <3>2. CASE i > N
      BY <3>1, <3>2
    <3>3. CASE ~(i > N)
      <4>1. i <= N
        BY <1>1, <2>3, <3>3
      <4>2. h[GroupEnd(rs, i) + 1] = f[GroupEnd(rs, i) + 1]
        BY <2>4, <4>1
      <4> HIDE DEF h
      <4>3. Body(h, i) = Body(f, i)
        BY <4>2
      <4>4. QED
        BY <3>1, <4>3
    <3>4. QED
      BY <3>2, <3>3
  <2> HIDE DEF h, Body
  <2>6. Done(n + 1)
    BY <2>5 DEF new
  <2>7. QED
    BY <2>1, <2>6
<1> HIDE DEF Body
<1>5. Done(N)
  <2> HIDE DEF Done
  <2>1. T \in SUBSET Nat
    OBVIOUS
  <2>2. N \in 0..N
    BY <1>1
  <2> HIDE DEF T
  <2>3. 0..N \subseteq T
    BY <1>1, <1>3, <1>4, <2>1, UpTo
  <2>4. N \in T
    BY <2>2, <2>3
  <2>5. QED
    BY <1>1, <2>4 DEF T
<1>6. PICK f : \A i \in 1..N + 1 : f[i] = Body(f, i)
  <2>1. N + 1 - N = 1
    BY <1>1
  <2>2. QED
    BY <1>5, <2>1
<1> DEFINE g == [i \in 1..N + 1 |-> f[i]]
<1>7. g = [i \in 1..N + 1 |-> IF i > Len(rs) THEN <<>>
                               ELSE LET j == GroupEnd(rs, i) IN <<SubSeq(rs, i, j)>> \o g[j + 1]]
  <2>1. ASSUME NEW i \in 1..N + 1 PROVE g[i] = Body(g, i)
    <3>1. CASE i > N
      BY <1>6, <3>1 DEF Body
    <3>2. CASE ~(i > N)
      <4>1. i \in 1..N
        BY <1>1, <3>2
      <4>2. GroupEnd(rs, i) + 1 \in 1..N + 1
        BY <1>1, <1>2, <4>1
      <4>3. g[GroupEnd(rs, i) + 1] = f[GroupEnd(rs, i) + 1] /\ g[i] = f[i]
        BY <4>2
      <4> HIDE DEF g
      <4>4. QED
        BY <1>6, <4>3 DEF Body
    <3>3. QED
      BY <3>1, <3>2
  <2>2. DOMAIN g = 1..N + 1 /\ g = [i \in 1..N + 1 |-> g[i]]
    OBVIOUS
  <2> HIDE DEF g
  <2>3. g = [i \in 1..N + 1 |-> Body(g, i)]
    BY <2>1, <2>2
  <2>4. QED
    BY <2>3 DEF Body, N
<1> HIDE DEF g
<1>8. SplitFrom(rs) = [i \in 1..N + 1 |-> IF i > Len(rs) THEN <<>>
          ELSE LET j == GroupEnd(rs, i) IN <<SubSeq(rs, i, j)>> \o SplitFrom(rs)[j + 1]]
  BY <1>7 DEF SplitFrom, N
<1>9. QED
  BY <1>8 DEF N

\* A sequence the validator lets through is split into groups.
LEMMA SplitGroups ==
    ASSUME NEW S, NEW rs \in Seq(S), Shaped(rs)
    PROVE  Split(rs) \in Seq(Seq(S)) /\ \A k \in 1..Len(Split(rs)) : Group(Split(rs)[k])
<1> DEFINE N == Len(rs)
           Groups == {g \in Seq(S) : Group(g)}
           At(i) == i = 1 \/ "end" \in rs[i - 1].flags
           T == {n \in Nat : \A i \in 1..N + 1 : N + 1 - i <= n /\ At(i) => SplitFrom(rs)[i] \in Seq(Groups)}
<1>1. N \in Nat
  BY LenProperties
<1>2. ASSUME NEW i \in 1..N
      PROVE  LET j == GroupEnd(rs, i)
             IN j \in i..N /\ "end" \in rs[j].flags /\ \A k \in i..j - 1 : "end" \notin rs[k].flags
  <2>1. N > 0
    BY <1>1
  <2>2. "end" \in rs[N].flags
    BY <2>1 DEF Shaped
  <2>3. QED
    BY <2>2, GroupEndFound
<1>3. ASSUME NEW i \in 1..N + 1
      PROVE  SplitFrom(rs)[i] = IF i > N THEN <<>>
               ELSE <<SubSeq(rs, i, GroupEnd(rs, i))>> \o SplitFrom(rs)[GroupEnd(rs, i) + 1]
  BY SplitRecursion DEF Shaped
<1>4. ASSUME NEW i \in 1..N, At(i) PROVE SubSeq(rs, i, GroupEnd(rs, i)) \in Groups
  <2> DEFINE j == GroupEnd(rs, i)
             p == i - 1
  <2>1. j \in i..N /\ "end" \in rs[j].flags /\ \A k \in i..j - 1 : "end" \notin rs[k].flags
    BY <1>2
  <2>2. /\ p \in 0..N /\ p + 1 = i /\ j \in 0..N /\ p < j
        /\ p = 0 \/ "end" \in rs[p].flags
    BY <1>1, <1>4, <2>1
  <2> HIDE DEF p, j
  <2>3. \A k \in p + 1..j - 1 : "end" \notin rs[k].flags
    BY <2>1, <2>2
  <2>4. Group(SubSeq(rs, p + 1, j))
    BY <2>1, <2>2, <2>3, ShapedGroup
  <2>5. SubSeq(rs, p + 1, j) \in Seq(S)
    BY <2>2, Piece
  <2>6. QED
    BY <2>2, <2>4, <2>5 DEF j
<1> HIDE DEF N, Groups
<1>5. <<>> \in Seq(Groups)
  BY EmptySeq
<1>6. 0 \in T
  <2>1. ASSUME NEW i \in 1..N + 1, N + 1 - i <= 0 PROVE SplitFrom(rs)[i] \in Seq(Groups)
    <3>1. i > N
      BY <1>1, <2>1
    <3>2. QED
      BY <1>3, <1>5, <3>1
  <2>2. QED
    BY <2>1
<1>7. ASSUME NEW n \in T PROVE n + 1 \in T
  <2>1. ASSUME NEW i \in 1..N + 1, N + 1 - i <= n + 1, At(i) PROVE SplitFrom(rs)[i] \in Seq(Groups)
    <3>1. CASE i > N
      BY <1>3, <1>5, <3>1
    <3>2. CASE ~(i > N)
      <4> DEFINE j == GroupEnd(rs, i)
      <4>1. i \in 1..N
        BY <1>1, <3>2
      <4>2. j \in i..N /\ "end" \in rs[j].flags
        BY <1>2, <4>1
      <4> HIDE DEF j
      <4>3. j + 1 \in 1..N + 1 /\ N + 1 - (j + 1) <= n /\ (j + 1) - 1 = j
        BY <1>1, <2>1, <4>1, <4>2
      <4>4. At(j + 1)
        BY <4>2, <4>3
      <4>5. SplitFrom(rs)[j + 1] \in Seq(Groups)
        BY <4>3, <4>4
      <4>6. SubSeq(rs, i, j) \in Groups
        BY <1>4, <2>1, <4>1 DEF j
      <4>7. <<SubSeq(rs, i, j)>> \o SplitFrom(rs)[j + 1] \in Seq(Groups)
        <5>1. PICK one \in Seq(Groups) : one = <<SubSeq(rs, i, j)>>
          BY <4>6, Single
        <5>2. QED
          BY <4>5, <5>1, ConcatProperties
      <4>8. SplitFrom(rs)[i] = <<SubSeq(rs, i, j)>> \o SplitFrom(rs)[j + 1]
        BY <1>3, <3>2 DEF j
      <4>9. QED
        BY <4>7, <4>8
    <3>3. QED
      BY <3>1, <3>2
  <2>2. n + 1 \in Nat
    OBVIOUS
  <2> HIDE DEF At
  <2>3. QED
    BY <2>1, <2>2
<1>8. N \in T
  <2>1. T \in SUBSET Nat
    OBVIOUS
  <2>2. N \in 0..N
    BY <1>1
  <2> HIDE DEF T
  <2>3. 0..N \subseteq T
    BY <1>1, <1>6, <1>7, <2>1, UpTo
  <2>4. QED
    BY <2>2, <2>3
<1>9. Split(rs) \in Seq(Groups)
  <2>1. 1 \in 1..N + 1 /\ N + 1 - 1 <= N
    BY <1>1
  <2>2. QED
    BY <1>8, <2>1 DEF Split
<1>10. Groups \subseteq Seq(S) /\ \A g \in Groups : Group(g)
  BY DEF Groups
<1>11. Split(rs) \in Seq(Seq(S))
  BY <1>9, <1>10, SeqMonotonic
<1>12. \A k \in 1..Len(Split(rs)) : Split(rs)[k] \in Groups
  BY <1>9, ElementOfSeq
<1>13. QED
  BY <1>10, <1>11, <1>12

\* Where the groups of a flattened sequence end.
EndOf(gs, k) == Len(Flatten(SubSeq(gs, 1, k)))

LEMMA Prefixes ==
    ASSUME NEW S, NEW gs \in Seq(S), NEW k \in 1..Len(gs)
    PROVE  /\ SubSeq(gs, 1, k - 1) \in Seq(S) /\ SubSeq(gs, k + 1, Len(gs)) \in Seq(S) /\ gs[k] \in S
           /\ SubSeq(gs, 1, k) = Append(SubSeq(gs, 1, k - 1), gs[k])
           /\ gs = Append(SubSeq(gs, 1, k - 1), gs[k]) \o SubSeq(gs, k + 1, Len(gs))
           /\ SubSeq(gs, k, Len(gs)) = <<gs[k]>> \o SubSeq(gs, k + 1, Len(gs))
<1>1. Len(gs) \in Nat /\ gs[k] \in S
  BY LenProperties, ElementOfSeq
<1>2. SubSeq(gs, 1, k - 1) \in Seq(S) /\ SubSeq(gs, k + 1, Len(gs)) \in Seq(S)
  <2>1. (\A i \in 1..k - 1 : gs[i] \in S) /\ (\A i \in k + 1..Len(gs) : gs[i] \in S)
    BY <1>1, ElementOfSeq
  <2>2. k - 1 \in Int /\ k + 1 \in Int /\ Len(gs) \in Int /\ 1 \in Int
    BY <1>1
  <2>3. QED
    BY <2>1, <2>2, SubSeqProperties
<1>3. SubSeq(gs, 1, k) = Append(SubSeq(gs, 1, k - 1), gs[k])
  <2>1. 1 \in 1..Len(gs) /\ k \in 1..Len(gs)
    BY <1>1
  <2>2. SubSeq(gs, 1, k) = SubSeq(gs, 1, k - 1) \o <<gs[k]>>
    BY <2>1, SubSeqRecursiveSecond
  <2>3. Append(SubSeq(gs, 1, k - 1), gs[k]) = SubSeq(gs, 1, k - 1) \o <<gs[k]>>
    BY <1>1, <1>2, AppendIsConcat
  <2>4. QED
    BY <2>2, <2>3
<1>4. gs = SubSeq(gs, 1, k) \o SubSeq(gs, k + 1, Len(gs))
  <2>1. 1 \in 1..Len(gs) + 1 /\ k \in 1 - 1..Len(gs) /\ Len(gs) \in k..Len(gs)
    BY <1>1
  <2>2. SubSeq(gs, 1, k) \o SubSeq(gs, k + 1, Len(gs)) = SubSeq(gs, 1, Len(gs))
    BY <2>1, ConcatAdjacentSubSeq
  <2>3. QED
    BY <2>2, SubSeqFull
<1>5. SubSeq(gs, k, Len(gs)) = <<gs[k]>> \o SubSeq(gs, k + 1, Len(gs))
  <2>1. Len(gs) \in k..Len(gs)
    BY <1>1
  <2>2. QED
    BY <2>1, SubSeqRecursiveFirst
<1>6. QED
  BY <1>1, <1>2, <1>3, <1>4, <1>5

LEMMA Positions ==
    ASSUME NEW S, NEW gs \in Seq(Seq(S)), NEW k \in 1..Len(gs)
    PROVE  /\ EndOf(gs, k - 1) \in Nat /\ EndOf(gs, k) = EndOf(gs, k - 1) + Len(gs[k])
           /\ EndOf(gs, k) <= Len(Flatten(gs)) /\ Len(gs[k]) \in Nat /\ gs[k] \in Seq(S)
           /\ \A i \in 1..Len(gs[k]) : Flatten(gs)[EndOf(gs, k - 1) + i] = gs[k][i]
<1> DEFINE front == SubSeq(gs, 1, k - 1)
           back == SubSeq(gs, k + 1, Len(gs))
           g == gs[k]
<1>1. /\ front \in Seq(Seq(S)) /\ back \in Seq(Seq(S)) /\ g \in Seq(S)
      /\ SubSeq(gs, 1, k) = Append(front, g) /\ gs = Append(front, g) \o back
  BY Prefixes
<1>2. EndOf(gs, k - 1) = Len(Flatten(front)) /\ EndOf(gs, k) = Len(Flatten(SubSeq(gs, 1, k)))
  BY DEF EndOf
<1> HIDE DEF front, back
<1>3. Flatten(front) \in Seq(S) /\ Flatten(back) \in Seq(S) /\ Append(front, g) \in Seq(Seq(S))
  BY <1>1, FlattenType, AppendProperties
<1>4. Flatten(Append(front, g)) = Flatten(front) \o g
  BY <1>1, FlattenAppend
<1>5. Flatten(gs) = (Flatten(front) \o g) \o Flatten(back)
  BY <1>1, <1>3, <1>4, FlattenConcat
<1> HIDE DEF g
<1>6. PICK f \in Seq(S), b \in Seq(S) : f = Flatten(front) /\ b = Flatten(back)
  BY <1>3
<1>7. /\ Len(f) \in Nat /\ Len(g) \in Nat /\ Len(b) \in Nat /\ f \o g \in Seq(S)
      /\ Len(f \o g) = Len(f) + Len(g)
      /\ \A i \in 1..Len(f) + Len(g) : (f \o g)[i] = IF i <= Len(f) THEN f[i] ELSE g[i - Len(f)]
  BY <1>1, LenProperties, ConcatProperties
<1>8. /\ Len((f \o g) \o b) = Len(f) + Len(g) + Len(b)
      /\ \A i \in 1..Len(f) + Len(g) : ((f \o g) \o b)[i] = (f \o g)[i]
  BY <1>7, ConcatProperties
<1>9. ASSUME NEW i \in 1..Len(g) PROVE Flatten(gs)[Len(f) + i] = g[i]
  <2>1. Len(f) + i \in 1..Len(f) + Len(g) /\ ~(Len(f) + i <= Len(f)) /\ (Len(f) + i) - Len(f) = i
    BY <1>7
  <2>2. ((f \o g) \o b)[Len(f) + i] = (f \o g)[Len(f) + i]
    BY <1>8, <2>1
  <2>3. (f \o g)[Len(f) + i] = g[i]
    BY <1>7, <2>1
  <2>4. QED
    BY <1>5, <1>6, <2>2, <2>3
<1>10. EndOf(gs, k - 1) = Len(f) /\ EndOf(gs, k) = Len(f \o g)
  BY <1>1, <1>2, <1>4, <1>6
<1>11. Flatten(gs) = (f \o g) \o b
  BY <1>5, <1>6
<1> DEFINE p == EndOf(gs, k - 1)
           q == EndOf(gs, k)
<1>12. p = Len(f) /\ q = Len(f \o g)
  BY <1>10
<1> HIDE DEF p, q
<1>13. /\ p \in Nat /\ q = p + Len(g) /\ q <= Len(Flatten(gs)) /\ Len(g) \in Nat /\ g \in Seq(S)
       /\ \A i \in 1..Len(g) : Flatten(gs)[p + i] = g[i]
  <2>1. p \in Nat /\ q = p + Len(g) /\ Len(g) \in Nat /\ g \in Seq(S)
    BY <1>1, <1>7, <1>12
  <2>2. Len(Flatten(gs)) = p + Len(g) + Len(b)
    BY <1>8, <1>11, <1>12
  <2>3. q <= Len(Flatten(gs))
    BY <1>7, <2>1, <2>2
  <2>4. QED
    BY <1>9, <1>12, <2>1, <2>3
<1>14. QED
  BY <1>13 DEF g, p, q

LEMMA SplitFlatten ==
    ASSUME NEW S, NEW gs \in Seq(Seq(S)), \A k \in 1..Len(gs) : Group(gs[k])
    PROVE  Split(Flatten(gs)) = gs
<1> DEFINE rs == Flatten(gs)
           M == Len(gs)
           T == {m \in Nat : m <= M => SplitFrom(rs)[EndOf(gs, M - m) + 1] = SubSeq(gs, (M - m) + 1, M)}
<1>1. M \in Nat /\ rs \in Seq(S) /\ Len(rs) \in Nat
  BY FlattenType, LenProperties
<1>2. EndOf(gs, 0) = 0 /\ EndOf(gs, M) = Len(rs)
  <2>1. SubSeq(gs, 1, 0) = <<>> /\ SubSeq(gs, 1, M) = gs
    BY SubSeqEmpty, SubSeqFull
  <2>2. QED
    BY <2>1, FlattenAppend, EmptySeq DEF EndOf
<1> HIDE DEF rs, M
<1>3. ASSUME NEW k \in 1..M
      PROVE  LET from == EndOf(gs, k - 1)
                 g == gs[k]
             IN /\ from \in Nat /\ EndOf(gs, k) = from + Len(g) /\ EndOf(gs, k) <= Len(rs)
                /\ Len(g) \in Nat \ {0} /\ g \in Seq(S) /\ Group(g)
                /\ \A i \in 1..Len(g) : rs[from + i] = g[i]
                /\ \A i \in 1..Len(g) : "end" \in g[i].flags <=> i = Len(g)
  <2>1. Group(gs[k])
    BY DEF M
  <2>2. Len(gs[k]) > 0 /\ \A i \in 1..Len(gs[k]) : "end" \in gs[k][i].flags <=> i = Len(gs[k])
    BY <2>1 DEF Group
  <2>3. /\ EndOf(gs, k - 1) \in Nat /\ EndOf(gs, k) = EndOf(gs, k - 1) + Len(gs[k])
        /\ EndOf(gs, k) <= Len(rs) /\ Len(gs[k]) \in Nat /\ gs[k] \in Seq(S)
        /\ \A i \in 1..Len(gs[k]) : rs[EndOf(gs, k - 1) + i] = gs[k][i]
    BY Positions DEF rs, M
  <2>4. QED
    BY <2>1, <2>2, <2>3
<1>4. Len(rs) > 0 => "end" \in rs[Len(rs)].flags
  <2> SUFFICES ASSUME Len(rs) > 0 PROVE "end" \in rs[Len(rs)].flags
    OBVIOUS
  <2>1. M # 0
    BY <1>2
  <2>2. M \in 1..M
    BY <1>1, <2>1
  <2> DEFINE L == Len(gs[M])
             from == EndOf(gs, M - 1)
  <2>3. L \in Nat \ {0} /\ Len(rs) = from + L /\ rs[from + L] = gs[M][L] /\ "end" \in gs[M][L].flags
    <3>1. L \in Nat \ {0} /\ EndOf(gs, M) = from + L
      BY <1>3, <2>2
    <3>2. L \in 1..L
      BY <3>1
    <3>3. rs[from + L] = gs[M][L] /\ "end" \in gs[M][L].flags
      BY <1>3, <2>2, <3>2
    <3>4. QED
      BY <1>2, <3>1, <3>3
  <2>4. QED
    BY <2>3
<1>5. \A i \in 1..Len(rs) + 1 :
        SplitFrom(rs)[i] =
          IF i > Len(rs) THEN <<>>
          ELSE <<SubSeq(rs, i, GroupEnd(rs, i))>> \o SplitFrom(rs)[GroupEnd(rs, i) + 1]
  BY <1>1, <1>4, SplitRecursion
<1>6. 0 \in T
  <2>1. SubSeq(gs, M + 1, M) = <<>>
    BY <1>1, SubSeqEmpty
  <2>2. Len(rs) + 1 \in 1..Len(rs) + 1 /\ Len(rs) + 1 > Len(rs)
    BY <1>1
  <2>3. SplitFrom(rs)[Len(rs) + 1] = <<>>
    BY <1>5, <2>2
  <2>4. M - 0 = M
    BY <1>1
  <2>5. QED
    BY <1>2, <2>1, <2>3, <2>4
<1>7. ASSUME NEW k \in 1..M
      PROVE  SplitFrom(rs)[EndOf(gs, k - 1) + 1] = <<gs[k]>> \o SplitFrom(rs)[EndOf(gs, k) + 1]
  <2> DEFINE g == gs[k]
             L == Len(gs[k])
             from == EndOf(gs, k - 1)
             i == from + 1
             j == GroupEnd(rs, i)
  <2>1. /\ from \in Nat /\ EndOf(gs, k) = from + L /\ from + L <= Len(rs) /\ L \in Nat \ {0}
        /\ g \in Seq(S) /\ (\A n \in 1..L : rs[from + n] = g[n])
        /\ \A n \in 1..L : "end" \in g[n].flags <=> n = L
    <3>1. /\ from \in Nat /\ EndOf(gs, k) = from + L /\ EndOf(gs, k) <= Len(rs) /\ L \in Nat \ {0}
          /\ g \in Seq(S)
      BY <1>3
    <3>2. \A n \in 1..L : rs[from + n] = g[n]
      BY <1>3
    <3>3. \A n \in 1..L : "end" \in g[n].flags <=> n = L
      BY <1>3
    <3>4. QED
      BY <3>1, <3>2, <3>3
  <2> HIDE DEF g, L, from
  <2>2. i \in 1..Len(rs) /\ Len(rs) > 0
    BY <1>1, <2>1
  <2>3. j \in i..Len(rs) /\ "end" \in rs[j].flags /\ \A n \in i..j - 1 : "end" \notin rs[n].flags
    BY <1>1, <1>4, <2>2, GroupEndFound
  <2> HIDE DEF j
  <2>4. j = from + L
    <3>1. from + L \in i..Len(rs) /\ "end" \in rs[from + L].flags
      <4>1. L \in 1..L
        BY <2>1
      <4>2. rs[from + L] = g[L] /\ "end" \in g[L].flags
        BY <2>1, <4>1
      <4>3. QED
        BY <1>1, <2>1, <4>2
    <3>2. ~(from + L < j)
      <4>1. from + L < j => from + L \in i..j - 1
        BY <1>1, <2>1, <2>3
      <4>2. QED
        BY <2>3, <3>1, <4>1
    <3>3. ~(j < from + L)
      <4>1. SUFFICES ASSUME j < from + L PROVE FALSE
        OBVIOUS
      <4>2. j - from \in 1..L /\ from + (j - from) = j /\ j - from # L
        BY <1>1, <2>1, <2>3, <4>1
      <4>3. "end" \notin rs[j].flags
        BY <2>1, <4>2
      <4>4. QED
        BY <2>3, <4>3
    <3>4. QED
      BY <1>1, <2>1, <2>3, <3>2, <3>3
  <2>5. SubSeq(rs, i, j) = g
    <3>1. from \in 0..Len(rs) /\ from + L \in 0..Len(rs) /\ from < from + L /\ (from + L) - from = L
      BY <1>1, <2>1
    <3>2. /\ SubSeq(rs, from + 1, from + L) \in Seq(S) /\ Len(SubSeq(rs, from + 1, from + L)) = L
          /\ \A n \in 1..L : SubSeq(rs, from + 1, from + L)[n] = rs[from + n]
      BY <1>1, <3>1, Piece
    <3>3. Len(g) = L
      BY DEF g, L
    <3>4. SubSeq(rs, from + 1, from + L) = g
      BY <2>1, <3>2, <3>3, SeqEqual
    <3>5. QED
      BY <2>4, <3>4
  <2>6. i \in 1..Len(rs) + 1 /\ ~(i > Len(rs))
    BY <1>1, <2>2
  <2>7. SplitFrom(rs)[i] = <<SubSeq(rs, i, j)>> \o SplitFrom(rs)[j + 1]
    BY <1>5, <2>6 DEF j
  <2>8. QED
    BY <2>1, <2>4, <2>5, <2>7 DEF g, from
<1>8. ASSUME NEW m \in T, m < M PROVE m + 1 \in T
  <2> DEFINE k == M - m
  <2>1. k \in 1..M /\ M - (m + 1) = k - 1 /\ (k - 1) + 1 = k /\ m <= M /\ m \in Nat
    BY <1>1, <1>8
  <2>2. SplitFrom(rs)[EndOf(gs, k) + 1] = SubSeq(gs, k + 1, M)
    BY <2>1
  <2> HIDE DEF k
  <2>3. SplitFrom(rs)[EndOf(gs, k - 1) + 1] = <<gs[k]>> \o SubSeq(gs, k + 1, M)
    BY <1>7, <2>1, <2>2
  <2>4. SubSeq(gs, k, M) = <<gs[k]>> \o SubSeq(gs, k + 1, M)
    BY <2>1, Prefixes DEF M
  <2>5. SplitFrom(rs)[EndOf(gs, M - (m + 1)) + 1] = SubSeq(gs, (M - (m + 1)) + 1, M)
    BY <2>1, <2>3, <2>4
  <2>6. QED
    BY <2>1, <2>5
<1>9. M \in T
  <2>1. T \in SUBSET Nat
    OBVIOUS
  <2>2. M \in 0..M
    BY <1>1
  <2> HIDE DEF T
  <2>3. 0..M \subseteq T
    BY <1>1, <1>6, <1>8, <2>1, UpTo
  <2>4. QED
    BY <2>2, <2>3
<1>10. SplitFrom(rs)[EndOf(gs, M - M) + 1] = SubSeq(gs, (M - M) + 1, M)
  BY <1>1, <1>9
<1>11. M - M = 0 /\ 0 + 1 = 1
  BY <1>1
<1>12. SplitFrom(rs)[1] = SubSeq(gs, 1, M)
  BY <1>2, <1>10, <1>11
<1>13. QED
  BY <1>12, SubSeqFull DEF Split, rs, M
-----------------------------------------------------------------------------
LEMMA FlattenTwice ==
    ASSUME NEW S
    PROVE  \A ggs \in Seq(Seq(Seq(S))) :
             Flatten([k \in 1..Len(ggs) |-> Flatten(ggs[k])]) = Flatten(Flatten(ggs))
<1> DEFINE Each(ggs) == [k \in 1..Len(ggs) |-> Flatten(ggs[k])]
           T == {ggs \in Seq(Seq(Seq(S))) : Each(ggs) \in Seq(Seq(S)) /\ Flatten(Each(ggs)) = Flatten(Flatten(ggs))}
<1>1. Flatten(<<>>) = <<>>
  BY FlattenAppend
<1>2. <<>> \in T
  <2>1. PICK none \in Seq(Seq(Seq(S))) : none = <<>> /\ Len(none) = 0
    BY EmptySeq
  <2>2. 1..Len(none) = {}
    BY <2>1
  <2>3. PICK one \in Seq(Seq(S)) : one = <<>> /\ Len(one) = 0
    BY EmptySeq
  <2>4. one = [k \in 1..0 |-> one[k]] /\ 1..0 = {}
    BY <2>3
  <2>5. Each(none) = <<>>
    BY <2>2, <2>3, <2>4
  <2>6. QED
    BY <1>1, <2>1, <2>3, <2>5
<1>3. ASSUME NEW ggs \in T, NEW g \in Seq(Seq(S)) PROVE Append(ggs, g) \in T
  <2> DEFINE more == Append(ggs, g)
             N == Len(ggs)
  <2>1. /\ ggs \in Seq(Seq(Seq(S))) /\ Each(ggs) \in Seq(Seq(S)) /\ Flatten(Each(ggs)) = Flatten(Flatten(ggs))
    OBVIOUS
  <2>2. /\ N \in Nat /\ more \in Seq(Seq(Seq(S))) /\ Len(more) = N + 1 /\ more[N + 1] = g
        /\ \A k \in 1..N : more[k] = ggs[k]
    BY <2>1, LenProperties, AppendProperties
  <2>3. Flatten(g) \in Seq(S) /\ Flatten(ggs) \in Seq(Seq(S))
    BY <2>1, FlattenType
  <2>4. Each(more) = Append(Each(ggs), Flatten(g))
    <3>1. PICK each \in Seq(Seq(S)) : each = Each(ggs)
      BY <2>1
    <3>2. Len(each) = N /\ \A k \in 1..N : each[k] = Flatten(ggs[k])
      <4>1. each = [k \in 1..N |-> Flatten(ggs[k])]
        BY <3>1
      <4>2. DOMAIN each = 1..Len(each) /\ Len(each) \in Nat
        BY LenProperties
      <4>3. 1..Len(each) = 1..N
        BY <4>1, <4>2
      <4>4. Len(each) = N
        BY <2>2, <4>2, <4>3
      <4>5. QED
        BY <4>1, <4>4
    <3>3. PICK all \in Seq(Seq(S)) : all = Append(each, Flatten(g))
      BY <2>3, AppendProperties
    <3>4. Len(all) = N + 1 /\ all[N + 1] = Flatten(g) /\ \A k \in 1..N : all[k] = each[k]
      BY <2>3, <3>2, <3>3, AppendProperties
    <3>5. all = [k \in 1..N + 1 |-> all[k]]
      BY <3>4, LenProperties
    <3>6. \A k \in 1..N + 1 : all[k] = Flatten(more[k])
      <4>1. ASSUME NEW k \in 1..N + 1 PROVE all[k] = Flatten(more[k])
        <5>1. CASE k = N + 1
          BY <2>2, <3>4, <5>1
        <5>2. CASE k # N + 1
          <6>1. k \in 1..N
            BY <2>2, <5>2
          <6>2. QED
            BY <2>2, <3>2, <3>4, <6>1
        <5>3. QED
          BY <5>1, <5>2
      <4>2. QED
        BY <4>1
    <3> HIDE DEF more, N
    <3>7. all = [k \in 1..N + 1 |-> Flatten(more[k])]
      BY <3>5, <3>6
    <3>8. QED
      BY <2>2, <3>1, <3>3, <3>7
  <2> HIDE DEF Each
  <2>5. Each(more) \in Seq(Seq(S))
    BY <2>1, <2>3, <2>4, AppendProperties
  <2>6. Flatten(Each(more)) = Flatten(Flatten(ggs)) \o Flatten(g)
    <3>1. Flatten(Append(Each(ggs), Flatten(g))) = Flatten(Each(ggs)) \o Flatten(g)
      BY <2>1, <2>3, FlattenAppend
    <3>2. QED
      BY <2>1, <2>4, <3>1
  <2>7. Flatten(Flatten(more)) = Flatten(Flatten(ggs)) \o Flatten(g)
    <3>1. Flatten(more) = Flatten(ggs) \o g
      BY <2>1, FlattenAppend
    <3>2. Flatten(Flatten(ggs) \o g) = Flatten(Flatten(ggs)) \o Flatten(g)
      BY <2>3, FlattenConcat
    <3>3. QED
      BY <3>1, <3>2
  <2>8. QED
    BY <2>2, <2>5, <2>6, <2>7
<1> HIDE DEF Each
<1>4. Seq(Seq(Seq(S))) \subseteq T
  <2>1. T \in SUBSET Seq(Seq(Seq(S)))
    OBVIOUS
  <2> HIDE DEF T
  <2>2. QED
    BY <1>2, <1>3, <2>1, Lists
<1>5. QED
  BY <1>4 DEF Each

-----------------------------------------------------------------------------
(***************************************************************************)
(* The collector.                                                          *)
(***************************************************************************)
ChunkFields == {"type", "capture", "sequence", "token", "records", "used", "bytes"}

\* A chunk of this capture in a buffer of its pool, as the producer sent it or
\* a damaged copy of that.
Genuine(m) == m.type = "chunk" /\ m.capture = "this" /\ m.token \in Tokens

\* Genuine chunks are numbered below sent, and trace-stopped counts them all.
NetworkTrue ==
    \A m \in network :
        /\ m.type \in {"chunk", "stopped"}
        /\ m.type = "chunk" => DOMAIN m = ChunkFields
        /\ Genuine(m) => m.sequence \in 0..sent - 1 /\ (damages = 0 => m.records = Sent(m.sequence))
        /\ m.type = "stopped" /\ m.capture = "this" => ended /\ m.count = sent

Pending(m) == m \in network /\ Genuine(m) /\ m.sequence >= nextSequence

\* A chunk that may still be ingested has its buffer to itself: neither side
\* holds it, and no later chunk uses it.
PendingAlone ==
    /\ \A m \in network : Pending(m) => m.token \notin free \union Owned
    /\ \A m, n \in network : Pending(m) /\ Pending(n) /\ m.token = n.token => m.sequence = n.sequence

Counts ==
    /\ owners \in [Tokens -> {"Producer", "Collector"}] /\ free \subseteq Tokens
    /\ {nextSequence, sent, damages, completed, returned, maxInFlight} \subseteq Nat

\* Once it is stopped the collector has everything.
StoppedAtEnd == stopped # None => ended /\ stopped = sent /\ nextSequence = sent

\* The inductive invariant.
Inv == /\ Counts /\ NetworkTrue /\ PendingAlone /\ StoppedAtEnd
       /\ IngestedPrefix /\ ExclusiveOwnership

-----------------------------------------------------------------------------
\* The pool is finite, and so is what the collector owns of it.
LEMMA OwnedFinite ==
    ASSUME NEW S \in SUBSET Tokens
    PROVE  IsFiniteSet(S) /\ Cardinality(S) \in Nat /\ Cardinality(S) <= PoolSize
<1>1. PoolSize \in Nat
  BY CollectorAssumption
<1>2. IsFiniteSet(Tokens) /\ Cardinality(Tokens) = PoolSize
  BY <1>1, FS_Interval DEF Tokens
<1>3. IsFiniteSet(S) /\ Cardinality(S) <= Cardinality(Tokens)
  BY <1>2, FS_Subset
<1>4. QED
  BY <1>2, <1>3, FS_CardinalityType

LEMMA InitInv == Init => Inv
<1> SUFFICES ASSUME Init PROVE Inv
  OBVIOUS
<1> USE CollectorAssumption DEF Init
<1>1. Owned = {} /\ Cardinality(Owned) = 0
  BY FS_EmptySet DEF Owned
<1>2. \A m \in network : m.type \in {"chunk", "stopped"} /\ ~Genuine(m)
        /\ (m.type = "stopped" => m.capture = "stale") /\ (m.type = "chunk" => DOMAIN m = ChunkFields)
  BY DEF Stale, Foreign, Chunk, Stopped, Genuine, Tokens, ChunkFields
<1>3. Counts
  BY DEF Counts
<1>4. NetworkTrue
  BY <1>2 DEF NetworkTrue
<1>5. PendingAlone
  BY <1>2 DEF PendingAlone, Pending
<1>6. IngestedPrefix
  BY DEF IngestedPrefix
<1>7. ExclusiveOwnership
  BY <1>1 DEF ExclusiveOwnership
<1>8. QED
  BY <1>3, <1>4, <1>5, <1>6, <1>7 DEF Inv, StoppedAtEnd

-----------------------------------------------------------------------------
LEMMA SendInv ==
    ASSUME Inv, NEW t \in Tokens, Send(t)
    PROVE  Inv'
<1> DEFINE new == Chunk("this", sent, t, Sent(sent))
<1> USE DEF Inv, Counts
<1>1. /\ t \in free /\ ~ended /\ free' = free \ {t} /\ sent' = sent + 1
      /\ network' = network \union {new}
      /\ UNCHANGED <<collector, ended, damages>>
  BY DEF Send
<1>2. UNCHANGED <<owners, nextSequence, stopped, completed, returned, maxInFlight, sink, Owned>>
  BY <1>1 DEF collector, Owned
<1>3. /\ new.type = "chunk" /\ new.capture = "this" /\ new.token = t /\ new.sequence = sent
      /\ new.records = Sent(sent) /\ DOMAIN new = ChunkFields
  BY DEF Chunk, ChunkFields
<1>4. Counts'
  BY <1>1, <1>2
<1>5. NetworkTrue'
  BY <1>1, <1>3 DEF NetworkTrue, Genuine, Sent
<1>6. t \notin Owned
  BY <1>1 DEF ExclusiveOwnership
<1>7. \A m \in network : Pending(m) => m.token # t
  BY <1>1 DEF PendingAlone
<1>8. \A m \in network' : Pending(m)' => Pending(m) \/ m = new
  BY <1>1, <1>2 DEF Pending, Genuine
<1>9. PendingAlone'
  <2>1. \A m \in network' : Pending(m)' => m.token \notin (free \union Owned)'
    BY <1>1, <1>2, <1>3, <1>6, <1>8 DEF PendingAlone, Pending
  <2>2. ASSUME NEW m \in network', NEW n \in network', Pending(m)', Pending(n)', m.token = n.token
        PROVE  m.sequence = n.sequence
    BY <1>3, <1>7, <1>8, <2>2 DEF PendingAlone, Pending
  <2>3. QED
    BY <2>1, <2>2 DEF PendingAlone
<1>10. StoppedAtEnd'
  BY <1>1, <1>2 DEF StoppedAtEnd
<1>11. IngestedPrefix'
  BY <1>1, <1>2 DEF IngestedPrefix, Sent
<1>12. ExclusiveOwnership'
  BY <1>1, <1>2 DEF ExclusiveOwnership
<1>13. QED
  BY <1>4, <1>5, <1>9, <1>10, <1>11, <1>12

LEMMA SendStoppedInv ==
    ASSUME Inv, SendStopped
    PROVE  Inv'
<1> DEFINE new == Stopped("this", sent)
<1> USE DEF Inv, Counts
<1>1. /\ ~ended /\ ended' = TRUE /\ network' = network \union {new}
      /\ UNCHANGED <<collector, free, sent, damages>>
  BY DEF SendStopped
<1>2. UNCHANGED <<owners, nextSequence, stopped, completed, returned, maxInFlight, sink, Owned>>
  BY <1>1 DEF collector, Owned
<1>3. new.type = "stopped" /\ new.count = sent
  BY DEF Stopped
<1>4. NetworkTrue'
  BY <1>1, <1>3 DEF NetworkTrue, Genuine, Sent
<1>5. \A m \in network' : Pending(m)' => Pending(m)
  BY <1>1, <1>2, <1>3 DEF Pending, Genuine
<1>6. PendingAlone'
  BY <1>1, <1>2, <1>5 DEF PendingAlone, Pending
<1>7. StoppedAtEnd' /\ IngestedPrefix' /\ ExclusiveOwnership' /\ Counts'
  BY <1>1, <1>2 DEF StoppedAtEnd, IngestedPrefix, ExclusiveOwnership, Sent
<1>8. QED
  BY <1>4, <1>6, <1>7

\* Damage changes the length or a record, never what the message claims to be.
LEMMA DamagedKeeps ==
    ASSUME NEW m, DOMAIN m = ChunkFields,
           NEW damaged \in Damaged(m)
    PROVE  /\ DOMAIN damaged = ChunkFields /\ damaged.type = m.type
           /\ damaged.capture = m.capture /\ damaged.sequence = m.sequence /\ damaged.token = m.token
<1>1. CASE damaged \in Resized(m)
  BY <1>1 DEF Resized, ChunkFields
<1>2. ASSUME NEW i \in 1..Len(m.records), NEW r \in DamagedRecord(m.records[i]),
             damaged = [m EXCEPT !.records[i] = r]
      PROVE  /\ DOMAIN damaged = ChunkFields /\ damaged.type = m.type
             /\ damaged.capture = m.capture /\ damaged.sequence = m.sequence /\ damaged.token = m.token
  BY <1>2 DEF ChunkFields
<1>3. QED
  BY <1>1, <1>2 DEF Damaged

LEMMA DamageInv ==
    ASSUME Inv, NEW m \in network, Damage(m)
    PROVE  Inv'
<1> USE DEF Inv, Counts
<1>1. /\ m.type = "chunk" /\ m.capture = "this" /\ damages' = damages + 1
      /\ UNCHANGED <<collector, producer>>
  BY DEF Damage
<1>2. DOMAIN m = ChunkFields
  BY <1>1 DEF NetworkTrue
<1>3. PICK damaged :
        /\ network' = network \union {damaged}
        /\ DOMAIN damaged = ChunkFields /\ damaged.type = m.type
        /\ damaged.capture = m.capture /\ damaged.sequence = m.sequence /\ damaged.token = m.token
  <2>1. PICK damaged \in Damaged(m) :
          network' = network \union {damaged}
    BY DEF Damage
  <2>2. QED
    BY <1>2, <2>1, DamagedKeeps
<1>4. UNCHANGED <<owners, nextSequence, stopped, completed, returned, maxInFlight, sink, Owned, free, sent, ended>>
  BY <1>1 DEF collector, producer, Owned
<1>5. damages' \in Nat /\ damages' # 0
  BY <1>1
<1>6. NetworkTrue'
  BY <1>1, <1>3, <1>4, <1>5 DEF NetworkTrue, Genuine
<1>7. Pending(damaged)' => Pending(m)
  BY <1>1, <1>3, <1>4 DEF Pending, Genuine
<1>8. PendingAlone'
  BY <1>3, <1>4, <1>7 DEF PendingAlone, Pending, Genuine
<1>9. StoppedAtEnd' /\ IngestedPrefix' /\ ExclusiveOwnership' /\ Counts'
  BY <1>4, <1>5 DEF StoppedAtEnd, IngestedPrefix, ExclusiveOwnership
<1>10. QED
  BY <1>6, <1>8, <1>9

LEMMA IngestInv ==
    ASSUME Inv, NEW m \in network, IngestAccepted(m)
    PROVE  Inv'
<1> USE DEF Inv, Counts
<1>1. /\ m.type = "chunk" /\ m.capture = "this" /\ m.sequence = nextSequence
      /\ m.token \in Tokens /\ m.token \notin Owned /\ stopped = None
      /\ owners' = [owners EXCEPT ![m.token] = "Collector"]
      /\ nextSequence' = nextSequence + 1 /\ completed' = completed + 1
      /\ maxInFlight' = IF Cardinality(Owned) + 1 > maxInFlight THEN Cardinality(Owned) + 1 ELSE maxInFlight
      /\ sink' = [k \in DOMAIN sink \union {m.sequence} |-> IF k = m.sequence THEN m ELSE sink[k]]
      /\ UNCHANGED <<stopped, returned, producer, network, damages>>
  BY DEF IngestAccepted, Acceptable, Expected
<1>2. UNCHANGED <<free, sent, ended>>
  BY <1>1 DEF producer
<1>3. Owned' = Owned \union {m.token}
  BY <1>1 DEF Owned
<1>4. Genuine(m) /\ Pending(m) /\ nextSequence \in 0..sent - 1 /\ (damages = 0 => m.records = Sent(nextSequence))
  BY <1>1 DEF Genuine, Pending, NetworkTrue
<1>5. /\ IsFiniteSet(Owned) /\ Cardinality(Owned) \in Nat
      /\ Cardinality(Owned') = Cardinality(Owned) + 1 /\ Cardinality(Owned') <= PoolSize
  <2>1. Owned \in SUBSET Tokens /\ Owned \union {m.token} \in SUBSET Tokens
    BY <1>1 DEF Owned
  <2>2. IsFiniteSet(Owned) /\ Cardinality(Owned) \in Nat
    BY <2>1, OwnedFinite
  <2>3. Cardinality(Owned \union {m.token}) = Cardinality(Owned) + 1
    BY <1>1, <2>2, FS_AddElement
  <2>4. Cardinality(Owned \union {m.token}) <= PoolSize
    BY <2>1, OwnedFinite
  <2>5. QED
    BY <1>3, <2>2, <2>3, <2>4
<1>6. Counts'
  BY <1>1, <1>2, <1>5
<1>7. NetworkTrue'
  BY <1>1, <1>2 DEF NetworkTrue, Genuine, Sent
<1>8. \A n \in network : Pending(n)' => Pending(n) /\ n.sequence # nextSequence
  BY <1>1 DEF Pending, Genuine, NetworkTrue
<1>9. PendingAlone'
  BY <1>1, <1>2, <1>3, <1>4, <1>8 DEF PendingAlone
<1>10. StoppedAtEnd'
  BY <1>1 DEF StoppedAtEnd
<1>11. IngestedPrefix'
  BY <1>1, <1>2, <1>4 DEF IngestedPrefix, Sent
<1>12. ExclusiveOwnership'
  <2>1. Owned' \intersect free' = {}
    BY <1>2, <1>3, <1>4 DEF ExclusiveOwnership, PendingAlone
  <2>2. /\ completed = returned + Cardinality(Owned) /\ Cardinality(Owned) <= maxInFlight
        /\ maxInFlight <= PoolSize /\ PoolSize \in Nat
    BY CollectorAssumption DEF ExclusiveOwnership
  <2>3. completed' = returned' + Cardinality(Owned')
    BY <1>1, <1>5, <2>2
  <2>4. Cardinality(Owned') <= maxInFlight' /\ maxInFlight' <= PoolSize
    BY <1>1, <1>5, <2>2
  <2>5. QED
    BY <2>1, <2>3, <2>4 DEF ExclusiveOwnership
<1>13. QED
  BY <1>6, <1>7, <1>9, <1>10, <1>11, <1>12

LEMMA RecycleInv ==
    ASSUME Inv, NEW t \in Tokens, Recycle(t)
    PROVE  Inv'
<1> USE DEF Inv, Counts
<1>1. /\ owners[t] = "Collector" /\ owners' = [owners EXCEPT ![t] = "Producer"]
      /\ returned' = returned + 1 /\ free' = free \union {t}
      /\ UNCHANGED <<nextSequence, stopped, completed, maxInFlight, sink, sent, ended, network, damages>>
  BY DEF Recycle
<1>2. t \in Owned /\ Owned' = Owned \ {t}
  BY <1>1 DEF Owned
<1>3. Cardinality(Owned) \in Nat /\ Cardinality(Owned') = Cardinality(Owned) - 1
  <2>1. Owned \in SUBSET Tokens
    BY DEF Owned
  <2>2. IsFiniteSet(Owned) /\ Cardinality(Owned) \in Nat
    BY <2>1, OwnedFinite
  <2>3. QED
    BY <1>2, <2>2, FS_RemoveElement
<1>4. \A m \in network : Pending(m)' <=> Pending(m)
  BY <1>1 DEF Pending, Genuine
<1>5. PendingAlone'
  BY <1>1, <1>2, <1>4 DEF PendingAlone
<1>6. NetworkTrue' /\ StoppedAtEnd' /\ IngestedPrefix' /\ Counts'
  BY <1>1 DEF NetworkTrue, Genuine, Sent, StoppedAtEnd, IngestedPrefix
<1>7. ExclusiveOwnership'
  <2>1. /\ completed = returned + Cardinality(Owned) /\ Cardinality(Owned) <= maxInFlight
        /\ maxInFlight <= PoolSize /\ PoolSize \in Nat
    BY CollectorAssumption DEF ExclusiveOwnership
  <2>2. Owned' \intersect free' = {}
    BY <1>1, <1>2 DEF ExclusiveOwnership
  <2>3. completed' = returned' + Cardinality(Owned')
    BY <1>1, <1>3, <2>1
  <2>4. Cardinality(Owned') <= maxInFlight' /\ maxInFlight' <= PoolSize
    BY <1>1, <1>3, <2>1
  <2>5. QED
    BY <2>2, <2>3, <2>4 DEF ExclusiveOwnership
<1>8. QED
  BY <1>5, <1>6, <1>7

LEMMA StopInv ==
    ASSUME Inv, NEW m \in network, StopAccepted(m)
    PROVE  Inv'
<1> USE DEF Inv, Counts
<1>1. /\ m.type = "stopped" /\ m.capture = "this" /\ m.count = nextSequence /\ stopped' = m.count
      /\ UNCHANGED <<owners, nextSequence, completed, returned, maxInFlight, sink, producer, network, damages>>
  BY DEF StopAccepted, Stoppable
<1>2. UNCHANGED <<free, sent, ended, Owned>>
  BY <1>1 DEF producer, Owned
<1>3. StoppedAtEnd'
  BY <1>1, <1>2 DEF NetworkTrue, StoppedAtEnd
<1>4. NetworkTrue' /\ IngestedPrefix' /\ Counts' /\ ExclusiveOwnership'
  BY <1>1, <1>2 DEF NetworkTrue, Genuine, Sent, IngestedPrefix, ExclusiveOwnership
<1>5. PendingAlone'
  BY <1>1, <1>2 DEF PendingAlone, Pending, Genuine
<1>6. QED
  BY <1>3, <1>4, <1>5

LEMMA StutterInv ==
    ASSUME Inv, UNCHANGED vars
    PROVE  Inv'
<1>1. UNCHANGED <<owners, nextSequence, stopped, completed, returned, maxInFlight, sink, free, sent,
                  ended, network, damages, Owned>>
  BY DEF vars, collector, producer, Owned
<1>2. QED
  BY <1>1 DEF Inv, Counts, NetworkTrue, Genuine, Sent, PendingAlone, Pending, StoppedAtEnd,
             IngestedPrefix, ExclusiveOwnership

LEMMA StepInv == Inv /\ [Next]_vars => Inv'
<1> SUFFICES ASSUME Inv, [Next]_vars PROVE Inv'
  OBVIOUS
<1>1. ASSUME NEW t \in Tokens, Send(t) \/ Recycle(t) PROVE Inv'
  BY <1>1, SendInv, RecycleInv
<1>2. CASE SendStopped
  BY <1>2, SendStoppedInv
<1>3. ASSUME NEW m \in network,
             Damage(m) \/ IngestAccepted(m) \/ IngestRefused(m) \/ StopAccepted(m) \/ StopRefused(m)
      PROVE  Inv'
  BY <1>3, DamageInv, IngestInv, StopInv, StutterInv DEF IngestRefused, StopRefused
<1>4. CASE UNCHANGED vars
  BY <1>4, StutterInv
<1>5. QED
  BY <1>1, <1>2, <1>3, <1>4 DEF Next

LEMMA AlwaysInv == Spec => []Inv
  BY InitInv, StepInv, PTL DEF Spec

-----------------------------------------------------------------------------
\* The sink is a gapless prefix of what the producer sent, and without damage
\* exactly that, for every pool and payload and whatever the host does.
THEOREM SinkIsPrefix == Spec => []IngestedPrefix
<1>1. Inv => IngestedPrefix
  BY DEF Inv
<1>2. QED
  BY <1>1, AlwaysInv, PTL

\* A buffer is owned by one side at a time, and health counts those in flight.
THEOREM OwnershipIsExclusive == Spec => []ExclusiveOwnership
<1>1. Inv => ExclusiveOwnership
  BY DEF Inv
<1>2. QED
  BY <1>1, AlwaysInv, PTL

\* A capture that counts as complete has every chunk the producer sent.
THEOREM CompleteIsAll == Spec => []CompleteMeansAll
<1>1. Inv => CompleteMeansAll
  <2> SUFFICES ASSUME Inv, IsComplete PROVE ended /\ Cardinality(DOMAIN sink) = sent
    BY DEF CompleteMeansAll
  <2>1. ended /\ nextSequence = sent /\ sent \in Nat
    BY NoneAssumption DEF Inv, IsComplete, StoppedAtEnd, Counts
  <2>2. DOMAIN sink = 0..sent - 1
    BY <2>1 DEF Inv, IngestedPrefix
  <2>3. QED
    BY <2>1, <2>2, FS_Interval
<1>2. QED
  BY <1>1, AlwaysInv, PTL
-----------------------------------------------------------------------------
(***************************************************************************)
(* What the records are, on the way and in the sink.                       *)
(***************************************************************************)
Readables == {r \in Wire : Decodable(r)}

\* Every chunk holds records, and the sink holds readable ones.
Sound ==
    /\ sent <= Len(Payloads)
    /\ \A m \in network : m.type = "chunk" => m.records \in Seq(Wire)
    /\ \A k \in DOMAIN sink : sink[k].records \in Seq(Readables) /\ Valid(sink[k].records)

LEMMA SentRecords ==
    ASSUME NEW k \in 0..Len(Payloads) - 1
    PROVE  Sent(k) \in Seq(Wire)
<1>1. Payloads \in Seq(Seq(Seq(Wire))) /\ k + 1 \in 1..Len(Payloads)
  BY LenProperties, CollectorAssumption
<1>2. Payloads[k + 1] \in Seq(Seq(Wire))
  BY <1>1, ElementOfSeq
<1>3. QED
  BY <1>2, FlattenType DEF Sent

\* A damaged record is a record.
LEMMA DamagedIsWire ==
    ASSUME NEW r \in Wire, NEW d \in DamagedRecord(r)
    PROVE  d \in Wire
  BY DEF Wire, DamagedRecord, Kinds, KnownFlags

LEMMA DamagedRecords ==
    ASSUME NEW m, DOMAIN m = ChunkFields, m.records \in Seq(Wire),
           NEW damaged \in Damaged(m)
    PROVE  damaged.records \in Seq(Wire)
<1> DEFINE rs == m.records
<1>1. rs \in Seq(Wire) /\ Len(rs) \in Nat
  BY LenProperties
<1>2. CASE damaged \in Resized(m)
  <2>1. ASSUME NEW n \in Int, n <= Len(rs) PROVE SubSeq(rs, 1, n) \in Seq(Wire)
    <3>1. \A i \in 1..n : rs[i] \in Wire
      BY <1>1, <2>1, ElementOfSeq
    <3>2. QED
      BY <3>1, SubSeqProperties
  <2>2. SubSeq(rs, 1, Len(rs) - 1) \in Seq(Wire) /\ SubSeq(rs, 1, 0) \in Seq(Wire)
    BY <1>1, <2>1
  <2>3. damaged.records \in {rs, SubSeq(rs, 1, Len(rs) - 1), SubSeq(rs, 1, 0)}
    BY <1>2 DEF Resized, ChunkFields
  <2>4. QED
    BY <1>1, <2>2, <2>3
<1>3. ASSUME NEW i \in 1..Len(rs), NEW r \in DamagedRecord(rs[i]), damaged = [m EXCEPT !.records[i] = r]
      PROVE  damaged.records \in Seq(Wire)
  <2>1. rs[i] \in Wire
    BY <1>1, ElementOfSeq
  <2>2. r \in Wire
    BY <2>1, DamagedIsWire
  <2>3. damaged.records = [rs EXCEPT ![i] = r]
    BY <1>3 DEF ChunkFields
  <2> HIDE DEF rs
  <2>4. [rs EXCEPT ![i] = r] \in Seq(Wire)
    BY <1>1, <2>2, ExceptSeq
  <2>5. QED
    BY <2>3, <2>4
<1>4. QED
  BY <1>2, <1>3 DEF Damaged

LEMMA InitSound == Init => Sound
<1> SUFFICES ASSUME Init PROVE Sound
  OBVIOUS
<1>1. Len(Payloads) \in Nat
  BY LenProperties, CollectorAssumption
<1>2. \A m \in network : m.type = "chunk" => \E k \in 0..Len(Payloads) - 1 : m.records = Sent(k)
  BY DEF Init, Stale, Foreign, Chunk, Stopped
<1>3. QED
  BY <1>1, <1>2, SentRecords DEF Init, Sound

LEMMA SendSound ==
    ASSUME Inv, Sound, NEW t \in Tokens, Send(t)
    PROVE  Sound'
<1>1. /\ sent < Len(Payloads) /\ sent' = sent + 1 /\ sent \in Nat /\ Len(Payloads) \in Nat
      /\ network' = network \union {Chunk("this", sent, t, Sent(sent))} /\ sink' = sink
  BY LenProperties, CollectorAssumption DEF Send, collector, Inv, Counts
<1>2. Sent(sent) \in Seq(Wire)
  <2>1. PICK N : N = sent
    OBVIOUS
  <2>2. N \in 0..Len(Payloads) - 1
    BY <1>1, <2>1
  <2>3. Sent(N) \in Seq(Wire)
    BY <2>2, SentRecords
  <2>4. QED
    BY <2>1, <2>3
<1>3. Chunk("this", sent, t, Sent(sent)).records = Sent(sent)
  BY DEF Chunk
<1>4. \A m \in network' : m.type = "chunk" => m.records \in Seq(Wire)
  BY <1>1, <1>2, <1>3 DEF Sound
<1>5. sent' <= Len(Payloads)
  BY <1>1
<1>6. QED
  BY <1>1, <1>4, <1>5 DEF Sound

LEMMA DamageSound ==
    ASSUME Inv, Sound, NEW m \in network, Damage(m)
    PROVE  Sound'
<1>1. m.type = "chunk" /\ UNCHANGED <<collector, producer>>
  BY DEF Damage
<1>2. DOMAIN m = ChunkFields /\ m.records \in Seq(Wire)
  BY <1>1 DEF Inv, NetworkTrue, Sound
<1>3. PICK damaged \in Damaged(m) :
          network' = network \union {damaged}
  BY DEF Damage
<1>4. damaged.records \in Seq(Wire)
  BY <1>2, <1>3, DamagedRecords
<1>5. sent' = sent /\ sink' = sink
  BY <1>1 DEF collector, producer
<1>6. QED
  BY <1>3, <1>4, <1>5 DEF Sound

LEMMA IngestSound ==
    ASSUME Inv, Sound, NEW m \in network, IngestAccepted(m)
    PROVE  Sound'
<1>1. /\ m.type = "chunk" /\ Readable(m.records) /\ sent' = sent /\ network' = network
      /\ sink' = [k \in DOMAIN sink \union {m.sequence} |-> IF k = m.sequence THEN m ELSE sink[k]]
  BY DEF IngestAccepted, Acceptable, producer
<1>2. m.records \in Seq(Wire)
  BY <1>1 DEF Sound
<1>3. Valid(m.records) /\ \A i \in 1..Len(m.records) : Decodable(m.records[i])
  BY <1>1 DEF Readable
<1>4. m.records \in Seq(Readables)
  <2>1. \A i \in 1..Len(m.records) : m.records[i] \in Readables
    BY <1>2, <1>3, ElementOfSeq DEF Readables
  <2>2. Len(m.records) \in Nat /\ m.records = [i \in 1..Len(m.records) |-> m.records[i]]
    BY <1>2, LenProperties
  <2> DEFINE rs == m.records
  <2>3. rs \in Seq(Wire)
    BY <1>2
  <2> HIDE DEF rs, Readables
  <2>4. rs \in Seq(Readables)
    <3>1. \A i \in 1..Len(rs) : rs[i] \in Readables
      BY <2>1 DEF rs
    <3>2. QED
      BY <2>3, <3>1
  <2>5. QED
    BY <2>4 DEF rs
<1>5. QED
  BY <1>1, <1>3, <1>4 DEF Sound

LEMMA QuietSound ==
    ASSUME Sound, sent' = sent, sink' = sink, network' \subseteq network \union {Stopped("this", sent)}
    PROVE  Sound'
<1>1. Stopped("this", sent).type # "chunk"
  BY DEF Stopped
<1>2. QED
  BY <1>1 DEF Sound

LEMMA StepSound == Inv /\ Sound /\ [Next]_vars => Sound'
<1> SUFFICES ASSUME Inv, Sound, [Next]_vars PROVE Sound'
  OBVIOUS
<1>1. ASSUME NEW t \in Tokens, Send(t) \/ Recycle(t) PROVE Sound'
  <2>1. CASE Send(t)
    BY <2>1, SendSound
  <2>2. CASE Recycle(t)
    BY <2>2, QuietSound DEF Recycle
  <2>3. QED
    BY <1>1, <2>1, <2>2
<1>2. CASE SendStopped
  BY <1>2, QuietSound DEF SendStopped, collector
<1>3. ASSUME NEW m \in network, IngestRefused(m) \/ StopAccepted(m) \/ StopRefused(m) PROVE Sound'
  BY <1>3, QuietSound DEF IngestRefused, StopAccepted, StopRefused, vars, collector, producer
<1>4. ASSUME NEW m \in network, Damage(m) \/ IngestAccepted(m) PROVE Sound'
  BY <1>4, DamageSound, IngestSound
<1>5. CASE UNCHANGED vars
  BY <1>5, QuietSound DEF vars, collector, producer
<1>6. QED
  BY <1>1, <1>2, <1>3, <1>4, <1>5 DEF Next

LEMMA AlwaysSound == Spec => [](Inv /\ Sound)
<1>1. Spec => []Sound
  BY InitSound, StepSound, AlwaysInv, PTL DEF Spec
<1>2. QED
  BY <1>1, AlwaysInv, PTL

-----------------------------------------------------------------------------
\* For every chunk the host can deliver, decode and the one-pass validator
\* accept exactly what the grammar of groups allows.
THEOREM ValidatorIsExact == Spec => []ValidatorExact
<1>1. Sound => ValidatorExact
  <2> SUFFICES ASSUME Sound, NEW m \in network, m.type = "chunk",
                      \A i \in 1..Len(m.records) : Decodable(m.records[i])
               PROVE  Valid(m.records) <=> Sentence(m.records)
    BY DEF ValidatorExact, Readable
  <2>1. m.records \in Seq(Wire) /\ KnownKinds(m.records)
    BY DEF Sound, KnownKinds, Decodable
  <2>2. PICK rs \in Seq(Wire) : rs = m.records /\ KnownKinds(rs)
    BY <2>1
  <2>3. Valid(rs) <=> Sentence(rs)
    BY <2>2, ValidIsSentence
  <2>4. QED
    BY <2>2, <2>3
<1>2. QED
  BY <1>1, AlwaysSound, PTL

\* The chunks of the sink, and what they were before they were flattened.
LEMMA SinkChunks ==
    ASSUME Inv, Sound, NEW N, N = nextSequence, NEW chunks, chunks = [k \in 1..N |-> sink[k - 1].records]
    PROVE  /\ chunks \in Seq(Seq(Readables)) /\ N \in 0..Len(Payloads) /\ Len(chunks) = N
           /\ \A k \in 1..N : Valid(chunks[k])
           /\ damages = 0 => \A k \in 1..N : chunks[k] = Flatten(Payloads[k])
<1>1. N \in Nat /\ N <= sent /\ sent \in Nat /\ sent <= Len(Payloads) /\ Len(Payloads) \in Nat
  BY LenProperties, CollectorAssumption DEF Inv, Counts, IngestedPrefix, Sound
<1>2. \A k \in 1..N : k - 1 \in DOMAIN sink /\ (k - 1) + 1 = k
  BY <1>1 DEF Inv, IngestedPrefix
<1>3. \A k \in 1..N : chunks[k] \in Seq(Readables) /\ Valid(chunks[k])
  BY <1>2 DEF Sound
<1>4. damages = 0 => \A k \in 1..N : chunks[k] = Flatten(Payloads[k])
  BY <1>2 DEF Inv, IngestedPrefix, Sent
<1>5. chunks \in Seq(Seq(Readables)) /\ Len(chunks) = N
  <2> HIDE DEF Readables
  <2>1. chunks \in [1..N -> Seq(Readables)]
    BY <1>3
  <2>2. QED
    BY <1>1, <2>1
<1>6. QED
  BY <1>1, <1>3, <1>4, <1>5

\* The groups of the first chunks, each whole.
LEMMA PayloadGroups ==
    ASSUME NEW N \in 0..Len(Payloads)
    PROVE  /\ SubSeq(Payloads, 1, N) \in Seq(Seq(Seq(Wire))) /\ Len(SubSeq(Payloads, 1, N)) = N
           /\ \A k \in 1..N : SubSeq(Payloads, 1, N)[k] = Payloads[k]
           /\ Flatten(SubSeq(Payloads, 1, N)) \in Seq(Seq(Wire))
           /\ \A k \in 1..Len(Flatten(SubSeq(Payloads, 1, N))) : Group(Flatten(SubSeq(Payloads, 1, N))[k])
<1> DEFINE Groups == {g \in Seq(Wire) : Group(g)}
           ggs == SubSeq(Payloads, 1, N)
<1>1. /\ Payloads \in Seq(Seq(Seq(Wire))) /\ Len(Payloads) \in Nat
      /\ \A k \in 1..Len(Payloads) : \A i \in 1..Len(Payloads[k]) : Group(Payloads[k][i])
  BY LenProperties, CollectorAssumption
<1>2. \A k \in 1..Len(Payloads) : Payloads[k] \in Seq(Groups)
  <2>1. ASSUME NEW k \in 1..Len(Payloads) PROVE Payloads[k] \in Seq(Groups)
    <3>1. PICK gs \in Seq(Seq(Wire)) : gs = Payloads[k]
      BY <1>1, ElementOfSeq
    <3>2. \A i \in 1..Len(gs) : gs[i] \in Groups
      BY <1>1, <3>1, ElementOfSeq
    <3> HIDE DEF Groups
    <3>3. gs \in Seq(Groups)
      BY <3>2
    <3>4. QED
      BY <3>1, <3>3
  <2>2. QED
    BY <2>1
<1>3. Groups \subseteq Seq(Wire) /\ \A g \in Groups : Group(g)
  OBVIOUS
<1> HIDE DEF Groups
<1>4. ggs \in Seq(Seq(Groups)) /\ Len(ggs) = N /\ \A k \in 1..N : ggs[k] = Payloads[k]
  <2>1. N \in Int /\ N \in Nat /\ 1 \in Int /\ \A k \in 1..N : k \in 1..Len(Payloads)
    BY <1>1
  <2>2. \A k \in 1..N : Payloads[k] \in Seq(Groups)
    BY <1>2, <2>1
  <2>3. ggs \in Seq(Seq(Groups)) /\ Len(ggs) = (IF 1 <= N THEN N - 1 + 1 ELSE 0)
        /\ \A k \in 1..N - 1 + 1 : ggs[k] = Payloads[1 + k - 1]
    BY <2>1, <2>2, SubSeqProperties
  <2> HIDE DEF ggs
  <2>4. QED
    BY <2>1, <2>3
<1>5. Flatten(ggs) \in Seq(Groups)
  BY <1>4, FlattenType
<1>6. ggs \in Seq(Seq(Seq(Wire))) /\ Flatten(ggs) \in Seq(Seq(Wire))
  <2>1. Seq(Groups) \subseteq Seq(Seq(Wire))
    BY <1>3, SeqMonotonic
  <2>2. QED
    BY <1>4, <1>5, <2>1, SeqMonotonic
<1>7. \A k \in 1..Len(Flatten(ggs)) : Group(Flatten(ggs)[k])
  BY <1>3, <1>5, ElementOfSeq
<1>8. QED
  BY <1>4, <1>6, <1>7

\* Whatever was damaged on the way, the sink's bytes are a sequence of whole
\* groups and ingest_batch's loop stops exactly at their boundaries; without
\* damage it finds the groups the producer sent.
THEOREM SinkSplitsExactly == Spec => []SinkSplits
<1>1. Inv /\ Sound => SinkSplits
  <2> SUFFICES ASSUME Inv, Sound PROVE SinkSplits
    OBVIOUS
  <2>1. PICK N : N = nextSequence
    OBVIOUS
  <2>2. PICK chunks : chunks = [k \in 1..N |-> sink[k - 1].records]
    OBVIOUS
  <2>3. /\ chunks \in Seq(Seq(Readables)) /\ N \in 0..Len(Payloads) /\ Len(chunks) = N
        /\ \A k \in 1..N : Valid(chunks[k])
        /\ damages = 0 => \A k \in 1..N : chunks[k] = Flatten(Payloads[k])
    BY <2>1, <2>2, SinkChunks
  <2>4. PICK rs : rs = Flatten(chunks)
    OBVIOUS
  <2>5. IntoRecords = rs
    BY <2>1, <2>2, <2>4 DEF IntoRecords
  <2>6. rs \in Seq(Readables) /\ Valid(rs)
    BY <2>3, <2>4, FlattenType, ValidFlatten
  <2>7. KnownKinds(rs)
    BY <2>6, ElementOfSeq DEF KnownKinds, Readables, Decodable
  <2>8. Shaped(rs)
    BY <2>6, <2>7, ValidIsShaped
  <2>9. Sentence(rs) /\ \A k \in 1..Len(Split(rs)) : Group(Split(rs)[k])
    BY <2>6, <2>8, ShapedIsSentence, SplitGroups
  <2>10. ASSUME damages = 0 PROVE Split(rs) = Flatten(SubSeq(Payloads, 1, N))
    <3> DEFINE ggs == SubSeq(Payloads, 1, N)
    <3>1. /\ ggs \in Seq(Seq(Seq(Wire))) /\ Len(ggs) = N /\ \A k \in 1..N : ggs[k] = Payloads[k]
          /\ Flatten(ggs) \in Seq(Seq(Wire)) /\ \A k \in 1..Len(Flatten(ggs)) : Group(Flatten(ggs)[k])
      BY <2>3, PayloadGroups
    <3> HIDE DEF ggs
    <3>2. chunks = [k \in 1..Len(ggs) |-> Flatten(ggs[k])]
      <4>1. chunks = [k \in 1..N |-> chunks[k]]
        BY <2>2
      <4>2. \A k \in 1..N : chunks[k] = Flatten(ggs[k])
        BY <2>3, <2>10, <3>1
      <4>3. QED
        BY <3>1, <4>1, <4>2
    <3>3. rs = Flatten(Flatten(ggs))
      BY <2>4, <3>1, <3>2, FlattenTwice
    <3>4. Split(Flatten(Flatten(ggs))) = Flatten(ggs)
      BY <3>1, SplitFlatten
    <3>5. QED
      BY <3>3, <3>4 DEF ggs
  <2>11. QED
    BY <2>1, <2>5, <2>9, <2>10 DEF SinkSplits
<1>2. QED
  BY <1>1, AlwaysSound, PTL
=============================================================================
