------------------------- MODULE TracingLayer_proofs -------------------------
(***************************************************************************)
(* For any number of threads, spans, tracks and captures: the layer never  *)
(* counts more entries of a span than there are scopes in it, an end       *)
(* closes the slice its own scope began, and a session has open exactly    *)
(* the slices of the scopes that threads are in, for the reasons the       *)
(* properties except apart.                                                *)
(***************************************************************************)
EXTENDS TracingLayer, FiniteSetTheorems, SequenceTheorems, TLAPS

ScopeValues ==
    [by : {"layer", "guard"}, span : Spans, track : Tracks \union {CURRENT},
     recorded : BOOLEAN, began : Nat, lane : Lanes \union {Unbegun}]

Slices == {"layer", "guard"} \X Spans

\* The scopes are stacks of bounded depth, and a running session has a number.
Typed ==
    /\ sessions \in Nat /\ (phase = "running" => sessions > 0)
    /\ named \subseteq Tracks
    /\ slices \in [Lanes -> Seq(Slices)]
    /\ scopes \in [Threads -> Seq(ScopeValues)]
    /\ \A t \in Threads : Len(scopes[t]) <= MaxDepth
    /\ activeEnters \in [Spans -> Nat]

\* No begin is of a session to come, and only one answered Recorded is in any.
Booked ==
    \A t \in Threads : \A i \in DOMAIN scopes[t] :
        /\ scopes[t][i].began <= sessions
        /\ scopes[t][i].recorded \/ scopes[t][i].began = 0

\* The scopes that are among the given ones, by their places in the stacks.
Places(V) ==
    {p \in Threads \X (1..MaxDepth) :
        p[2] \in DOMAIN scopes[p[1]] /\ scopes[p[1]][p[2]] \in V}

Layered(s) == {v \in ScopeValues : v.by = "layer" /\ v.span = s}
OpenOf(n, s) == {v \in Layered(s) : v.began = n}
LaneOf(n, k) == {v \in ScopeValues : v.began = n /\ v.lane = k}

\* Every entry of the session that is still open is counted: its exit ends it.
OpenCounted ==
    phase = "running" /\ causes = {} =>
        \A s \in Spans : Cardinality(Places(OpenOf(sessions, s))) <= activeEnters[s]

\* A span that is not shared has one scope, and what is counted is its entry.
Alone ==
    ~shared =>
        \A s \in Spans :
            /\ \A p, q \in ScopesOf(s) : p = q
            /\ activeEnters[s] > 0 => \A p \in ScopesOf(s) : scopes[p[1]][p[2]].recorded

\* The two halves of OpenSlicesMatch, for a lane.
OwnLane(t) ==
    /\ Len(slices[t]) = Cardinality(BegunIn(t, t))
    /\ \A i \in BegunIn(t, t) :
         slices[t][Cardinality(BegunIn(t, t) \intersect (1..i))]
           = <<scopes[t][i].by, scopes[t][i].span>>

SharedLane(k) == Len(slices[k]) = Cardinality(Places(LaneOf(sessions, k)))

Matched ==
    phase = "running" /\ causes = {} =>
        (\A t \in Threads : OwnLane(t)) /\ \A k \in Tracks : SharedLane(k)

\* The inductive invariant.
Inv == Typed /\ Booked /\ NoStaleEntry /\ Alone /\ EndsOwnSlice /\ OpenCounted /\ Matched

-----------------------------------------------------------------------------
LEMMA LastFront ==
    ASSUME NEW S, NEW q \in Seq(S), q # <<>>
    PROVE  /\ Len(q) \in Nat \ {0} /\ DOMAIN q = 1..Len(q)
           /\ Last(q) = q[Len(q)] /\ Last(q) \in S
           /\ Front(q) \in Seq(S) /\ Len(Front(q)) = Len(q) - 1
           /\ DOMAIN Front(q) = 1..Len(q) - 1
           /\ \A i \in 1..Len(q) - 1 : Front(q)[i] = q[i]
<1>1. Len(q) \in Nat \ {0} /\ DOMAIN q = 1..Len(q)
  BY LenProperties, EmptySeq
<1>2. Last(q) = q[Len(q)] /\ Last(q) \in S
  BY <1>1, ElementOfSeq DEF Last
<1>3. /\ Front(q) \in Seq(S) /\ Len(Front(q)) = Len(q) - 1
      /\ DOMAIN Front(q) = 1..Len(q) - 1
      /\ \A i \in 1..Len(q) - 1 : Front(q)[i] = q[i]
  BY <1>1, SubSeqProperties, LenProperties DEF Front
<1>4. QED
  BY <1>1, <1>2, <1>3

LEMMA FinitePlaces == IsFiniteSet(Threads \X (1..MaxDepth))
<1>1. IsFiniteSet(1..MaxDepth)
  BY LayerAssumption, FS_Interval
<1>2. QED
  BY <1>1, LayerAssumption, FS_Product

LEMMA SomePlaces ==
    ASSUME NEW V PROVE IsFiniteSet(Places(V)) /\ Cardinality(Places(V)) \in Nat
<1>1. Places(V) \subseteq Threads \X (1..MaxDepth)
  BY DEF Places
<1>2. QED
  BY <1>1, FinitePlaces, FS_Subset, FS_CardinalityType

LayersPlaced == \A s \in Spans : ScopesOf(s) = Places(Layered(s))
LanesPlaced ==
    \A k \in Tracks :
        {p \in Threads \X (1..MaxDepth) : p[2] \in BegunIn(p[1], k)}
          = Places(LaneOf(sessions, k))

LEMMA ScopesArePlaces == Typed => LayersPlaced
<1> SUFFICES ASSUME Typed, NEW s \in Spans PROVE ScopesOf(s) = Places(Layered(s))
  BY DEF LayersPlaced
<1>1. \A u \in Threads : \A i \in DOMAIN scopes[u] : scopes[u][i] \in ScopeValues
  BY ElementOfSeq, LenProperties DEF Typed
<1>2. \A p \in Threads \X (1..MaxDepth) : p \in ScopesOf(s) <=> p \in Places(Layered(s))
  BY <1>1 DEF ScopesOf, Places, Layered
<1>3. QED
  BY <1>2 DEF ScopesOf, Places

LEMMA LanesArePlaces == Typed => LanesPlaced
<1> SUFFICES ASSUME Typed, NEW k \in Tracks
             PROVE  {p \in Threads \X (1..MaxDepth) : p[2] \in BegunIn(p[1], k)}
                      = Places(LaneOf(sessions, k))
  BY DEF LanesPlaced
<1>1. \A u \in Threads : \A i \in DOMAIN scopes[u] : scopes[u][i] \in ScopeValues
  BY ElementOfSeq, LenProperties DEF Typed
<1>2. \A p \in Threads \X (1..MaxDepth) :
        p[2] \in BegunIn(p[1], k) <=> p \in Places(LaneOf(sessions, k))
  BY <1>1 DEF BegunIn, Places, LaneOf
<1>3. QED
  BY <1>2 DEF Places

-----------------------------------------------------------------------------
\* What entering a scope does to the stacks.
LEMMA PushStack ==
    ASSUME Typed, NEW t \in Threads, NEW scope \in ScopeValues, Push(t, scope)
    PROVE  LET n == Len(scopes[t])
           IN /\ n \in Nat /\ n < MaxDepth /\ DOMAIN scopes[t] = 1..n
              /\ scopes' \in [Threads -> Seq(ScopeValues)]
              /\ \A u \in Threads : Len(scopes'[u]) <= MaxDepth
              /\ \A u \in Threads \ {t} : scopes'[u] = scopes[u]
              /\ Len(scopes'[t]) = n + 1 /\ DOMAIN scopes'[t] = 1..n + 1
              /\ \A i \in 1..n : scopes'[t][i] = scopes[t][i]
              /\ scopes'[t][n + 1] = scope
<1> DEFINE n == Len(scopes[t])
<1>1. scopes[t] \in Seq(ScopeValues) /\ n \in Nat /\ n < MaxDepth /\ MaxDepth \in Nat
      /\ DOMAIN scopes[t] = 1..n
      /\ scopes' = [scopes EXCEPT ![t] = Append(scopes[t], scope)]
  BY LayerAssumption, LenProperties DEF Typed, Push
<1>2. /\ Append(scopes[t], scope) \in Seq(ScopeValues)
      /\ Len(Append(scopes[t], scope)) = n + 1
      /\ DOMAIN Append(scopes[t], scope) = 1..n + 1
      /\ \A i \in 1..n : Append(scopes[t], scope)[i] = scopes[t][i]
      /\ Append(scopes[t], scope)[n + 1] = scope
  BY <1>1, AppendProperties, LenProperties
<1>3. scopes'[t] = Append(scopes[t], scope) /\ \A u \in Threads \ {t} : scopes'[u] = scopes[u]
  BY <1>1 DEF Typed
<1>4. scopes' \in [Threads -> Seq(ScopeValues)]
  BY <1>1, <1>2 DEF Typed
<1>5. \A u \in Threads : Len(scopes'[u]) <= MaxDepth
  BY <1>1, <1>2, <1>3 DEF Typed
<1>6. QED
  BY <1>1, <1>2, <1>3, <1>4, <1>5

\* The place of the scope that t enters is new.
LEMMA PushPlaces ==
    ASSUME Typed, NEW t \in Threads, NEW scope \in ScopeValues, Push(t, scope), NEW V
    PROVE  LET here == <<t, Len(scopes[t]) + 1>>
           IN /\ here \notin Places(V)
              /\ Places(V)' = IF scope \in V THEN Places(V) \union {here} ELSE Places(V)
              /\ Cardinality(Places(V)') =
                   IF scope \in V THEN Cardinality(Places(V)) + 1 ELSE Cardinality(Places(V))
<1> DEFINE n == Len(scopes[t])
           here == <<t, n + 1>>
<1>1. /\ n \in Nat /\ n < MaxDepth /\ DOMAIN scopes[t] = 1..n /\ MaxDepth \in Nat
      /\ \A u \in Threads \ {t} : scopes'[u] = scopes[u]
      /\ DOMAIN scopes'[t] = 1..n + 1
      /\ \A i \in 1..n : scopes'[t][i] = scopes[t][i]
      /\ scopes'[t][n + 1] = scope
  BY LayerAssumption, PushStack
<1>2. here \notin Places(V)
  BY <1>1 DEF Places
<1>3. Places(V)' = IF scope \in V THEN Places(V) \union {here} ELSE Places(V)
  <2>1. ASSUME NEW u \in Threads, NEW i \in 1..MaxDepth, <<u, i>> # here
        PROVE  <<u, i>> \in Places(V)' <=> <<u, i>> \in Places(V)
    BY <1>1, <2>1 DEF Places
  <2>2. here \in Places(V)' <=> scope \in V
    BY <1>1 DEF Places
  <2>3. /\ \A p \in Places(V)' : p \in Threads \X (1..MaxDepth)
        /\ \A p \in Places(V) : p \in Threads \X (1..MaxDepth)
    BY DEF Places
  <2>4. \A p \in Threads \X (1..MaxDepth) :
          p # here => (p \in Places(V)' <=> p \in Places(V))
    BY <2>1
  <2> HIDE DEF here
  <2>5. CASE scope \in V
    BY <2>2, <2>3, <2>4, <2>5
  <2>6. CASE scope \notin V
    BY <1>2, <2>2, <2>3, <2>4, <2>6
  <2>7. QED
    BY <2>5, <2>6
<1> HIDE DEF here
<1>4. Cardinality(Places(V) \union {here}) = Cardinality(Places(V)) + 1
  BY <1>2, SomePlaces, FS_AddElement
<1>5. QED
  BY <1>2, <1>3, <1>4 DEF here

\* What leaving a scope does to the stacks.
LEMMA PopStack ==
    ASSUME Typed, NEW t \in Threads, scopes[t] # <<>>,
           scopes' = [scopes EXCEPT ![t] = Front(scopes[t])]
    PROVE  LET n == Len(scopes[t])
           IN /\ n \in Nat \ {0} /\ n <= MaxDepth /\ DOMAIN scopes[t] = 1..n
              /\ Last(scopes[t]) = scopes[t][n] /\ Last(scopes[t]) \in ScopeValues
              /\ scopes' \in [Threads -> Seq(ScopeValues)]
              /\ \A u \in Threads : Len(scopes'[u]) <= MaxDepth
              /\ \A u \in Threads \ {t} : scopes'[u] = scopes[u]
              /\ DOMAIN scopes'[t] = 1..n - 1
              /\ \A i \in 1..n - 1 : scopes'[t][i] = scopes[t][i]
<1> DEFINE n == Len(scopes[t])
<1>1. scopes[t] \in Seq(ScopeValues) /\ n <= MaxDepth /\ MaxDepth \in Nat
  BY LayerAssumption DEF Typed
<1>2. /\ n \in Nat \ {0} /\ DOMAIN scopes[t] = 1..n
      /\ Last(scopes[t]) = scopes[t][n] /\ Last(scopes[t]) \in ScopeValues
      /\ Front(scopes[t]) \in Seq(ScopeValues) /\ Len(Front(scopes[t])) = n - 1
      /\ DOMAIN Front(scopes[t]) = 1..n - 1
      /\ \A i \in 1..n - 1 : Front(scopes[t])[i] = scopes[t][i]
  BY <1>1, LastFront
<1>3. scopes'[t] = Front(scopes[t]) /\ \A u \in Threads \ {t} : scopes'[u] = scopes[u]
  BY DEF Typed
<1>4. scopes' \in [Threads -> Seq(ScopeValues)]
  BY <1>2 DEF Typed
<1>5. \A u \in Threads : Len(scopes'[u]) <= MaxDepth
  BY <1>1, <1>2, <1>3 DEF Typed
<1>6. QED
  BY <1>1, <1>2, <1>3, <1>4, <1>5

\* The scope that t leaves loses its place, and no other does.
LEMMA PopPlaces ==
    ASSUME Typed, NEW t \in Threads, scopes[t] # <<>>,
           scopes' = [scopes EXCEPT ![t] = Front(scopes[t])], NEW V
    PROVE  LET here == <<t, Len(scopes[t])>>
           IN /\ here \in Places(V) <=> Last(scopes[t]) \in V
              /\ Places(V)' = Places(V) \ {here}
              /\ Cardinality(Places(V)') =
                   IF Last(scopes[t]) \in V
                   THEN Cardinality(Places(V)) - 1 ELSE Cardinality(Places(V))
<1> DEFINE n == Len(scopes[t])
           here == <<t, n>>
<1>1. /\ n \in Nat \ {0} /\ n <= MaxDepth /\ DOMAIN scopes[t] = 1..n /\ MaxDepth \in Nat
      /\ Last(scopes[t]) = scopes[t][n]
      /\ \A u \in Threads \ {t} : scopes'[u] = scopes[u]
      /\ DOMAIN scopes'[t] = 1..n - 1
      /\ \A i \in 1..n - 1 : scopes'[t][i] = scopes[t][i]
  BY LayerAssumption, PopStack
<1>2. here \in Places(V) <=> Last(scopes[t]) \in V
  BY <1>1 DEF Places
<1>3. Places(V)' = Places(V) \ {here}
  <2>1. ASSUME NEW u \in Threads, NEW i \in 1..MaxDepth, <<u, i>> # here
        PROVE  <<u, i>> \in Places(V)' <=> <<u, i>> \in Places(V)
    BY <1>1, <2>1 DEF Places
  <2>2. here \notin Places(V)'
    BY <1>1 DEF Places
  <2>3. /\ \A p \in Places(V)' : p \in Threads \X (1..MaxDepth)
        /\ \A p \in Places(V) : p \in Threads \X (1..MaxDepth)
    BY DEF Places
  <2>4. \A p \in Threads \X (1..MaxDepth) :
          p # here => (p \in Places(V)' <=> p \in Places(V))
    BY <2>1
  <2>5. QED
    BY <2>2, <2>3, <2>4
<1> HIDE DEF here
<1>4. Cardinality(Places(V) \ {here}) =
        IF here \in Places(V) THEN Cardinality(Places(V)) - 1 ELSE Cardinality(Places(V))
  BY SomePlaces, FS_RemoveElement
<1>5. QED
  BY <1>2, <1>3, <1>4 DEF here

-----------------------------------------------------------------------------
LEMMA BegunInStack ==
    ASSUME Typed, NEW u \in Threads, NEW k
    PROVE  /\ BegunIn(u, k) \subseteq 1..Len(scopes[u]) /\ Len(scopes[u]) \in Nat
           /\ DOMAIN scopes[u] = 1..Len(scopes[u])
           /\ IsFiniteSet(BegunIn(u, k)) /\ Cardinality(BegunIn(u, k)) \in Nat
<1>1. DOMAIN scopes[u] = 1..Len(scopes[u]) /\ Len(scopes[u]) \in Nat
  BY LenProperties DEF Typed
<1>2. BegunIn(u, k) \subseteq 1..Len(scopes[u])
  BY <1>1 DEF BegunIn
<1>3. IsFiniteSet(1..Len(scopes[u]))
  BY <1>1, FS_Interval
<1>4. QED
  BY <1>1, <1>2, <1>3, FS_Subset, FS_CardinalityType

\* A thread's own lane follows the scopes it enters.
LEMMA PushOwnLane ==
    ASSUME Typed, NEW t \in Threads, NEW scope \in ScopeValues, Push(t, scope),
           sessions' = sessions, NEW u \in Threads, OwnLane(u),
           slices'[u] = IF u = t /\ scope.began = sessions /\ scope.lane = u
                        THEN Append(slices[u], <<scope.by, scope.span>>) ELSE slices[u]
    PROVE  OwnLane(u)'
<1> DEFINE n == Len(scopes[t])
           begun == BegunIn(u, u)
<1>1. /\ n \in Nat /\ DOMAIN scopes[t] = 1..n
      /\ \A w \in Threads \ {t} : scopes'[w] = scopes[w]
      /\ DOMAIN scopes'[t] = 1..n + 1
      /\ \A i \in 1..n : scopes'[t][i] = scopes[t][i]
      /\ scopes'[t][n + 1] = scope
  BY PushStack
<1>2. begun \subseteq 1..Len(scopes[u]) /\ IsFiniteSet(begun) /\ Cardinality(begun) \in Nat
      /\ Len(scopes[u]) \in Nat
  BY BegunInStack
<1>3. slices[u] \in Seq(Slices) /\ Len(slices[u]) = Cardinality(begun)
      /\ DOMAIN slices[u] = 1..Len(slices[u])
  <2>1. u \in Lanes
    BY DEF Lanes
  <2>2. QED
    BY <2>1, LenProperties DEF OwnLane, Typed
<1>4. \A i \in begun : slices[u][Cardinality(begun \intersect (1..i))]
                          = <<scopes[u][i].by, scopes[u][i].span>>
  BY DEF OwnLane
<1>5. CASE u = t /\ scope.began = sessions /\ scope.lane = u
  <2>1. BegunIn(u, u)' = begun \union {n + 1}
    BY <1>1, <1>5, SMTT(30) DEF BegunIn
  <2>2. n + 1 \notin begun
    BY <1>1, <1>2, <1>5
  <2>3. Cardinality(BegunIn(u, u)') = Cardinality(begun) + 1
    BY <1>2, <2>1, <2>2, FS_AddElement
  <2>4. scope.by \in {"layer", "guard"} /\ scope.span \in Spans
    BY DEF ScopeValues
  <2>5. <<scope.by, scope.span>> \in Slices
    BY <2>4 DEF Slices
  <2>6. slices'[u] = Append(slices[u], <<scope.by, scope.span>>)
    BY <1>5
  <2>7. /\ Len(slices'[u]) = Len(slices[u]) + 1
        /\ \A i \in 1..Len(slices[u]) : slices'[u][i] = slices[u][i]
        /\ slices'[u][Len(slices[u]) + 1] = <<scope.by, scope.span>>
    BY <1>3, <2>5, <2>6, AppendProperties
  <2>8. BegunIn(u, u)' \intersect (1..n + 1) = BegunIn(u, u)'
    BY <1>1, <1>2, <1>5, <2>1
  <2>9. ASSUME NEW i \in begun
        PROVE  slices'[u][Cardinality(BegunIn(u, u)' \intersect (1..i))]
                 = <<scopes'[u][i].by, scopes'[u][i].span>>
    <3>1. i \in 1..n /\ scopes'[u][i] = scopes[u][i]
      BY <1>1, <1>2, <1>5
    <3>2. BegunIn(u, u)' \intersect (1..i) = begun \intersect (1..i)
      BY <1>1, <2>1, <3>1
    <3>3. Cardinality(begun \intersect (1..i)) \in 1..Cardinality(begun)
      <4>1. begun \intersect (1..i) \subseteq begun /\ i \in begun \intersect (1..i)
        BY <3>1
      <4>2. IsFiniteSet(begun \intersect (1..i))
        BY <1>2, <4>1, FS_Subset
      <4>3. Cardinality(begun \intersect (1..i)) <= Cardinality(begun)
        BY <1>2, <4>1, FS_Subset
      <4>4. Cardinality(begun \intersect (1..i)) \in Nat \ {0}
        BY <4>1, <4>2, FS_EmptySet, FS_CardinalityType
      <4>5. QED
        BY <1>2, <4>3, <4>4
    <3>4. QED
      BY <1>3, <1>4, <2>7, <3>1, <3>2, <3>3
  <2>10. QED
    BY <1>1, <1>3, <1>5, <2>1, <2>3, <2>7, <2>8, <2>9 DEF OwnLane
<1>6. CASE ~(u = t /\ scope.began = sessions /\ scope.lane = u)
  <2>1. BegunIn(u, u)' = begun
    <3>1. CASE u # t
      BY <1>1, <3>1 DEF BegunIn
    <3>2. CASE u = t
      <4>1. /\ DOMAIN scopes'[u] = (DOMAIN scopes[u]) \union {n + 1} /\ scopes'[u][n + 1] = scope
            /\ \A i \in DOMAIN scopes[u] : scopes'[u][i] = scopes[u][i]
        BY <1>1, <3>2, SMTT(30)
      <4>2. ~(scope.began = sessions' /\ scope.lane = u)
        BY <1>1, <1>6, <3>2
      <4>3. n + 1 \notin DOMAIN scopes[u]
        BY <1>1, <3>2
      <4>4. QED
        BY <1>1, <4>1, <4>2, <4>3 DEF BegunIn
    <3>3. QED
      BY <3>1, <3>2
  <2>2. \A i \in begun : scopes'[u][i] = scopes[u][i]
    BY <1>1, <1>2
  <2>3. slices'[u] = slices[u]
    BY <1>6
  <2>4. QED
    BY <1>3, <1>4, <2>1, <2>2, <2>3 DEF OwnLane
<1>7. QED
  BY <1>5, <1>6

\* And what it leaves, the slice of which is the last on the lane.
LEMMA LastOfOwnLane ==
    ASSUME Typed, NEW t \in Threads, scopes[t] # <<>>, OwnLane(t),
           Last(scopes[t]).began = sessions, Last(scopes[t]).lane = t
    PROVE  /\ slices[t] # <<>>
           /\ Last(slices[t]) = <<Last(scopes[t]).by, Last(scopes[t]).span>>
<1> DEFINE n == Len(scopes[t])
<1>1. n \in Nat \ {0} /\ DOMAIN scopes[t] = 1..n /\ Last(scopes[t]) = scopes[t][n]
  BY LastFront DEF Typed
<1>2. n \in BegunIn(t, t)
  BY <1>1 DEF BegunIn
<1>3. BegunIn(t, t) \subseteq 1..n /\ IsFiniteSet(BegunIn(t, t)) /\ Cardinality(BegunIn(t, t)) \in Nat
  BY BegunInStack
<1>4. BegunIn(t, t) \intersect (1..n) = BegunIn(t, t)
  BY <1>3
<1>5. Cardinality(BegunIn(t, t)) # 0
  BY <1>2, <1>3, FS_EmptySet
<1>6. slices[t] \in Seq(Slices)
  BY DEF Typed, Lanes
<1>7. Len(slices[t]) = Cardinality(BegunIn(t, t)) /\ slices[t] # <<>>
  BY <1>5, EmptySeq DEF OwnLane
<1>8. slices[t][Len(slices[t])] = <<scopes[t][n].by, scopes[t][n].span>>
  BY <1>2, <1>4, <1>7 DEF OwnLane
<1>9. QED
  BY <1>1, <1>6, <1>7, <1>8, LastFront

LEMMA PopOwnLane ==
    ASSUME Typed, NEW t \in Threads, scopes[t] # <<>>,
           scopes' = [scopes EXCEPT ![t] = Front(scopes[t])],
           sessions' = sessions, NEW u \in Threads, OwnLane(u),
           slices'[u] = IF u = t /\ Last(scopes[t]).began = sessions /\ Last(scopes[t]).lane = u
                        THEN Front(slices[u]) ELSE slices[u]
    PROVE  OwnLane(u)'
<1> DEFINE n == Len(scopes[t])
           begun == BegunIn(u, u)
<1>1. /\ n \in Nat \ {0} /\ DOMAIN scopes[t] = 1..n
      /\ Last(scopes[t]) = scopes[t][n]
      /\ \A w \in Threads \ {t} : scopes'[w] = scopes[w]
      /\ DOMAIN scopes'[t] = 1..n - 1
      /\ \A i \in 1..n - 1 : scopes'[t][i] = scopes[t][i]
  BY PopStack
<1>2. begun \subseteq 1..Len(scopes[u]) /\ IsFiniteSet(begun) /\ Cardinality(begun) \in Nat
      /\ Len(scopes[u]) \in Nat
  BY BegunInStack
<1>3. slices[u] \in Seq(Slices) /\ Len(slices[u]) = Cardinality(begun)
      /\ DOMAIN slices[u] = 1..Len(slices[u])
  <2>1. u \in Lanes
    BY DEF Lanes
  <2>2. QED
    BY <2>1, LenProperties DEF OwnLane, Typed
<1>4. \A i \in begun : slices[u][Cardinality(begun \intersect (1..i))]
                          = <<scopes[u][i].by, scopes[u][i].span>>
  BY DEF OwnLane
<1>5. CASE u = t /\ scopes[t][n].began = sessions /\ scopes[t][n].lane = u
  <2>1. n \in begun /\ BegunIn(u, u)' = begun \ {n}
    BY <1>1, <1>2, <1>5 DEF BegunIn
  <2>2. Cardinality(begun \ {n}) = Cardinality(begun) - 1
    BY <1>2, <2>1, FS_RemoveElement
  <2>3. slices[u] # <<>>
    BY <1>1, <1>5, LastOfOwnLane
  <2>4. slices'[u] = Front(slices[u])
    BY <1>1, <1>5
  <2>5. /\ Len(slices'[u]) = Len(slices[u]) - 1
        /\ \A i \in 1..Len(slices[u]) - 1 : slices'[u][i] = slices[u][i]
    BY <1>3, <2>3, <2>4, LastFront, ZenonT(40)
  <2>6. ASSUME NEW i \in begun \ {n}
        PROVE  slices'[u][Cardinality((begun \ {n}) \intersect (1..i))]
                 = <<scopes'[u][i].by, scopes'[u][i].span>>
    <3>1. i \in 1..n - 1 /\ scopes'[u][i] = scopes[u][i]
      BY <1>1, <1>2, <1>5
    <3>2. (begun \ {n}) \intersect (1..i) = begun \intersect (1..i)
      BY <1>1, <3>1
    <3>3. Cardinality(begun \intersect (1..i)) \in 1..Cardinality(begun) - 1
      <4>1. begun \intersect (1..i) \subseteq begun \ {n} /\ i \in begun \intersect (1..i)
        BY <1>1, <3>1
      <4>2. IsFiniteSet(begun \ {n})
        BY <1>2, FS_Subset
      <4>3. IsFiniteSet(begun \intersect (1..i))
            /\ Cardinality(begun \intersect (1..i)) <= Cardinality(begun \ {n})
        BY <4>1, <4>2, FS_Subset
      <4>4. Cardinality(begun \intersect (1..i)) \in Nat \ {0}
        BY <4>1, <4>3, FS_EmptySet, FS_CardinalityType
      <4>5. QED
        BY <1>2, <2>2, <4>3, <4>4
    <3>4. QED
      BY <1>3, <1>4, <2>5, <3>1, <3>2, <3>3
  <2>7. QED
    BY <1>3, <2>1, <2>2, <2>5, <2>6 DEF OwnLane
<1>6. CASE ~(u = t /\ scopes[t][n].began = sessions /\ scopes[t][n].lane = u)
  <2>1. BegunIn(u, u)' = begun
    <3>1. CASE u = t
      <4>1. n \notin begun
        BY <1>6, <3>1 DEF BegunIn
      <4>2. QED
        BY <1>1, <1>2, <3>1, <4>1 DEF BegunIn
    <3>2. CASE u # t
      BY <1>1, <3>2 DEF BegunIn
    <3>3. QED
      BY <3>1, <3>2
  <2>2. \A i \in begun : scopes'[u][i] = scopes[u][i]
    BY <1>1, <1>2, <1>6 DEF BegunIn
  <2>3. slices'[u] = slices[u]
    BY <1>1, <1>6
  <2>4. QED
    BY <1>3, <1>4, <2>1, <2>2, <2>3 DEF OwnLane
<1>7. QED
  BY <1>5, <1>6

-----------------------------------------------------------------------------
LEMMA LaneFound ==
    ASSUME Typed, NEW t \in Threads, NEW track \in Tracks \union {CURRENT}, NEW lane,
           OnLane(t, track, lane)
    PROVE  lane \in {t} \union Tracks /\ lane \in Lanes /\ named' \subseteq Tracks
  BY TracksAssumption DEF Typed, OnLane, Lanes

\* What the begin of a scope does to the trace.
LEMMA BeginOpens ==
    ASSUME Typed, NEW t \in Threads, NEW by \in {"layer", "guard"}, NEW s \in Spans,
           NEW track \in Tracks \union {CURRENT}, NEW available, NEW scope,
           Begin(t, by, s, track, available, scope)
    PROVE  /\ scope \in ScopeValues /\ scope.by = by /\ scope.span = s
           /\ scope.began <= sessions /\ (scope.recorded \/ scope.began = 0)
           /\ named' \subseteq Tracks /\ slices' \in [Lanes -> Seq(Slices)]
           /\ phase = "running" =>
                IF scope.began = sessions
                THEN /\ scope.lane \in {t} \union Tracks
                     /\ slices' = [slices EXCEPT ![scope.lane] = Append(@, <<scope.by, scope.span>>)]
                ELSE slices' = slices
<1> USE DEF ScopeValues, Scope
<1>1. sessions \in Nat /\ (phase = "running" => sessions > 0) /\ named \subseteq Tracks
      /\ slices \in [Lanes -> Seq(Slices)]
  BY DEF Typed
<1>2. CASE available /\ Selected(s) /\ phase = "running"
  <2>1. PICK lane \in Lanes :
          /\ OnLane(t, track, lane)
          /\ scope = Scope(by, s, track, TRUE, sessions, lane)
          /\ slices' = [slices EXCEPT ![lane] = Append(slices[lane], <<by, s>>)]
    BY <1>2 DEF Begin, SpanBegin, RecordBegin
  <2>2. lane \in {t} \union Tracks /\ named' \subseteq Tracks
    BY <2>1, LaneFound
  <2>3. <<by, s>> \in Slices /\ slices[lane] \in Seq(Slices)
    BY <1>1 DEF Slices
  <2>4. Append(slices[lane], <<by, s>>) \in Seq(Slices)
    BY <2>3, AppendProperties
  <2>5. slices' \in [Lanes -> Seq(Slices)]
    BY <1>1, <2>1, <2>4
  <2>6. QED
    BY <1>1, <2>1, <2>2, <2>5
<1>3. CASE available /\ Selected(s) /\ phase # "running"
  <2>1. scope = Scope(by, s, track, TRUE, 0, Unbegun) /\ named' = named /\ slices' = slices
    BY <1>3 DEF Begin, SpanBegin
  <2>2. QED
    BY <1>1, <1>3, <2>1
<1>4. CASE ~(available /\ Selected(s))
  <2>1. scope = Scope(by, s, track, FALSE, 0, Unbegun) /\ named' = named /\ slices' = slices
    BY <1>4 DEF Begin, Disabled
  <2>2. QED
    BY <1>1, <2>1
<1>5. QED
  BY <1>2, <1>3, <1>4

\* What an end does to the trace: unless it is one of the causes, it closes a
\* slice of the lane its scope began on.
LEMMA EndCloses ==
    ASSUME Typed, NEW t \in Threads, NEW scope \in ScopeValues, SpanEnd(t, scope)
    PROVE  /\ named' \subseteq Tracks /\ slices' \in [Lanes -> Seq(Slices)]
           /\ "taken" \in causes' => "taken" \in causes \/ ~scope.recorded
           /\ phase # "running" => UNCHANGED <<slices, unmatched, swapped, causes>>
           /\ phase = "running" /\ causes' = {} =>
                /\ causes = {} /\ scope.began = sessions
                /\ scope.lane \in {t} \union Tracks
                /\ slices[scope.lane] # <<>> =>
                     /\ slices' = [slices EXCEPT ![scope.lane] = Front(@)]
                     /\ unmatched' = unmatched
                     /\ swapped' = (swapped \/ (scope.lane \in Threads
                                      /\ Last(slices[scope.lane]) # <<scope.by, scope.span>>))
<1>1. slices \in [Lanes -> Seq(Slices)] /\ named \subseteq Tracks
  BY DEF Typed
<1>2. CASE phase # "running"
  BY <1>1, <1>2 DEF SpanEnd, trace
<1>3. CASE phase = "running"
  <2>1. PICK lane \in Lanes :
          /\ OnLane(t, scope.track, lane)
          /\ causes' = IF Stray(scope, lane) THEN causes \union {Cause(scope, lane)} ELSE causes
          /\ IF slices[lane] = <<>>
             THEN unmatched' = unmatched + 1 /\ UNCHANGED <<slices, swapped>>
             ELSE /\ slices' = [slices EXCEPT ![lane] = Front(slices[lane])]
                  /\ swapped' = (swapped \/ (lane \in Threads
                                   /\ Last(slices[lane]) # <<scope.by, scope.span>>))
                  /\ UNCHANGED unmatched
    BY <1>3 DEF SpanEnd, RecordEnd
  <2>2. lane \in {t} \union Tracks /\ named' \subseteq Tracks
    <3>1. scope.track \in Tracks \union {CURRENT}
      BY DEF ScopeValues
    <3>2. QED
      BY <2>1, <3>1, LaneFound
  <2>3. slices' \in [Lanes -> Seq(Slices)]
    <3>1. CASE slices[lane] = <<>>
      BY <1>1, <2>1, <3>1
    <3>2. CASE slices[lane] # <<>>
      <4>1. slices[lane] \in Seq(Slices)
        BY <1>1
      <4>2. Front(slices[lane]) \in Seq(Slices)
        BY <3>2, <4>1, LastFront
      <4>3. QED
        BY <1>1, <2>1, <3>2, <4>2
    <3>3. QED
      BY <3>1, <3>2
  <2>4. "taken" \in causes' => "taken" \in causes \/ ~scope.recorded
    BY <2>1 DEF Cause
  <2>5. causes' = {} => causes = {} /\ scope.began = sessions /\ scope.lane = lane
    BY <2>1 DEF Stray
  <2>6. QED
    BY <1>3, <2>1, <2>2, <2>3, <2>4, <2>5
<1>4. QED
  BY <1>2, <1>3

-----------------------------------------------------------------------------
\* What entering a scope leaves true, by whomever it is.
LEMMA PushInv ==
    ASSUME Inv, NEW t \in Threads, NEW by \in {"layer", "guard"}, NEW s \in Spans,
           NEW track \in Tracks \union {CURRENT}, NEW available, NEW scope,
           Begin(t, by, s, track, available, scope), Push(t, scope),
           UNCHANGED <<session, causes>>, activeEnters' \in [Spans -> Nat]
    PROVE  Typed' /\ Booked' /\ Matched'
<1>1. /\ Typed /\ sessions' = sessions /\ phase' = phase /\ causes' = causes
      /\ scope \in ScopeValues /\ scope.by = by /\ scope.span = s
      /\ scope.began <= sessions /\ (scope.recorded \/ scope.began = 0)
      /\ named' \subseteq Tracks /\ slices' \in [Lanes -> Seq(Slices)]
      /\ phase = "running" =>
           IF scope.began = sessions
           THEN /\ scope.lane \in {t} \union Tracks
                /\ slices' = [slices EXCEPT ![scope.lane] = Append(@, <<scope.by, scope.span>>)]
           ELSE slices' = slices
  BY BeginOpens DEF Inv, session
<1>2. Typed'
  <2>1. scopes' \in [Threads -> Seq(ScopeValues)] /\ \A u \in Threads : Len(scopes'[u]) <= MaxDepth
    BY <1>1, PushStack
  <2>2. QED
    BY <1>1, <2>1 DEF Typed
<1>3. Booked'
  <2> DEFINE n == Len(scopes[t])
  <2>1. /\ n \in Nat /\ DOMAIN scopes[t] = 1..n
        /\ \A w \in Threads \ {t} : scopes'[w] = scopes[w]
        /\ DOMAIN scopes'[t] = 1..n + 1
        /\ \A i \in 1..n : scopes'[t][i] = scopes[t][i]
        /\ scopes'[t][n + 1] = scope
    BY <1>1, PushStack
  <2>2. Booked
    BY DEF Inv
  <2>3. ASSUME NEW u \in Threads, NEW i \in DOMAIN scopes'[u]
        PROVE  /\ scopes'[u][i].began <= sessions
               /\ scopes'[u][i].recorded \/ scopes'[u][i].began = 0
    <3>1. CASE u = t /\ i = n + 1
      BY <1>1, <2>1, <3>1
    <3>2. CASE u = t /\ i \in 1..n
      BY <2>1, <2>2, <3>2 DEF Booked
    <3>3. CASE u # t
      BY <2>1, <2>2, <2>3, <3>3 DEF Booked
    <3>4. QED
      BY <2>1, <2>3, <3>1, <3>2, <3>3
  <2>4. QED
    BY <1>1, <2>3 DEF Booked
<1>4. Matched'
  <2> SUFFICES ASSUME phase = "running", causes = {}
               PROVE  (\A u \in Threads : OwnLane(u)') /\ \A k \in Tracks : SharedLane(k)'
    BY <1>1 DEF Matched
  <2>1. /\ \A u \in Threads : OwnLane(u)
        /\ \A k \in Tracks : SharedLane(k)
    BY DEF Inv, Matched
  <2>2. IF scope.began = sessions
        THEN /\ scope.lane \in {t} \union Tracks
             /\ slices' = [slices EXCEPT ![scope.lane] = Append(@, <<scope.by, scope.span>>)]
        ELSE slices' = slices
    BY <1>1
  <2>3. slices \in [Lanes -> Seq(Slices)] /\ t \in Lanes
    BY <1>1 DEF Typed, Lanes
  <2>4. ASSUME NEW u \in Threads PROVE OwnLane(u)'
    <3>1. u \in Lanes /\ u \notin Tracks
      BY TracksAssumption DEF Lanes
    <3>2. slices'[u] = IF u = t /\ scope.began = sessions /\ scope.lane = u
                       THEN Append(slices[u], <<scope.by, scope.span>>) ELSE slices[u]
      BY <2>2, <2>3, <3>1
    <3>3. OwnLane(u)
      BY <2>1
    <3>4. QED
      BY <1>1, <3>2, <3>3, PushOwnLane
  <2>5. ASSUME NEW k \in Tracks PROVE SharedLane(k)'
    <3>1. k \in Lanes /\ k # t
      BY TracksAssumption DEF Lanes
    <3>2. PICK N : N = sessions
      OBVIOUS
    <3>3. scope \in LaneOf(N, k) <=> scope.began = sessions /\ scope.lane = k
      BY <1>1, <3>2 DEF LaneOf
    <3>4. Cardinality(Places(LaneOf(N, k))') =
            IF scope \in LaneOf(N, k)
            THEN Cardinality(Places(LaneOf(N, k))) + 1 ELSE Cardinality(Places(LaneOf(N, k)))
      BY <1>1, PushPlaces
    <3>5. Len(slices[k]) = Cardinality(Places(LaneOf(N, k)))
      BY <2>1, <3>2 DEF SharedLane
    <3>6. Len(slices'[k]) =
            IF scope.began = sessions /\ scope.lane = k THEN Len(slices[k]) + 1 ELSE Len(slices[k])
      <4>1. slices[k] \in Seq(Slices)
        BY <2>3, <3>1
      <4>2. <<scope.by, scope.span>> \in Slices
        BY <1>1 DEF Slices
      <4>3. Len(Append(slices[k], <<scope.by, scope.span>>)) = Len(slices[k]) + 1
        BY <4>1, <4>2, AppendProperties
      <4>4. QED
        BY <2>2, <2>3, <3>1, <4>3
    <3>7. Places(LaneOf(N, k))' = Places(LaneOf(sessions, k))'
      BY <1>1, <3>2
    <3>8. QED
      BY <3>3, <3>4, <3>5, <3>6, <3>7 DEF SharedLane
  <2>6. QED
    BY <2>4, <2>5
<1>5. QED
  BY <1>2, <1>3, <1>4

LEMMA EnterInv ==
    ASSUME Inv, NEW t \in Threads, NEW s \in Spans, Enter(t, s)
    PROVE  Inv'
<1>1. PICK scope :
        /\ Begin(t, "layer", s, CURRENT, ~poisoned, scope) /\ Push(t, scope)
        /\ activeEnters' = [activeEnters EXCEPT ![s] = IF Counted(scope)
                              THEN activeEnters[s] + 1 ELSE activeEnters[s]]
        /\ shared' = (shared \/ ScopesOf(s) # {})
        /\ UNCHANGED <<session, unmatched, swapped, causes>>
  BY DEF Enter
<1>2. /\ Typed /\ sessions' = sessions /\ phase' = phase
      /\ activeEnters \in [Spans -> Nat]
  BY <1>1 DEF Inv, Typed, session
<1>3. activeEnters' \in [Spans -> Nat]
  BY <1>1, <1>2
<1>4. Typed' /\ Booked' /\ Matched'
  BY <1>1, <1>3, PushInv
<1>5. /\ scope \in ScopeValues /\ scope.by = "layer" /\ scope.span = s
      /\ scope.recorded \/ scope.began = 0
      /\ sessions \in Nat /\ (phase = "running" => sessions > 0)
  <2>1. "layer" \in {"layer", "guard"} /\ CURRENT \in Tracks \union {CURRENT}
    OBVIOUS
  <2>2. scope \in ScopeValues /\ scope.by = "layer" /\ scope.span = s
        /\ (scope.recorded \/ scope.began = 0)
    <3>1. PICK available : Begin(t, "layer", s, CURRENT, available, scope)
      BY <1>1
    <3>2. QED
      BY <1>2, <2>1, <3>1, BeginOpens, SMTT(30)
  <2>3. QED
    BY <1>2, <2>2 DEF Typed
<1>6. ASSUME NEW r \in Spans
      PROVE  /\ ScopesOf(r) = Places(Layered(r)) /\ ScopesOf(r)' = Places(Layered(r))'
             /\ scope \in Layered(r) <=> r = s
             /\ activeEnters[r] \in Nat /\ activeEnters[r] <= Cardinality(Places(Layered(r)))
             /\ activeEnters'[r] = IF r = s /\ scope.recorded
                                   THEN activeEnters[r] + 1 ELSE activeEnters[r]
  <2>1. ScopesOf(r) = Places(Layered(r))
    BY <1>2, ScopesArePlaces DEF LayersPlaced
  <2>2. (Typed => LayersPlaced)'
    BY ScopesArePlaces, PTL
  <2>3. ScopesOf(r)' = Places(Layered(r))'
    BY <1>4, <2>2 DEF LayersPlaced
  <2>4. scope \in Layered(r) <=> r = s
    BY <1>5 DEF Layered
  <2>5. activeEnters[r] <= Cardinality(ScopesOf(r))
    BY DEF Inv, NoStaleEntry
  <2>6. QED
    BY <1>1, <1>2, <2>1, <2>3, <2>4, <2>5 DEF Counted
<1>7. NoStaleEntry'
  <2>1. ASSUME NEW r \in Spans PROVE activeEnters'[r] <= Cardinality(ScopesOf(r)')
    <3>1. Cardinality(Places(Layered(r))') =
            IF scope \in Layered(r)
            THEN Cardinality(Places(Layered(r))) + 1 ELSE Cardinality(Places(Layered(r)))
      BY <1>1, <1>2, <1>5, PushPlaces
    <3>2. Cardinality(Places(Layered(r))) \in Nat
      BY SomePlaces
    <3>3. QED
      BY <1>6, <3>1, <3>2
  <2>2. QED
    BY <2>1 DEF NoStaleEntry
<1>8. Alone'
  <2> SUFFICES ASSUME ~shared', NEW r \in Spans
               PROVE  /\ \A p, q \in ScopesOf(r)' : p = q
                      /\ activeEnters'[r] > 0 => \A p \in ScopesOf(r)' : scopes'[p[1]][p[2]].recorded
    BY DEF Alone
  <2> DEFINE here == <<t, Len(scopes[t]) + 1>>
  <2>1. /\ \A p, q \in ScopesOf(r) : p = q
        /\ activeEnters[r] > 0 => \A p \in ScopesOf(r) : scopes[p[1]][p[2]].recorded
    BY <1>1 DEF Inv, Alone
  <2>2. ScopesOf(s) = {}
    BY <1>1
  <2>3. ScopesOf(r)' = IF r = s THEN ScopesOf(r) \union {here} ELSE ScopesOf(r)
    <3>1. Places(Layered(r))' =
            IF scope \in Layered(r) THEN Places(Layered(r)) \union {here} ELSE Places(Layered(r))
      BY <1>1, <1>2, <1>5, PushPlaces
    <3>2. ScopesOf(r) = Places(Layered(r)) /\ ScopesOf(r)' = Places(Layered(r))' /\ (scope \in Layered(r) <=> r = s)
      BY <1>6
    <3> HIDE DEF here
    <3>3. QED
      BY <3>1, <3>2
  <2>4. /\ Len(scopes[t]) \in Nat /\ DOMAIN scopes[t] = 1..Len(scopes[t])
        /\ \A u \in Threads \ {t} : scopes'[u] = scopes[u]
        /\ \A i \in 1..Len(scopes[t]) : scopes'[t][i] = scopes[t][i]
        /\ scopes'[t][Len(scopes[t]) + 1] = scope
    BY <1>1, <1>2, <1>5, PushStack
  <2>5. CASE r = s
    <3>1. ScopesOf(r)' = {here}
      BY <2>2, <2>3, <2>5
    <3>2. Cardinality(ScopesOf(r)) = 0
      BY <2>2, <2>5, FS_EmptySet
    <3>3. activeEnters[r] = 0
      BY <1>6, <3>2
    <3>4. activeEnters'[r] > 0 => scope.recorded
      BY <1>6, <3>3
    <3>5. scopes'[here[1]][here[2]] = scope
      BY <2>4
    <3>6. QED
      BY <3>1, <3>4, <3>5
  <2>6. CASE r # s
    <3>1. ScopesOf(r)' = ScopesOf(r) /\ activeEnters'[r] = activeEnters[r]
      BY <1>6, <2>3, <2>6
    <3>2. ASSUME NEW p \in ScopesOf(r) PROVE scopes'[p[1]][p[2]] = scopes[p[1]][p[2]]
      BY <2>4 DEF ScopesOf
    <3>3. QED
      BY <2>1, <3>1, <3>2
  <2>7. QED
    BY <2>5, <2>6
<1>9. EndsOwnSlice'
  BY <1>1 DEF Inv, EndsOwnSlice
<1>10. OpenCounted'
  <2> SUFFICES ASSUME phase = "running", causes = {}, NEW r \in Spans
               PROVE  Cardinality(Places(OpenOf(sessions, r))') <= activeEnters'[r]
    BY <1>1, <1>2 DEF OpenCounted
  <2>1. PICK N : N = sessions
    OBVIOUS
  <2>2. Cardinality(Places(OpenOf(N, r))) <= activeEnters[r]
    BY <2>1 DEF Inv, OpenCounted
  <2>3. scope \in OpenOf(N, r) => r = s /\ scope.recorded
    BY <1>5, <1>6, <2>1 DEF OpenOf
  <2>4. Cardinality(Places(OpenOf(N, r))') =
          IF scope \in OpenOf(N, r)
          THEN Cardinality(Places(OpenOf(N, r))) + 1 ELSE Cardinality(Places(OpenOf(N, r)))
    BY <1>1, <1>2, <1>5, PushPlaces
  <2>5. Cardinality(Places(OpenOf(N, r))) \in Nat
    BY SomePlaces
  <2>6. Places(OpenOf(sessions, r))' = Places(OpenOf(N, r))'
    BY <1>2, <2>1
  <2>7. Cardinality(Places(OpenOf(N, r))') <= activeEnters'[r]
    BY <1>6, <2>2, <2>3, <2>4, <2>5
  <2>8. QED
    BY <1>2, <2>6, <2>7
<1>11. QED
  BY <1>4, <1>7, <1>8, <1>9, <1>10 DEF Inv

LEMMA GuardInv ==
    ASSUME Inv, NEW t \in Threads, NEW s \in Spans, NEW track \in Tracks \union {CURRENT},
           Guard(t, s, track)
    PROVE  Inv'
<1>1. PICK scope :
        /\ Begin(t, "guard", s, track, TRUE, scope) /\ Push(t, scope)
        /\ UNCHANGED <<session, unmatched, swapped, causes, activeEnters, shared>>
  BY DEF Guard
<1>2. /\ Typed /\ sessions' = sessions /\ phase' = phase
      /\ activeEnters \in [Spans -> Nat] /\ activeEnters' \in [Spans -> Nat]
  BY <1>1 DEF Inv, Typed, session
<1>3. Typed' /\ Booked' /\ Matched'
  <2>1. "guard" \in {"layer", "guard"}
    OBVIOUS
  <2>2. UNCHANGED <<session, causes>>
    BY <1>1
  <2>3. QED
    BY <1>1, <1>2, <2>1, <2>2, PushInv
<1>4. scope \in ScopeValues /\ scope.by = "guard"
  BY <1>1, <1>2, BeginOpens
<1>5. ASSUME NEW V, \A v \in V : v.by = "layer" PROVE Places(V)' = Places(V)
  BY <1>1, <1>2, <1>4, <1>5, PushPlaces
<1>6. ASSUME NEW r \in Spans
      PROVE  ScopesOf(r)' = ScopesOf(r) /\ ScopesOf(r) = Places(Layered(r))
  <2>1. ScopesOf(r) = Places(Layered(r))
    BY <1>2, ScopesArePlaces DEF LayersPlaced
  <2>2. (Typed => LayersPlaced)'
    BY ScopesArePlaces, PTL
  <2>3. \A v \in Layered(r) : v.by = "layer"
    BY DEF Layered
  <2>4. Places(Layered(r))' = Places(Layered(r))
    BY <1>5, <2>3
  <2>5. QED
    BY <1>3, <2>1, <2>2, <2>4 DEF LayersPlaced
<1>7. NoStaleEntry'
  BY <1>1, <1>6 DEF Inv, NoStaleEntry
<1>8. Alone'
  <2>1. ASSUME NEW r \in Spans, NEW p \in ScopesOf(r)
        PROVE  scopes'[p[1]][p[2]] = scopes[p[1]][p[2]]
    <3>1. /\ DOMAIN scopes[t] = 1..Len(scopes[t])
          /\ \A u \in Threads \ {t} : scopes'[u] = scopes[u]
          /\ \A i \in 1..Len(scopes[t]) : scopes'[t][i] = scopes[t][i]
      BY <1>1, <1>2, <1>4, PushStack
    <3>2. QED
      BY <3>1 DEF ScopesOf
  <2>2. QED
    BY <1>1, <1>6, <2>1 DEF Inv, Alone
<1>9. EndsOwnSlice'
  BY <1>1 DEF Inv, EndsOwnSlice
<1>10. OpenCounted'
  <2> SUFFICES ASSUME phase = "running", causes = {}, NEW r \in Spans
               PROVE  Cardinality(Places(OpenOf(sessions, r))') <= activeEnters'[r]
    BY <1>1, <1>2 DEF OpenCounted
  <2>1. PICK N : N = sessions
    OBVIOUS
  <2>2. \A v \in OpenOf(N, r) : v.by = "layer"
    BY DEF OpenOf, Layered
  <2>3. Places(OpenOf(N, r))' = Places(OpenOf(N, r))
    BY <1>5, <2>2
  <2>4. Cardinality(Places(OpenOf(N, r))) <= activeEnters[r]
    BY <2>1 DEF Inv, OpenCounted
  <2>5. QED
    BY <1>1, <1>2, <2>1, <2>3, <2>4
<1>11. QED
  BY <1>3, <1>7, <1>8, <1>9, <1>10 DEF Inv

-----------------------------------------------------------------------------
\* A scope of the running session that is left has a slice: the last on the
\* thread's lane, or one of those on the explicit track.
LEMMA SliceIsThere ==
    ASSUME Inv, phase = "running", causes = {}, NEW t \in Threads, scopes[t] # <<>>,
           Last(scopes[t]).began = sessions, Last(scopes[t]).lane \in {t} \union Tracks
    PROVE  LET lane == Last(scopes[t]).lane
           IN /\ slices[lane] # <<>>
              /\ lane \in Threads =>
                   Last(slices[lane]) = <<Last(scopes[t]).by, Last(scopes[t]).span>>
<1> DEFINE lane == Last(scopes[t]).lane
<1>1. Typed /\ (\A u \in Threads : OwnLane(u)) /\ \A k \in Tracks : SharedLane(k)
  BY DEF Inv, Matched
<1>2. CASE lane = t
  BY <1>1, <1>2, LastOfOwnLane
<1>3. CASE lane \in Tracks
  <2>1. lane \notin Threads
    BY <1>3, TracksAssumption
  <2>2. /\ Len(scopes[t]) \in 1..MaxDepth /\ DOMAIN scopes[t] = 1..Len(scopes[t])
        /\ Last(scopes[t]) = scopes[t][Len(scopes[t])] /\ Last(scopes[t]) \in ScopeValues
    <3>1. scopes[t] \in Seq(ScopeValues) /\ Len(scopes[t]) <= MaxDepth /\ MaxDepth \in Nat
      BY <1>1, LayerAssumption DEF Typed
    <3>2. /\ Len(scopes[t]) \in Nat \ {0} /\ DOMAIN scopes[t] = 1..Len(scopes[t])
          /\ Last(scopes[t]) = scopes[t][Len(scopes[t])] /\ Last(scopes[t]) \in ScopeValues
      BY <3>1, LastFront
    <3>3. QED
      BY <3>1, <3>2
  <2>3. <<t, Len(scopes[t])>> \in Places(LaneOf(sessions, lane))
    BY <2>2 DEF Places, LaneOf
  <2>4. Cardinality(Places(LaneOf(sessions, lane))) # 0
    BY <2>3, SomePlaces, FS_EmptySet
  <2>5. slices[lane] # <<>>
    BY <1>1, <1>3, <2>4, EmptySeq DEF SharedLane
  <2>6. QED
    BY <2>1, <2>5
<1>4. QED
  BY <1>2, <1>3

\* What leaving a scope does to the trace and to the counts.
LEMMA LeaveCloses ==
    ASSUME Inv, NEW t \in Threads, Leave(t)
    PROVE  LET last == Last(scopes[t])
               counted == last.by = "layer" /\ activeEnters[last.span] > 0
           IN /\ scopes[t] # <<>> /\ scopes' = [scopes EXCEPT ![t] = Front(scopes[t])]
              /\ last \in ScopeValues
              /\ sessions' = sessions /\ phase' = phase /\ shared' = shared
              /\ named' \subseteq Tracks /\ slices' \in [Lanes -> Seq(Slices)]
              /\ activeEnters' = IF counted
                                 THEN [activeEnters EXCEPT ![last.span] = @ - 1] ELSE activeEnters
              /\ "taken" \in causes' => "taken" \in causes \/ (counted /\ ~last.recorded)
              /\ phase # "running" => UNCHANGED <<slices, unmatched, swapped, causes>>
              /\ phase = "running" /\ causes' = {} =>
                   /\ causes = {} /\ unmatched' = unmatched /\ (swapped' => swapped)
                   /\ IF last.began = sessions
                      THEN /\ last.lane \in {t} \union Tracks
                           /\ slices' = [slices EXCEPT ![last.lane] = Front(@)]
                           /\ last.by = "layer" => counted
                      ELSE slices' = slices /\ ~counted
<1> DEFINE last == Last(scopes[t])
           counted == last.by = "layer" /\ activeEnters[last.span] > 0
<1>1. /\ scopes[t] # <<>> /\ scopes' = [scopes EXCEPT ![t] = Front(scopes[t])]
      /\ sessions' = sessions /\ phase' = phase /\ shared' = shared
      /\ IF last.by = "layer" THEN LeaveSpan(t, last) ELSE DropGuard(t, last)
  BY DEF Leave, session
<1>2. Typed /\ named \subseteq Tracks /\ slices \in [Lanes -> Seq(Slices)] /\ sessions \in Nat
      /\ (phase = "running" => sessions > 0) /\ activeEnters \in [Spans -> Nat]
  BY DEF Inv, Typed
<1>3. /\ Len(scopes[t]) \in Nat \ {0} /\ Len(scopes[t]) <= MaxDepth
      /\ DOMAIN scopes[t] = 1..Len(scopes[t])
      /\ last = scopes[t][Len(scopes[t])] /\ last \in ScopeValues
  BY <1>1, <1>2, PopStack
<1>4. last.recorded \/ last.began = 0
  BY <1>3 DEF Inv, Booked
<1>5. phase = "running" /\ causes = {} /\ last.began = sessions /\ last.lane \in {t} \union Tracks =>
        /\ slices[last.lane] # <<>>
        /\ last.lane \in Threads => Last(slices[last.lane]) = <<last.by, last.span>>
  BY <1>1, SliceIsThere
<1>6. last.span \in Spans /\ last.by \in {"layer", "guard"} /\ last.recorded \in BOOLEAN
  BY <1>3 DEF ScopeValues
<1>7. phase = "running" /\ causes = {} /\ last.by = "layer" /\ last.began = sessions => counted
  <2> SUFFICES ASSUME phase = "running", causes = {}, last.by = "layer", last.began = sessions
               PROVE  activeEnters[last.span] > 0
    OBVIOUS
  <2>1. <<t, Len(scopes[t])>> \in Places(OpenOf(sessions, last.span))
    BY LayerAssumption, <1>3 DEF Places, OpenOf, Layered
  <2>2. Cardinality(Places(OpenOf(sessions, last.span))) # 0
    BY <2>1, SomePlaces, FS_EmptySet
  <2>3. Cardinality(Places(OpenOf(sessions, last.span))) \in Nat
    BY SomePlaces
  <2>4. Cardinality(Places(OpenOf(sessions, last.span))) <= activeEnters[last.span]
    BY <1>6 DEF Inv, OpenCounted
  <2>5. QED
    BY <1>2, <1>6, <2>2, <2>3, <2>4
<1> HIDE DEF last
<1>8. CASE counted /\ poisoned
  <2>1. /\ activeEnters' = [activeEnters EXCEPT ![last.span] = activeEnters[last.span] - 1]
        /\ causes' = IF phase = "running" THEN causes \union {"poisoned"} ELSE causes
        /\ UNCHANGED <<named, slices, unmatched, swapped>>
    BY <1>1, <1>8 DEF LeaveSpan, EndSwallowed, Remaining
  <2>2. QED
    BY <1>1, <1>2, <1>3, <1>8, <2>1 DEF last
<1>9. CASE ~counted /\ ~(last.by = "guard" /\ last.recorded)
  <2>1. UNCHANGED <<activeEnters, named, slices, unmatched, swapped, causes>>
    BY <1>1, <1>6, <1>9 DEF LeaveSpan, DropGuard, trace
  <2>2. phase = "running" /\ causes = {} => last.began # sessions
    BY <1>2, <1>4, <1>6, <1>7, <1>9
  <2>3. QED
    BY <1>1, <1>2, <1>3, <1>9, <2>1, <2>2 DEF last
<1>10. CASE (counted /\ ~poisoned) \/ (last.by = "guard" /\ last.recorded)
  <2>1. /\ SpanEnd(t, last)
        /\ activeEnters' = IF counted
             THEN [activeEnters EXCEPT ![last.span] = activeEnters[last.span] - 1] ELSE activeEnters
    BY <1>1, <1>10 DEF LeaveSpan, DropGuard, Remaining
  <2>2. /\ named' \subseteq Tracks /\ slices' \in [Lanes -> Seq(Slices)]
        /\ "taken" \in causes' => "taken" \in causes \/ ~last.recorded
        /\ phase # "running" => UNCHANGED <<slices, unmatched, swapped, causes>>
        /\ phase = "running" /\ causes' = {} =>
             /\ causes = {} /\ last.began = sessions
             /\ last.lane \in {t} \union Tracks
             /\ slices[last.lane] # <<>> =>
                  /\ slices' = [slices EXCEPT ![last.lane] = Front(@)]
                  /\ unmatched' = unmatched
                  /\ swapped' = (swapped \/ (last.lane \in Threads
                                   /\ Last(slices[last.lane]) # <<last.by, last.span>>))
    BY <1>2, <1>3, <2>1, EndCloses
  <2>3. "taken" \in causes' => "taken" \in causes \/ (counted /\ ~last.recorded)
    BY <1>10, <2>2
  <2>4. phase = "running" /\ causes' = {} =>
          /\ causes = {} /\ last.began = sessions /\ last.lane \in {t} \union Tracks
          /\ slices' = [slices EXCEPT ![last.lane] = Front(@)]
          /\ unmatched' = unmatched /\ (swapped' => swapped)
          /\ last.by = "layer" => counted
    BY <1>5, <1>7, <2>2
  <2>5. QED
    BY <1>1, <1>2, <1>3, <1>10, <2>1, <2>2, <2>3, <2>4 DEF last
<1>11. QED
  BY <1>6, <1>8, <1>9, <1>10

LEMMA LeaveInv ==
    ASSUME Inv, NEW t \in Threads, Leave(t)
    PROVE  Inv'
<1> DEFINE last == Last(scopes[t])
           counted == last.by = "layer" /\ activeEnters[last.span] > 0
           here == <<t, Len(scopes[t])>>
<1>1. /\ scopes[t] # <<>> /\ scopes' = [scopes EXCEPT ![t] = Front(scopes[t])]
      /\ last \in ScopeValues
      /\ sessions' = sessions /\ phase' = phase /\ shared' = shared
      /\ named' \subseteq Tracks /\ slices' \in [Lanes -> Seq(Slices)]
      /\ activeEnters' = IF counted
                         THEN [activeEnters EXCEPT ![last.span] = @ - 1] ELSE activeEnters
      /\ "taken" \in causes' => "taken" \in causes \/ (counted /\ ~last.recorded)
      /\ phase # "running" => UNCHANGED <<slices, unmatched, swapped, causes>>
      /\ phase = "running" /\ causes' = {} =>
           /\ causes = {} /\ unmatched' = unmatched /\ (swapped' => swapped)
           /\ IF last.began = sessions
              THEN /\ last.lane \in {t} \union Tracks
                   /\ slices' = [slices EXCEPT ![last.lane] = Front(@)]
                   /\ last.by = "layer" => counted
              ELSE slices' = slices /\ ~counted
  BY LeaveCloses
<1>2. Typed /\ activeEnters \in [Spans -> Nat] /\ slices \in [Lanes -> Seq(Slices)]
      /\ sessions \in Nat
  BY DEF Inv, Typed
<1>3. last.span \in Spans
  BY <1>1 DEF ScopeValues
<1>4. /\ Len(scopes[t]) \in Nat \ {0} /\ Len(scopes[t]) <= MaxDepth
      /\ DOMAIN scopes[t] = 1..Len(scopes[t]) /\ last = scopes[t][Len(scopes[t])]
      /\ scopes' \in [Threads -> Seq(ScopeValues)]
      /\ \A u \in Threads : Len(scopes'[u]) <= MaxDepth
      /\ \A u \in Threads \ {t} : scopes'[u] = scopes[u]
      /\ DOMAIN scopes'[t] = 1..Len(scopes[t]) - 1
      /\ \A i \in 1..Len(scopes[t]) - 1 : scopes'[t][i] = scopes[t][i]
  BY <1>1, <1>2, PopStack
<1>5. ASSUME NEW V
      PROVE  /\ here \in Places(V) <=> last \in V
             /\ Places(V)' = Places(V) \ {here}
             /\ Cardinality(Places(V)') =
                  IF last \in V THEN Cardinality(Places(V)) - 1 ELSE Cardinality(Places(V))
  BY <1>1, <1>2, PopPlaces
<1>6. activeEnters' \in [Spans -> Nat]
      /\ \A r \in Spans : activeEnters'[r] = IF counted /\ r = last.span
                                              THEN activeEnters[r] - 1 ELSE activeEnters[r]
  <2>1. CASE counted
    BY <1>1, <1>2, <1>3, <2>1
  <2>2. CASE ~counted
    BY <1>1, <1>2, <2>2
  <2>3. QED
    BY <2>1, <2>2
<1> HIDE DEF here
<1>7. Typed'
  BY <1>1, <1>2, <1>4, <1>6 DEF Typed
<1>8. Booked'
  <2>1. Booked
    BY DEF Inv
  <2>2. ASSUME NEW u \in Threads, NEW i \in DOMAIN scopes'[u]
        PROVE  /\ scopes'[u][i].began <= sessions
               /\ scopes'[u][i].recorded \/ scopes'[u][i].began = 0
    <3>1. i \in DOMAIN scopes[u] /\ scopes'[u][i] = scopes[u][i]
      BY <1>4, <2>2
    <3>2. QED
      BY <2>1, <3>1 DEF Booked
  <2>3. QED
    BY <1>1, <2>2 DEF Booked
<1>9. ASSUME NEW r \in Spans
      PROVE  /\ ScopesOf(r) = Places(Layered(r)) /\ ScopesOf(r)' = Places(Layered(r))'
             /\ last \in Layered(r) <=> last.by = "layer" /\ last.span = r
             /\ activeEnters[r] \in Nat /\ activeEnters[r] <= Cardinality(Places(Layered(r)))
  <2>1. ScopesOf(r) = Places(Layered(r))
    BY <1>2, ScopesArePlaces DEF LayersPlaced
  <2>2. (Typed => LayersPlaced)'
    BY ScopesArePlaces, PTL
  <2>3. ScopesOf(r)' = Places(Layered(r))'
    BY <1>7, <2>2 DEF LayersPlaced
  <2>4. last \in Layered(r) <=> last.by = "layer" /\ last.span = r
    BY <1>1 DEF Layered
  <2>5. activeEnters[r] <= Cardinality(ScopesOf(r))
    BY DEF Inv, NoStaleEntry
  <2>6. QED
    BY <1>2, <2>1, <2>3, <2>4, <2>5
<1>10. NoStaleEntry'
  <2>1. ASSUME NEW r \in Spans PROVE activeEnters'[r] <= Cardinality(ScopesOf(r)')
    <3>1. Cardinality(Places(Layered(r))) \in Nat /\ Cardinality(Places(Layered(r))') \in Nat
      <4>1. Cardinality(Places(Layered(r))) \in Nat
        BY SomePlaces
      <4>2. Places(Layered(r))' \subseteq Places(Layered(r))
        BY <1>5
      <4>3. IsFiniteSet(Places(Layered(r))')
        BY <4>2, SomePlaces, FS_Subset
      <4>4. QED
        BY <4>1, <4>3, FS_CardinalityType
    <3>2. Cardinality(Places(Layered(r))') =
            IF last \in Layered(r)
            THEN Cardinality(Places(Layered(r))) - 1 ELSE Cardinality(Places(Layered(r)))
      BY <1>5
    <3>3. QED
      BY <1>6, <1>9, <3>1, <3>2
  <2>2. QED
    BY <2>1 DEF NoStaleEntry
<1>11. ASSUME NEW r \in Spans, NEW p \in ScopesOf(r)'
       PROVE  p \in ScopesOf(r) /\ scopes'[p[1]][p[2]] = scopes[p[1]][p[2]]
  <2>1. p \in ScopesOf(r) /\ p # here
    BY <1>5, <1>9
  <2>2. PICK u \in Threads, i \in 1..MaxDepth : p = <<u, i>> /\ i \in DOMAIN scopes[u]
    BY <2>1 DEF ScopesOf
  <2>3. u # t \/ i # Len(scopes[t])
    BY <2>1, <2>2 DEF here
  <2>4. scopes'[u][i] = scopes[u][i]
    BY <1>4, <2>2, <2>3
  <2>5. QED
    BY <2>1, <2>2, <2>4
<1>12. Alone'
  <2> SUFFICES ASSUME ~shared', NEW r \in Spans
               PROVE  /\ \A p, q \in ScopesOf(r)' : p = q
                      /\ activeEnters'[r] > 0 => \A p \in ScopesOf(r)' : scopes'[p[1]][p[2]].recorded
    BY DEF Alone
  <2>1. /\ \A p, q \in ScopesOf(r) : p = q
        /\ activeEnters[r] > 0 => \A p \in ScopesOf(r) : scopes[p[1]][p[2]].recorded
    BY <1>1 DEF Inv, Alone
  <2>2. activeEnters'[r] > 0 => activeEnters[r] > 0
    BY <1>6, <1>9
  <2>3. QED
    BY <1>11, <2>1, <2>2
<1>13. EndsOwnSlice'
  <2>1. EndsOwnSlice
    BY DEF Inv
  <2>2. causes' = {} => unmatched' = 0 /\ ~swapped'
    BY <1>1, <2>1 DEF EndsOwnSlice
  <2>3. "taken" \in causes' => shared'
    <3>1. CASE "taken" \in causes
      BY <1>1, <2>1, <3>1 DEF EndsOwnSlice
    <3>2. CASE counted /\ ~last.recorded
      <4>1. here \in ScopesOf(last.span)
        BY <1>3, <1>5, <1>9, <3>2
      <4>2. scopes[here[1]][here[2]] = last
        BY <1>4 DEF here
      <4>3. QED
        BY <1>1, <1>3, <3>2, <4>1, <4>2 DEF Inv, Alone
    <3>3. QED
      BY <1>1, <3>1, <3>2
  <2>4. QED
    BY <2>2, <2>3 DEF EndsOwnSlice
<1>14. OpenCounted'
  <2> SUFFICES ASSUME phase = "running", causes' = {}, NEW r \in Spans
               PROVE  Cardinality(Places(OpenOf(sessions, r))') <= activeEnters'[r]
    BY <1>1 DEF OpenCounted
  <2>1. PICK N : N = sessions
    OBVIOUS
  <2>2. Cardinality(Places(OpenOf(N, r))) <= activeEnters[r]
    BY <1>1, <2>1 DEF Inv, OpenCounted
  <2>3. last \in OpenOf(N, r) <=> last.by = "layer" /\ last.span = r /\ last.began = sessions
    BY <1>9, <2>1 DEF OpenOf
  <2>4. Cardinality(Places(OpenOf(N, r))') =
          IF last \in OpenOf(N, r)
          THEN Cardinality(Places(OpenOf(N, r))) - 1 ELSE Cardinality(Places(OpenOf(N, r)))
    BY <1>5
  <2>5. Cardinality(Places(OpenOf(N, r))) \in Nat
    BY SomePlaces
  <2>6. Places(OpenOf(sessions, r))' = Places(OpenOf(N, r))'
    BY <1>1, <2>1
  <2>7. last.began # sessions => ~counted
    BY <1>1
  <2>8. Cardinality(Places(OpenOf(N, r))') <= activeEnters'[r]
    BY <1>6, <1>9, <2>2, <2>3, <2>4, <2>5, <2>7
  <2>9. QED
    BY <1>1, <2>6, <2>8
<1>15. Matched'
  <2> SUFFICES ASSUME phase = "running", causes' = {}
               PROVE  (\A u \in Threads : OwnLane(u)') /\ \A k \in Tracks : SharedLane(k)'
    BY <1>1 DEF Matched
  <2>1. /\ causes = {}
        /\ \A u \in Threads : OwnLane(u)
        /\ \A k \in Tracks : SharedLane(k)
    BY <1>1 DEF Inv, Matched
  <2>2. IF last.began = sessions
        THEN last.lane \in {t} \union Tracks /\ slices' = [slices EXCEPT ![last.lane] = Front(@)]
        ELSE slices' = slices
    BY <1>1
  <2>3. t \in Lanes
    BY DEF Lanes
  <2>4. ASSUME NEW u \in Threads PROVE OwnLane(u)'
    <3>1. u \in Lanes /\ u \notin Tracks
      BY TracksAssumption DEF Lanes
    <3>2. slices'[u] = IF u = t /\ last.began = sessions /\ last.lane = u
                       THEN Front(slices[u]) ELSE slices[u]
      BY <1>2, <2>2, <3>1
    <3>3. OwnLane(u)
      BY <2>1
    <3>4. QED
      BY <1>1, <1>2, <3>2, <3>3, PopOwnLane
  <2>5. ASSUME NEW k \in Tracks PROVE SharedLane(k)'
    <3>1. k \in Lanes /\ k # t
      BY TracksAssumption DEF Lanes
    <3>2. PICK N : N = sessions
      OBVIOUS
    <3>3. last \in LaneOf(N, k) <=> last.began = sessions /\ last.lane = k
      BY <1>1, <3>2 DEF LaneOf
    <3>4. Cardinality(Places(LaneOf(N, k))') =
            IF last \in LaneOf(N, k)
            THEN Cardinality(Places(LaneOf(N, k))) - 1 ELSE Cardinality(Places(LaneOf(N, k)))
      BY <1>5
    <3>5. Len(slices[k]) = Cardinality(Places(LaneOf(N, k)))
      BY <2>1, <3>2 DEF SharedLane
    <3>6. Len(slices'[k]) =
            IF last.began = sessions /\ last.lane = k THEN Len(slices[k]) - 1 ELSE Len(slices[k])
      <4>1. slices[k] \in Seq(Slices)
        BY <1>2, <3>1
      <4>2. last.began = sessions /\ last.lane = k => slices[k] # <<>>
        <5>1. phase = "running" /\ causes = {} /\ scopes[t] # <<>>
          BY <1>1, <2>1
        <5>2. QED
          BY <5>1, SliceIsThere
      <4>3. slices[k] # <<>> => Len(Front(slices[k])) = Len(slices[k]) - 1
        BY <4>1, LastFront
      <4>4. QED
        BY <1>2, <2>2, <3>1, <4>2, <4>3
    <3>7. Places(LaneOf(N, k))' = Places(LaneOf(sessions, k))'
      BY <1>1, <3>2
    <3>8. QED
      BY <3>3, <3>4, <3>5, <3>6, <3>7 DEF SharedLane
  <2>6. QED
    BY <2>4, <2>5
<1>16. QED
  BY <1>7, <1>8, <1>10, <1>12, <1>13, <1>14, <1>15 DEF Inv

-----------------------------------------------------------------------------
\* A session that starts finds no scope of its own and an empty trace.
LEMMA StartInv ==
    ASSUME Inv, StartSdk, UNCHANGED layer
    PROVE  Inv'
<1>1. /\ phase' = "running" /\ sessions' = sessions + 1 /\ causes' = {}
      /\ unmatched' = 0 /\ swapped' = FALSE
      /\ named' = named \union Configured /\ slices' = [l \in Lanes |-> <<>>]
      /\ UNCHANGED <<activeEnters, scopes, shared>>
  BY DEF StartSdk, Phase, layer
<1>2. Typed /\ sessions \in Nat
  BY DEF Inv, Typed
<1>3. <<>> \in Seq(Slices) /\ Len(<<>>) = 0
  BY EmptySeq
<1>4. Typed'
  BY <1>1, <1>2, <1>3, TracksAssumption DEF Typed
<1>5. \A u \in Threads : \A i \in DOMAIN scopes[u] :
        scopes[u][i] \in ScopeValues /\ scopes[u][i].began \in 0..sessions
  <2>1. \A u \in Threads : \A i \in DOMAIN scopes[u] : scopes[u][i] \in ScopeValues
    BY <1>2, ElementOfSeq, LenProperties DEF Typed
  <2>2. \A u \in Threads : \A i \in DOMAIN scopes[u] : scopes[u][i].began \in Nat
    BY <2>1 DEF ScopeValues
  <2>3. QED
    BY <1>2, <2>1, <2>2 DEF Inv, Booked
<1>6. Booked'
  BY <1>1, <1>2, <1>5 DEF Inv, Booked
<1>7. \A r \in Spans : ScopesOf(r)' = ScopesOf(r)
  BY <1>1 DEF ScopesOf
<1>8. NoStaleEntry' /\ Alone'
  BY <1>1, <1>7 DEF Inv, NoStaleEntry, Alone
<1>9. EndsOwnSlice'
  BY <1>1 DEF EndsOwnSlice
<1>10. ASSUME NEW V, \A v \in V : v.began = sessions + 1
       PROVE  Places(V)' = {} /\ Cardinality(Places(V)') = 0
  <2>1. \A p \in Threads \X (1..MaxDepth) : p \notin Places(V)'
    BY <1>1, <1>2, <1>5, <1>10 DEF Places
  <2>2. Places(V)' = {}
    BY <2>1 DEF Places
  <2>3. QED
    BY <2>2, FS_EmptySet
<1>11. OpenCounted'
  <2>1. PICK N : N = sessions + 1
    OBVIOUS
  <2>2. ASSUME NEW r \in Spans PROVE Cardinality(Places(OpenOf(sessions, r))') <= activeEnters'[r]
    <3>1. \A v \in OpenOf(N, r) : v.began = sessions + 1
      BY <2>1 DEF OpenOf
    <3>2. Cardinality(Places(OpenOf(N, r))') = 0
      BY <1>10, <3>1
    <3>3. Places(OpenOf(sessions, r))' = Places(OpenOf(N, r))'
      BY <1>1, <2>1
    <3>4. activeEnters'[r] \in Nat
      BY <1>1, <1>2 DEF Typed
    <3>5. QED
      BY <3>2, <3>3, <3>4
  <2>3. QED
    BY <2>2 DEF OpenCounted
<1>12. Matched'
  <2>1. PICK N : N = sessions + 1
    OBVIOUS
  <2>2. ASSUME NEW u \in Threads PROVE OwnLane(u)'
    <3>1. BegunIn(u, u)' = {}
      BY <1>1, <1>2, <1>5 DEF BegunIn
    <3>2. slices'[u] = <<>>
      BY <1>1 DEF Lanes
    <3>3. QED
      BY <1>3, <3>1, <3>2, FS_EmptySet DEF OwnLane
  <2>3. ASSUME NEW k \in Tracks PROVE SharedLane(k)'
    <3>1. \A v \in LaneOf(N, k) : v.began = sessions + 1
      BY <2>1 DEF LaneOf
    <3>2. Cardinality(Places(LaneOf(N, k))') = 0
      BY <1>10, <3>1
    <3>3. Places(LaneOf(sessions, k))' = Places(LaneOf(N, k))'
      BY <1>1, <2>1
    <3>4. slices'[k] = <<>>
      BY <1>1 DEF Lanes
    <3>5. QED
      BY <1>3, <3>2, <3>3, <3>4 DEF SharedLane
  <2>4. QED
    BY <2>2, <2>3 DEF Matched
<1>13. QED
  BY <1>4, <1>6, <1>8, <1>9, <1>11, <1>12 DEF Inv

\* Whatever leaves the scopes, the counts and the trace alone, and starts no
\* session.
LEMMA QuietInv ==
    ASSUME Inv, UNCHANGED <<scopes, activeEnters, shared, sessions, trace>>,
           named' \subseteq Tracks, phase' = "running" => phase = "running"
    PROVE  Inv'
<1>1. /\ scopes' = scopes /\ activeEnters' = activeEnters /\ shared' = shared
      /\ sessions' = sessions /\ slices' = slices /\ unmatched' = unmatched
      /\ swapped' = swapped /\ causes' = causes
  BY DEF trace
<1>2. Typed' /\ Booked'
  BY <1>1 DEF Inv, Typed, Booked
<1>3. \A s \in Spans : ScopesOf(s)' = ScopesOf(s)
  BY <1>1 DEF ScopesOf
<1>4. NoStaleEntry' /\ Alone' /\ EndsOwnSlice'
  BY <1>1, <1>3 DEF Inv, NoStaleEntry, Alone, EndsOwnSlice
<1>5. ASSUME NEW V PROVE Places(V)' = Places(V)
  BY <1>1 DEF Places
<1>6. PICK N : N = sessions
  OBVIOUS
<1>7. OpenCounted'
  <2>1. \A s \in Spans : Places(OpenOf(sessions, s))' = Places(OpenOf(sessions, s))
    BY <1>1, <1>5, <1>6
  <2>2. QED
    BY <1>1, <2>1 DEF Inv, OpenCounted
<1>8. Matched'
  <2>1. \A k \in Tracks : SharedLane(k)' <=> SharedLane(k)
    BY <1>1, <1>5, <1>6 DEF SharedLane
  <2>2. \A u \in Threads : OwnLane(u)' <=> OwnLane(u)
    BY <1>1 DEF OwnLane, BegunIn
  <2>3. QED
    BY <1>1, <2>1, <2>2 DEF Inv, Matched
<1>9. QED
  BY <1>2, <1>4, <1>7, <1>8 DEF Inv

LEMMA SessionInv == ASSUME Inv, Session, UNCHANGED layer PROVE Inv'
<1>1. named \subseteq Tracks
  BY DEF Inv, Typed
<1>2. UNCHANGED <<scopes, activeEnters, shared>>
  BY DEF layer
<1>3. CASE StartSdk
  BY <1>3, StartInv
<1>4. CASE Claim \/ WriteFilter \/ StartFails \/ StopSdk \/ Release
  <2>1. /\ sessions' = sessions /\ UNCHANGED trace
        /\ phase' = "running" => phase = "running"
    BY <1>4 DEF Claim, WriteFilter, StartFails, StopSdk, Release, Phase
  <2>2. named' \subseteq Tracks
    BY <1>1, <1>4, TracksAssumption DEF Claim, WriteFilter, StartFails, StopSdk, Release
  <2>3. QED
    BY <1>2, <2>1, <2>2, QuietInv
<1>5. QED
  BY <1>3, <1>4 DEF Session

LEMMA InitInv == Init => Inv
<1> SUFFICES ASSUME Init PROVE Inv
  OBVIOUS
<1>1. <<>> \in Seq(ScopeValues) /\ <<>> \in Seq(Slices) /\ Len(<<>>) = 0 /\ DOMAIN <<>> = {}
  BY EmptySeq
<1>2. /\ sessions = 0 /\ phase = "off" /\ named = {} /\ scopes = [t \in Threads |-> <<>>]
      /\ slices = [l \in Lanes |-> <<>>] /\ causes = {} /\ unmatched = 0 /\ ~swapped
      /\ activeEnters = [s \in Spans |-> 0] /\ MaxDepth \in Nat
  BY LayerAssumption DEF Init, TracksInit
<1>3. Typed /\ Booked
  BY <1>1, <1>2 DEF Typed, Booked
<1>4. \A s \in Spans : ScopesOf(s) = {}
  BY <1>1, <1>2 DEF ScopesOf
<1>5. NoStaleEntry /\ Alone
  <2>1. \A s \in Spans : activeEnters[s] = 0 /\ Cardinality(ScopesOf(s)) = 0
    BY <1>2, <1>4, FS_EmptySet
  <2>2. NoStaleEntry
    BY <2>1 DEF NoStaleEntry
  <2>3. Alone
    BY <1>4, <2>1 DEF Alone
  <2>4. QED
    BY <2>2, <2>3
<1>6. EndsOwnSlice /\ OpenCounted /\ Matched
  BY <1>2 DEF EndsOwnSlice, OpenCounted, Matched
<1>7. QED
  BY <1>3, <1>5, <1>6 DEF Inv

LEMMA StepInv == Inv /\ [Next]_vars => Inv'
<1> SUFFICES ASSUME Inv, [Next]_vars PROVE Inv'
  OBVIOUS
<1>1. ASSUME NEW t \in Threads, NEW s \in Spans, Enter(t, s) PROVE Inv'
  BY <1>1, EnterInv
<1>2. ASSUME NEW t \in Threads, NEW s \in Spans, NEW track \in Tracks \union {CURRENT},
             Guard(t, s, track)
      PROVE  Inv'
  BY <1>2, GuardInv
<1>3. ASSUME NEW t \in Threads, Leave(t) PROVE Inv'
  BY <1>3, LeaveInv
<1>4. named \subseteq Tracks
  BY DEF Inv, Typed
<1>5. CASE Poison
  <2>1. UNCHANGED <<named, phase, sessions, trace, activeEnters, scopes, shared>>
    BY <1>5 DEF Poison, session
  <2>2. QED
    BY <1>4, <2>1, QuietInv
<1>6. CASE Session /\ UNCHANGED layer
  BY <1>6, SessionInv
<1>7. CASE UNCHANGED vars
  <2>1. UNCHANGED <<named, phase, sessions, trace, activeEnters, scopes, shared>>
    BY <1>7 DEF vars, session, layer
  <2>2. QED
    BY <1>4, <2>1, QuietInv
<1>8. QED
  BY <1>1, <1>2, <1>3, <1>5, <1>6, <1>7 DEF Next

LEMMA InvAlways == Spec => []Inv
  BY InitInv, StepInv, PTL DEF Spec

-----------------------------------------------------------------------------
\* on_exit never finds an entry counted that no scope accounts for, whatever
\* captures started, ended or failed to start in between and whoever holds
\* guards: nothing stale would end a slice of a later entry.
THEOREM NothingStaleIsCounted == Spec => []NoStaleEntry
<1>1. Inv => NoStaleEntry
  BY DEF Inv
<1>2. QED
  BY <1>1, InvAlways, PTL

\* Nothing but the causes named makes span_end, called by on_exit or by a
\* guard's drop, close another's slice or none; and an entry is only ever taken
\* by another scope's exit when a span was entered while it was entered.
THEOREM EndsCloseTheirOwn == Spec => []EndsOwnSlice
<1>1. Inv => EndsOwnSlice
  BY DEF Inv
<1>2. QED
  BY <1>1, InvAlways, PTL

\* As long as none of the causes has occurred, the slices that a running session
\* has open are those of the scopes that the threads are in: in order on a
\* thread's own lane, in number on an explicit track.
THEOREM SlicesAreScopes == Spec => []OpenSlicesMatch
<1>1. Inv => OpenSlicesMatch
  <2> SUFFICES ASSUME Inv PROVE OpenSlicesMatch
    OBVIOUS
  <2>1. Typed /\ LanesPlaced
    BY LanesArePlaces DEF Inv
  <2>2. QED
    BY <2>1 DEF Inv, Matched, OwnLane, SharedLane, LanesPlaced, OpenSlicesMatch
<1>2. QED
  BY <1>1, InvAlways, PTL
=============================================================================
