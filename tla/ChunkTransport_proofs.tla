------------------------ MODULE ChunkTransport_proofs ------------------------
(***************************************************************************)
(* For every ring, chunk and pool size, every set of groups and every      *)
(* page: what the worklet's transport keeps true of its buffers, of its    *)
(* records, of its messages and of its accounts.                           *)
(*                                                                         *)
(* The first part is about the worklet alone, which is the same in         *)
(* AudioCapture: each invariant is preserved by the worklet's steps and by *)
(* those of a page that only takes from toMain and adds to toWorklet.  The *)
(* second part has the page of ChunkTransport and the theorems.            *)
(***************************************************************************)
EXTENDS ChunkTransport, FiniteSetTheorems, SequenceTheorems, FunctionTheorems, TLAPS

WorkletStep == Callback \/ Loop \/ Handler

\* What only the worklet writes.
Own == <<producer, pool, starvation, life, sequence, shipped, rejected, pc>>

\* What active is when it is not None.
Chunk == [token : Tokens, data : Seq(Records)]

\* The inductive invariant.  Each part needs the others: a buffer returns to
\* the pool only if its token was in flight and nowhere else, the books of a
\* starvation are right only while the pool is empty, and neither is preserved
\* without the types.
Inv == /\ TypeOK
       /\ PoolConserved
       /\ FlightsBalance
       /\ StarvationWindow
       /\ LosslessInOrder

-----------------------------------------------------------------------------
(***************************************************************************)
(* The stack of free tokens.                                               *)
(***************************************************************************)
Elements(s) == {s[i] : i \in DOMAIN s}
Distinct(s) == \A i, j \in DOMAIN s : s[i] = s[j] => i = j

\* available.pop(): the last token leaves a stack of distinct tokens.
LEMMA Pop ==
    ASSUME NEW S, NEW s \in Seq(S), s # <<>>, Distinct(s)
    PROVE  /\ FrontOf(s) \in Seq(S) /\ LastOf(s) \in S
           /\ Distinct(FrontOf(s))
           /\ Elements(s) = Elements(FrontOf(s)) \union {LastOf(s)}
           /\ LastOf(s) \notin Elements(FrontOf(s))
<1> DEFINE n == Len(s)
           f == SubSeq(s, 1, n - 1)
<1>1. n \in Nat \ {0} /\ DOMAIN s = 1..n /\ \A i \in 1..n : s[i] \in S
  BY EmptySeq, LenProperties
<1>2. f \in Seq(S) /\ Len(f) = n - 1 /\ \A i \in 1..n - 1 : f[i] = s[i]
  BY <1>1, SubSeqProperties
<1>3. DOMAIN f = 1..n - 1
  BY <1>2, LenProperties
<1>4. Distinct(f) /\ s[n] \notin Elements(f)
  BY <1>1, <1>2, <1>3 DEF Distinct, Elements
<1>5. Elements(s) = Elements(f) \union {s[n]}
  <2>1. ASSUME NEW i \in 1..n PROVE s[i] \in Elements(f) \union {s[n]}
    <3>1. i \in 1..n - 1 => s[i] \in Elements(f)
      BY <1>2, <1>3 DEF Elements
    <3>2. \A m \in Nat \ {0} : \A j \in 1..m : j \in 1..m - 1 \/ j = m
      OBVIOUS
    <3>3. QED
      BY <1>1, <3>1, <3>2
  <2>2. ASSUME NEW i \in 1..n - 1 PROVE f[i] \in Elements(s)
    BY <1>1, <1>2 DEF Elements
  <2>3. s[n] \in Elements(s)
    BY <1>1 DEF Elements
  <2>4. QED
    BY <1>1, <1>3, <2>1, <2>2, <2>3 DEF Elements
<1>6. QED
  BY <1>1, <1>2, <1>4, <1>5 DEF FrontOf, LastOf

\* available.push() of a token that is not on the stack.
LEMMA Push ==
    ASSUME NEW S, NEW s \in Seq(S), NEW e \in S, e \notin Elements(s), Distinct(s)
    PROVE  /\ Append(s, e) \in Seq(S)
           /\ Distinct(Append(s, e))
           /\ Elements(Append(s, e)) = Elements(s) \union {e}
<1> DEFINE n == Len(s)
           t == Append(s, e)
<1>1. n \in Nat /\ DOMAIN s = 1..n
  BY LenProperties
<1>2. t \in Seq(S) /\ Len(t) = n + 1 /\ t[n + 1] = e /\ \A i \in 1..n : t[i] = s[i]
  BY <1>1, AppendProperties
<1>3. DOMAIN t = 1..n + 1
  BY <1>2, LenProperties
<1>4. Distinct(t)
  BY <1>1, <1>2, <1>3 DEF Distinct, Elements
<1>5. Elements(t) = Elements(s) \union {e}
  BY <1>1, <1>2, <1>3 DEF Elements
<1>6. QED
  BY <1>2, <1>4, <1>5

\* inFlightCount is a count: the tokens are finitely many.
LEMMA FlightsFinite ==
    ASSUME inFlight \subseteq Tokens
    PROVE  IsFiniteSet(inFlight)
<1>1. IsFiniteSet(Tokens)
  BY TransportAssumption, FS_Interval DEF Tokens
<1>2. QED
  BY <1>1, FS_Subset

-----------------------------------------------------------------------------
(***************************************************************************)
(* Records on their way from the ring to a chunk.                          *)
(***************************************************************************)
\* drain_into cuts the unread records in two, at a group's end.
LEMMA Cut ==
    ASSUME NEW S, NEW r \in Seq(S), NEW k, NEW n \in Fit(r, k)
    PROVE  /\ n \in 0..Len(r)
           /\ Taken(r, n) \in Seq(S) /\ Rest(r, n) \in Seq(S)
           /\ Len(Rest(r, n)) <= Len(r)
           /\ r = Taken(r, n) \o Rest(r, n)
<1>1. Len(r) \in Nat /\ \A i \in 1..Len(r) : r[i] \in S
  BY LenProperties, ElementOfSeq
<1>2. n \in 0..Len(r)
  BY <1>1 DEF Fit, Cuts
<1>3. SubSeq(r, 1, n) \in Seq(S)
  BY <1>1, <1>2, SubSeqProperties
<1>4. SubSeq(r, n + 1, Len(r)) \in Seq(S) /\ Len(SubSeq(r, n + 1, Len(r))) <= Len(r)
  BY <1>1, <1>2, SubSeqProperties
<1>5. SubSeq(r, 1, n) \o SubSeq(r, n + 1, Len(r)) = SubSeq(r, 1, Len(r))
  <2>1. \A l \in Nat : \A m \in 0..l :
           1 \in 1..l + 1 /\ m \in 1 - 1..l /\ l \in m..l /\ m \in Int
    OBVIOUS
  <2>2. 1 \in 1..Len(r) + 1 /\ n \in 1 - 1..Len(r) /\ Len(r) \in n..Len(r)
    BY <1>1, <1>2, <2>1
  <2>3. QED
    BY <2>2, ConcatAdjacentSubSeq, Zenon
<1>6. SubSeq(r, 1, Len(r)) = r
  BY SubSeqFull
<1>7. QED
  BY <1>2, <1>3, <1>4, <1>5, <1>6 DEF Taken, Rest

\* Concatenation under a name of its own: the provers take \o apart.
Cat(a, b) == a \o b

\* Regrouping the records of shipped, active and ring.
LEMMA Regroup ==
    \A a, b, c, d \in Seq(Records) :
        Cat(Cat(a, b), Cat(c, d)) = Cat(Cat(a, Cat(b, c)), d)
<1>1. \A s, t, u \in Seq(Records) : Cat(Cat(s, t), u) = Cat(s, Cat(t, u))
  BY ConcatAssociative DEF Cat
<1>2. \A s, t \in Seq(Records) : Cat(s, t) \in Seq(Records)
  BY ConcatProperties DEF Cat
<1>3. QED
  BY <1>1, <1>2

-----------------------------------------------------------------------------
(***************************************************************************)
(* A chunk in hand: a token that is neither on the stack nor in flight,    *)
(* and a stack and flights that hold all the others.                       *)
(***************************************************************************)
InHand(chunk, free) ==
    /\ chunk \in Chunk /\ free \in Seq(Tokens) /\ Distinct(free)
    /\ Elements(free) \union {chunk.token} \union inFlight = Tokens
    /\ chunk.token \notin Elements(free) /\ chunk.token \notin inFlight
    /\ Elements(free) \intersect inFlight = {}

\* The active chunk is in hand.
LEMMA ActiveInHand ==
    ASSUME TypeOK, PoolConserved, active # None
    PROVE  InHand(active, available)
  BY DEF TypeOK, PoolConserved, InHand, Chunk, Distinct, Elements, Stacked, ActiveToken

\* So is a buffer that was just popped.
LEMMA PoppedInHand ==
    ASSUME TypeOK, PoolConserved, active = None, available # <<>>
    PROVE  InHand(Empty(LastOf(available)), FrontOf(available))
<1>1. available \in Seq(Tokens) /\ Distinct(available)
  BY DEF TypeOK, PoolConserved, Distinct
<1>2. /\ Elements(available) \union inFlight = Tokens
      /\ Elements(available) \intersect inFlight = {}
  BY DEF PoolConserved, Stacked, Elements, ActiveToken
<1>3. /\ FrontOf(available) \in Seq(Tokens) /\ LastOf(available) \in Tokens
      /\ Distinct(FrontOf(available))
      /\ Elements(available) = Elements(FrontOf(available)) \union {LastOf(available)}
      /\ LastOf(available) \notin Elements(FrontOf(available))
  BY <1>1, Pop
<1>4. Empty(LastOf(available)) \in Chunk
  BY <1>3, EmptySeq DEF Empty, Chunk
<1>5. Empty(LastOf(available)).token = LastOf(available)
  BY DEF Empty
<1>6. QED
  BY <1>2, <1>3, <1>4, <1>5 DEF InHand

\* A chunk in hand may become the active one.
LEMMA BecomesActive ==
    ASSUME NEW chunk, NEW free, InHand(chunk, free),
           active' \in Chunk, active'.token = chunk.token,
           available' = free, inFlight' = inFlight
    PROVE  PoolConserved'
<1>1. active' # None
  BY NoneAssumption DEF Chunk
<1>2. ActiveToken' = {chunk.token}
  BY <1>1 DEF ActiveToken
<1>3. Stacked' = Elements(free)
  BY DEF Stacked, Elements
<1>4. QED
  BY <1>2, <1>3 DEF PoolConserved, InHand, Distinct

\* transferActive of a chunk in hand.
LEMMA ShipPool ==
    ASSUME inFlight \subseteq Tokens, sequence \in Nat, returned \in Nat,
           FlightsBalance, NEW chunk, NEW free, InHand(chunk, free),
           Ship(chunk, free), returned' = returned
    PROVE  /\ PoolConserved' /\ FlightsBalance'
           /\ available' \in Seq(Tokens) /\ inFlight' \subseteq Tokens
           /\ active' = None \/ active' \in Chunk
           /\ ActiveData' = <<>>
           /\ sequence' \in Nat
<1>1. inFlight' = inFlight \union {chunk.token} /\ chunk.token \in Tokens
  BY DEF Ship, InHand, Chunk
<1>2. FlightsBalance'
  <2>1. Cardinality(inFlight \union {chunk.token}) = Cardinality(inFlight) + 1
    BY FlightsFinite, FS_AddElement DEF InHand
  <2>2. Cardinality(inFlight) \in Nat
    BY FlightsFinite, FS_CardinalityType
  <2>3. QED
    BY <1>1, <2>1, <2>2 DEF FlightsBalance, Ship
<1>3. CASE free = <<>>
  <2>1. active' = None /\ available' = <<>>
    BY <1>3 DEF Ship
  <2>2. Elements(free) = {}
    BY <1>3 DEF Elements
  <2>3. Stacked' = {} /\ ActiveToken' = {} /\ ActiveData' = <<>>
    BY <2>1 DEF Stacked, ActiveToken, ActiveData
  <2>4. PoolConserved'
    BY <1>1, <2>1, <2>2, <2>3 DEF PoolConserved, InHand
  <2>5. QED
    BY <1>1, <1>2, <2>1, <2>3, <2>4, EmptySeq DEF Ship
<1>4. CASE free # <<>>
  <2>1. active' = Empty(LastOf(free)) /\ available' = FrontOf(free)
    BY <1>4 DEF Ship
  <2>2. /\ FrontOf(free) \in Seq(Tokens) /\ LastOf(free) \in Tokens
        /\ Distinct(FrontOf(free))
        /\ Elements(free) = Elements(FrontOf(free)) \union {LastOf(free)}
        /\ LastOf(free) \notin Elements(FrontOf(free))
    BY <1>4, Pop DEF InHand
  <2>3. active' \in Chunk /\ active' # None
    <3>1. Empty(LastOf(free)) \in Chunk
      BY <2>2, EmptySeq DEF Empty, Chunk
    <3>2. None \notin Chunk
      BY NoneAssumption DEF Chunk
    <3>3. QED
      BY <2>1, <3>1, <3>2
  <2>4. ActiveToken' = {LastOf(free)} /\ ActiveData' = <<>>
    BY <2>1, <2>3 DEF ActiveToken, ActiveData, Empty
  <2>5. Stacked' = Elements(FrontOf(free))
    BY <2>1 DEF Stacked, Elements
  <2>6. PoolConserved'
    <3>1. \A i, j \in DOMAIN available' : available'[i] = available'[j] => i = j
      BY <2>1, <2>2 DEF Distinct
    <3>2. Elements(FrontOf(free)) \union {LastOf(free)} \union inFlight' = Tokens
      BY <1>1, <2>2 DEF InHand
    <3>3. /\ Elements(FrontOf(free)) \intersect inFlight' = {}
          /\ LastOf(free) \notin inFlight'
      BY <1>1, <2>2 DEF InHand
    <3>4. QED
      BY <2>2, <2>4, <2>5, <3>1, <3>2, <3>3 DEF PoolConserved
  <2>7. QED
    BY <1>1, <1>2, <2>1, <2>2, <2>3, <2>4, <2>6 DEF Ship
<1>5. QED
  BY <1>3, <1>4

-----------------------------------------------------------------------------
(***************************************************************************)
(* The steps.                                                              *)
(***************************************************************************)
\* The constructor fills the pool.
LEMMA InitInv == WorkletInit => Inv
<1> SUFFICES ASSUME WorkletInit PROVE Inv
  OBVIOUS
<1> USE TransportAssumption DEF WorkletInit
<1>1. available \in Seq(Tokens) /\ DOMAIN available = 1..PoolSize - 1
  <2>1. PoolSize - 1 \in Nat /\ \A i \in 1..PoolSize - 1 : i - 1 \in Tokens
    BY DEF Tokens
  <2>2. available \in [1..PoolSize - 1 -> Tokens]
    BY <2>1
  <2>3. QED
    BY <2>1, <2>2
<1>2. active = Empty(PoolSize - 1) /\ active \in Chunk /\ active # None
  <2>1. Empty(PoolSize - 1) \in Chunk
    BY EmptySeq DEF Empty, Chunk, Tokens
  <2>2. QED
    BY <2>1, NoneAssumption DEF Chunk
<1>3. TypeOK
  <2>1. ring \in Seq(Records) /\ Len(ring) <= Capacity
    BY EmptySeq
  <2>2. accepted \in Seq(Records) /\ shipped \in Seq(Records)
    BY EmptySeq
  <2>3. active \in [token : Tokens, data : Seq(Records)]
    BY <1>2 DEF Chunk
  <2>4. QED
    BY <1>1, <2>1, <2>2, <2>3 DEF TypeOK
<1>4. PoolConserved
  <2>1. Stacked = 0..PoolSize - 2
    <3>1. \A i \in 1..PoolSize - 1 : available[i] = i - 1
      OBVIOUS
    <3>2. \A k \in 0..PoolSize - 2 : k + 1 \in 1..PoolSize - 1 /\ available[k + 1] = k
      BY <3>1
    <3>3. \A i \in 1..PoolSize - 1 : i - 1 \in 0..PoolSize - 2
      OBVIOUS
    <3>4. \A t \in Stacked : t \in 0..PoolSize - 2
      BY <1>1, <3>1, <3>3 DEF Stacked
    <3>5. \A k \in 0..PoolSize - 2 : k \in Stacked
      BY <1>1, <3>2 DEF Stacked
    <3>6. QED
      BY <3>4, <3>5
  <2>2. ActiveToken = {PoolSize - 1}
    BY <1>2 DEF ActiveToken, Empty
  <2>3. inFlight = {} /\ \A i, j \in DOMAIN available : available[i] = available[j] => i = j
    BY <1>1
  <2>4. /\ (0..PoolSize - 2) \union {PoolSize - 1} = 0..PoolSize - 1
        /\ (0..PoolSize - 2) \intersect {PoolSize - 1} = {}
    OBVIOUS
  <2>5. QED
    BY <2>1, <2>2, <2>3, <2>4 DEF PoolConserved, Tokens
<1>5. FlightsBalance
  BY FS_EmptySet DEF FlightsBalance
<1>6. StarvationWindow
  BY DEF StarvationWindow
<1>7. LosslessInOrder
  <2>1. ActiveData = <<>>
    BY <1>2 DEF ActiveData, Empty
  <2>2. QED
    BY <2>1, EmptySeq, ConcatEmptySeq DEF LosslessInOrder
<1>8. QED
  BY <1>3, <1>4, <1>5, <1>6, <1>7 DEF Inv

\* A step that moves neither a buffer nor a record.
LEMMA NothingMoves ==
    ASSUME Inv, TypeOK',
           UNCHANGED <<ring, dropped, accepted, pool, starvation, sequence, shipped>>
    PROVE  Inv'
<1> USE DEF Inv, pool, starvation
<1>1. PoolConserved' /\ FlightsBalance'
  BY DEF PoolConserved, FlightsBalance, Stacked, ActiveToken
<1>2. StarvationWindow'
  BY DEF StarvationWindow, PoolEmpty
<1>3. LosslessInOrder'
  BY DEF LosslessInOrder, ActiveData
<1>4. QED
  BY <1>1, <1>2, <1>3

\* The ring takes a group.
LEMMA EmitRecordedInv ==
    ASSUME Inv, NEW g \in Groups, EmitRecorded(g)
    PROVE  Inv'
<1> USE DEF Inv, EmitRecorded, pool, starvation, life, port
<1>1. g \in Seq(Records) /\ g # <<>> /\ Len(g) \in Nat
  BY TransportAssumption, EmptySeq, LenProperties DEF IsGroup
<1>2. ring \in Seq(Records) /\ accepted \in Seq(Records) /\ Len(ring) \in Nat
  BY LenProperties DEF TypeOK
<1>3. /\ ring \o g \in Seq(Records) /\ Len(ring \o g) = Len(ring) + Len(g)
      /\ accepted \o g \in Seq(Records)
  BY <1>1, <1>2, ConcatProperties
<1>4. TypeOK'
  BY <1>1, <1>2, <1>3 DEF TypeOK, Fits
<1>5. PoolConserved' /\ FlightsBalance'
  BY DEF PoolConserved, FlightsBalance, Stacked, ActiveToken
<1>6. StarvationWindow'
  BY <1>1, <1>2, ConcatEqualIffEmpty DEF StarvationWindow, PoolEmpty
<1>7. LosslessInOrder'
  <2>1. ActiveData' = ActiveData /\ ActiveData \in Seq(Records)
    BY EmptySeq DEF ActiveData, TypeOK
  <2>2. shipped \o ActiveData \in Seq(Records)
    BY <2>1, ConcatProperties DEF TypeOK
  <2>3. ((shipped \o ActiveData) \o ring) \o g = (shipped \o ActiveData) \o (ring \o g)
    <3>1. \A s, t, u \in Seq(Records) : (s \o t) \o u = s \o (t \o u)
      BY ConcatAssociative, SMTT(30)
    <3>2. QED
      BY <1>1, <1>2, <2>2, <3>1
  <2>4. QED
    BY <2>1, <2>3 DEF LosslessInOrder
<1>8. QED
  BY <1>4, <1>5, <1>6, <1>7

\* The ring refuses a group.
LEMMA EmitDroppedInv ==
    ASSUME Inv, NEW g \in Groups, EmitDropped(g)
    PROVE  Inv'
<1> USE DEF Inv, EmitDropped, pool, starvation, life, port
<1>1. Len(g) \in Nat
  BY TransportAssumption, LenProperties
<1>2. TypeOK'
  BY <1>1 DEF TypeOK
<1>3. PoolConserved' /\ FlightsBalance'
  BY DEF PoolConserved, FlightsBalance, Stacked, ActiveToken
<1>4. StarvationWindow'
  BY <1>1, NoneAssumption DEF StarvationWindow, PoolEmpty, TypeOK
<1>5. LosslessInOrder'
  BY DEF LosslessInOrder, ActiveData
<1>6. QED
  BY <1>2, <1>3, <1>4, <1>5

\* The pool is found exhausted.
LEMMA DrainStarvedInv ==
    ASSUME Inv, DrainStarved
    PROVE  Inv'
<1> USE DEF Inv, DrainStarved, producer, pool, life, port
<1>1. TypeOK'
  BY DEF TypeOK
<1>2. PoolConserved' /\ FlightsBalance'
  BY DEF PoolConserved, FlightsBalance, Stacked, ActiveToken
<1>3. StarvationWindow'
  BY NoneAssumption DEF StarvationWindow, PoolEmpty, TypeOK
<1>4. LosslessInOrder'
  BY DEF LosslessInOrder, ActiveData
<1>5. QED
  BY <1>1, <1>2, <1>3, <1>4

\* A closed starvation window stays closed while the ring is drained.
LEMMA WindowClosed ==
    ASSUME StarvationWindow, starvationDropStart = None,
           dropped' = dropped, UNCHANGED starvation
    PROVE  StarvationWindow'
  BY DEF StarvationWindow, starvation

\* One turn of the drain loop, with the chunk it fills in hand.
LEMMA TurnInHand ==
    ASSUME Inv, NEW chunk, NEW free, InHand(chunk, free), chunk.data = ActiveData,
           starvationDropStart = None,
           NEW n \in Fit(ring, ChunkRecords - Len(chunk.data)),
           ring' = Rest(ring, n),
           LET filled == Filled(chunk, Taken(ring, n))
           IN  IF Rotates(filled, n) THEN Ship(filled, free)
               ELSE active' = filled /\ available' = free /\ UNCHANGED <<inFlight, port>>,
           UNCHANGED <<enabled, emitted, dropped, accepted, returned, starvation,
                       life, rejected, pc>>
    PROVE  Inv'
<1> DEFINE taken == Taken(ring, n)
           filled == Filled(chunk, taken)
<1> USE DEF Inv
<1>1. /\ taken \in Seq(Records) /\ ring' \in Seq(Records)
      /\ Len(ring') <= Len(ring) /\ ring = taken \o ring'
  <2>1. ring \in Seq(Records)
    BY DEF TypeOK
  <2>2. /\ Taken(ring, n) \in Seq(Records) /\ Rest(ring, n) \in Seq(Records)
        /\ Len(Rest(ring, n)) <= Len(ring)
        /\ ring = Taken(ring, n) \o Rest(ring, n)
    BY <2>1, Cut
  <2>3. QED
    BY <2>2
<1>2. Len(ring') \in Nat /\ Len(ring) \in Nat /\ Len(ring) <= Capacity
  BY <1>1, LenProperties DEF TypeOK
<1>3. /\ chunk \in Chunk /\ chunk.data \in Seq(Records) /\ chunk.token \in Tokens
  BY DEF InHand, Chunk
<1>4. chunk.data \o taken \in Seq(Records)
  BY <1>1, <1>3, ConcatProperties
<1>5. /\ filled \in Chunk /\ filled.token = chunk.token
      /\ filled.data = chunk.data \o taken
  BY <1>3, <1>4 DEF Filled, Chunk
<1>6. InHand(filled, free)
  BY <1>5 DEF InHand
<1>7. accepted = (shipped \o filled.data) \o ring'
  <2>1. accepted = (shipped \o chunk.data) \o (taken \o ring')
    BY <1>1 DEF LosslessInOrder
  <2>2. shipped \in Seq(Records)
    BY DEF TypeOK
  <2>3. QED
    <3>1. /\ shipped \in Seq(Records) /\ chunk.data \in Seq(Records)
          /\ taken \in Seq(Records) /\ ring' \in Seq(Records)
      BY <1>1, <1>3, <2>2
    <3>2. Cat(Cat(shipped, chunk.data), Cat(taken, ring'))
             = Cat(Cat(shipped, Cat(chunk.data, taken)), ring')
      BY ONLY <3>1, Regroup
    <3>3. QED
      BY <1>5, <2>1, <3>2 DEF Cat
<1>8. shipped \o filled.data \in Seq(Records)
  BY <1>4, <1>5, ConcatProperties DEF TypeOK
<1>9. StarvationWindow'
  BY WindowClosed
<1>10. /\ ring' \in Seq(Records) /\ Len(ring') <= Capacity
       /\ accepted' \in Seq(Records) /\ enabled' \in BOOLEAN /\ stopping' \in BOOLEAN
       /\ finished' \in BOOLEAN /\ emitted' \in Nat /\ dropped' \in Nat
       /\ returned' \in Nat /\ poolStarvation' \in Nat /\ rejected' \in Nat
       /\ starvationDropStart' \in Nat \union {None}
       /\ pc' \in {"idle", "drain", "finish"}
  BY <1>1, <1>2, TransportAssumption DEF TypeOK, starvation, life
<1>11. CASE Rotates(filled, n)
  <2>1. Ship(filled, free)
    BY <1>11
  <2>2. /\ PoolConserved' /\ FlightsBalance'
        /\ available' \in Seq(Tokens) /\ inFlight' \subseteq Tokens
        /\ active' = None \/ active' \in Chunk
        /\ ActiveData' = <<>>
        /\ sequence' \in Nat
    BY <1>6, <2>1, ShipPool DEF TypeOK
  <2>3. shipped' = shipped \o filled.data
    BY <2>1 DEF Ship
  <2>4. TypeOK'
    BY <1>8, <1>10, <2>2, <2>3 DEF TypeOK, Chunk
  <2>5. LosslessInOrder'
    BY <1>7, <1>8, <2>2, <2>3, ConcatEmptySeq DEF LosslessInOrder
  <2>6. QED
    BY <1>9, <2>2, <2>4, <2>5
<1>12. CASE ~Rotates(filled, n)
  <2>1. active' = filled /\ available' = free /\ UNCHANGED <<inFlight, port>>
    BY <1>12
  <2>2. PoolConserved'
    BY <1>5, <1>6, <2>1, BecomesActive
  <2>3. TypeOK'
    BY <1>5, <1>6, <1>10, <2>1 DEF TypeOK, Chunk, InHand, port
  <2>4. FlightsBalance'
    BY <2>1 DEF FlightsBalance, port
  <2>5. ActiveData' = filled.data
    BY <1>5, <2>1, NoneAssumption DEF ActiveData, Chunk
  <2>6. LosslessInOrder'
    BY <1>7, <2>1, <2>5 DEF LosslessInOrder, port
  <2>7. QED
    BY <1>9, <2>2, <2>3, <2>4, <2>6
<1>13. QED
  BY <1>11, <1>12

\* One turn of the drain loop.
LEMMA DrainTurnInv ==
    ASSUME Inv, DrainTurn
    PROVE  Inv'
<1>1. starvationDropStart = None
  BY DEF DrainTurn, Inv, StarvationWindow
<1>2. UNCHANGED <<enabled, emitted, dropped, accepted, returned, starvation,
                  life, rejected, pc>>
  BY DEF DrainTurn
<1>3. CASE active = None
  <2>1. available # <<>>
    BY <1>3 DEF DrainTurn, PoolEmpty
  <2>2. InHand(Empty(LastOf(available)), FrontOf(available))
    BY <1>3, <2>1, PoppedInHand DEF Inv
  <2>3. Empty(LastOf(available)).data = ActiveData
    BY <1>3 DEF Empty, ActiveData
  <2>4. PICK n \in Fit(ring, ChunkRecords - Len(Empty(LastOf(available)).data)) :
          LET filled == Filled(Empty(LastOf(available)), Taken(ring, n))
          IN /\ ring' = Rest(ring, n)
             /\ IF Rotates(filled, n) THEN Ship(filled, FrontOf(available))
                ELSE /\ active' = filled /\ available' = FrontOf(available)
                     /\ UNCHANGED <<inFlight, port>>
    BY <1>3 DEF DrainTurn
  <2>5. QED
    BY <1>1, <1>2, <2>2, <2>3, <2>4, TurnInHand
<1>4. CASE active # None
  <2>1. InHand(active, available)
    BY <1>4, ActiveInHand DEF Inv
  <2>2. active.data = ActiveData
    BY <1>4 DEF ActiveData
  <2>3. PICK n \in Fit(ring, ChunkRecords - Len(active.data)) :
          LET filled == Filled(active, Taken(ring, n))
          IN /\ ring' = Rest(ring, n)
             /\ IF Rotates(filled, n) THEN Ship(filled, available)
                ELSE /\ active' = filled /\ available' = available
                     /\ UNCHANGED <<inFlight, port>>
    BY <1>4 DEF DrainTurn
  <2>4. QED
    BY <1>1, <1>2, <2>1, <2>2, <2>3, TurnInHand
<1>5. QED
  BY <1>3, <1>4

\* The partial chunk of tryFinish.
LEMMA FinishPartialInv ==
    ASSUME Inv, FinishPartial
    PROVE  Inv'
<1> USE DEF Inv
<1>1. active # None /\ active.data = ActiveData
  BY DEF FinishPartial, ActiveData
<1>2. InHand(active, available) /\ active.data \in Seq(Records)
  BY <1>1, ActiveInHand DEF InHand, Chunk
<1>3. /\ PoolConserved' /\ FlightsBalance'
      /\ available' \in Seq(Tokens) /\ inFlight' \subseteq Tokens
      /\ active' = None \/ active' \in Chunk
      /\ ActiveData' = <<>>
      /\ sequence' \in Nat
  BY <1>2, ShipPool DEF FinishPartial, TypeOK
<1>4. shipped' = shipped \o active.data /\ shipped' \in Seq(Records)
  BY <1>2, ConcatProperties DEF FinishPartial, Ship, TypeOK
<1>5. UNCHANGED <<producer, returned, starvation, life, rejected, pc>>
  BY DEF FinishPartial
<1>6. TypeOK'
  BY <1>3, <1>4, <1>5 DEF TypeOK, Chunk, producer, starvation, life
<1>7. StarvationWindow'
  <2>1. starvationDropStart = None
    BY DEF FinishPartial, StarvationWindow
  <2>2. QED
    BY <1>5, <2>1, WindowClosed DEF producer
<1>8. LosslessInOrder'
  <2>1. ring = <<>> /\ ring' = <<>> /\ accepted' = accepted
    BY <1>5 DEF FinishPartial, producer
  <2>2. accepted = (shipped \o active.data) \o <<>>
    BY <1>1, <2>1 DEF LosslessInOrder
  <2>3. (shipped' \o <<>>) \o <<>> = shipped' \o <<>>
    BY <1>4, ConcatEmptySeq
  <2>4. QED
    BY <1>3, <1>4, <2>1, <2>2, <2>3 DEF LosslessInOrder
<1>9. QED
  BY <1>3, <1>6, <1>7, <1>8

\* A buffer comes back: its token was in flight, so it is nowhere else.
LEMMA RecycleAcceptedInv ==
    ASSUME Inv, RecycleAccepted
    PROVE  Inv'
<1> DEFINE token == Head(toWorklet).poolToken
<1> USE DEF Inv
<1>1. token \in inFlight /\ token \in Tokens /\ inFlight' = inFlight \ {token}
  BY DEF RecycleAccepted, Known, TypeOK
<1>2. UNCHANGED <<producer, life, port, rejected>> /\ returned' = returned + 1
  BY DEF RecycleAccepted
<1>3. FlightsBalance'
  <2>1. Cardinality(inFlight') = Cardinality(inFlight) - 1
    BY <1>1, FlightsFinite, FS_RemoveElement DEF TypeOK
  <2>2. Cardinality(inFlight) \in Nat
    BY FlightsFinite, FS_CardinalityType DEF TypeOK
  <2>3. QED
    BY <1>2, <2>1, <2>2 DEF FlightsBalance, TypeOK, port
<1>4. /\ poolStarvation' \in Nat /\ poolStarvation' <= dropped'
      /\ starvationDropStart' = None
  <2>1. /\ starvationDropStart = None => poolStarvation <= dropped
        /\ starvationDropStart # None =>
             /\ starvationDropStart \in Nat
             /\ poolStarvation <= starvationDropStart /\ starvationDropStart <= dropped
    BY DEF StarvationWindow, TypeOK
  <2>2. QED
    BY <1>2, <2>1 DEF RecycleAccepted, EndStarvation, TypeOK, producer
<1>5. StarvationWindow'
  BY <1>4 DEF StarvationWindow
<1>6. pc' \in {"idle", "drain", "finish"}
  BY DEF RecycleAccepted, Resumed
<1>7. /\ available' \in Seq(Tokens) /\ (active' = None \/ active' \in Chunk)
      /\ PoolConserved' /\ ActiveData' = ActiveData
  <2>1. CASE active = None
    <3>1. active' = Empty(token) /\ available' = available
      BY <2>1 DEF RecycleAccepted
    <3>2. Empty(token) \in Chunk
      BY <1>1, EmptySeq DEF Empty, Chunk
    <3>3. active' # None /\ active'.token = token
      BY <3>1, <3>2, NoneAssumption DEF Chunk, Empty
    <3>4. ActiveToken = {} /\ ActiveToken' = {token} /\ Stacked' = Stacked
      BY <2>1, <3>1, <3>3 DEF ActiveToken, Stacked
    <3>5. PoolConserved'
      BY <1>1, <3>1, <3>4 DEF PoolConserved
    <3>6. ActiveData' = ActiveData
      BY <2>1, <3>1, <3>3 DEF ActiveData, Empty
    <3>7. QED
      BY <3>1, <3>2, <3>5, <3>6 DEF TypeOK
  <2>2. CASE active # None
    <3>1. active' = active /\ available' = Append(available, token)
      BY <2>2 DEF RecycleAccepted
    <3>2. /\ available \in Seq(Tokens) /\ Distinct(available)
          /\ Elements(available) = Stacked /\ token \notin Stacked
      BY <1>1 DEF TypeOK, PoolConserved, Distinct, Elements, Stacked
    <3>3. /\ available' \in Seq(Tokens) /\ Distinct(available')
          /\ Elements(available') = Stacked \union {token}
      BY <1>1, <3>1, <3>2, Push
    <3>4. Stacked' = Stacked \union {token} /\ ActiveToken' = ActiveToken
      BY <3>1, <3>3 DEF Stacked, Elements, ActiveToken
    <3>5. PoolConserved'
      <4>1. \A i, j \in DOMAIN available' : available'[i] = available'[j] => i = j
        BY <3>3 DEF Distinct
      <4>2. QED
        BY <1>1, <3>4, <4>1 DEF PoolConserved
    <3>6. QED
      BY <3>1, <3>3, <3>5 DEF ActiveData, TypeOK, Chunk
  <2>3. QED
    BY <2>1, <2>2
<1>8. TypeOK'
  <2>1. UNCHANGED <<ring, enabled, emitted, dropped, accepted, stopping, finished,
                    sequence, shipped, rejected>>
    BY <1>2 DEF producer, life, port
  <2>2. inFlight' \subseteq Tokens /\ returned' \in Nat
    BY <1>1, <1>2 DEF TypeOK
  <2>3. QED
    BY <1>4, <1>6, <1>7, <2>1, <2>2 DEF TypeOK, Chunk
<1>9. LosslessInOrder'
  BY <1>2, <1>7 DEF LosslessInOrder, producer, port
<1>10. QED
  BY <1>3, <1>5, <1>7, <1>8, <1>9

\* The worklet's other steps.
Quiet ==
    \/ StartDrain \/ DrainDone \/ FinishReport
    \/ RecycleRefused \/ Stop \/ StopIgnored \/ Abort \/ AbortIgnored

\* They touch neither buffers nor records.
LEMMA QuietInv ==
    ASSUME Inv, Quiet
    PROVE  Inv'
<1> USE DEF producer, pool, starvation, life, port
<1>1. TypeOK
  BY DEF Inv
<1>2. CASE StartDrain
  BY <1>1, <1>2, NothingMoves DEF StartDrain, TypeOK
<1>3. CASE DrainDone
  BY <1>1, <1>3, NothingMoves DEF DrainDone, TypeOK
<1>4. CASE FinishReport
  <2>1. TypeOK'
    BY <1>1, <1>4 DEF FinishReport, TypeOK
  <2>2. QED
    BY <1>4, <2>1, NothingMoves DEF FinishReport
<1>5. CASE RecycleRefused
  <2>1. UNCHANGED <<producer, pool, starvation, life, port, pc>> /\ rejected' \in Nat
    BY <1>1, <1>5 DEF RecycleRefused, TypeOK
  <2>2. TypeOK'
    BY <1>1, <2>1 DEF TypeOK
  <2>3. QED
    BY <2>1, <2>2, NothingMoves
<1>6. CASE Stop
  BY <1>1, <1>6, NothingMoves DEF Stop, TypeOK
<1>7. CASE StopIgnored
  BY <1>1, <1>7, NothingMoves DEF StopIgnored, TypeOK
<1>8. CASE Abort
  BY <1>1, <1>8, NothingMoves DEF Abort, TypeOK
<1>9. CASE AbortIgnored
  BY <1>1, <1>9, NothingMoves DEF AbortIgnored, TypeOK
<1>10. QED
  BY <1>2, <1>3, <1>4, <1>5, <1>6, <1>7, <1>8, <1>9 DEF Quiet

\* Every step of the worklet.
LEMMA WorkletInv == ASSUME Inv, WorkletStep PROVE Inv'
<1>1. \/ \E g \in Groups : EmitRecorded(g) \/ EmitDropped(g)
      \/ DrainStarved \/ DrainTurn \/ FinishPartial \/ RecycleAccepted
      \/ Quiet
  BY DEF WorkletStep, Callback, Loop, Handler, Quiet
<1>2. QED
  BY <1>1, EmitRecordedInv, EmitDroppedInv, DrainStarvedInv, DrainTurnInv,
     FinishPartialInv, RecycleAcceptedInv, QuietInv

\* And every step of another thread.
LEMMA ElsewhereInv == ASSUME Inv, UNCHANGED Own PROVE Inv'
<1>1. TypeOK'
  BY DEF Inv, TypeOK, Own, producer, pool, starvation, life
<1>2. QED
  BY <1>1, NothingMoves DEF Own, producer

-----------------------------------------------------------------------------
(***************************************************************************)
(* The messages under way between the worklet and its page.                *)
(***************************************************************************)
ChunkMessages ==
    [type : {"trace-chunk"}, sequence : Nat, poolToken : Tokens, data : Seq(Records)]
MainMessages == ChunkMessages \union StopMessages \union {[type |-> "trace-aborted"]}

RecycleMessages ==
    [type : {"recycle"}, poolToken : Tokens \union {None}, current : BOOLEAN, buffer : BOOLEAN]
WorkletMessages == RecycleMessages \union Commands

\* The messages with which a buffer of the pool travels back.
Returns == {m \in RecycleMessages : m.current /\ m.poolToken \in Tokens}

\* The buffers that travel with the messages of a kind, each with one.
TokensIn(s, kind) == {s[i].poolToken : i \in {j \in 1..Len(s) : s[j] \in kind}}
OneEach(s, kind) ==
    \A i, j \in 1..Len(s) :
        s[i] \in kind /\ s[j] \in kind /\ s[i].poolToken = s[j].poolToken => i = j

Mail == toMain \in Seq(MainMessages) /\ toWorklet \in Seq(WorkletMessages)

Out == TokensIn(toMain, ChunkMessages)
Back == TokensIn(toWorklet, Returns)

\* A buffer that is away is in flight: on its way out, in H, which is what the
\* page's side holds, or on its way back.
Away(H) ==
    /\ Out \union Back \union H \subseteq inFlight
    /\ Out \intersect Back = {} /\ Out \intersect H = {} /\ Back \intersect H = {}
    /\ OneEach(toMain, ChunkMessages) /\ OneEach(toWorklet, Returns)

-----------------------------------------------------------------------------
(***************************************************************************)
(* Messages that are appended and taken.                                   *)
(***************************************************************************)
LEMMA Appended ==
    ASSUME NEW S, NEW s \in Seq(S), NEW m \in S
    PROVE  /\ Append(s, m) \in Seq(S) /\ Len(Append(s, m)) = Len(s) + 1 /\ Len(s) \in Nat
           /\ Append(s, m)[Len(s) + 1] = m
           /\ \A i \in 1..Len(s) : Append(s, m)[i] = s[i]
           /\ \A i \in 1..Len(s) + 1 : i \in 1..Len(s) \/ i = Len(s) + 1
  BY AppendProperties, LenProperties

LEMMA TailOf ==
    ASSUME NEW S, NEW s \in Seq(S), s # <<>>
    PROVE  /\ Tail(s) \in Seq(S) /\ Len(s) \in Nat \ {0} /\ Len(Tail(s)) = Len(s) - 1
           /\ Head(s) = s[1] /\ Head(s) \in S
           /\ \A i \in 1..Len(Tail(s)) : i + 1 \in 1..Len(s) /\ i + 1 # 1 /\ Tail(s)[i] = s[i + 1]
<1>1. Len(s) \in Nat \ {0}
  BY EmptySeq
<1>2. Head(s) \in S /\ Tail(s) \in Seq(S) /\ Len(Tail(s)) = Len(s) - 1
      /\ \A i \in 1..Len(Tail(s)) : Tail(s)[i] = s[i + 1]
  BY HeadTailProperties
<1>3. Head(s) = s[1]
  BY <1>1
<1>4. \A i \in 1..Len(Tail(s)) : i + 1 \in 1..Len(s) /\ i + 1 # 1
  BY <1>1, <1>2
<1>5. QED
  BY <1>1, <1>2, <1>3, <1>4

\* A message adds its buffer to those under way.
LEMMA TokensAppended ==
    ASSUME NEW S, NEW s \in Seq(S), NEW m \in S, NEW kind, OneEach(s, kind),
           m \in kind => m.poolToken \notin TokensIn(s, kind)
    PROVE  /\ OneEach(Append(s, m), kind)
           /\ TokensIn(Append(s, m), kind) =
                IF m \in kind THEN TokensIn(s, kind) \union {m.poolToken} ELSE TokensIn(s, kind)
<1> DEFINE t == Append(s, m)
           n == Len(s)
<1>1. /\ Len(t) = n + 1 /\ n \in Nat /\ t[n + 1] = m /\ n + 1 \in 1..n + 1
      /\ \A i \in 1..n : t[i] = s[i] /\ i \in 1..n + 1
      /\ \A i \in 1..n + 1 : i \in 1..n \/ i = n + 1
  BY Appended
<1> HIDE DEF t, n
<1>2. \A i \in 1..n : s[i] \in kind => s[i].poolToken \in TokensIn(s, kind)
  BY DEF TokensIn, n
<1>3. OneEach(t, kind)
  BY <1>1, <1>2 DEF OneEach, n
<1>4. \A x \in TokensIn(t, kind) : x \in TokensIn(s, kind) \/ (m \in kind /\ x = m.poolToken)
  <2>1. SUFFICES ASSUME NEW i \in 1..n + 1, t[i] \in kind
                 PROVE  t[i].poolToken \in TokensIn(s, kind) \/ (m \in kind /\ t[i].poolToken = m.poolToken)
    BY <1>1 DEF TokensIn
  <2>2. QED
    BY <1>1, <1>2, <2>1
<1>5. \A x \in TokensIn(s, kind) : x \in TokensIn(t, kind)
  BY <1>1 DEF TokensIn, n
<1>6. m \in kind => m.poolToken \in TokensIn(t, kind)
  BY <1>1 DEF TokensIn
<1>7. QED
  BY <1>3, <1>4, <1>5, <1>6 DEF t

\* The message that is taken takes its buffer along.
LEMMA TokensTaken ==
    ASSUME NEW S, NEW s \in Seq(S), s # <<>>, NEW kind, OneEach(s, kind)
    PROVE  /\ OneEach(Tail(s), kind)
           /\ TokensIn(Tail(s), kind) =
                IF Head(s) \in kind THEN TokensIn(s, kind) \ {Head(s).poolToken} ELSE TokensIn(s, kind)
           /\ Head(s) \in kind => Head(s).poolToken \in TokensIn(s, kind)
<1> DEFINE t == Tail(s)
           n == Len(s)
<1>1. /\ n \in Nat \ {0} /\ Len(t) = n - 1 /\ Head(s) = s[1] /\ 1 \in 1..n
      /\ \A i \in 1..Len(t) : i + 1 \in 1..n /\ i + 1 # 1 /\ t[i] = s[i + 1]
  BY TailOf
<1> HIDE DEF t, n
<1>2. \A i \in 1..n : i = 1 \/ (i - 1 \in 1..Len(t) /\ i = (i - 1) + 1)
  BY <1>1
<1>3. OneEach(t, kind)
  <2>1. \A i, j \in 1..Len(t) : i + 1 = j + 1 => i = j
    BY <1>1
  <2>2. QED
    BY <1>1, <2>1 DEF OneEach, n
<1>4. Head(s) \in kind => Head(s).poolToken \in TokensIn(s, kind)
  BY <1>1 DEF TokensIn, n
<1>5. ASSUME NEW i \in 1..Len(t), t[i] \in kind
      PROVE  t[i].poolToken \in TokensIn(s, kind) /\ (Head(s) \in kind => t[i].poolToken # Head(s).poolToken)
  <2>1. i + 1 \in 1..n /\ i + 1 # 1 /\ s[i + 1] \in kind /\ t[i] = s[i + 1] /\ Head(s) = s[1] /\ 1 \in 1..n
    BY <1>1, <1>5
  <2>2. s[i + 1].poolToken \in TokensIn(s, kind)
    BY <2>1 DEF TokensIn, n
  <2>3. s[1] \in kind => s[i + 1].poolToken # s[1].poolToken
    BY <2>1 DEF OneEach, n
  <2>4. QED
    BY <2>1, <2>2, <2>3
<1>6. ASSUME NEW i \in 1..n, s[i] \in kind
      PROVE  s[i].poolToken \in TokensIn(t, kind) \/ (Head(s) \in kind /\ s[i].poolToken = Head(s).poolToken)
  <2>1. CASE i = 1
    BY <1>1, <1>6, <2>1
  <2>2. CASE i # 1
    <3>1. i - 1 \in 1..Len(t) /\ t[i - 1] = s[i]
      BY <1>1, <1>2, <2>2
    <3>2. QED
      BY <1>6, <3>1 DEF TokensIn
  <2>3. QED
    BY <2>1, <2>2
<1>7. \A x \in TokensIn(t, kind) : x \in TokensIn(s, kind) /\ (Head(s) \in kind => x # Head(s).poolToken)
  BY <1>5 DEF TokensIn
<1>8. \A x \in TokensIn(s, kind) : x \in TokensIn(t, kind) \/ (Head(s) \in kind /\ x = Head(s).poolToken)
  <2>1. SUFFICES ASSUME NEW i \in 1..n, s[i] \in kind
                 PROVE  s[i].poolToken \in TokensIn(t, kind) \/ (Head(s) \in kind /\ s[i].poolToken = Head(s).poolToken)
    BY DEF TokensIn, n
  <2>2. QED
    BY <1>6, <2>1
<1>9. QED
  BY <1>3, <1>4, <1>7, <1>8 DEF t

-----------------------------------------------------------------------------
(***************************************************************************)
(* The ways a step may treat the port.                                     *)
(***************************************************************************)
\* A message of the page was taken; the buffer of a return is in the pool
\* again, or it is given up and stays in flight.
LEMMA MailTaken ==
    ASSUME NEW H, Mail, Away(H), toWorklet # <<>>, toWorklet' = Tail(toWorklet), toMain' = toMain,
           \/ inFlight' = inFlight
           \/ Head(toWorklet) \in Returns /\ inFlight' = inFlight \ {Head(toWorklet).poolToken}
    PROVE  Mail' /\ Away(H)'
<1>1. Mail'
  BY TailOf DEF Mail
<1>2. /\ OneEach(toWorklet, Returns)'
      /\ Back' = IF Head(toWorklet) \in Returns THEN Back \ {Head(toWorklet).poolToken} ELSE Back
      /\ Head(toWorklet) \in Returns => Head(toWorklet).poolToken \in Back
  BY TokensTaken DEF Mail, Away, Back
<1>3. Out' = Out /\ OneEach(toMain, ChunkMessages)'
  BY DEF Away, Out
<1>4. QED
  BY <1>1, <1>2, <1>3 DEF Away

\* The worklet posted a message that is no chunk, in answer to one or not.
LEMMA Told ==
    ASSUME NEW H, Mail, Away(H), NEW m \in MainMessages, m \notin ChunkMessages,
           toMain' = Append(toMain, m), inFlight' = inFlight,
           \/ toWorklet' = toWorklet
           \/ toWorklet # <<>> /\ toWorklet' = Tail(toWorklet)
    PROVE  Mail' /\ Away(H)'
<1>1. Mail'
  BY Appended, TailOf DEF Mail
<1>2. OneEach(toMain, ChunkMessages)' /\ Out' = Out
  BY TokensAppended DEF Mail, Away, Out
<1>3. Back' \subseteq Back /\ OneEach(toWorklet, Returns)'
  <2>1. CASE toWorklet' = toWorklet
    BY <2>1 DEF Away, Back
  <2>2. CASE toWorklet # <<>> /\ toWorklet' = Tail(toWorklet)
    BY <2>2, TokensTaken DEF Mail, Away, Back
  <2>3. QED
    BY <2>1, <2>2
<1>4. QED
  BY <1>1, <1>2, <1>3 DEF Away

\* A chunk was posted in a buffer that was in hand.
LEMMA Shipped ==
    ASSUME NEW H, Mail, Away(H), sequence \in Nat,
           NEW chunk, NEW free, InHand(chunk, free), Ship(chunk, free),
           toWorklet' = toWorklet
    PROVE  Mail' /\ Away(H)'
<1> DEFINE m == [type |-> "trace-chunk", sequence |-> sequence,
                 poolToken |-> chunk.token, data |-> chunk.data]
<1>1. m \in ChunkMessages /\ m.poolToken = chunk.token
  BY DEF InHand, Chunk, ChunkMessages
<1>2. toMain' = Append(toMain, m) /\ inFlight' = inFlight \union {chunk.token}
      /\ chunk.token \notin inFlight
  BY DEF Ship, InHand
<1> HIDE DEF m
<1>3. m \in MainMessages
  BY <1>1 DEF MainMessages
<1>4. Mail'
  BY <1>2, <1>3, Appended DEF Mail
<1>5. chunk.token \notin Out /\ chunk.token \notin Back /\ chunk.token \notin H
  BY <1>2 DEF Away
<1>6. OneEach(toMain, ChunkMessages)' /\ Out' = Out \union {chunk.token}
  BY <1>1, <1>2, <1>3, <1>5, TokensAppended DEF Mail, Away, Out
<1>7. Back' = Back /\ OneEach(toWorklet, Returns)'
  BY DEF Away, Back
<1>8. QED
  BY <1>2, <1>4, <1>5, <1>6, <1>7 DEF Away

\* The page posted a message; one that returns a buffer returns one it held.
LEMMA Posted ==
    ASSUME NEW H, NEW G, Mail, Away(H), NEW m \in WorkletMessages, toWorklet' = Append(toWorklet, m),
           \/ m \notin Returns /\ G = H
           \/ m \in Returns /\ m.poolToken \in H /\ G = H \ {m.poolToken},
           UNCHANGED <<toMain, inFlight>>
    PROVE  Mail' /\ Away(G)'
<1>1. Mail'
  BY Appended DEF Mail
<1>2. m \in Returns => m.poolToken \notin Back
  BY DEF Away
<1>3. /\ OneEach(toWorklet, Returns)'
      /\ Back' = IF m \in Returns THEN Back \union {m.poolToken} ELSE Back
  BY <1>2, TokensAppended DEF Mail, Away, Back
<1>4. Out' = Out /\ OneEach(toMain, ChunkMessages)'
  BY DEF Away, Out
<1>5. QED
  BY <1>1, <1>3, <1>4 DEF Away

\* The page took a message, holds the buffer of a chunk, and may answer.
LEMMA TakenByPage ==
    ASSUME NEW H, NEW G, Mail, Away(H), toMain # <<>>, toMain' = Tail(toMain),
           G = IF Head(toMain) \in ChunkMessages
               THEN H \union {Head(toMain).poolToken} ELSE H,
           \/ toWorklet' = toWorklet
           \/ \E m \in Commands : toWorklet' = Append(toWorklet, m),
           inFlight' = inFlight
    PROVE  Mail' /\ Away(G)'
<1>1. \A m \in Commands : m \in WorkletMessages /\ m \notin Returns
  BY DEF Commands, WorkletMessages, Returns, RecycleMessages
<1>2. Mail'
  <2>1. toMain' \in Seq(MainMessages)
    BY TailOf DEF Mail
  <2>2. \A m \in Commands : Append(toWorklet, m) \in Seq(WorkletMessages)
    BY <1>1, Appended DEF Mail
  <2>3. QED
    BY <2>1, <2>2 DEF Mail
<1>3. /\ OneEach(toMain, ChunkMessages)'
      /\ Out' = IF Head(toMain) \in ChunkMessages THEN Out \ {Head(toMain).poolToken} ELSE Out
      /\ Head(toMain) \in ChunkMessages => Head(toMain).poolToken \in Out
  BY TokensTaken DEF Mail, Away, Out
<1>4. Back' = Back /\ OneEach(toWorklet, Returns)'
  <2>1. CASE toWorklet' = toWorklet
    BY <2>1 DEF Away, Back
  <2>2. CASE \E m \in Commands : toWorklet' = Append(toWorklet, m)
    BY <1>1, <2>2, TokensAppended DEF Mail, Away, Back
  <2>3. QED
    BY <2>1, <2>2
<1>5. QED
  BY <1>2, <1>3, <1>4 DEF Away

-----------------------------------------------------------------------------
(***************************************************************************)
(* The steps.                                                              *)
(***************************************************************************)
\* A turn of the loop fills the chunk in hand up to a group's end, and posts it
\* or keeps it.
LEMMA TurnOutcome ==
    ASSUME Inv, DrainTurn
    PROVE  \E chunk, free :
             \E n \in Fit(ring, ChunkRecords - Len(ActiveData)) :
               /\ InHand(chunk, free) /\ chunk.data = ActiveData \o Taken(ring, n)
               /\ ring' = Rest(ring, n)
               /\ IF Rotates(chunk, n) THEN Ship(chunk, free)
                  ELSE active' = chunk /\ UNCHANGED <<inFlight, port>>
<1> DEFINE before == IF active = None THEN Empty(LastOf(available)) ELSE active
           free == IF active = None THEN FrontOf(available) ELSE available
<1>1. InHand(before, free) /\ before.data = ActiveData
  <2>1. CASE active = None
    <3>1. available # <<>>
      BY <2>1 DEF DrainTurn, PoolEmpty
    <3>2. QED
      BY <2>1, <3>1, PoppedInHand DEF Inv, Empty, ActiveData
  <2>2. CASE active # None
    BY <2>2, ActiveInHand DEF Inv, ActiveData
  <2>3. QED
    BY <2>1, <2>2
<1>2. PICK n \in Fit(ring, ChunkRecords - Len(before.data)) :
        LET filled == Filled(before, Taken(ring, n))
        IN /\ ring' = Rest(ring, n)
           /\ IF Rotates(filled, n) THEN Ship(filled, free)
              ELSE active' = filled /\ available' = free /\ UNCHANGED <<inFlight, port>>
  BY DEF DrainTurn
<1> DEFINE filled == Filled(before, Taken(ring, n))
<1> HIDE DEF before, free
<1>3. Taken(ring, n) \in Seq(Records)
  BY Cut DEF Inv, TypeOK
<1>4. before.data \in Seq(Records) /\ before \in Chunk
  BY <1>1 DEF InHand, Chunk
<1>5. before.data \o Taken(ring, n) \in Seq(Records)
  BY <1>3, <1>4, ConcatProperties
<1>6. filled \in Chunk /\ filled.token = before.token /\ filled.data = before.data \o Taken(ring, n)
  BY <1>4, <1>5 DEF Filled, Chunk
<1>7. InHand(filled, free)
  BY <1>1, <1>6 DEF InHand
<1>8. n \in Fit(ring, ChunkRecords - Len(ActiveData)) /\ filled.data = ActiveData \o Taken(ring, n)
      /\ ring' = Rest(ring, n)
  BY <1>1, <1>2, <1>6
<1>9. IF Rotates(filled, n) THEN Ship(filled, free)
      ELSE active' = filled /\ UNCHANGED <<inFlight, port>>
  BY <1>2
<1> HIDE DEF filled
<1>10. QED
  BY <1>7, <1>8, <1>9

\* So is the partial chunk of tryFinish.
LEMMA PartialInHand ==
    ASSUME Inv, FinishPartial
    PROVE  InHand(active, available) /\ Ship(active, available) /\ active.data = ActiveData
<1>1. active # None /\ active.data = ActiveData
  BY DEF FinishPartial, ActiveData
<1>2. QED
  BY <1>1, ActiveInHand DEF FinishPartial, Inv

\* trace-stopped.
StopMessage ==
    [type |-> "trace-stopped", chunkCount |-> sequence, emitted |-> emitted,
     dropped |-> dropped, rawDropped |-> dropped - poolStarvation,
     poolStarvation |-> poolStarvation, returned |-> returned, rejected |-> rejected]

LEMMA StopMessageType == ASSUME TypeOK PROVE StopMessage \in StopMessages
  BY DEF TypeOK, StopMessage, StopMessages

LEMMA StillAway ==
    ASSUME NEW H, Mail, Away(H), UNCHANGED <<toMain, toWorklet, inFlight>>
    PROVE  Mail' /\ Away(H)'
  BY DEF Mail, Away, Out, Back

LEMMA WorkletAway ==
    ASSUME NEW H, Inv, Mail, Away(H), Callback \/ Loop
    PROVE  Mail' /\ Away(H)'
<1> USE DEF pool, port
<1>1. CASE Callback
  BY <1>1, StillAway DEF Callback, EmitRecorded, EmitDropped, StartDrain
<1>2. CASE DrainStarved
  BY <1>2, StillAway DEF DrainStarved
<1>3. CASE DrainDone
  BY <1>3, StillAway DEF DrainDone
<1>4. CASE DrainTurn
  <2>1. PICK chunk, free, n :
          /\ InHand(chunk, free)
          /\ IF Rotates(chunk, n) THEN Ship(chunk, free) ELSE UNCHANGED <<inFlight, port>>
    BY <1>4, TurnOutcome
  <2>2. toWorklet' = toWorklet /\ sequence \in Nat
    BY <1>4 DEF DrainTurn, Inv, TypeOK
  <2>3. QED
    BY <2>1, <2>2, Shipped, StillAway
<1>5. CASE FinishPartial
  <2>1. InHand(active, available) /\ Ship(active, available)
    BY <1>5, PartialInHand
  <2>2. toWorklet' = toWorklet /\ sequence \in Nat
    BY <1>5 DEF FinishPartial, Inv, TypeOK
  <2>3. QED
    BY <2>1, <2>2, Shipped
<1>6. CASE FinishReport
  <2>1. toMain' = Append(toMain, StopMessage) /\ UNCHANGED <<toWorklet, inFlight>>
    BY <1>6 DEF FinishReport, StopMessage
  <2>2. StopMessage \in MainMessages /\ StopMessage \notin ChunkMessages
    BY StopMessageType DEF Inv, MainMessages, StopMessage, ChunkMessages
  <2>3. QED
    BY <2>1, <2>2, Told
<1>7. QED
  BY <1>1, <1>2, <1>3, <1>4, <1>5, <1>6 DEF Loop

LEMMA HandlerAway ==
    ASSUME NEW H, Inv, Mail, Away(H), Handler
    PROVE  Mail' /\ Away(H)'
<1> USE DEF pool, port, Received
<1>1. CASE RecycleRefused \/ Stop \/ StopIgnored \/ AbortIgnored
  BY <1>1, MailTaken DEF RecycleRefused, Stop, StopIgnored, AbortIgnored
<1>2. CASE RecycleAccepted
  <2>1. /\ toWorklet # <<>> /\ toWorklet' = Tail(toWorklet) /\ toMain' = toMain
        /\ Head(toWorklet).type = "recycle" /\ Head(toWorklet).current
        /\ Head(toWorklet).poolToken \in inFlight
        /\ inFlight' = inFlight \ {Head(toWorklet).poolToken}
    BY <1>2 DEF RecycleAccepted, Ignored, Known
  <2>2. Head(toWorklet) \in WorkletMessages
    BY <2>1, TailOf DEF Mail
  <2>3. Head(toWorklet) \in Returns
    BY <2>1, <2>2 DEF WorkletMessages, Commands, Returns, Inv, TypeOK
  <2>4. QED
    BY <2>1, <2>3, MailTaken
<1>3. CASE Abort
  <2>1. /\ toMain' = Append(toMain, [type |-> "trace-aborted"])
        /\ inFlight' = inFlight /\ toWorklet # <<>> /\ toWorklet' = Tail(toWorklet)
    BY <1>3 DEF Abort
  <2>2. [type |-> "trace-aborted"] \in MainMessages /\ [type |-> "trace-aborted"] \notin ChunkMessages
    BY DEF MainMessages, ChunkMessages
  <2>3. QED
    BY <2>1, <2>2, Told
<1>4. QED
  BY <1>1, <1>2, <1>3 DEF Handler

LEMMA InitAway == WorkletInit => Mail /\ Away({})
<1> SUFFICES ASSUME WorkletInit PROVE Mail /\ Away({})
  OBVIOUS
<1>1. toMain = <<>> /\ toWorklet = <<>> /\ inFlight = {}
  BY DEF WorkletInit
<1>2. \A kind : TokensIn(<<>>, kind) = {} /\ OneEach(<<>>, kind)
  BY DEF TokensIn, OneEach
<1>3. QED
  BY <1>1, <1>2, EmptySeq DEF Mail, Away, Out, Back

-----------------------------------------------------------------------------
(***************************************************************************)
(* What a step of the worklet posts.                                       *)
(***************************************************************************)
\* transferActive posts the next chunk.
Ships(m) ==
    /\ m \in ChunkMessages /\ m.sequence = sequence /\ m.data # <<>>
    /\ toMain' = Append(toMain, m)
    /\ sequence' = sequence + 1 /\ shipped' = shipped \o m.data
    /\ pc # "idle"

AbortedMessage == [type |-> "trace-aborted"]

LEMMA ShipShips ==
    ASSUME Inv, NEW chunk, NEW free, InHand(chunk, free), chunk.data # <<>>, pc # "idle",
           Ship(chunk, free)
    PROVE  \E m : Ships(m)
<1> DEFINE m == [type |-> "trace-chunk", sequence |-> sequence,
                 poolToken |-> chunk.token, data |-> chunk.data]
<1>1. m \in ChunkMessages /\ m.sequence = sequence /\ m.data = chunk.data
  BY DEF InHand, Chunk, ChunkMessages, Inv, TypeOK
<1>2. toMain' = Append(toMain, m) /\ sequence' = sequence + 1 /\ shipped' = shipped \o chunk.data
  BY DEF Ship
<1> HIDE DEF m
<1>3. Ships(m)
  BY <1>1, <1>2 DEF Ships
<1>4. QED
  BY <1>3

\* A step posts a chunk, the report, trace-aborted, or nothing.
LEMMA PortStep ==
    ASSUME Inv, WorkletStep
    PROVE  \/ UNCHANGED port
           \/ \E m : Ships(m)
           \/ FinishReport
           \/ toMain' = Append(toMain, AbortedMessage) /\ UNCHANGED <<sequence, shipped>>
<1>1. CASE DrainTurn
  <2>1. PICK chunk, free, n :
          /\ InHand(chunk, free)
          /\ IF Rotates(chunk, n) THEN Ship(chunk, free) ELSE UNCHANGED port
    BY <1>1, TurnOutcome
  <2>2. pc # "idle"
    BY <1>1 DEF DrainTurn
  <2>3. Rotates(chunk, n) => chunk.data # <<>>
    BY DEF Rotates
  <2>4. QED
    BY <2>1, <2>2, <2>3, ShipShips
<1>2. CASE FinishPartial
  <2>1. pc # "idle" /\ active.data # <<>>
    BY <1>2, PartialInHand DEF FinishPartial
  <2>2. QED
    BY <1>2, <2>1, PartialInHand, ShipShips
<1>3. CASE Abort
  BY <1>3 DEF Abort, AbortedMessage
<1>4. CASE Callback \/ DrainStarved \/ DrainDone
  BY <1>4 DEF Callback, EmitRecorded, EmitDropped, StartDrain, DrainStarved, DrainDone
<1>5. CASE RecycleRefused \/ RecycleAccepted \/ Stop \/ StopIgnored \/ AbortIgnored
  BY <1>5 DEF RecycleRefused, RecycleAccepted, Stop, StopIgnored, AbortIgnored, port
<1>6. QED
  BY <1>1, <1>2, <1>3, <1>4, <1>5 DEF WorkletStep, Loop, Handler

-----------------------------------------------------------------------------
(***************************************************************************)
(* The report of trace-stopped.                                            *)
(***************************************************************************)
\* What a report says, and when it was said.
ReportTrue(i) ==
    /\ toMain[i].chunkCount = sequence
    /\ toMain[i].emitted = Len(shipped) /\ shipped = accepted
    /\ toMain[i].rawDropped + toMain[i].poolStarvation = dropped
    /\ \A j \in Chunks : j < i

\* Nothing is emitted or drained once the report was posted.
Over == finished /\ ~enabled /\ pc = "idle" /\ ring = <<>>

Reporting ==
    /\ emitted = Len(accepted)
    /\ stopping => ~enabled
    /\ pc = "finish" => stopping
    /\ Reports # {} => Over
    /\ \A i, j \in Reports : i = j
    /\ \A i \in Reports : ReportTrue(i)

LEMMA OverStays ==
    ASSUME Over, WorkletStep
    PROVE  /\ Over' /\ UNCHANGED <<sequence, shipped, accepted, dropped>>
           /\ toMain' = toMain
<1> USE DEF producer, pool, starvation, life, port, Over
<1>1. CASE Callback
  BY <1>1 DEF Callback, EmitRecorded, EmitDropped, StartDrain, DrainNeeded
<1>2. CASE Loop
  BY <1>2 DEF Loop, DrainStarved, DrainTurn, DrainDone, FinishPartial, FinishReport
<1>3. CASE Handler
  <2>1. ~RecycleAccepted /\ ~Stop /\ ~Abort
    BY DEF RecycleAccepted, Ignored, Stop, Abort
  <2>2. CASE RecycleRefused
    BY <2>2 DEF RecycleRefused
  <2>3. CASE StopIgnored \/ AbortIgnored
    <3>1. UNCHANGED <<producer, life, port, pc>>
      BY <2>3 DEF StopIgnored, AbortIgnored
    <3>2. QED
      BY <3>1
  <2>4. QED
    BY <1>3, <2>1, <2>2, <2>3 DEF Handler
<1>4. QED
  BY <1>1, <1>2, <1>3 DEF WorkletStep

\* A message that is no report leaves the reports as they were.
LEMMA ReportsAppended ==
    ASSUME Mail, NEW m \in MainMessages, toMain' = Append(toMain, m), m.type # "trace-stopped"
    PROVE  Reports' = Reports
<1>1. /\ Len(toMain') = Len(toMain) + 1 /\ Len(toMain) \in Nat
      /\ toMain'[Len(toMain) + 1] = m
      /\ \A i \in 1..Len(toMain) : toMain'[i] = toMain[i]
      /\ \A i \in 1..Len(toMain) + 1 : i \in 1..Len(toMain) \/ i = Len(toMain) + 1
  BY Appended DEF Mail
<1>2. \A i \in Reports' : i \in Reports
  BY <1>1 DEF Reports
<1>3. \A i \in Reports : i \in Reports'
  BY <1>1 DEF Reports
<1>4. QED
  BY <1>2, <1>3

LEMMA ReportsTaken ==
    ASSUME Mail, toMain # <<>>, toMain' = Tail(toMain)
    PROVE  /\ \A i \in Reports' : i + 1 \in Reports /\ toMain'[i] = toMain[i + 1] /\ i \in Nat
           /\ \A j \in Chunks' : j + 1 \in Chunks /\ j \in Nat
<1>1. \A i \in 1..Len(toMain') : i \in Nat /\ i + 1 \in 1..Len(toMain) /\ toMain'[i] = toMain[i + 1]
  BY TailOf DEF Mail
<1>2. QED
  BY <1>1 DEF Reports, Chunks

\* A step that posts no report leaves none where there was none.
LEMMA NoReport ==
    ASSUME Inv, Mail, WorkletStep, ~FinishReport, Reports = {}
    PROVE  Reports' = {}
<1>1. CASE UNCHANGED port
  BY <1>1 DEF Reports, port
<1>2. ASSUME NEW m, Ships(m) PROVE Reports' = {}
  <2>1. m \in MainMessages /\ m.type # "trace-stopped" /\ toMain' = Append(toMain, m)
    BY <1>2 DEF Ships, ChunkMessages, MainMessages
  <2>2. QED
    BY <2>1, ReportsAppended
<1>3. CASE toMain' = Append(toMain, AbortedMessage)
  <2>1. AbortedMessage \in MainMessages /\ AbortedMessage.type # "trace-stopped"
    BY DEF AbortedMessage, MainMessages
  <2>2. QED
    BY <1>3, <2>1, ReportsAppended
<1>4. QED
  BY <1>1, <1>2, <1>3, PortStep

\* The switch and the loop, whatever the step.
LEMMA SwitchStep ==
    ASSUME Inv, Reporting, WorkletStep
    PROVE  /\ emitted' = Len(accepted')
           /\ stopping' => ~enabled'
           /\ pc' = "finish" => stopping'
<1> USE DEF producer, pool, starvation, life, port, Reporting
<1>1. ASSUME NEW g \in Groups, EmitRecorded(g)
      PROVE  emitted' = Len(accepted') /\ UNCHANGED <<stopping, enabled, pc>>
  <2>1. g \in Seq(Records) /\ accepted \in Seq(Records)
    BY TransportAssumption DEF Inv, TypeOK
  <2>2. Len(accepted \o g) = Len(accepted) + Len(g)
    BY <2>1, ConcatProperties
  <2>3. QED
    BY <1>1, <2>2 DEF EmitRecorded
<1>2. ASSUME NEW g \in Groups, EmitDropped(g)
      PROVE  UNCHANGED <<emitted, accepted, stopping, enabled, pc>>
  BY <1>2 DEF EmitDropped
<1>3. CASE StartDrain
  BY <1>3 DEF StartDrain
<1>4. CASE Loop
  BY <1>4 DEF Loop, DrainStarved, DrainTurn, DrainDone, FinishPartial, FinishReport
<1>5. CASE Handler
  BY <1>5 DEF Handler, RecycleRefused, RecycleAccepted, Resumed, Stop, StopIgnored, Abort, AbortIgnored
<1>6. QED
  BY <1>1, <1>2, <1>3, <1>4, <1>5 DEF WorkletStep, Callback

\* The report itself: drain() has emptied the ring, the partial chunk is gone.
LEMMA ReportPosted ==
    ASSUME Inv, Mail, Reporting, Reports = {}, FinishReport
    PROVE  /\ Over' /\ \A i, j \in Reports' : i = j
           /\ \A i \in Reports' : ReportTrue(i)'
<1> DEFINE n == Len(toMain)
<1>1. /\ toMain' = Append(toMain, StopMessage) /\ finished' = TRUE /\ pc' = "idle"
      /\ UNCHANGED <<ring, enabled, emitted, dropped, accepted, sequence, shipped>>
      /\ ring = <<>> /\ ActiveData = <<>> /\ ~enabled
  BY DEF FinishReport, StopMessage, producer, Reporting
<1>2. Over'
  BY <1>1 DEF Over
<1>3. shipped = accepted
  <2>1. shipped \in Seq(Records) /\ accepted = (shipped \o <<>>) \o <<>>
    BY <1>1 DEF Inv, TypeOK, LosslessInOrder
  <2>2. QED
    BY <2>1, ConcatEmptySeq
<1>4. StopMessage \in StopMessages /\ StopMessage \in MainMessages
  BY StopMessageType DEF Inv, MainMessages
<1>5. /\ toMain'[n + 1] = StopMessage /\ Len(toMain') = n + 1 /\ n \in Nat
      /\ \A i \in 1..n : toMain'[i] = toMain[i]
      /\ \A i \in 1..n + 1 : i \in 1..n \/ i = n + 1
  BY <1>1, <1>4, Appended DEF Mail
<1>6. \A i \in Reports' : i = n + 1
  BY <1>5 DEF Reports
<1>7. \A j \in Chunks' : j < n + 1
  <2>1. StopMessage.type # "trace-chunk"
    BY DEF StopMessage
  <2>2. QED
    BY <1>5, <2>1 DEF Chunks
<1>8. /\ StopMessage.chunkCount = sequence' /\ StopMessage.emitted = Len(shipped')
      /\ shipped' = accepted'
      /\ StopMessage.rawDropped + StopMessage.poolStarvation = dropped'
  BY <1>1, <1>3 DEF StopMessage, Reporting, Inv, TypeOK
<1> HIDE DEF n
<1>9. ASSUME NEW i \in Reports' PROVE ReportTrue(i)'
  <2>1. toMain'[i] = StopMessage /\ \A j \in Chunks' : j < i
    BY <1>5, <1>6, <1>7
  <2>2. QED
    BY <1>8, <2>1 DEF ReportTrue
<1>10. QED
  BY <1>2, <1>6, <1>9

LEMMA WorkletReporting ==
    ASSUME Inv, Mail, Reporting, WorkletStep
    PROVE  Reporting'
<1>1. CASE Reports # {}
  <2>1. Over
    BY <1>1 DEF Reporting
  <2>2. /\ Over' /\ UNCHANGED <<sequence, shipped, accepted, dropped>>
        /\ toMain' = toMain
    BY <2>1, OverStays
  <2>3. Reports' = Reports /\ \A i \in Reports : ReportTrue(i)'
    BY <2>2 DEF Reporting, ReportTrue, Reports, Chunks
  <2>4. QED
    BY <2>2, <2>3, SwitchStep DEF Reporting
<1>2. CASE Reports = {} /\ FinishReport
  BY <1>2, ReportPosted, SwitchStep DEF Reporting
<1>3. CASE Reports = {} /\ ~FinishReport
  BY <1>3, NoReport, SwitchStep DEF Reporting
<1>4. QED
  BY <1>1, <1>2, <1>3

LEMMA ElsewhereReporting ==
    ASSUME Mail, Reporting, UNCHANGED Own,
           toMain' = toMain \/ (toMain # <<>> /\ toMain' = Tail(toMain))
    PROVE  Reporting'
<1> USE DEF Own, producer, life
<1>1. CASE toMain' = toMain
  <2>1. Reports' = Reports /\ Over' = Over /\ \A i \in Reports : ReportTrue(i)'
    BY <1>1 DEF Reporting, ReportTrue, Reports, Chunks, Over
  <2>2. QED
    BY <2>1 DEF Reporting
<1>2. CASE toMain # <<>> /\ toMain' = Tail(toMain)
  <2>1. /\ \A i \in Reports' : i + 1 \in Reports /\ toMain'[i] = toMain[i + 1] /\ i \in Nat
        /\ \A j \in Chunks' : j + 1 \in Chunks /\ j \in Nat
    BY <1>2, ReportsTaken
  <2>2. ASSUME NEW i \in Reports' PROVE ReportTrue(i)'
    <3>1. ReportTrue(i + 1)
      BY <2>1 DEF Reporting
    <3>2. \A j \in Chunks' : j < i
      BY <2>1, <3>1 DEF ReportTrue
    <3>3. QED
      BY <2>1, <3>1, <3>2 DEF ReportTrue
  <2>3. \A i, j \in Reports' : i = j
    <3>1. ASSUME NEW i \in Reports', NEW j \in Reports' PROVE i = j
      <4>1. i + 1 = j + 1 /\ i \in Nat /\ j \in Nat
        BY <2>1 DEF Reporting
      <4>2. QED
        BY <4>1
    <3>2. QED
      BY <3>1
  <2>4. Reports' # {} => Over'
    BY <2>1 DEF Reporting, Over
  <2>5. QED
    BY <2>2, <2>3, <2>4 DEF Reporting
<1>3. QED
  BY <1>1, <1>2

LEMMA InitReporting == WorkletInit => Reporting
<1> SUFFICES ASSUME WorkletInit PROVE Reporting
  OBVIOUS
<1>1. Reports = {}
  BY DEF WorkletInit, Reports
<1>2. QED
  BY <1>1 DEF WorkletInit, Reporting

-----------------------------------------------------------------------------
(***************************************************************************)
(* The page, and the theorems.                                             *)
(***************************************************************************)
\* What the page does to the port.
LEMMA PageStep ==
    ASSUME Page
    PROVE  /\ UNCHANGED Own
           /\ toMain' = toMain \/ (toMain # <<>> /\ toMain' = Tail(toMain))
<1> USE DEF Own, port
<1>1. CASE Take
  BY <1>1 DEF Take
<1>2. ASSUME NEW m, Post(m)
      PROVE  UNCHANGED Own /\ toMain' = toMain
  BY <1>2 DEF Post
<1>3. CASE Stray \/ Command \/ \E token \in held, buffer \in BOOLEAN : GiveBack(token, buffer)
  BY <1>2, <1>3 DEF Stray, Command, GiveBack
<1>4. QED
  BY <1>1, <1>3 DEF Page

\* Every step is the worklet's, the page's, or none.
LEMMA Split ==
    ASSUME [Next]_vars
    PROVE  (WorkletStep /\ held' = held) \/ Page \/ UNCHANGED vars
  BY DEF Next, WorkletStep

LEMMA Stutter ==
    ASSUME UNCHANGED vars
    PROVE  UNCHANGED Own /\ UNCHANGED <<toMain, toWorklet, held, inFlight, ring, active, sequence>>
  BY DEF vars, worklet, Own, port, pool, producer

LEMMA StepInv == Inv /\ [Next]_vars => Inv'
  BY Split, WorkletInv, ElsewhereInv, PageStep, Stutter

\* The invariant holds in every reachable state.
LEMMA InvAlways == Spec => []Inv
<1>1. Init => Inv
  BY InitInv DEF Init
<1>2. QED
  BY <1>1, StepInv, PTL DEF Spec

-----------------------------------------------------------------------------
(***************************************************************************)
(* The messages under way.                                                 *)
(***************************************************************************)
LEMMA PageAway ==
    ASSUME NEW H, NEW G, H = held, G = held', Inv, Mail, Away(H), Page
    PROVE  Mail' /\ Away(G)'
<1> USE DEF pool, port
<1>1. CASE Take
  <2>1. /\ toMain # <<>> /\ toMain' = Tail(toMain) /\ inFlight' = inFlight
        /\ held' = IF Head(toMain).type = "trace-chunk"
                   THEN held \union {Head(toMain).poolToken} ELSE held
        /\ toWorklet' = toWorklet
    BY <1>1 DEF Take
  <2>2. Head(toMain) \in MainMessages
    BY <2>1, TailOf DEF Mail
  <2>3. Head(toMain).type = "trace-chunk" <=> Head(toMain) \in ChunkMessages
    BY <2>2 DEF MainMessages, ChunkMessages, StopMessages
  <2>4. QED
    BY <2>1, <2>3, TakenByPage
<1>2. CASE Stray
  <2>1. PICK m \in RecycleMessages : /\ toWorklet' = Append(toWorklet, m)
                                     /\ ~m.current \/ m.poolToken \notin Tokens
                                     /\ UNCHANGED <<toMain, inFlight, held>>
    <3>1. ASSUME NEW token \in Tokens, Post(Recycled(token, FALSE, TRUE))
          PROVE  \E m \in RecycleMessages :
                   toWorklet' = Append(toWorklet, m) /\ (~m.current \/ m.poolToken \notin Tokens)
      <4>1. Recycled(token, FALSE, TRUE) \in RecycleMessages /\ ~Recycled(token, FALSE, TRUE).current
        BY DEF Recycled, RecycleMessages
      <4>2. QED
        BY <3>1, <4>1 DEF Post
    <3>2. ASSUME Post(Recycled(None, TRUE, TRUE))
          PROVE  \E m \in RecycleMessages :
                   toWorklet' = Append(toWorklet, m) /\ (~m.current \/ m.poolToken \notin Tokens)
      <4>1. Recycled(None, TRUE, TRUE) \in RecycleMessages
            /\ Recycled(None, TRUE, TRUE).poolToken \notin Tokens
        BY NoneAssumption, TransportAssumption DEF Recycled, RecycleMessages, Tokens
      <4>2. QED
        BY <3>2, <4>1 DEF Post
    <3>3. UNCHANGED <<toMain, inFlight, held>>
      BY <1>2 DEF Stray, Post
    <3>4. QED
      BY <1>2, <3>1, <3>2, <3>3 DEF Stray
  <2>2. m \in WorkletMessages /\ m \notin Returns
    BY <2>1 DEF WorkletMessages, Returns
  <2>3. QED
    BY <2>1, <2>2, Posted
<1>3. CASE Command
  <2>1. PICK m \in Commands : toWorklet' = Append(toWorklet, m) /\ UNCHANGED <<toMain, inFlight, held>>
    BY <1>3 DEF Command, Post
  <2>2. m \in WorkletMessages /\ m \notin Returns
    BY DEF Commands, WorkletMessages, Returns, RecycleMessages
  <2>3. QED
    BY <2>1, <2>2, Posted
<1>4. ASSUME NEW token \in held, NEW buffer \in BOOLEAN, GiveBack(token, buffer)
      PROVE  Mail' /\ Away(G)'
  <2> DEFINE m == Recycled(token, TRUE, buffer)
  <2>1. /\ toWorklet' = Append(toWorklet, m) /\ UNCHANGED <<toMain, inFlight>>
        /\ held' = held \ {token}
    BY <1>4 DEF GiveBack, Post
  <2>2. token \in Tokens
    BY DEF Away, Inv, TypeOK
  <2>3. m \in Returns /\ m.poolToken = token
    BY <2>2 DEF Recycled, Returns, RecycleMessages
  <2>4. m \in WorkletMessages
    BY <2>3 DEF Returns, WorkletMessages
  <2> HIDE DEF m
  <2>5. QED
    BY <2>1, <2>3, <2>4, Posted
<1>5. QED
  BY <1>1, <1>2, <1>3, <1>4 DEF Page

LEMMA StepAway == Inv /\ Mail /\ Away(held) /\ [Next]_vars => Mail' /\ Away(held)'
<1> SUFFICES ASSUME Inv, Mail, Away(held), [Next]_vars PROVE Mail' /\ Away(held)'
  OBVIOUS
<1>1. PICK H, G : H = held /\ G = held'
  OBVIOUS
<1>2. Away(H)
  BY <1>1
<1>3. ASSUME Away(G)' PROVE Away(held)'
  BY <1>1, <1>3 DEF Away
<1>4. CASE UNCHANGED vars
  <2>1. UNCHANGED <<toMain, toWorklet, inFlight>> /\ G = H
    BY <1>1, <1>4, Stutter
  <2>2. QED
    BY <1>2, <1>3, <2>1, StillAway
<1>5. CASE WorkletStep /\ held' = held
  BY <1>1, <1>2, <1>3, <1>5, WorkletAway, HandlerAway DEF WorkletStep
<1>6. CASE Page
  BY <1>1, <1>2, <1>3, <1>6, PageAway
<1>7. QED
  BY <1>4, <1>5, <1>6, Split

LEMMA AwayAlways == Spec => [](Mail /\ Away(held))
<1>1. Init => Mail /\ Away(held)
  BY InitAway DEF Init, Away
<1>2. QED
  BY <1>1, InvAlways, StepAway, PTL DEF Spec

LEMMA AtMostOne ==
    ASSUME NEW I, \A i, j \in I : i = j
    PROVE  Cardinality(I) = IF I = {} THEN 0 ELSE 1
<1>1. CASE I = {}
  BY <1>1, FS_EmptySet
<1>2. CASE I # {}
  <2>1. PICK i \in I : I = {i}
    BY <1>2
  <2>2. QED
    BY <2>1, FS_Singleton
<1>3. QED
  BY <1>1, <1>2

\* No two chunks ever share a buffer: one that is away is in a chunk on its way
\* out, with the page or on its way back, for every pool and whatever the page
\* sends, repeats or withholds.
THEOREM BuffersInOnePlace == Spec => []BufferInOnePlace
<1>1. Mail /\ Away(held) => BufferInOnePlace
  <2> SUFFICES ASSUME Mail, Away(held) PROVE BufferInOnePlace
    OBVIOUS
  <2>1. \A i \in 1..Len(toMain) : toMain[i].type = "trace-chunk" <=> toMain[i] \in ChunkMessages
    <3>1. \A i \in 1..Len(toMain) : toMain[i] \in MainMessages
      BY ElementOfSeq DEF Mail
    <3>2. \A m \in MainMessages : m.type = "trace-chunk" <=> m \in ChunkMessages
      BY DEF MainMessages, ChunkMessages, StopMessages
    <3>3. QED
      BY <3>1, <3>2
  <2>2. \A i \in 1..Len(toWorklet) : \A t \in Tokens :
          toWorklet[i].type = "recycle" /\ toWorklet[i].current /\ toWorklet[i].poolToken = t
            => toWorklet[i] \in Returns
    <3>1. \A i \in 1..Len(toWorklet) : toWorklet[i] \in WorkletMessages
      BY ElementOfSeq DEF Mail
    <3>2. \A m \in WorkletMessages : m.type = "recycle" => m \in RecycleMessages
      BY DEF WorkletMessages, Commands
    <3>3. QED
      BY <3>1, <3>2 DEF Returns
  <2>3. SUFFICES ASSUME NEW t \in Tokens
                 PROVE LET O == {i \in Chunks : toMain[i].poolToken = t}
                           B == {i \in 1..Len(toWorklet) :
                                   /\ toWorklet[i].type = "recycle" /\ toWorklet[i].current
                                   /\ toWorklet[i].poolToken = t}
                       IN /\ Cardinality(O) + Cardinality(B) + (IF t \in held THEN 1 ELSE 0) <= 1
                          /\ (O # {} \/ t \in held) => t \in inFlight
    BY DEF BufferInOnePlace
  <2> DEFINE O == {i \in Chunks : toMain[i].poolToken = t}
             B == {i \in 1..Len(toWorklet) :
                     /\ toWorklet[i].type = "recycle" /\ toWorklet[i].current
                     /\ toWorklet[i].poolToken = t}
  <2>4. /\ \A i, j \in O : i = j
        /\ O # {} => t \in Out
    BY <2>1 DEF Chunks, Away, OneEach, Out, TokensIn
  <2>5. /\ \A i, j \in B : i = j
        /\ B # {} => t \in Back
    BY <2>2 DEF Away, OneEach, Back, TokensIn
  <2> HIDE DEF O, B
  <2>6. /\ Cardinality(O) = IF O = {} THEN 0 ELSE 1
        /\ Cardinality(B) = IF B = {} THEN 0 ELSE 1
    BY <2>4, <2>5, AtMostOne
  <2>7. Cardinality(O) + Cardinality(B) + (IF t \in held THEN 1 ELSE 0) <= 1
    BY <2>4, <2>5, <2>6 DEF Away
  <2>8. (O # {} \/ t \in held) => t \in inFlight
    BY <2>4 DEF Away
  <2>9. QED
    BY <2>7, <2>8 DEF O, B
<1>2. QED
  BY <1>1, AwayAlways, PTL

-----------------------------------------------------------------------------
\* The transport's state keeps its types: the ring never exceeds its capacity,
\* the counters stay natural numbers (poolStarvationRecords too, which a
\* difference is added to), tokens are tokens of the pool.
THEOREM TransportTypes == Spec => []TypeOK
<1>1. Inv => TypeOK
  BY DEF Inv
<1>2. QED
  BY InvAlways, <1>1, PTL

\* "Missing spare buffers never block audio" and never lose one either: the
\* tokens of the pool are free, active or in flight, each in one place, for
\* every pool size and whatever the page sends.
THEOREM PoolIsConserved == Spec => []PoolConserved
<1>1. Inv => PoolConserved
  BY DEF Inv
<1>2. QED
  BY InvAlways, <1>1, PTL

\* The declared chunk count is the number of buffers that came back and of
\* those still away.
THEOREM FlightsAreBalanced == Spec => []FlightsBalance
<1>1. Inv => FlightsBalance
  BY DEF Inv
<1>2. QED
  BY InvAlways, <1>1, PTL

\* rawDroppedRecords, droppedRecords less poolStarvationRecords, is never
\* negative, and a window of starvation is open only on an exhausted pool.
THEOREM StarvationIsBooked == Spec => []StarvationWindow
<1>1. Inv => StarvationWindow
  BY DEF Inv
<1>2. QED
  BY InvAlways, <1>1, PTL

\* Every record the ring accepted is in a chunk that was posted, in the active
\* chunk or unread, once and in the order of emission, for every chunk size,
\* every interleaving of callbacks and messages, through stop and abort.
THEOREM NothingLostNorReordered == Spec => []LosslessInOrder
<1>1. Inv => LosslessInOrder
  BY DEF Inv
<1>2. QED
  BY InvAlways, <1>1, PTL

LEMMA StepReporting == Inv /\ Mail /\ Reporting /\ [Next]_vars => Reporting'
  BY Split, WorkletReporting, ElsewhereReporting, PageStep, Stutter

\* trace-stopped declares what was posted and what was dropped, every accepted
\* record is in a chunk before it, and nothing follows it, for every pool, every
\* chunk size and however late buffers return to a stop that waits for one.
THEOREM StopReportIsExact == Spec => []StopReportExact
<1>1. Reporting => StopReportExact
  BY DEF Reporting, ReportTrue, StopReportExact
<1>2. Init => Reporting
  BY InitReporting DEF Init
<1>3. QED
  BY <1>1, <1>2, InvAlways, AwayAlways, StepReporting, PTL DEF Spec

-----------------------------------------------------------------------------
(***************************************************************************)
(* The chunks that are posted.                                             *)
(***************************************************************************)
\* The chunks under way from the i-th message on.
Later(i) == {j \in Chunks : j >= i}

WellPosted(i) ==
    /\ Len(toMain[i].data) \in 1..ChunkRecords
    /\ WholeGroups(toMain[i].data)
    /\ toMain[i].sequence + Cardinality(Later(i)) = sequence

AllPosted == \A i \in Chunks : WellPosted(i)

\* The ring, too, holds whole groups only.
Filling ==
    /\ WholeGroups(ring)
    /\ WholeGroups(ActiveData) /\ Len(ActiveData) < ChunkRecords

-----------------------------------------------------------------------------
(***************************************************************************)
(* Whole groups.                                                           *)
(***************************************************************************)
LEMMA WholeConcat ==
    ASSUME NEW S, NEW a \in Seq(S), NEW b \in Seq(S), WholeGroups(a), WholeGroups(b)
    PROVE  WholeGroups(a \o b)
<1>1. /\ Len(a) \in Nat /\ Len(b) \in Nat /\ Len(a \o b) = Len(a) + Len(b)
      /\ \A i \in 1..Len(a) + Len(b) :
            (a \o b)[i] = IF i <= Len(a) THEN a[i] ELSE b[i - Len(a)]
  BY ConcatProperties, LenProperties
<1>2. CASE Len(b) = 0
  <2>1. Len(a \o b) = Len(a) /\ (Len(a) > 0 => (a \o b)[Len(a)] = a[Len(a)])
    BY <1>1, <1>2
  <2>2. QED
    BY <2>1 DEF WholeGroups
<1>3. CASE Len(b) > 0
  <2>1. (a \o b)[Len(a) + Len(b)] = b[Len(b)]
    BY <1>1, <1>3
  <2>2. QED
    BY <1>1, <1>3, <2>1 DEF WholeGroups
<1>4. QED
  BY <1>1, <1>2, <1>3

LEMMA WholeCut ==
    ASSUME NEW S, NEW r \in Seq(S), WholeGroups(r), NEW k \in Nat, NEW n \in Fit(r, k)
    PROVE  /\ WholeGroups(Taken(r, n)) /\ WholeGroups(Rest(r, n))
           /\ n \in Nat /\ n <= k /\ Len(Taken(r, n)) = n
<1>1. /\ Len(r) \in Nat /\ n \in 0..Len(r) /\ n <= k
      /\ n = 0 \/ r[n].end
  BY LenProperties DEF Fit, Cuts
<1>2. /\ Len(Taken(r, n)) = n /\ \A i \in 1..n : Taken(r, n)[i] = r[i]
  BY <1>1, SubSeqProperties DEF Taken
<1>3. WholeGroups(Taken(r, n))
  <2>1. n > 0 => Taken(r, n)[n] = r[n]
    BY <1>1, <1>2
  <2>2. QED
    BY <1>1, <1>2, <2>1 DEF WholeGroups
<1>4. /\ Len(Rest(r, n)) = Len(r) - n
      /\ \A i \in 1..Len(r) - n : Rest(r, n)[i] = r[n + i]
  BY <1>1, SubSeqProperties DEF Rest
<1>5. WholeGroups(Rest(r, n))
  <2>1. Len(r) - n > 0 => Rest(r, n)[Len(r) - n] = r[Len(r)]
    BY <1>1, <1>4
  <2>2. QED
    BY <1>1, <1>4, <2>1 DEF WholeGroups
<1>6. QED
  BY <1>1, <1>2, <1>3, <1>5

LEMMA GroupsAreWhole == \A g \in Groups : WholeGroups(g)
  BY TransportAssumption DEF IsGroup, WholeGroups

\* What the chunk in hand and the ring hold after a turn of the loop.
LEMMA TurnFills ==
    ASSUME Inv, Filling, NEW n \in Fit(ring, ChunkRecords - Len(ActiveData)), NEW data,
           data = ActiveData \o Taken(ring, n)
    PROVE  /\ WholeGroups(data) /\ WholeGroups(Rest(ring, n))
           /\ data \in Seq(Records) /\ Len(data) \in 0..ChunkRecords
<1>1. ring \in Seq(Records) /\ ActiveData \in Seq(Records)
  <2>1. <<>> \in Seq(Records)
    BY EmptySeq
  <2>2. QED
    BY <2>1 DEF Inv, TypeOK, ActiveData
<1> DEFINE k == ChunkRecords - Len(ActiveData)
<1>2. k \in Nat /\ Len(ActiveData) \in Nat /\ ChunkRecords \in Nat
  BY <1>1, LenProperties, TransportAssumption DEF Filling
<1>3. /\ WholeGroups(Taken(ring, n)) /\ WholeGroups(Rest(ring, n))
      /\ n \in Nat /\ n <= k /\ Len(Taken(ring, n)) = n
  BY <1>1, <1>2, WholeCut DEF Filling
<1>4. Taken(ring, n) \in Seq(Records)
  BY <1>1, Cut
<1>5. WholeGroups(data)
  BY <1>1, <1>3, <1>4, WholeConcat DEF Filling
<1>6. data \in Seq(Records) /\ Len(data) = Len(ActiveData) + n
  BY <1>1, <1>3, <1>4, ConcatProperties
<1>7. QED
  BY <1>2, <1>3, <1>5, <1>6

-----------------------------------------------------------------------------
(***************************************************************************)
(* Numbering.                                                              *)
(***************************************************************************)
LEMMA LaterFinite ==
    ASSUME Mail
    PROVE  IsFiniteSet(Chunks) /\ \A i : IsFiniteSet(Later(i)) /\ Cardinality(Later(i)) \in Nat
<1>1. IsFiniteSet(1..Len(toMain))
  BY FS_Interval, LenProperties DEF Mail
<1>2. IsFiniteSet(Chunks)
  BY <1>1, FS_Subset DEF Chunks
<1>3. \A i : Later(i) \in SUBSET Chunks
  BY DEF Later
<1>4. QED
  BY <1>2, <1>3, FS_Subset, FS_CardinalityType

\* A message that is no chunk changes no number.
LEMMA QuietMessage ==
    ASSUME Mail, NEW m \in MainMessages, m.type # "trace-chunk", toMain' = Append(toMain, m),
           sequence' = sequence, AllPosted
    PROVE  AllPosted'
<1> DEFINE n == Len(toMain)
<1>1. /\ Len(toMain') = n + 1 /\ n \in Nat /\ toMain'[n + 1] = m
      /\ \A i \in 1..n : toMain'[i] = toMain[i]
      /\ \A i \in 1..n + 1 : i \in 1..n \/ i = n + 1
      /\ \A i \in 1..n : i \in 1..n + 1
  BY Appended DEF Mail
<1>2. /\ \A i \in Chunks' : i \in Chunks
      /\ \A i \in Chunks : i \in Chunks' /\ toMain'[i] = toMain[i]
  BY <1>1 DEF Chunks
<1>3. Chunks' = Chunks
  BY <1>2
<1>4. \A i : Later(i)' = Later(i)
  BY <1>3 DEF Later
<1>5. ASSUME NEW i \in Chunks' PROVE WellPosted(i)'
  BY <1>2, <1>4, <1>5 DEF WellPosted, AllPosted
<1>6. QED
  BY <1>5 DEF AllPosted

\* A chunk has the next number.
LEMMA NextChunk ==
    ASSUME Inv, Mail, AllPosted, NEW chunk, NEW free, InHand(chunk, free), Ship(chunk, free),
           WholeGroups(chunk.data), Len(chunk.data) \in 1..ChunkRecords
    PROVE  AllPosted'
<1> DEFINE n == Len(toMain)
           m == [type |-> "trace-chunk", sequence |-> sequence,
                 poolToken |-> chunk.token, data |-> chunk.data]
<1>1. m \in MainMessages /\ toMain' = Append(toMain, m) /\ sequence' = sequence + 1
      /\ sequence \in Nat
  BY DEF Ship, InHand, Chunk, ChunkMessages, MainMessages, Inv, TypeOK
<1>2. m.type = "trace-chunk" /\ m.sequence = sequence /\ m.data = chunk.data
  OBVIOUS
<1> HIDE DEF m
<1>3. /\ Len(toMain') = n + 1 /\ n \in Nat /\ toMain'[n + 1] = m /\ n + 1 \in 1..n + 1
      /\ \A i \in 1..n : toMain'[i] = toMain[i]
      /\ \A i \in 1..n + 1 : i \in 1..n \/ i = n + 1
      /\ \A i \in 1..n : i \in 1..n + 1 /\ i < n + 1
  BY <1>1, Appended DEF Mail
<1>4. /\ \A i \in Chunks' : i \in Chunks \/ i = n + 1
      /\ \A i \in Chunks : i \in Chunks' /\ toMain'[i] = toMain[i] /\ i < n + 1 /\ i \in Nat
      /\ n + 1 \in Chunks'
  BY <1>2, <1>3 DEF Chunks
<1>5. ASSUME NEW i \in Chunks PROVE WellPosted(i)'
  <2>1. Later(i)' = Later(i) \union {n + 1}
    <3>1. \A j \in Later(i)' : j \in Later(i) \/ j = n + 1
      BY <1>4 DEF Later
    <3>2. \A j \in Later(i) : j \in Later(i)'
      BY <1>4 DEF Later
    <3>3. n + 1 \in Later(i)'
      BY <1>3, <1>4, <1>5 DEF Later
    <3>4. QED
      BY <3>1, <3>2, <3>3
  <2>2. n + 1 \notin Later(i)
    BY <1>3, <1>4 DEF Later
  <2>3. IsFiniteSet(Later(i)) /\ Cardinality(Later(i)) \in Nat
    BY LaterFinite
  <2>4. Cardinality(Later(i)') = Cardinality(Later(i)) + 1
    BY <2>1, <2>2, <2>3, FS_AddElement
  <2>5. toMain[i].sequence \in Nat
    <3>1. i \in 1..Len(toMain) /\ toMain[i].type = "trace-chunk" /\ toMain[i] \in MainMessages
      BY <1>5 DEF Chunks, Mail
    <3>2. toMain[i] \in ChunkMessages
      BY <3>1 DEF MainMessages, StopMessages
    <3>3. QED
      BY <3>2 DEF ChunkMessages
  <2>6. WellPosted(i)
    BY <1>5 DEF AllPosted
  <2>7. toMain'[i].sequence + Cardinality(Later(i)') = sequence'
    <3>1. toMain[i].sequence + Cardinality(Later(i)) = sequence
      BY <2>6 DEF WellPosted
    <3>2. toMain'[i].sequence = toMain[i].sequence
      BY <1>4, <1>5
    <3>3. \A a, b, c \in Nat : a + b = c => a + (b + 1) = c + 1
      OBVIOUS
    <3>4. toMain[i].sequence + (Cardinality(Later(i)) + 1) = sequence + 1
      BY <1>1, <2>3, <2>5, <3>1, <3>3
    <3>5. QED
      BY <1>1, <2>4, <3>2, <3>4
  <2>8. QED
    BY <1>4, <1>5, <2>6, <2>7 DEF WellPosted
<1>6. ASSUME NEW i \in Chunks', i = n + 1 PROVE WellPosted(i)'
  <2>1. Later(i)' = {i}
    <3>1. n + 1 \in Nat /\ n + 1 >= n + 1 /\ \A j \in Nat : ~(j < n + 1 /\ j >= n + 1)
      BY <1>3
    <3> HIDE DEF n
    <3>2. \A j \in Later(i)' : j = i
      BY <1>4, <1>6, <3>1 DEF Later
    <3>3. i \in Later(i)'
      BY <1>4, <1>6, <3>1 DEF Later
    <3>4. QED
      BY <3>2, <3>3
  <2>2. Cardinality(Later(i)') = 1
    BY <2>1, FS_Singleton
  <2>3. toMain'[i] = m
    BY <1>3, <1>6
  <2>4. QED
    BY <1>1, <1>2, <2>2, <2>3 DEF WellPosted
<1> HIDE DEF n
<1>7. QED
  BY <1>4, <1>5, <1>6 DEF AllPosted

\* The page takes a message: the others move up.
LEMMA MovedUp ==
    ASSUME Mail, AllPosted, toMain # <<>>, toMain' = Tail(toMain), sequence' = sequence
    PROVE  AllPosted'
<1> DEFINE n == Len(toMain)
<1>1. /\ n \in Nat \ {0} /\ Len(toMain') = n - 1
      /\ \A i \in 1..n - 1 : i \in Nat /\ i + 1 \in 1..n /\ toMain'[i] = toMain[i + 1]
      /\ \A i \in 1..n : i \in Nat /\ (i # 1 => i - 1 \in 1..n - 1 /\ (i - 1) + 1 = i)
  BY TailOf DEF Mail
<1>2. \A i \in Chunks' : i \in 1..n - 1 /\ i \in Nat /\ i + 1 \in Chunks /\ toMain'[i] = toMain[i + 1]
  BY <1>1 DEF Chunks
<1>3. ASSUME NEW i \in Chunks' PROVE WellPosted(i)'
  <2>1. i \in Nat /\ i + 1 \in Chunks /\ toMain'[i] = toMain[i + 1] /\ WellPosted(i + 1)
    BY <1>2, <1>3 DEF AllPosted
  <2> DEFINE before == Later(i + 1)
             after == Later(i)'
             up == [j \in before |-> j - 1]
  <2>2. \A j \in after : j \in Nat /\ j + 1 \in before /\ (j + 1) - 1 = j
    BY <1>2, <2>1 DEF Later
  <2>3. \A j \in before : j \in Nat /\ j - 1 \in after
    <3>1. ASSUME NEW j \in before PROVE j \in Nat /\ j - 1 \in after
      <4>1. j \in 1..n /\ toMain[j].type = "trace-chunk" /\ j >= i + 1
        BY <3>1 DEF Later, Chunks
      <4>2. j # 1 /\ j \in Nat /\ j - 1 >= i
        BY <1>1, <1>2, <1>3, <2>1, <4>1 DEF Chunks
      <4>3. j - 1 \in 1..n - 1 /\ toMain'[j - 1] = toMain[j]
        BY <1>1, <4>1, <4>2
      <4>4. j - 1 \in Chunks'
        BY <1>1, <4>1, <4>3 DEF Chunks
      <4>5. QED
        BY <4>2, <4>4 DEF Later
    <3>2. QED
      BY <3>1
  <2> HIDE DEF before, after
  <2>4. up \in [before -> after]
    BY <2>3
  <2>5. \A a, b \in before : up[a] = up[b] => a = b
    BY <2>3
  <2>6. \A t \in after : \E s \in before : up[s] = t
    <3>1. ASSUME NEW t \in after PROVE up[t + 1] = t /\ t + 1 \in before
      BY <2>2, <3>1
    <3>2. QED
      BY <3>1
  <2> HIDE DEF up
  <2>7. up \in Bijection(before, after)
    BY <2>4, <2>5, <2>6, Fun_IsBij
  <2>8. ExistsBijection(before, after)
    BY <2>7, Fun_ExistsBij
  <2>9. IsFiniteSet(before)
    BY LaterFinite DEF before
  <2>10. Cardinality(after) = Cardinality(before)
    BY <2>8, <2>9, FS_Bijection
  <2>11. QED
    BY <2>1, <2>10 DEF WellPosted, before, after
<1>4. QED
  BY <1>3 DEF AllPosted

-----------------------------------------------------------------------------
(***************************************************************************)
(* The steps.                                                              *)
(***************************************************************************)
LEMMA SamePort ==
    ASSUME AllPosted, UNCHANGED <<toMain, sequence>>
    PROVE  AllPosted'
<1>1. Chunks' = Chunks
  BY DEF Chunks
<1>2. \A i : Later(i)' = Later(i)
  BY <1>1 DEF Later
<1>3. QED
  BY <1>1, <1>2 DEF AllPosted, WellPosted

\* After a transfer the active chunk is empty.
LEMMA EmptiesActive ==
    ASSUME NEW chunk, NEW free, Ship(chunk, free)
    PROVE  ActiveData' = <<>>
  BY DEF Ship, ActiveData, Empty

LEMMA EmptyFits == WholeGroups(<<>>) /\ Len(<<>>) < ChunkRecords
  BY TransportAssumption DEF WholeGroups

LEMMA DrainTurnChunks ==
    ASSUME Inv, Mail, AllPosted, Filling, DrainTurn
    PROVE  AllPosted' /\ Filling'
<1>1. PICK chunk, free :
        \E n \in Fit(ring, ChunkRecords - Len(ActiveData)) :
          /\ InHand(chunk, free) /\ chunk.data = ActiveData \o Taken(ring, n)
          /\ ring' = Rest(ring, n)
          /\ IF Rotates(chunk, n) THEN Ship(chunk, free)
             ELSE active' = chunk /\ UNCHANGED <<inFlight, port>>
  BY TurnOutcome
<1>2. PICK n \in Fit(ring, ChunkRecords - Len(ActiveData)) :
          /\ InHand(chunk, free) /\ chunk.data = ActiveData \o Taken(ring, n)
          /\ ring' = Rest(ring, n)
          /\ IF Rotates(chunk, n) THEN Ship(chunk, free)
             ELSE active' = chunk /\ UNCHANGED <<inFlight, port>>
  BY <1>1
<1>3. /\ WholeGroups(chunk.data) /\ WholeGroups(ring')
      /\ chunk.data \in Seq(Records) /\ Len(chunk.data) \in 0..ChunkRecords
  BY <1>2, TurnFills
<1>4. Len(chunk.data) = 0 => chunk.data = <<>>
  BY <1>3, EmptySeq
<1>5. CASE Rotates(chunk, n)
  <2>1. Ship(chunk, free)
    BY <1>2, <1>5
  <2>2. Len(chunk.data) \in 1..ChunkRecords
    <3>1. Len(chunk.data) # 0
      BY <1>3, <1>5, EmptySeq DEF Rotates
    <3>2. QED
      BY <1>3, <3>1, TransportAssumption
  <2>3. AllPosted'
    BY <1>2, <1>3, <2>1, <2>2, NextChunk
  <2>4. QED
    BY <1>3, <2>1, <2>3, EmptiesActive, EmptyFits DEF Filling
<1>6. CASE ~Rotates(chunk, n)
  <2>1. active' = chunk /\ UNCHANGED <<toMain, sequence>>
    BY <1>2, <1>6 DEF port
  <2>2. Len(chunk.data) < ChunkRecords
    BY <1>3, <1>4, <1>6, TransportAssumption DEF Rotates
  <2>3. chunk # None
    BY <1>2, NoneAssumption DEF InHand, Chunk
  <2>4. ActiveData' = chunk.data
    BY <2>1, <2>3 DEF ActiveData
  <2>5. QED
    BY <1>3, <2>1, <2>2, <2>4, SamePort DEF Filling
<1>7. QED
  BY <1>5, <1>6

LEMMA FinishPartialChunks ==
    ASSUME Inv, Mail, AllPosted, Filling, FinishPartial
    PROVE  AllPosted' /\ Filling'
<1>1. InHand(active, available) /\ Ship(active, available) /\ active.data = ActiveData
  BY PartialInHand
<1>2. active.data \in Seq(Records) /\ active.data # <<>>
  BY <1>1 DEF InHand, Chunk, FinishPartial
<1>3. Len(active.data) \in 1..ChunkRecords
  <2>1. Len(active.data) \in Nat /\ Len(active.data) # 0
    BY <1>2, EmptySeq, LenProperties
  <2>2. QED
    BY <1>1, <2>1, TransportAssumption DEF Filling
<1>4. AllPosted'
  BY <1>1, <1>3, NextChunk DEF Filling
<1>5. ring' = ring
  BY DEF FinishPartial, producer
<1>6. QED
  BY <1>1, <1>4, <1>5, EmptiesActive, EmptyFits DEF Filling

LEMMA CallbackChunks ==
    ASSUME Inv, AllPosted, Filling, Callback
    PROVE  AllPosted' /\ Filling'
<1>1. UNCHANGED <<toMain, sequence, active>>
  BY DEF Callback, EmitRecorded, EmitDropped, StartDrain, producer, pool, port
<1>2. WholeGroups(ring')
  <2>1. ASSUME NEW g \in Groups, EmitRecorded(g) PROVE WholeGroups(ring')
    <3>1. ring \in Seq(Records) /\ g \in Seq(Records) /\ WholeGroups(ring) /\ WholeGroups(g)
      BY TransportAssumption, GroupsAreWhole DEF Inv, TypeOK, Filling
    <3>2. WholeGroups(ring \o g)
      BY <3>1, WholeConcat
    <3>3. QED
      BY <2>1, <3>2 DEF EmitRecorded
  <2>2. CASE ring' = ring
    BY <2>2 DEF Filling
  <2>3. QED
    BY <2>1, <2>2 DEF Callback, EmitDropped, StartDrain, producer
<1>3. ActiveData' = ActiveData
  BY <1>1 DEF ActiveData
<1>4. QED
  BY <1>1, <1>2, <1>3, SamePort DEF Filling

LEMMA QuietChunks ==
    ASSUME AllPosted, Filling, UNCHANGED <<toMain, sequence, ring>>,
           ActiveData' = ActiveData \/ ActiveData' = <<>>
    PROVE  AllPosted' /\ Filling'
  BY SamePort, EmptyFits DEF Filling

LEMMA StepChunks == Inv /\ Mail /\ AllPosted /\ Filling /\ [Next]_vars => AllPosted' /\ Filling'
<1> SUFFICES ASSUME Inv, Mail, AllPosted, Filling, [Next]_vars PROVE AllPosted' /\ Filling'
  OBVIOUS
<1> USE DEF producer, pool, port
<1>1. CASE UNCHANGED vars \/ DrainStarved \/ DrainDone
  <2>1. UNCHANGED <<toMain, sequence, ring, active>>
    BY <1>1 DEF vars, worklet, DrainStarved, DrainDone
  <2>2. QED
    BY <2>1, QuietChunks DEF ActiveData
<1>2. CASE FinishReport \/ Abort
  <2>1. UNCHANGED <<sequence, ring, active>>
    BY <1>2 DEF FinishReport, Abort
  <2>2. PICK m \in MainMessages : m.type # "trace-chunk" /\ toMain' = Append(toMain, m)
    <3>1. CASE FinishReport
      <4>1. toMain' = Append(toMain, StopMessage) /\ StopMessage.type # "trace-chunk"
        BY <3>1 DEF FinishReport, StopMessage
      <4>2. StopMessage \in MainMessages
        BY StopMessageType DEF Inv, MainMessages
      <4>3. QED
        BY <4>1, <4>2
    <3>2. CASE Abort
      BY <3>2 DEF Abort, MainMessages
    <3>3. QED
      BY <1>2, <3>1, <3>2
  <2>3. AllPosted'
    BY <2>1, <2>2, QuietMessage
  <2>4. QED
    BY <2>1, <2>3 DEF Filling, ActiveData
<1>3. CASE RecycleRefused \/ Stop \/ StopIgnored \/ AbortIgnored
  <2>1. UNCHANGED <<toMain, sequence, ring, active>>
    BY <1>3 DEF RecycleRefused, Stop, StopIgnored, AbortIgnored
  <2>2. QED
    BY <2>1, QuietChunks DEF ActiveData
<1>4. CASE RecycleAccepted
  <2>1. UNCHANGED <<toMain, sequence, ring>>
    BY <1>4 DEF RecycleAccepted
  <2>2. active' = active \/ \E token : active' = Empty(token)
    BY <1>4 DEF RecycleAccepted
  <2>3. QED
    BY <2>1, <2>2, QuietChunks DEF ActiveData, Empty
<1>5. CASE Page
  <2>1. UNCHANGED <<sequence, ring, active>> /\ (toMain' = toMain \/ (toMain # <<>> /\ toMain' = Tail(toMain)))
    BY <1>5 DEF Page, Take, Stray, Command, GiveBack, Post
  <2>2. AllPosted'
    BY <2>1, SamePort, MovedUp
  <2>3. QED
    BY <2>1, <2>2 DEF Filling, ActiveData
<1>6. QED
  BY <1>1, <1>2, <1>3, <1>4, <1>5, CallbackChunks, DrainTurnChunks, FinishPartialChunks
     DEF Next, Loop, Handler

LEMMA InitChunks == Init => AllPosted /\ Filling
<1> SUFFICES ASSUME Init PROVE AllPosted /\ Filling
  OBVIOUS
<1>1. toMain = <<>> /\ ring = <<>> /\ active = Empty(PoolSize - 1)
  BY DEF Init, WorkletInit
<1>2. Chunks = {}
  BY <1>1 DEF Chunks
<1>3. ActiveData = <<>>
  BY <1>1 DEF ActiveData, Empty
<1>4. QED
  BY <1>1, <1>2, <1>3, EmptyFits DEF AllPosted, Filling

\* A chunk is never empty, larger than its buffer or cut inside a group, and no
\* number is skipped or used twice, for every ring, chunk and pool size, every
\* set of groups and wherever a rotation or a stop falls.
THEOREM ChunksAreWellFormed == Spec => []ChunksWellFormed
<1>1. AllPosted /\ Filling => ChunksWellFormed
  BY DEF AllPosted, WellPosted, Later, Filling, ChunksWellFormed
<1>2. QED
  BY <1>1, InvAlways, AwayAlways, InitChunks, StepChunks, PTL DEF Spec
=============================================================================
