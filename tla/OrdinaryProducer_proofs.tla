----------------------- MODULE OrdinaryProducer_proofs -----------------------
(***************************************************************************)
(* For every batch capacity, every set of calls and every order of calls,  *)
(* drains and switches: the batches stay within their capacity,            *)
(* rotate_active finds its spare vector, and what was reported Recorded is *)
(* what the page has taken and will take, in order.                        *)
(***************************************************************************)
EXTENDS OrdinaryProducer, SequenceTheorems, FiniteSetTheorems, TLAPS

AllCalls == Spans \union Singles \union {SpanEnd}

\* What the argument needs beside the properties: the batches hold records, a
\* track has no more guards than there were calls.
Shape ==
    /\ active \in Seq(Records) /\ taken \in Seq(Records) /\ accepted \in Seq(Records)
    /\ ready = None \/ ready \in Seq(Records)
    /\ emitted \in Nat /\ highWater \in Nat
    /\ \A t \in Tracks : guards[t] <= calls

\* The inductive invariant.  A rotation keeps every record only because the
\* ready batch is empty then, and it has a vector to rotate to only because
\* exactly one of ready and spare has it.
Inv == Shape /\ TypeOK /\ SpareInvariant /\ RecordedIsKept

-----------------------------------------------------------------------------
\* A call makes its header and one record for each field.
LEMMA GroupShape ==
    ASSUME NEW call \in AllCalls, NEW t \in Tracks
    PROVE  Group(call, t) \in Seq(Records) /\ Len(Group(call, t)) = 1 + call.fields
                /\ call.fields \in Nat
<1> DEFINE g == Group(call, t)
           n == 1 + call.fields
<1>1. call.fields \in Nat
  <2>1. \A c \in Spans \union Singles : c.fields \in Nat
    BY ProducerAssumption
  <2>2. SpanEnd.fields \in Nat
    BY DEF SpanEnd
  <2>3. QED
    BY <2>1, <2>2 DEF AllCalls
<1>2. DOMAIN g = 1..n /\ g = [k \in 1..n |-> g[k]]
  BY DEF Group
<1>3. \A k \in 1..n : g[k] \in Records
  <2>1. Range(g) \subseteq Records
    BY DEF Records, AllCalls
  <2>2. QED
    BY <1>2, <2>1 DEF Range
<1>4. g \in Seq(Records)
  BY <1>1, <1>2, <1>3, IsASeq
<1>5. Len(g) = n
  BY <1>1, <1>2, <1>4, LenProperties
<1>6. QED
  BY <1>1, <1>4, <1>5

LEMMA InitInv == Init => Inv
<1> SUFFICES ASSUME Init PROVE Inv
  OBVIOUS
<1> USE ProducerAssumption, NoneAssumption DEF Init
<1>1. active = <<>> /\ taken = <<>> /\ accepted = <<>> /\ Ready = <<>>
  BY DEF Ready
<1>2. <<>> \in Seq(Records) /\ Len(<<>>) = 0
  BY EmptySeq
<1>3. Shape
  BY <1>1, <1>2 DEF Shape
<1>4. TypeOK
  BY <1>1, <1>2 DEF TypeOK
<1>5. SpareInvariant
  BY DEF SpareInvariant
<1>6. RecordedIsKept
  BY <1>1, <1>2, ConcatEmptySeq DEF RecordedIsKept, Held
<1>7. QED
  BY <1>3, <1>4, <1>5, <1>6 DEF Inv

-----------------------------------------------------------------------------
\* What is said of the batches alone.
Batches ==
    /\ active \in Seq(Records) /\ taken \in Seq(Records) /\ accepted \in Seq(Records)
    /\ ready = None \/ ready \in Seq(Records)
    /\ emitted \in Nat /\ highWater \in Nat
    /\ spare \in BOOLEAN
    /\ Len(active) <= Capacity /\ highWater <= Capacity
    /\ ready = None \/ Len(ready) \in 1..Capacity
    /\ SpareInvariant /\ RecordedIsKept

LEMMA RecordedBatches ==
    ASSUME Inv, NEW call \in AllCalls, NEW t \in Tracks,
           EmitRecorded(call, t), taken' = taken
    PROVE  Batches'
<1> DEFINE g == Group(call, t)
<1>1. g \in Seq(Records) /\ Len(g) = 1 + call.fields /\ call.fields \in Nat
  BY GroupShape
<1>2. /\ active \in Seq(Records) /\ taken \in Seq(Records) /\ accepted \in Seq(Records)
      /\ ready = None \/ ready \in Seq(Records)
      /\ emitted \in Nat /\ highWater \in Nat /\ spare \in BOOLEAN
      /\ Len(active) <= Capacity /\ highWater <= Capacity
      /\ ready = None \/ Len(ready) \in 1..Capacity
      /\ Capacity \in Nat \ {0} /\ Len(active) \in Nat
  BY ProducerAssumption, LenProperties DEF Inv, Shape, TypeOK
<1>3. ~Refused(Len(g)) /\ Push(g) /\ accepted' = accepted \o g
  BY <1>1 DEF EmitRecorded
<1>4. /\ accepted' \in Seq(Records)
      /\ emitted' = Len(accepted') /\ emitted' \in Nat
  <2>1. emitted' = emitted + Len(g) /\ emitted = Len(accepted)
    BY <1>3 DEF Push, Inv, RecordedIsKept
  <2>2. accepted \o g \in Seq(Records) /\ Len(accepted \o g) = Len(accepted) + Len(g)
    BY <1>1, <1>2, ConcatProperties
  <2>3. QED
    BY <1>1, <1>2, <1>3, <2>1, <2>2
<1>5. Ready \in Seq(Records)
  BY <1>2, EmptySeq DEF Ready
<1>6. accepted = (taken \o Ready) \o active
  BY DEF Inv, RecordedIsKept, Held
<1>7. CASE ~MustRotate(Len(g))
  <2>1. active' = active \o g /\ ready' = ready /\ spare' = spare
    BY <1>2, <1>3, <1>7 DEF Push
  <2>2. Len(active) + Len(g) <= Capacity
    BY <1>1, <1>2, <1>3, <1>7 DEF Refused, MustRotate, FitsActive
  <2>3. active' \in Seq(Records) /\ Len(active') = Len(active) + Len(g)
    BY <1>1, <1>2, <2>1, ConcatProperties
  <2>4. highWater' \in Nat /\ highWater' <= Capacity
    <3>1. highWater' = Larger(highWater, Len(active'))
      BY <1>3 DEF Push
    <3>2. QED
      BY <1>1, <1>2, <2>2, <2>3, <3>1 DEF Larger
  <2>5. (taken \o Ready) \o (active \o g) = accepted'
    <3>1. taken \o Ready \in Seq(Records)
      BY <1>2, <1>5, ConcatProperties
    <3>2. \A a, b, c \in Seq(Records) : (a \o b) \o c = a \o (b \o c)
      BY ConcatAssociative
    <3>3. ((taken \o Ready) \o active) \o g = (taken \o Ready) \o (active \o g)
      BY <1>1, <1>2, <3>1, <3>2, ZenonT(40)
    <3>4. QED
      BY <1>3, <1>6, <3>3
  <2>6. Held' = accepted'
    BY <2>1, <2>5 DEF Held, Ready
  <2>7. SpareInvariant'
    BY <2>1 DEF Inv, SpareInvariant
  <2>8. QED
    BY <1>2, <1>4, <2>1, <2>2, <2>3, <2>4, <2>6, <2>7 DEF Batches, RecordedIsKept
<1>8. CASE MustRotate(Len(g))
  <2>1. ready = None /\ Len(g) <= Capacity /\ Len(active) + Len(g) > Capacity
    BY <1>1, <1>2, <1>3, <1>8 DEF Refused, MustRotate, FitsActive
  <2>2. active' = <<>> \o g /\ ready' = active /\ spare' = FALSE
    BY <1>3, <1>8 DEF Push, Rotated
  <2>3. active' = g
    BY <1>1, <2>2, ConcatEmptySeq
  <2>4. ready' # None /\ Len(ready') \in 1..Capacity /\ ready' \in Seq(Records)
    BY <1>1, <1>2, <2>1, <2>2, NoneAssumption
  <2>5. highWater' \in Nat /\ highWater' <= Capacity
    <3>1. highWater' = Larger(highWater, Len(active'))
      BY <1>3 DEF Push
    <3>2. QED
      BY <1>1, <1>2, <2>1, <2>3, <3>1 DEF Larger
  <2>6. accepted = taken \o active
    BY <1>2, <1>6, <2>1, ConcatEmptySeq DEF Ready
  <2>7. Held' = (taken \o active) \o g
    BY <2>2, <2>3, <2>4 DEF Held, Ready
  <2>8. QED
    BY <1>1, <1>2, <1>3, <1>4, <2>1, <2>2, <2>3, <2>4, <2>5, <2>6, <2>7
       DEF Batches, RecordedIsKept, SpareInvariant
<1>9. QED
  BY <1>7, <1>8

\* Whatever is not recorded leaves the batches alone.
LEMMA NothingBatches ==
    ASSUME Inv, NEW call, EmitNothing(call), taken' = taken
    PROVE  Batches'
<1>1. UNCHANGED <<active, ready, spare, emitted, highWater, taken, accepted>>
  BY DEF EmitNothing, EmitUnclocked, EmitUnsupported, EmitDropped, pool
<1>2. QED
  BY <1>1 DEF Inv, Shape, TypeOK, Batches, SpareInvariant, RecordedIsKept, Held, Ready

LEMMA FlushBatches ==
    ASSUME Inv, Flush
    PROVE  Batches'
<1>1. /\ active' = <<>> /\ ready' = active /\ spare' = FALSE /\ ready = None
      /\ UNCHANGED <<emitted, highWater, taken, accepted>> /\ active # <<>>
  BY DEF Flush, Rotated, Page
<1>2. /\ active \in Seq(Records) /\ taken \in Seq(Records) /\ accepted \in Seq(Records)
      /\ Len(active) <= Capacity /\ Len(active) \in Nat /\ Len(active) # 0
      /\ Capacity \in Nat
  BY <1>1, ProducerAssumption, LenProperties, EmptySeq DEF Inv, Shape, TypeOK
<1>3. ready' # None /\ Len(ready') \in 1..Capacity
  BY <1>1, <1>2, NoneAssumption
<1>4. active' \in Seq(Records) /\ Len(active') = 0
  BY <1>1, EmptySeq
<1>5. accepted = taken \o active
  BY <1>1, <1>2, ConcatEmptySeq DEF Inv, RecordedIsKept, Held, Ready
<1>6. Held' = (taken \o active) \o <<>>
  BY <1>1, <1>3 DEF Held, Ready
<1>7. Held' = accepted'
  BY <1>1, <1>2, <1>5, <1>6, ConcatEmptySeq
<1>8. SpareInvariant' /\ RecordedIsKept'
  BY <1>1, <1>3, <1>7 DEF Inv, SpareInvariant, RecordedIsKept
<1>9. /\ active' \in Seq(Records) /\ taken' \in Seq(Records) /\ accepted' \in Seq(Records)
      /\ ready' \in Seq(Records) /\ emitted' \in Nat /\ highWater' \in Nat
      /\ Len(active') <= Capacity /\ highWater' <= Capacity
  BY <1>1, <1>2, <1>4 DEF Inv, Shape, TypeOK
<1>10. QED
  BY <1>1, <1>3, <1>8, <1>9 DEF Batches

LEMMA TakeBatches ==
    ASSUME Inv, TakeBatch
    PROVE  Batches'
<1>1. /\ ready # None /\ ready' = None /\ spare' = TRUE /\ taken' = taken \o ready
      /\ UNCHANGED <<active, emitted, highWater, accepted>>
  BY DEF TakeBatch, SpareAfterTake
<1>2. active \in Seq(Records) /\ taken \in Seq(Records) /\ ready \in Seq(Records)
  BY <1>1 DEF Inv, Shape
<1>3. taken' \in Seq(Records)
  BY <1>1, <1>2, ConcatProperties
<1>4. Held' = (taken' \o <<>>) \o active
  BY <1>1 DEF Held, Ready
<1>5. Held' = Held
  BY <1>1, <1>2, <1>3, <1>4, ConcatEmptySeq DEF Held, Ready
<1>6. QED
  BY <1>1, <1>2, <1>3, <1>5
     DEF Batches, Inv, Shape, TypeOK, SpareInvariant, RecordedIsKept

-----------------------------------------------------------------------------
\* What is said of the guards and the switch alone.
Realm ==
    /\ enabled \in BOOLEAN /\ calls \in 0..MaxCalls
    /\ guards \in [Tracks -> 0..MaxCalls]
    /\ \A t \in Tracks : guards[t] <= calls

LEMMA Parts == Inv <=> Batches /\ Realm
  BY DEF Inv, Shape, TypeOK, Batches, Realm

LEMMA PartsNext == Batches' /\ Realm' => Inv'
  BY DEF Inv, Shape, TypeOK, Batches, Realm

LEMMA OpenSpanInv ==
    ASSUME Inv, NEW t \in Tracks, NEW call \in Spans, OpenSpan(call, t)
    PROVE  Inv'
<1>1. call \in AllCalls /\ taken' = taken
  BY DEF AllCalls, OpenSpan, Page
<1>2. Batches'
  BY <1>1, RecordedBatches, NothingBatches DEF OpenSpan
<1>3. /\ enabled' = enabled /\ calls' = calls + 1 /\ calls < MaxCalls
      /\ guards' = [guards EXCEPT ![t] = guards[t] + 1] \/ guards' = guards
  BY Parts DEF OpenSpan, Called, GuardActive, Realm
<1>4. Realm'
  BY <1>3, Parts, ProducerAssumption, SMTT(30) DEF Realm
<1>5. QED
  BY <1>2, <1>4, PartsNext

LEMMA CloseSpanInv ==
    ASSUME Inv, NEW t \in Tracks, CloseSpan(t)
    PROVE  Inv'
<1>1. SpanEnd \in AllCalls /\ taken' = taken
  BY DEF AllCalls, CloseSpan, Page
<1>2. Batches'
  BY <1>1, RecordedBatches, NothingBatches DEF CloseSpan
<1>3. /\ enabled' = enabled /\ calls' = calls /\ guards[t] > 0
      /\ guards' = [guards EXCEPT ![t] = guards[t] - 1]
  BY DEF CloseSpan
<1>4. Realm'
  BY <1>3, Parts, ProducerAssumption DEF Realm
<1>5. QED
  BY <1>2, <1>4, PartsNext

LEMMA EmitSingleInv ==
    ASSUME Inv, NEW t \in Tracks, NEW call \in Singles, EmitSingle(call, t)
    PROVE  Inv'
<1>1. call \in AllCalls /\ taken' = taken
  BY DEF AllCalls, EmitSingle, Page
<1>2. Batches'
  BY <1>1, RecordedBatches, NothingBatches DEF EmitSingle
<1>3. enabled' = enabled /\ calls' = calls + 1 /\ calls < MaxCalls /\ guards' = guards
  BY DEF EmitSingle, Called
<1>4. Realm'
  BY <1>3, Parts, ProducerAssumption DEF Realm
<1>5. QED
  BY <1>2, <1>4, PartsNext

\* The switch, the metadata and a stutter.
LEMMA QuietInv ==
    ASSUME Inv,
           \/ \E value \in BOOLEAN : SetEnabled(value)
           \/ TakeMetadata
           \/ UNCHANGED vars
    PROVE  Inv'
<1>1. /\ UNCHANGED <<active, ready, spare, emitted, highWater, taken, accepted>>
      /\ UNCHANGED <<guards, calls>> /\ enabled' \in BOOLEAN
  BY DEF SetEnabled, TakeMetadata, vars, pool, Page, Inv, TypeOK
<1>2. Batches'
  BY <1>1, Parts DEF Batches, SpareInvariant, RecordedIsKept, Held, Ready
<1>3. Realm'
  BY <1>1, Parts DEF Realm
<1>4. QED
  BY <1>2, <1>3, PartsNext

LEMMA StepInv == Inv /\ [Next]_vars => Inv'
<1> SUFFICES ASSUME Inv, [Next]_vars PROVE Inv'
  OBVIOUS
<1>1. ASSUME NEW t \in Tracks, NEW call \in Spans, OpenSpan(call, t) PROVE Inv'
  BY <1>1, OpenSpanInv
<1>2. ASSUME NEW t \in Tracks, NEW call \in Singles, EmitSingle(call, t) PROVE Inv'
  BY <1>2, EmitSingleInv
<1>3. ASSUME NEW t \in Tracks, CloseSpan(t) PROVE Inv'
  BY <1>3, CloseSpanInv
<1>4. CASE Flush
  <2>1. Realm'
    BY <1>4, Parts DEF Flush, Realm
  <2>2. QED
    BY <1>4, <2>1, FlushBatches, PartsNext
<1>5. CASE TakeBatch
  <2>1. Realm'
    BY <1>5, Parts DEF TakeBatch, Realm
  <2>2. QED
    BY <1>5, <2>1, TakeBatches, PartsNext
<1>6. CASE (\E value \in BOOLEAN : SetEnabled(value)) \/ TakeMetadata \/ UNCHANGED vars
  BY <1>6, QuietInv
<1>7. QED
  BY <1>1, <1>2, <1>3, <1>4, <1>5, <1>6 DEF Next

LEMMA InvAlways == Spec => []Inv
<1>1. Init => Inv
  BY InitInv
<1>2. Inv /\ [Next]_vars => Inv'
  BY StepInv
<1>3. QED
  BY <1>1, <1>2, PTL DEF Spec

\* Neither batch ever grows beyond capacity_records, and a batch that is ready
\* has records in it.
THEOREM ProducerTypes == Spec => []TypeOK
<1>1. Inv => TypeOK
  BY DEF Inv
<1>2. QED
  BY <1>1, InvAlways, PTL

\* rotate_active's "batch pool spare invariant": its expect() never panics.
THEOREM SpareIsThere == Spec => []SpareInvariant
<1>1. Inv => SpareInvariant
  BY DEF Inv
<1>2. QED
  BY <1>1, InvAlways, PTL

\* Nothing that was reported Recorded is lost, repeated or reordered.
THEOREM NothingRecordedIsLost == Spec => []RecordedIsKept
<1>1. Inv => RecordedIsKept
  BY DEF Inv
<1>2. QED
  BY <1>1, InvAlways, PTL

-----------------------------------------------------------------------------
\* The ids that the page has or can still take.
Known == DOMAIN metadata \union {d[1] : d \in takenMetadata}

Covered == \A k \in DOMAIN accepted : accepted[k].data.ids \subseteq Known

\* prepare_metadata never forgets a definition, and a call without a conflict
\* registers all it uses.
LEMMA PreparedKeeps ==
    ASSUME NEW call, NEW count, metadata' = Prepared(call, count), takenMetadata' = takenMetadata
    PROVE  Known \subseteq Known'
  BY DEF Known, Prepared

LEMMA UsesShape ==
    ASSUME NEW call \in AllCalls
    PROVE  DOMAIN call.uses = 1..Len(call.uses)
<1>1. CASE call \in Spans \union Singles
  <2>1. call.uses \in Seq(Range(call.uses))
    BY <1>1, ProducerAssumption
  <2>2. QED
    BY <2>1, LenProperties
<1>2. CASE call = SpanEnd
  <2>1. \A r : DOMAIN <<r>> = 1..1 /\ Len(<<r>>) = 1
    OBVIOUS
  <2>2. SpanEnd.uses = <<[id |-> "span end", label |-> "span end"]>>
    BY DEF SpanEnd
  <2>3. QED
    BY <1>2, <2>1, <2>2
<1>3. QED
  BY <1>1, <1>2 DEF AllCalls

LEMMA RecordedRegisters ==
    ASSUME NEW call \in AllCalls, NEW t \in Tracks, EmitRecorded(call, t)
    PROVE  {u.id : u \in Range(call.uses)} \subseteq DOMAIN metadata'
<1>1. metadata' = Prepared(call, Len(call.uses))
  BY DEF EmitRecorded, Registers
<1>2. DOMAIN metadata' = DOMAIN metadata \union {call.uses[k].id : k \in 1..Len(call.uses)}
  BY <1>1 DEF Prepared
<1>3. QED
  BY <1>2, UsesShape DEF Range

\* The records of a call follow those accepted before.
LEMMA RecordedAt ==
    ASSUME Inv, NEW call \in AllCalls, NEW t \in Tracks, EmitRecorded(call, t)
    PROVE  /\ Len(accepted) \in Nat /\ DOMAIN accepted = 1..Len(accepted)
           /\ DOMAIN accepted' = 1..Len(accepted) + 1 + call.fields
           /\ \A k \in 1..Len(accepted) : accepted'[k] = accepted[k]
           /\ \A k \in Len(accepted) + 1..Len(accepted) + 1 + call.fields :
                accepted'[k] = Group(call, t)[k - Len(accepted)]
<1> DEFINE g == Group(call, t)
<1>1. accepted \in Seq(Records) /\ accepted' = accepted \o g
  BY DEF Inv, Shape, EmitRecorded
<1>2. g \in Seq(Records) /\ Len(g) = 1 + call.fields /\ call.fields \in Nat
  BY GroupShape
<1> HIDE DEF g
<1>3. /\ accepted \o g \in Seq(Records) /\ Len(accepted \o g) = Len(accepted) + Len(g)
      /\ \A k \in 1..Len(accepted) + Len(g) :
           (accepted \o g)[k] = IF k <= Len(accepted) THEN accepted[k] ELSE g[k - Len(accepted)]
  BY <1>1, <1>2, ConcatProperties
<1>4. Len(accepted) \in Nat /\ DOMAIN accepted = 1..Len(accepted)
      /\ DOMAIN (accepted \o g) = 1..Len(accepted \o g)
  BY <1>1, <1>3, LenProperties
<1>5. Len(accepted) + Len(g) = Len(accepted) + 1 + call.fields
  BY <1>2, <1>4
<1>6. \A k \in 1..Len(accepted) : accepted'[k] = accepted[k]
  BY <1>1, <1>2, <1>3, <1>4
<1>7. \A k \in Len(accepted) + 1..Len(accepted) + 1 + call.fields :
        accepted'[k] = g[k - Len(accepted)]
  BY <1>1, <1>2, <1>3, <1>4
<1>8. QED
  BY <1>1, <1>3, <1>4, <1>5, <1>6, <1>7 DEF g

LEMMA RecordedCovered ==
    ASSUME Inv, Covered, NEW call \in AllCalls, NEW t \in Tracks, EmitRecorded(call, t),
           takenMetadata' = takenMetadata
    PROVE  Covered'
<1>1. Known \subseteq Known'
  BY PreparedKeeps DEF EmitRecorded
<1>2. {u.id : u \in Range(call.uses)} \subseteq Known'
  BY RecordedRegisters DEF Known
<1>3. \A j \in 1..1 + call.fields : Group(call, t)[j].data.ids = {u.id : u \in Range(call.uses)}
  BY DEF Group
<1>4. ASSUME NEW k \in DOMAIN accepted' PROVE accepted'[k].data.ids \subseteq Known'
  <2>1. CASE k \in 1..Len(accepted)
    BY <1>1, <2>1, RecordedAt DEF Covered
  <2>2. CASE k \notin 1..Len(accepted)
    <3>1. /\ k \in Len(accepted) + 1..Len(accepted) + 1 + call.fields
          /\ k - Len(accepted) \in 1..1 + call.fields
      BY <1>4, <2>2, RecordedAt, GroupShape
    <3>2. accepted'[k] = Group(call, t)[k - Len(accepted)]
      BY <3>1, RecordedAt
    <3>3. QED
      BY <1>2, <1>3, <3>1, <3>2
  <2>3. QED
    BY <2>1, <2>2
<1>5. QED
  BY <1>4 DEF Covered

\* Whatever is not recorded may register definitions and forgets none.
LEMMA NothingCovered ==
    ASSUME Covered, NEW call, EmitNothing(call), takenMetadata' = takenMetadata
    PROVE  Covered'
<1>1. Known \subseteq Known'
  BY PreparedKeeps DEF EmitNothing, EmitUnclocked, EmitUnsupported, EmitDropped
<1>2. accepted' = accepted
  BY DEF EmitNothing, EmitUnclocked, EmitUnsupported, EmitDropped
<1>3. QED
  BY <1>1, <1>2 DEF Covered

LEMMA StepCovered == Inv /\ Covered /\ [Next]_vars => Covered'
<1> SUFFICES ASSUME Inv, Covered, [Next]_vars PROVE Covered'
  OBVIOUS
<1>1. ASSUME NEW t \in Tracks, NEW call \in Spans, OpenSpan(call, t) PROVE Covered'
  BY <1>1, RecordedCovered, NothingCovered DEF OpenSpan, AllCalls, Page
<1>2. ASSUME NEW t \in Tracks, NEW call \in Singles, EmitSingle(call, t) PROVE Covered'
  BY <1>2, RecordedCovered, NothingCovered DEF EmitSingle, AllCalls, Page
<1>3. ASSUME NEW t \in Tracks, CloseSpan(t) PROVE Covered'
  BY <1>3, RecordedCovered, NothingCovered DEF CloseSpan, AllCalls, Page
<1>4. CASE TakeMetadata
  <2>1. \A id \in DOMAIN metadata : id \in Known'
    <3>1. SUFFICES ASSUME NEW id \in DOMAIN metadata PROVE id \in Known'
      OBVIOUS
    <3>2. <<id, metadata[id]>> \in takenMetadata' /\ <<id, metadata[id]>>[1] = id
      BY <1>4 DEF TakeMetadata
    <3>3. QED
      BY <3>2 DEF Known
  <2>2. takenMetadata \subseteq takenMetadata' /\ accepted' = accepted
    BY <1>4 DEF TakeMetadata
  <2>3. Known \subseteq Known'
    BY <2>1, <2>2 DEF Known
  <2>4. QED
    BY <2>2, <2>3 DEF Covered
<1>5. CASE (\E value \in BOOLEAN : SetEnabled(value)) \/ Flush \/ TakeBatch \/ UNCHANGED vars
  BY <1>5 DEF SetEnabled, Flush, TakeBatch, vars, Page, Covered, Known
<1>6. QED
  BY <1>1, <1>2, <1>3, <1>4, <1>5 DEF Next

\* Every definition that a record of any batch needs is with the page or still
\* to be taken, for all calls and whatever the order in which the page takes.
THEOREM DefinitionsFollowRecords == Spec => []MetadataCovers
<1>1. Init => Covered
  BY DEF Init, Covered
<1>2. Inv /\ Covered => MetadataCovers
  BY DEF Inv, RecordedIsKept, Covered, MetadataCovers, Known
<1>3. QED
  BY <1>1, <1>2, StepCovered, InvAlways, PTL DEF Spec

-----------------------------------------------------------------------------
\* The headers of a kind on a track.
Headers(kind, t) ==
    {k \in DOMAIN accepted : accepted[k].data.kind = kind /\ accepted[k].data.track = t}

Accounts ==
    /\ lostEnds \in [Tracks -> Nat]
    /\ \A t \in Tracks : IsFiniteSet(Headers("begin", t)) /\ IsFiniteSet(Headers("end", t))
    /\ SpansAccounted

\* A recorded call adds its header and nothing else.
LEMMA HeaderAdded ==
    ASSUME Inv, NEW call \in AllCalls, NEW t \in Tracks, EmitRecorded(call, t),
           NEW u \in Tracks, NEW kind \in {"begin", "end"}, IsFiniteSet(Headers(kind, u))
    PROVE  /\ IsFiniteSet(Headers(kind, u)')
           /\ Recorded(kind, u)' =
                IF call.kind = kind /\ t = u THEN Recorded(kind, u) + 1 ELSE Recorded(kind, u)
<1> DEFINE n == Len(accepted)
<1>1. /\ n \in Nat /\ DOMAIN accepted = 1..n /\ call.fields \in Nat
      /\ DOMAIN accepted' = 1..n + 1 + call.fields
      /\ \A k \in 1..n : accepted'[k] = accepted[k]
  BY RecordedAt, GroupShape
<1>2. ASSUME NEW k \in n + 1..n + 1 + call.fields
      PROVE  /\ accepted'[k].data.kind = IF k = n + 1 THEN call.kind ELSE "field"
             /\ accepted'[k].data.track = t
  <2>1. accepted'[k] = Group(call, t)[k - n] /\ k - n \in 1..1 + call.fields
        /\ (k - n = 1 <=> k = n + 1)
    BY <1>1, RecordedAt
  <2>2. QED
    BY <2>1 DEF Group
<1> DEFINE H == Headers(kind, u)
           I == {k \in DOMAIN accepted' :
                   accepted'[k].data.kind = kind /\ accepted'[k].data.track = u}
<1>3. Headers(kind, u)' = I /\ Recorded(kind, u)' = Cardinality(I) /\ Recorded(kind, u) = Cardinality(H)
  BY DEF Headers, Recorded
<1>4. I = IF call.kind = kind /\ t = u THEN H \union {n + 1} ELSE H
  <2>1. \A k \in 1..n : k \in I <=> k \in H
    BY <1>1 DEF Headers
  <2>2. \A k \in n + 1..n + 1 + call.fields :
          k \in I <=> k = n + 1 /\ call.kind = kind /\ t = u
    BY <1>1, <1>2
  <2>3. \A k \in I \union H : k \in 1..n \/ k \in n + 1..n + 1 + call.fields
    BY <1>1 DEF Headers
  <2>4. H \subseteq 1..n /\ n + 1 \in n + 1..n + 1 + call.fields
    BY <1>1 DEF Headers
  <2>5. QED
    BY <1>1, <2>1, <2>2, <2>3, <2>4
<1>5. n + 1 \notin H
  BY <1>1 DEF Headers
<1> HIDE DEF H, I, n
<1>6. IsFiniteSet(H)
  BY DEF H
<1>7. IsFiniteSet(H \union {n + 1}) /\ Cardinality(H \union {n + 1}) = Cardinality(H) + 1
  BY <1>5, <1>6, FS_AddElement
<1>8. QED
  BY <1>3, <1>4, <1>6, <1>7

LEMMA Counts ==
    ASSUME Accounts, NEW t \in Tracks
    PROVE  Recorded("begin", t) \in Nat /\ Recorded("end", t) \in Nat
  BY FS_CardinalityType DEF Accounts, Headers, Recorded

\* The accounts depend on these three variables alone.
LEMMA SameAccounts ==
    ASSUME Accounts, UNCHANGED <<accepted, guards, lostEnds>>
    PROVE  Accounts'
  BY DEF Accounts, SpansAccounted, Headers, Recorded

LEMMA EmitNothingAccepts ==
    ASSUME NEW call, EmitNothing(call)
    PROVE  accepted' = accepted
  BY DEF EmitNothing, EmitUnclocked, EmitUnsupported, EmitDropped

\* A recorded call that is no end books one begin more if it is a begin.
LEMMA OpenSpanAccounts ==
    ASSUME Inv, Accounts, NEW t \in Tracks, NEW call \in Spans, OpenSpan(call, t)
    PROVE  Accounts'
<1>1. call \in AllCalls /\ call.kind = "begin" /\ lostEnds' = lostEnds
      /\ guards \in [Tracks -> 0..MaxCalls]
  BY ProducerAssumption DEF AllCalls, OpenSpan, Inv, TypeOK
<1>2. CASE EmitRecorded(call, t) /\ guards' = [guards EXCEPT ![t] = guards[t] + 1]
  <2>1. ASSUME NEW u \in Tracks
        PROVE  /\ IsFiniteSet(Headers("begin", u)') /\ IsFiniteSet(Headers("end", u)')
               /\ Recorded("end", u)' = Recorded("end", u)
               /\ Recorded("begin", u)' =
                    IF t = u THEN Recorded("begin", u) + 1 ELSE Recorded("begin", u)
    BY <1>1, <1>2, HeaderAdded DEF Accounts
  <2>2. ASSUME NEW u \in Tracks
        PROVE  Recorded("begin", u)' = Recorded("end", u)' + guards'[u] + lostEnds'[u]
    <3>1. guards'[u] = (IF t = u THEN guards[u] + 1 ELSE guards[u]) /\ guards[u] \in Nat
          /\ lostEnds[u] \in Nat
      BY <1>1, <1>2, ProducerAssumption DEF Accounts
    <3>2. Recorded("begin", u) = Recorded("end", u) + guards[u] + lostEnds[u]
      BY DEF Accounts, SpansAccounted
    <3>3. QED
      BY <1>1, <2>1, <3>1, <3>2, Counts
  <2>3. SpansAccounted'
    BY <2>2 DEF SpansAccounted
  <2>4. QED
    BY <1>1, <2>1, <2>3 DEF Accounts
<1>3. CASE EmitNothing(call) /\ guards' = guards
  BY <1>1, <1>3, EmitNothingAccepts, SameAccounts
<1>4. \/ EmitRecorded(call, t) /\ guards' = [guards EXCEPT ![t] = guards[t] + 1]
      \/ EmitNothing(call) /\ guards' = [guards EXCEPT ![t] = guards[t]]
  BY DEF OpenSpan, GuardActive
<1>5. [guards EXCEPT ![t] = guards[t]] = guards
  BY <1>1
<1>6. QED
  BY <1>2, <1>3, <1>4, <1>5

\* A guard that is dropped books its end, as recorded or as lost.
LEMMA CloseSpanAccounts ==
    ASSUME Inv, Accounts, NEW t \in Tracks, CloseSpan(t)
    PROVE  Accounts'
<1>1. /\ SpanEnd \in AllCalls /\ SpanEnd.kind = "end"
      /\ guards \in [Tracks -> 0..MaxCalls] /\ lostEnds \in [Tracks -> Nat]
      /\ guards[t] > 0 /\ guards' = [guards EXCEPT ![t] = guards[t] - 1]
  BY DEF AllCalls, SpanEnd, CloseSpan, Inv, TypeOK, Accounts
<1>2. \A u \in Tracks : /\ guards'[u] = IF t = u THEN guards[u] - 1 ELSE guards[u]
                        /\ guards[u] \in Nat /\ lostEnds[u] \in Nat
                        /\ Recorded("begin", u) = Recorded("end", u) + guards[u] + lostEnds[u]
  BY <1>1, ProducerAssumption DEF Accounts, SpansAccounted
<1>3. CASE EmitRecorded(SpanEnd, t) /\ lostEnds' = lostEnds
  <2>1. ASSUME NEW u \in Tracks
        PROVE  /\ IsFiniteSet(Headers("begin", u)') /\ IsFiniteSet(Headers("end", u)')
               /\ Recorded("begin", u)' = Recorded("begin", u)
               /\ Recorded("end", u)' =
                    IF t = u THEN Recorded("end", u) + 1 ELSE Recorded("end", u)
    BY <1>1, <1>3, HeaderAdded DEF Accounts
  <2>2. ASSUME NEW u \in Tracks
        PROVE  Recorded("begin", u)' = Recorded("end", u)' + guards'[u] + lostEnds'[u]
    BY <1>1, <1>2, <1>3, <2>1, Counts
  <2>3. SpansAccounted'
    BY <2>2 DEF SpansAccounted
  <2>4. QED
    BY <1>1, <1>3, <2>1, <2>3 DEF Accounts
<1>4. CASE EmitNothing(SpanEnd) /\ lostEnds' = [lostEnds EXCEPT ![t] = lostEnds[t] + 1]
  <2>1. accepted' = accepted
    BY <1>4, EmitNothingAccepts
  <2>2. \A u \in Tracks, kind \in {"begin", "end"} :
          Headers(kind, u)' = Headers(kind, u) /\ Recorded(kind, u)' = Recorded(kind, u)
    BY <2>1 DEF Headers, Recorded
  <2>3. \A u \in Tracks : lostEnds'[u] = IF t = u THEN lostEnds[u] + 1 ELSE lostEnds[u]
    BY <1>1, <1>4
  <2>4. ASSUME NEW u \in Tracks
        PROVE  Recorded("begin", u)' = Recorded("end", u)' + guards'[u] + lostEnds'[u]
    <3>1. Recorded("begin", u)' = Recorded("begin", u) /\ Recorded("end", u)' = Recorded("end", u)
      BY <2>2
    <3>2. guards'[u] + lostEnds'[u] = guards[u] + lostEnds[u]
      BY <1>1, <1>2, <2>3
    <3>3. guards'[u] \in Int /\ lostEnds'[u] \in Nat
      BY <1>1, <1>2, <2>3
    <3>4. QED
      BY <1>2, <3>1, <3>2, <3>3, Counts
  <2>5. SpansAccounted'
    BY <2>4 DEF SpansAccounted
  <2>6. lostEnds' \in [Tracks -> Nat]
    BY <1>1, <1>4
  <2>7. QED
    BY <2>2, <2>5, <2>6 DEF Accounts
<1>5. QED
  BY <1>3, <1>4 DEF CloseSpan

LEMMA EmitSingleAccounts ==
    ASSUME Inv, Accounts, NEW t \in Tracks, NEW call \in Singles, EmitSingle(call, t)
    PROVE  Accounts'
<1>1. call \in AllCalls /\ call.kind \notin {"begin", "end"} /\ UNCHANGED <<guards, lostEnds>>
  BY ProducerAssumption DEF AllCalls, EmitSingle
<1>2. CASE EmitRecorded(call, t)
  <2>1. ASSUME NEW u \in Tracks
        PROVE  /\ IsFiniteSet(Headers("begin", u)') /\ IsFiniteSet(Headers("end", u)')
               /\ Recorded("begin", u)' = Recorded("begin", u)
               /\ Recorded("end", u)' = Recorded("end", u)
    BY <1>1, <1>2, HeaderAdded DEF Accounts
  <2>2. SpansAccounted'
    BY <1>1, <2>1 DEF Accounts, SpansAccounted
  <2>3. QED
    BY <1>1, <2>1, <2>2 DEF Accounts
<1>3. CASE EmitNothing(call)
  BY <1>1, <1>3, EmitNothingAccepts, SameAccounts
<1>4. QED
  BY <1>2, <1>3 DEF EmitSingle

LEMMA StepAccounts == Inv /\ Accounts /\ [Next]_vars => Accounts'
<1> SUFFICES ASSUME Inv, Accounts, [Next]_vars PROVE Accounts'
  OBVIOUS
<1>1. ASSUME NEW t \in Tracks, NEW call \in Spans, OpenSpan(call, t) PROVE Accounts'
  BY <1>1, OpenSpanAccounts
<1>2. ASSUME NEW t \in Tracks, NEW call \in Singles, EmitSingle(call, t) PROVE Accounts'
  BY <1>2, EmitSingleAccounts
<1>3. ASSUME NEW t \in Tracks, CloseSpan(t) PROVE Accounts'
  BY <1>3, CloseSpanAccounts
<1>4. CASE (\E value \in BOOLEAN : SetEnabled(value)) \/ Flush \/ TakeBatch \/ TakeMetadata
           \/ UNCHANGED vars
  BY <1>4, SameAccounts DEF SetEnabled, Flush, TakeBatch, TakeMetadata, vars
<1>5. QED
  BY <1>1, <1>2, <1>3, <1>4 DEF Next

LEMMA InitAccounts == Init => Accounts
<1> SUFFICES ASSUME Init PROVE Accounts
  OBVIOUS
<1>1. \A kind : \A t \in Tracks : Headers(kind, t) = {} /\ Recorded(kind, t) = 0
  <2>1. DOMAIN accepted = {}
    BY DEF Init
  <2>2. QED
    BY <2>1, FS_EmptySet DEF Headers, Recorded
<1>2. \A t \in Tracks : guards[t] = 0 /\ lostEnds[t] = 0
  BY DEF Init
<1>3. SpansAccounted
  BY <1>1, <1>2 DEF SpansAccounted
<1>4. lostEnds \in [Tracks -> Nat]
  BY DEF Init
<1>5. QED
  BY <1>1, <1>3, <1>4, FS_EmptySet DEF Accounts

\* Switching the realm off, full pools, conflicts and missing clocks leave no
\* span unaccounted: each recorded begin has a live guard, a recorded end or an
\* end that was refused, for any number of tracks, calls and guards.
THEOREM SpansAreAccounted == Spec => []SpansAccounted
<1>1. Accounts => SpansAccounted
  BY DEF Accounts
<1>2. QED
  BY <1>1, InitAccounts, StepAccounts, InvAlways, PTL DEF Spec
=============================================================================
