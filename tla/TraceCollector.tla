--------------------------- MODULE TraceCollector ---------------------------
(***************************************************************************)
(* Collector of perfetto-everywhere-collector, as WasmCollector offers it  *)
(* to the collector worker: realms, metadata, calibrations and health are  *)
(* registered and batches ingested in any order; finish() consumes the     *)
(* collector and checks everything it refers to.  A call that returns an   *)
(* error changes nothing, so it is a stuttering step; finish() is the      *)
(* exception, because the collector is gone whatever it returns.           *)
(***************************************************************************)
EXTENDS SpanRepair

CONSTANTS
    RealmDefs,      \* the descriptors a realm is registered with, [label, rate]
    Labels,         \* labels of metadata
    Names,          \* metadata ids
    Clocks,         \* clock ids
    Samples,        \* the calibrations of every realm, [clock, time, reference, uncertainty]
    Shapes,         \* the groups producers emit
    Times,          \* the times they emit them at
    HealthOf,       \* realm ids the application reports health for
    RepairsSet,     \* the repaired_span_boundaries it reports of a realm
    MaxUncertainty, \* CollectorConfig.max_clock_uncertainty_ns
    MaxSamples,     \* bound: calibrations per realm
    MaxRecords,     \* CollectorConfig.max_records
    MaxBatch        \* bound: groups in a batch

\* Header kinds, the two sorts of counters as one.
EventKinds == {"begin", "end", "instant", "log", "counter", "health"}

\* A group: its header's kind, its arg as a track or (log) as a target, its value
\* as a category (begin, instant), the ids its fields refer to as their names or
\* static strings, and its records.  A producer's ends are named "span end".
ASSUME CollectorAssumption ==
    /\ IsFiniteSet(Realms) /\ Realms \subseteq Nat \ {0}
    /\ IsFiniteSet(Tracks) /\ Tracks \subseteq Nat /\ Times \subseteq 0..MaxTime
    /\ {MaxTime, MaxSamples, MaxRecords, MaxBatch, MaxUncertainty} \union RepairsSet \subseteq Nat
    /\ \A s \in Shapes :
         s.kind \in EventKinds /\ s.track \in Tracks /\ s.name # None /\ s.fields \subseteq Names

VARIABLES
    realms,       \* Collector.realms, id -> descriptor
    metadata,     \* Collector.metadata, id -> label
    calibrations, \* Collector.calibrations, the samples of every realm
    groups,       \* Collector.groups, in the order of their arrival
    health,       \* Collector.health, realm -> repaired_span_boundaries
    ingested,     \* Collector.ingested_records
    status,       \* "open" before finish(), then what finish() did
    events,       \* the events of the trace finish() returned
    reported      \* and the health in it, realm -> repaired_span_boundaries

registry == <<realms, metadata, calibrations>>
result == <<status, events, reported>>
vars == <<registry, groups, health, ingested, result>>

Absent == [x \in {} |-> None]

Init ==
    /\ realms = Absent /\ metadata = Absent /\ health = Absent
    /\ calibrations = [r \in Realms |-> <<>>]
    /\ groups = <<>> /\ ingested = 0
    /\ status = "open" /\ events = <<>> /\ reported = Absent

Extend(f, x, v) == [y \in DOMAIN f \union {x} |-> IF y = x THEN v ELSE f[y]]

\* A different definition of the same id collides; the same one is a no-op.
Free(f, x) == x \notin DOMAIN f

\* A rate of zero would be a divisor; Realms holds no id zero.
RegisterRealm(r, descriptor) ==
    /\ status = "open" /\ descriptor.rate # 0 /\ Free(realms, r)
    /\ realms' = Extend(realms, r, descriptor)
    /\ UNCHANGED <<metadata, calibrations, groups, health, ingested, result>>

RegisterMetadata(n, label) ==
    /\ status = "open" /\ Free(metadata, n)
    /\ metadata' = Extend(metadata, n, label)
    /\ UNCHANGED <<realms, calibrations, groups, health, ingested, result>>

\* Mutant of Monotonic: the clock may change between samples.
MonotonicAnyClock(samples, s) ==
    samples # <<>> =>
        /\ samples[Len(samples)].time < s.time
        /\ samples[Len(samples)].reference < s.reference

Monotonic(samples, s) ==
    samples # <<>> =>
        /\ samples[Len(samples)].clock = s.clock
        /\ samples[Len(samples)].time < s.time
        /\ samples[Len(samples)].reference < s.reference

ValidSample(s) == s.reference # 0 /\ s.uncertainty <= MaxUncertainty

AddCalibration(r, s) ==
    /\ status = "open" /\ ValidSample(s) /\ Monotonic(calibrations[r], s)
    /\ Len(calibrations[r]) < MaxSamples
    /\ calibrations' = [calibrations EXCEPT ![r] = Append(@, s)]
    /\ UNCHANGED <<realms, metadata, groups, health, ingested, result>>

SetHealth(r, repairs) ==
    /\ status = "open"
    /\ health' = Extend(health, r, repairs)
    /\ UNCHANGED <<registry, groups, ingested, result>>

\* The other counters of the entry, which it creates where there is none.
SetTransportHealth(r) ==
    /\ status = "open" /\ Free(health, r)
    /\ health' = Extend(health, r, 0)
    /\ UNCHANGED <<registry, groups, ingested, result>>

-----------------------------------------------------------------------------
\* The groups of a realm, by their places.
Arrivals(r) == {k \in DOMAIN groups : groups[k].realm = r}

\* A batch comes from one producer, whose clock does not go back.
Batches(r) ==
    LET since == {t \in Times : \A k \in Arrivals(r) : groups[k].time <= t}
    IN UNION {{b \in [1..n -> [shape : Shapes, clock : Clocks, time : since]] :
                  \A i, j \in 1..n : i < j => b[i].time <= b[j].time} : n \in 1..MaxBatch}

Size(b) ==
    LET size[k \in 0..Len(b)] == IF k = 0 THEN 0 ELSE size[k - 1] + b[k].shape.records
    IN size[Len(b)]

\* Mutant of Room: the limit is checked before the batch is counted.
RoomBefore(b) == ingested <= MaxRecords
Room(b) == ingested + Size(b) <= MaxRecords

EventGroup(r, clock, time, s) ==
    [realm |-> r, clock |-> clock, time |-> time, kind |-> s.kind, track |-> s.track,
     name |-> s.name, category |-> s.category, target |-> s.target, fields |-> s.fields]

IngestBatch(r, b) ==
    /\ status = "open" /\ Room(b)
    /\ ingested' = ingested + Size(b)
    /\ groups' = groups \o
         [k \in DOMAIN b |-> EventGroup(r, b[k].clock, b[k].time, b[k].shape)]
    /\ UNCHANGED <<registry, health, result>>

-----------------------------------------------------------------------------
(***************************************************************************)
(* finish.  validate_references, the sort and the repair, then the clock   *)
(* snapshots, the descriptors, the events and the health, in this order:   *)
(* each step may return an error, and emit_descriptors indexes the realms. *)
(***************************************************************************)
\* Mutant of Mentions: the name of an end is asked for as well.
MentionsEveryName(g) ==
    {g.name} \union g.fields
      \union (IF g.kind \in {"begin", "instant"} THEN {g.category} ELSE {})
      \union (IF g.kind = "log" THEN {g.target} ELSE {})

\* The metadata validate_references asks for.
Mentions(g) ==
    g.fields \union (IF g.kind = "end" THEN {} ELSE {g.name})
      \union (IF g.kind \in {"begin", "instant"} THEN {g.category} ELSE {})
      \union (IF g.kind = "log" THEN {g.target} ELSE {})

Referenced(g) ==
    /\ g.realm \in DOMAIN realms
    /\ calibrations[g.realm] # <<>> /\ calibrations[g.realm][1].clock = g.clock
    /\ Mentions(g) \subseteq DOMAIN metadata

References == \A k \in DOMAIN groups : Referenced(groups[k])

Calibrated == {r \in Realms : calibrations[r] # <<>>}

\* Mutant of Fittable: a sample of an unknown realm is passed over.
FittableAnyRealm == Calibrated # {}

\* emit_clock_snapshots: a sample of an unknown realm, or no sample at all.
Fittable == Calibrated # {} /\ Calibrated \subseteq DOMAIN realms

RepairedHealth ==
    LET sorted == Sorted(groups)
        repairs(r) == Repairs(sorted, r)
    IN [r \in DOMAIN health \union {q \in Realms : repairs(q) > 0} |->
          repairs(r) + IF r \in DOMAIN health THEN health[r] ELSE 0]

\* emit_descriptors: `self.realms[&realm]` for every realm with health or samples.
Indexed(counts) == DOMAIN counts \union Calibrated \subseteq DOMAIN realms

\* What emit_descriptors and emit_events look up with `?`: the label of a begin,
\* an instant, a log or a counter's track, and the labels in the annotations.
LookedUp(e) ==
    e.fields \union (IF e.kind = "end" THEN {} ELSE {e.name})
      \union (CASE e.kind \in {"begin", "instant"} -> {e.category}
                 [] e.kind = "log" -> {e.target}
                 [] OTHER -> {})

Emittable(trace) == \A k \in DOMAIN trace : LookedUp(trace[k]) \subseteq DOMAIN metadata

\* emit_health: the event needs a sample of its realm.
Reported(counts) == DOMAIN counts \subseteq Calibrated

Outcome(trace, counts) ==
    IF ~(References /\ Fittable) THEN "error"
    ELSE IF ~Indexed(counts) THEN "panic"
    ELSE IF Emittable(trace) /\ Reported(counts) THEN "finished"
    ELSE "error"

Finish ==
    /\ status = "open"
    /\ status' = Outcome(Events(groups), RepairedHealth)
    /\ events' = IF status' = "finished" THEN Events(groups) ELSE events
    /\ reported' = IF status' = "finished" THEN RepairedHealth ELSE reported
    /\ UNCHANGED <<registry, groups, health, ingested>>

Next ==
    \/ \E r \in Realms, d \in RealmDefs : RegisterRealm(r, d)
    \/ \E n \in Names, label \in Labels : RegisterMetadata(n, label)
    \/ \E r \in Realms : \E s \in Samples[r] : AddCalibration(r, s)
    \/ \E r \in HealthOf : (\E n \in RepairsSet : SetHealth(r, n)) \/ SetTransportHealth(r)
    \/ \E r \in Realms : \E b \in Batches(r) : IngestBatch(r, b)
    \/ Finish

Spec == Init /\ [][Next]_vars

-----------------------------------------------------------------------------
Finished == status = "finished"

\* How many begins, or ends, of a track are among the groups gs[i], i in I.
Number(gs, r, t, kind, I) == Cardinality({i \in I : On(gs[i], r, t) /\ gs[i].kind = kind})

\* Every track of a finished trace is a sequence of nested slices: no end
\* without a begin before it, and every begin is closed, whatever was dropped
\* on the way to the collector.
SlicesBalanced ==
    Finished =>
      \A r \in Realms, t \in Tracks :
        LET ends(n) == Number(events, r, t, "end", 1..n)
            begins(n) == Number(events, r, t, "begin", 1..n)
        IN (\A n \in 0..Len(events) : ends(n) <= begins(n)) /\ ends(Len(events)) = begins(Len(events))

\* An end matches a begin of its track with nothing but closed spans between.
Matched(gs, i) ==
    \E j \in 1..i - 1 :
      LET ends(n) == Number(gs, gs[i].realm, gs[i].track, "end", j + 1..n)
          begins(n) == Number(gs, gs[i].realm, gs[i].track, "begin", j + 1..n)
      IN /\ On(gs[j], gs[i].realm, gs[i].track) /\ gs[j].kind = "begin"
         /\ (\A n \in j..i - 1 : ends(n) <= begins(n)) /\ ends(i - 1) = begins(i - 1)

Kept(r) == {k \in Arrivals(r) : groups[k].kind = "end" => Matched(groups, k)}
Real(r) == {k \in DOMAIN events : events[k].realm = r /\ events[k].name # None}

\* The trace holds what each producer sent, in the producer's order even where
\* timestamps are equal, and leaves out only ends that match no begin; and one
\* realm follows the other, however their batches arrived between each other's.
ProducerOrderKept ==
    Finished =>
      /\ \A r \in Realms : Subsequence(events, Real(r)) = Subsequence(groups, Kept(r))
      /\ \A i, j \in DOMAIN events : i < j => events[i].realm <= events[j].realm

\* A synthetic end never comes before an event of its realm, not even where
\* the timestamps stop at u64::MAX.
SyntheticEndsLast ==
    Finished =>
      \A i, j \in DOMAIN events :
        (events[i].realm = events[j].realm /\ events[i].name = None /\ events[j].name # None)
          => j < i /\ events[j].time <= events[i].time

Count(counts, r) == IF r \in DOMAIN counts THEN counts[r] ELSE 0

\* Everything the repair took away or added is in the health of its realm, on
\* top of what the application had reported of it.
RepairsReported ==
    Finished =>
      \A r \in Realms :
        LET synthetic == Cardinality({k \in DOMAIN events : events[k].realm = r} \ Real(r))
            discarded == Cardinality(Arrivals(r)) - Cardinality(Real(r))
        IN Count(reported, r) = Count(health, r) + synthetic + discarded

\* The realms the collector has heard of, and those it can write a packet for.
Used == Calibrated \union DOMAIN health \union {groups[k].realm : k \in DOMAIN groups}
Known == Calibrated \intersect DOMAIN realms

\* finish() consumes the collector, so an error or a panic loses the capture and
\* drops what is built of its trace.  It is lost just where the application left
\* something out: a registration or a sample of a realm it uses, the clock of a
\* group, a label the packets show -- of a group the repair discards, too.  It
\* is never lost for more than that, nor for what the repair itself adds.
LostForCause ==
    status # "open" =>
      (Finished <=>
         /\ Used # {} /\ Used \subseteq Known
         /\ \A k \in DOMAIN groups :
              /\ \A i \in DOMAIN calibrations[groups[k].realm] :
                   calibrations[groups[k].realm][i].clock = groups[k].clock
              /\ LookedUp(groups[k]) \subseteq DOMAIN metadata)

\* finish() panics only where the application has set the health of a realm it
\* never registered: neither samples nor repairs of unknown realms get that far.
PanicNeedsHealth == status = "panic" => ~(DOMAIN health \subseteq DOMAIN realms)
=============================================================================
