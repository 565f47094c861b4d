---------------------------- MODULE TracePackets ----------------------------
(***************************************************************************)
(* The packets finish() of perfetto-everywhere-collector writes, as a      *)
(* function of what the collector holds: one clock fit for every realm and *)
(* its snapshots, the tracks, the calibrations as events, the events, the  *)
(* producers' health.  Labels, annotations, values and flows are left out; *)
(* a packet keeps its realm (the sequence it is on), its time in its       *)
(* realm's nanoseconds and its track.                                      *)
(***************************************************************************)
EXTENDS TraceCollector, Integers

CONSTANTS
    Second,    \* nanoseconds in a second
    MaxNanos,  \* u64::MAX as a time in nanoseconds
    RealmUnit, \* 2^32, by which a uuid sets the realm off against the track
    ExclusiveOr(_, _) \* the exclusive-or of two u64

\* A sample's reference is a u64, as is every time in nanoseconds.
ASSUME PacketsAssumption ==
    /\ {Second, MaxNanos, RealmUnit} \subseteq Nat \ {0} /\ Names \subseteq Nat
    /\ \A d \in RealmDefs : d.rate \in Nat
    /\ \A r \in Realms : \A s \in Samples[r] : s.time \in Nat /\ s.reference \in 0..MaxNanos

SmallerOf(a, b) == IF a < b THEN a ELSE b
LargerOf(a, b) == IF a > b THEN a ELSE b
Rate(r) == realms[r].rate

\* ticks_to_ns, which rounds down and saturates.
TicksToNs(ticks, rate) == SmallerOf((ticks * Second) \div rate, MaxNanos)

-----------------------------------------------------------------------------
(***************************************************************************)
(* fit_clock_samples: one offset for all samples of a realm, the median.   *)
(***************************************************************************)
SourceNs(r, k) == TicksToNs(calibrations[r][k].time, Rate(r))
Offset(r, k) == calibrations[r][k].reference - SourceNs(r, k)

\* Mutant of FittedOffset: the offsets are not sorted.
FittedOffsetUnsorted(r) == Offset(r, Len(calibrations[r]) \div 2 + 1)

\* offsets[len / 2] of the sorted offsets: the upper median.
FittedOffset(r) ==
    LET samples == DOMAIN calibrations[r]
        order == Ordered(samples, LAMBDA i, j :
                    Offset(r, i) < Offset(r, j) \/ (Offset(r, i) = Offset(r, j) /\ i < j))
    IN Offset(r, order[Len(order) \div 2 + 1])

\* Mutant of Fitted: the reference time as it was measured.
FittedRaw(r, k) == calibrations[r][k].reference

\* reference_ns, the predicted reference time, clamped to what a u64 holds.
Fitted(r, k) == SmallerOf(LargerOf(SourceNs(r, k) + FittedOffset(r), 0), MaxNanos)

Residual(r, k) == calibrations[r][k].reference - Fitted(r, k)

-----------------------------------------------------------------------------
(***************************************************************************)
(* Tracks.  mix() is a bijection: two uuids are equal when what it is      *)
(* given is, up to the four bits that the tag of the sort replaces.        *)
(***************************************************************************)
Key(realm, track) == ExclusiveOr(realm * RealmUnit, track)
EventUuid(realm, track) == <<"event", Key(realm, track)>>
CounterUuid(realm, track, name) == <<"counter", ExclusiveOr(Key(realm, track), name)>>

\* The explicit track of an event; a log's arg is its target.
TrackOf(e) == IF e.kind = "log" THEN 0 ELSE e.track

Counters == {k \in DOMAIN events : events[k].kind = "counter"}

\* Mutant of EventTracks: a counter's track is only there for other events.
EventTracksUncounted ==
    {<<r, 0>> : r \in DOMAIN reported \union Calibrated}
      \union {<<events[k].realm, TrackOf(events[k])>> : k \in DOMAIN events \ Counters}

EventTracks ==
    {<<r, 0>> : r \in DOMAIN reported \union Calibrated}
      \union {<<events[k].realm, TrackOf(events[k])>> : k \in DOMAIN events}

CounterTracks == {<<events[k].realm, TrackOf(events[k]), events[k].name>> : k \in Counters}

-----------------------------------------------------------------------------
(***************************************************************************)
(* Packets, in the order finish() pushes them.                             *)
(***************************************************************************)
Lexical(p, q) ==
    \E i \in DOMAIN p : p[i] < q[i] /\ \A j \in 1..i - 1 : p[j] = q[j]

\* A BTreeMap's or BTreeSet's order.
InOrder(S) == Ordered(S, Lexical)

SamplesInOrder == InOrder(UNION {{<<r, k>> : k \in DOMAIN calibrations[r]} : r \in Calibrated})

Snapshot(r, k, origin) ==
    [packet |-> "snapshot", realm |-> r, source |-> SourceNs(r, k),
     reference |-> (LargerOf(Fitted(r, k) - origin, 0) + Second) % (MaxNanos + 1)]

TrackEvent(r, uuid, time) == [packet |-> "event", realm |-> r, uuid |-> uuid, time |-> time]

ClockSnapshots ==
    LET order == SamplesInOrder
        origin == Min({Fitted(p[1], p[2]) : p \in Range(order)})
    IN [n \in DOMAIN order |-> Snapshot(order[n][1], order[n][2], origin)]

Descriptors ==
    LET tracks == InOrder(EventTracks)
        counters == InOrder(CounterTracks)
    IN [n \in DOMAIN tracks |->
          [packet |-> "track", uuid |-> EventUuid(tracks[n][1], tracks[n][2]), parent |-> None]]
       \o
       [n \in DOMAIN counters |->
          [packet |-> "track", uuid |-> CounterUuid(counters[n][1], counters[n][2], counters[n][3]),
           parent |-> EventUuid(counters[n][1], counters[n][2])]]

Diagnostics ==
    LET order == SamplesInOrder
    IN [n \in DOMAIN order |->
          TrackEvent(order[n][1], EventUuid(order[n][1], 0), SourceNs(order[n][1], order[n][2]))]

EventPackets ==
    [n \in DOMAIN events |->
        LET e == events[n]
            uuid == IF n \in Counters THEN CounterUuid(e.realm, TrackOf(e), e.name)
                    ELSE EventUuid(e.realm, TrackOf(e))
        IN TrackEvent(e.realm, uuid, TicksToNs(e.time, Rate(e.realm)))]

HealthPackets ==
    LET order == Ordered(DOMAIN reported, <)
    IN [n \in DOMAIN order |->
          TrackEvent(order[n], EventUuid(order[n], 0), SourceNs(order[n], Len(calibrations[order[n]])))]

Packets == ClockSnapshots \o Descriptors \o Diagnostics \o EventPackets \o HealthPackets

-----------------------------------------------------------------------------
Described(packets, n, uuid) ==
    \E m \in 1..n - 1 : packets[m].packet = "track" /\ packets[m].uuid = uuid
Related(packets, n, r) ==
    \E m \in 1..n - 1 : packets[m].packet = "snapshot" /\ packets[m].realm = r

\* Whatever was registered, sampled and emitted in whatever order, a reader of
\* a finished trace that goes from its first packet to its last knows the track
\* of every event, the parent of every track, and how the clock of the event's
\* realm relates to the trace's, and that clock is the one the event was
\* stamped with.
DescribedFirst ==
    Finished =>
      /\ LET packets == Packets
         IN \A n \in DOMAIN packets :
              LET p == packets[n]
              IN /\ p.packet = "event" => Described(packets, n, p.uuid) /\ Related(packets, n, p.realm)
                 /\ p.packet = "track" /\ p.parent # None => Described(packets, n, p.parent)
      /\ \A n \in DOMAIN events :
           \A k \in DOMAIN calibrations[events[n].realm] :
             calibrations[events[n].realm][k].clock = events[n].clock

\* All snapshots of a realm relate its clock to the trace's by one offset: noisy
\* samples neither bend the time between two events nor turn it around.  Only a
\* prediction that no u64 holds is moved, and only one in its last second wraps.
OneTimeline ==
    Finished =>
      \A p, q \in Range(ClockSnapshots) :
        p.realm = q.realm =>
          \/ p.reference - q.reference = p.source - q.source
          \/ \E k \in DOMAIN calibrations[p.realm] :
               SourceNs(p.realm, k) + FittedOffset(p.realm) \notin 0..MaxNanos - Second

Total(errors) ==
    LET total[k \in 0..Len(errors)] ==
            IF k = 0 THEN 0
            ELSE total[k - 1] + (IF errors[k] < 0 THEN 0 - errors[k] ELSE errors[k])
    IN total[Len(errors)]

\* The fit has the least total error a single offset can have: one bad sample of
\* three does not move it.
FitOptimal ==
    Finished =>
      \A r \in Calibrated :
        LET samples == DOMAIN calibrations[r]
        IN \A k \in samples :
             Total([i \in samples |-> Residual(r, i)])
               <= Total([i \in samples |-> Offset(r, i) - Offset(r, k)])
=============================================================================
