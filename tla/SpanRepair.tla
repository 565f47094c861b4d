----------------------------- MODULE SpanRepair -----------------------------
(***************************************************************************)
(* What Collector::finish of perfetto-everywhere-collector does to the     *)
(* groups it has ingested before it writes them: a stable sort by realm    *)
(* and timestamp, repair_span_boundaries, and the same sort once more.     *)
(* A group is its header; the fields only follow it.                       *)
(***************************************************************************)
EXTENDS Naturals, Sequences, FiniteSetsExt

CONSTANTS
    Realms,   \* realm ids, naturals
    Tracks,   \* explicit tracks, naturals; 0 is TrackId::CURRENT
    MaxTime,  \* u64::MAX, where saturating_add stops
    None      \* the name of a synthetic span end (name_id 0)

\* The members of S in the order of the strict total order before.
Ordered(S, before(_, _)) ==
    [k \in 1..Cardinality(S) |->
        CHOOSE x \in S : Cardinality({y \in S : before(y, x)}) = k - 1]

Subsequence(gs, I) ==
    LET order == Ordered(I, LAMBDA i, j : i < j)
    IN [k \in DOMAIN order |-> gs[order[k]]]

\* The key of sort_by_key.
Earlier(g, h) == g.realm < h.realm \/ (g.realm = h.realm /\ g.time < h.time)

\* Mutant of Tie: equal keys in reverse, which an unstable sort may do.
TieReversed(i, j) == i > j
\* sort_by_key is stable.
Tie(i, j) == i < j

Sorted(gs) ==
    LET before(i, j) ==
            \/ Earlier(gs[i], gs[j])
            \/ ~Earlier(gs[j], gs[i]) /\ Tie(i, j)
        order == Ordered(DOMAIN gs, before)
    IN [k \in DOMAIN gs |-> gs[order[k]]]

-----------------------------------------------------------------------------
On(g, realm, track) == g.realm = realm /\ g.track = track

\* depths: the spans open on a track after the first i groups.
Depth(gs, realm, track) ==
    LET depth[i \in 0..Len(gs)] ==
            IF i = 0 THEN 0
            ELSE LET before == depth[i - 1]
                 IN CASE On(gs[i], realm, track) /\ gs[i].kind = "begin" -> before + 1
                      [] On(gs[i], realm, track) /\ gs[i].kind = "end" ->
                            IF before = 0 THEN 0 ELSE before - 1
                      [] OTHER -> before
    IN depth

OpenAtEnd(gs, realm, track) == Depth(gs, realm, track)[Len(gs)]

\* Mutant of Unmatched: any span of the realm will do.
UnmatchedInRealm(gs) ==
    {i \in DOMAIN gs :
        /\ gs[i].kind = "end"
        /\ \A t \in Tracks : Depth(gs, gs[i].realm, t)[i - 1] = 0}

\* The span ends that close nothing: they are discarded.
Unmatched(gs) ==
    {i \in DOMAIN gs :
        /\ gs[i].kind = "end"
        /\ Depth(gs, gs[i].realm, gs[i].track)[i - 1] = 0}

Retained(gs) == Subsequence(gs, DOMAIN gs \ Unmatched(gs))

\* last_clock_and_timestamp: the first of the latest groups of a realm.
LastOf(gs, realm) ==
    LET own == {i \in DOMAIN gs : gs[i].realm = realm}
    IN gs[CHOOSE i \in own :
            \A j \in own : gs[j].time < gs[i].time \/ (gs[j].time = gs[i].time /\ i <= j)]

Saturate(time) == IF time > MaxTime THEN MaxTime ELSE time

\* Mutant of EndTime: one tick before the last event.
EndTimeEarly(last, offset) == IF offset = 0 /\ last > 0 THEN last - 1 ELSE Saturate(last + offset)
EndTime(last, offset) == Saturate(last + offset + 1)

\* One end for every span still open, one tick after the other.
Closing(gs, realm, track) ==
    [k \in 1..OpenAtEnd(gs, realm, track) |->
        [realm |-> realm, track |-> track, kind |-> "end", name |-> None, fields |-> {},
         clock |-> LastOf(gs, realm).clock,
         time  |-> EndTime(LastOf(gs, realm).time, k - 1)]]

\* depths is a BTreeMap: the realms and tracks in order.
TracksInOrder ==
    Ordered(Realms \X Tracks, LAMBDA p, q :
        p[1] < q[1] \/ (p[1] = q[1] /\ p[2] < q[2]))

Repair(gs) ==
    LET closed[k \in 0..Len(TracksInOrder)] ==
            IF k = 0 THEN Retained(gs)
            ELSE closed[k - 1] \o Closing(gs, TracksInOrder[k][1], TracksInOrder[k][2])
    IN closed[Len(TracksInOrder)]

\* Mutant of Repairs: only the discarded ends are counted.
RepairsDiscarded(gs, realm) ==
    Cardinality({i \in Unmatched(gs) : gs[i].realm = realm})

\* repaired_span_boundaries that the repair adds to a realm's health.
Repairs(gs, realm) ==
    Cardinality({i \in Unmatched(gs) : gs[i].realm = realm})
      + Cardinality({p \in Tracks \X (1..Len(gs)) : p[2] <= OpenAtEnd(gs, realm, p[1])})

\* The events of the trace, in the order of its packets.
Events(gs) == Sorted(Repair(Sorted(gs)))
=============================================================================
