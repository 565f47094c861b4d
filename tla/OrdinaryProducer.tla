-------------------------- MODULE OrdinaryProducer --------------------------
(***************************************************************************)
(* The producer of a Window or Dedicated Worker: OrdinaryBackend with its  *)
(* two record batches and its metadata map, the Tracer's span guards in    *)
(* front of it, and the page behind it that takes batches and metadata     *)
(* when it likes.  The realm is one thread, so a call is one step.         *)
(***************************************************************************)
EXTENDS Naturals, FiniteSets, SequencesExt

CONSTANTS
    Capacity,    \* capacity_records of either batch
    Categories,  \* the allow-list given to new(); empty allows every category
    Tracks,
    Spans,       \* the calls that open a span
    Singles,     \* the calls of event, log and counters
    MaxCalls,    \* bound: calls that emit
    None

(***************************************************************************)
(* A call names its kind, its category (None for log, counters and span    *)
(* ends) and its metadata in the order prepare_metadata registers it: the  *)
(* name, the category, then the fields and their strings.  fields is how   *)
(* many records follow the header.                                         *)
(***************************************************************************)
ASSUME ProducerAssumption ==
    /\ Capacity \in Nat \ {0} /\ MaxCalls \in Nat
    /\ \A call \in Spans \union Singles :
         call.fields \in Nat /\ call.uses \in Seq(Range(call.uses))
    /\ \A call \in Spans : call.kind = "begin"
    /\ \A call \in Singles : call.kind \in {"event", "log", "counter"}

SpanEnd == [kind |-> "end", category |-> None, fields |-> 0,
            uses |-> <<[id |-> "span end", label |-> "span end"]>>]

VARIABLES
    enabled,       \* OrdinaryBackend.enabled
    active, ready, \* BatchPool.active and ready (None when there is none)
    spare,         \* whether BatchPool.spare holds a vector
    emitted, dropped, completed, highWater, \* BatchPool.health
    metadata,      \* OrdinaryBackend.metadata, id -> label
    guards,        \* live SpanGuards that are active, per track
    calls,         \* calls so far, for the bound
    taken,         \* the records of the batches the page has taken
    takenMetadata, \* the definitions the page has taken
    accepted,      \* the records of the calls that returned Recorded
    lostEnds       \* span ends that were not recorded, per track

pool == <<active, ready, spare, emitted, dropped, completed, highWater>>
vars == <<enabled, pool, metadata, guards, calls, taken, takenMetadata, accepted, lostEnds>>

Init ==
    /\ enabled = TRUE
    /\ active = <<>> /\ ready = None /\ spare = TRUE
    /\ emitted = 0 /\ dropped = 0 /\ completed = 0 /\ highWater = 0
    /\ metadata = [x \in {} |-> None]
    /\ guards = [t \in Tracks |-> 0] /\ calls = 0
    /\ taken = <<>> /\ takenMetadata = {} /\ accepted = <<>>
    /\ lostEnds = [t \in Tracks |-> 0]

-----------------------------------------------------------------------------
(***************************************************************************)
(* prepare_metadata registers until a definition conflicts with one that   *)
(* the map holds; what it registered before stays.                         *)
(***************************************************************************)
Conflicts(uses) ==
    {k \in DOMAIN uses :
        \/ uses[k].id \in DOMAIN metadata /\ metadata[uses[k].id] # uses[k].label
        \/ \E j \in 1..k - 1 : uses[j].id = uses[k].id /\ uses[j].label # uses[k].label}

\* Mutant of Registers: fields are left to a later call.
RegistersHeader(call) ==
    IF Conflicts(call.uses) = {} THEN Len(call.uses) - call.fields ELSE 0
Registers(call) ==
    IF Conflicts(call.uses) = {} THEN Len(call.uses) ELSE Min(Conflicts(call.uses)) - 1

Prepared(call, count) ==
    LET new == {call.uses[k].id : k \in 1..count} \ DOMAIN metadata
        label(id) == (CHOOSE u \in Range(call.uses) : u.id = id).label
    IN [id \in DOMAIN metadata \union new |->
          IF id \in DOMAIN metadata THEN metadata[id] ELSE label(id)]

Group(call, track) ==
    [k \in 1..1 + call.fields |->
        [end  |-> k = 1 + call.fields,
         data |-> [kind |-> IF k = 1 THEN call.kind ELSE "field", track |-> track,
                   ids  |-> {u.id : u \in Range(call.uses)}]]]

\* The records that calls make, and None is no batch of them.
Records ==
    UNION {Range(Group(call, t)) : call \in Spans \union Singles \union {SpanEnd}, t \in Tracks}
ASSUME NoneAssumption == None \notin Seq(Records)

-----------------------------------------------------------------------------
(***************************************************************************)
(* reserve_group, with rotate_active when the active batch is too full.    *)
(***************************************************************************)
\* Mutant of FitsActive: there is room for the header.
FitsActiveHeader(count) == Len(active) + 1 <= Capacity
FitsActive(count) == Len(active) + count <= Capacity
MustRotate(count) == count <= Capacity /\ ~FitsActive(count)

Refused(count) == count > Capacity \/ (MustRotate(count) /\ ready # None)

\* Mutant of Rotated: the records of the completed batch are not cleared.
RotatedUncleared == active
Rotated == <<>>

Larger(m, n) == IF m > n THEN m ELSE n

Push(g) ==
    LET rotates == MustRotate(Len(g))
    IN /\ rotates => spare
       /\ active' = (IF rotates THEN Rotated ELSE active) \o g
       /\ ready' = IF rotates THEN active ELSE ready
       /\ spare' = (spare /\ ~rotates)
       /\ completed' = IF rotates THEN completed + 1 ELSE completed
       /\ emitted' = emitted + Len(g)
       /\ highWater' = Larger(highWater, Len(active'))
       /\ UNCHANGED dropped

\* now_ticks may fail at any call: only log has registered its target by then.
EmitUnclocked(call) ==
    /\ metadata' = Prepared(call, IF call.kind = "log" /\ Registers(call) > 0 THEN 1 ELSE 0)
    /\ UNCHANGED <<pool, accepted>>

\* A call whose metadata conflicts returns Unsupported.
EmitUnsupported(call) ==
    /\ Conflicts(call.uses) # {}
    /\ metadata' = Prepared(call, Registers(call))
    /\ UNCHANGED <<pool, accepted>>

EmitDropped(call) ==
    /\ Conflicts(call.uses) = {} /\ Refused(1 + call.fields)
    /\ metadata' = Prepared(call, Registers(call))
    /\ dropped' = dropped + 1 + call.fields
    /\ UNCHANGED <<active, ready, spare, emitted, completed, highWater, accepted>>

\* The calls that return Unsupported or Dropped.
EmitNothing(call) ==
    EmitUnclocked(call) \/ EmitUnsupported(call) \/ EmitDropped(call)

EmitRecorded(call, track) ==
    /\ Conflicts(call.uses) = {} /\ ~Refused(1 + call.fields)
    /\ metadata' = Prepared(call, Registers(call))
    /\ Push(Group(call, track))
    /\ accepted' = accepted \o Group(call, track)

-----------------------------------------------------------------------------
CategoryEnabled(call) ==
    enabled /\ (Categories = {} \/ call.category \in Categories)

\* span_begin and event ask for the category, log for the switch alone;
\* counters are emitted whatever the switch says.
Enabled(call) ==
    CASE call.kind \in {"begin", "event"} -> CategoryEnabled(call)
      [] call.kind = "log" -> enabled
      [] OTHER -> TRUE

Called == calls < MaxCalls /\ calls' = calls + 1
Page == <<taken, takenMetadata>>

\* Mutant of GuardActive: every guard ends its span.
GuardActiveAlways(recorded) == TRUE
GuardActive(recorded) == recorded

\* Tracer::span_on: the guard is active when the begin was recorded.
OpenSpan(call, track) ==
    /\ Called /\ Enabled(call)
    /\ \E recorded \in BOOLEAN :
         /\ IF recorded THEN EmitRecorded(call, track) ELSE EmitNothing(call)
         /\ guards' = [guards EXCEPT ![track] = IF GuardActive(recorded) THEN @ + 1 ELSE @]
    /\ UNCHANGED <<enabled, Page, lostEnds>>

\* Drop of an active SpanGuard: the end is emitted whatever the switch says,
\* and what span_end returns is ignored.
CloseSpan(track) ==
    /\ guards[track] > 0 /\ guards' = [guards EXCEPT ![track] = @ - 1]
    /\ \/ EmitRecorded(SpanEnd, track) /\ UNCHANGED lostEnds
       \/ EmitNothing(SpanEnd) /\ lostEnds' = [lostEnds EXCEPT ![track] = @ + 1]
    /\ UNCHANGED <<enabled, calls, Page>>

\* event, log and counters.
EmitSingle(call, track) ==
    /\ Called /\ Enabled(call)
    /\ EmitRecorded(call, track) \/ EmitNothing(call)
    /\ UNCHANGED <<enabled, guards, Page, lostEnds>>

SetEnabled(value) ==
    /\ enabled' = value
    /\ UNCHANGED <<pool, metadata, guards, calls, Page, accepted, lostEnds>>

-----------------------------------------------------------------------------
Flush ==
    /\ active # <<>> /\ ready = None /\ spare
    /\ active' = Rotated /\ ready' = active /\ spare' = FALSE
    /\ completed' = completed + 1
    /\ UNCHANGED <<enabled, emitted, dropped, highWater, metadata, guards, calls,
                   Page, accepted, lostEnds>>

\* Mutant of SpareAfterTake: the drained vector is not kept.
SpareAfterTakeNone == spare
SpareAfterTake == TRUE

TakeBatch ==
    /\ ready # None
    /\ taken' = taken \o ready
    /\ ready' = None /\ spare' = SpareAfterTake
    /\ UNCHANGED <<enabled, active, emitted, dropped, completed, highWater, metadata,
                   guards, calls, takenMetadata, accepted, lostEnds>>

TakeMetadata ==
    /\ takenMetadata' = takenMetadata \union {<<id, metadata[id]>> : id \in DOMAIN metadata}
    /\ metadata' = [x \in {} |-> None]
    /\ UNCHANGED <<enabled, pool, guards, calls, taken, accepted, lostEnds>>

Next ==
    \/ \E t \in Tracks :
         \/ \E call \in Spans : OpenSpan(call, t)
         \/ \E call \in Singles : EmitSingle(call, t)
         \/ CloseSpan(t)
    \/ \E value \in BOOLEAN : SetEnabled(value)
    \/ Flush \/ TakeBatch \/ TakeMetadata

Spec == Init /\ [][Next]_vars

-----------------------------------------------------------------------------
Ready == IF ready = None THEN <<>> ELSE ready
Held == taken \o Ready \o active

\* Types; neither batch grows beyond its capacity, and a ready one has records.
TypeOK ==
    /\ enabled \in BOOLEAN /\ spare \in BOOLEAN
    /\ Len(active) <= Capacity /\ highWater <= Capacity
    /\ ready = None \/ Len(ready) \in 1..Capacity
    /\ guards \in [Tracks -> 0..MaxCalls] /\ calls \in 0..MaxCalls

\* The "batch pool spare invariant" rotate_active expects: of the second vector
\* exactly one of ready and spare holds it.
SpareInvariant == spare <=> ready = None

\* What was reported Recorded is what the page has taken and will take: in
\* order, each record once, whatever was dropped in between.
RecordedIsKept == Held = accepted /\ emitted = Len(accepted)

\* Every definition a record needs is with the page or still to be taken, in
\* whatever order the page takes batches and metadata.
MetadataCovers ==
    \A k \in DOMAIN Held :
        Held[k].data.ids \subseteq DOMAIN metadata \union {d[1] : d \in takenMetadata}

Recorded(kind, track) ==
    Cardinality({k \in DOMAIN accepted :
                    accepted[k].data.kind = kind /\ accepted[k].data.track = track})

\* Every recorded begin is open under a live guard, has its recorded end, or its
\* end met a full pool, a conflict or a missing clock: switching the realm off loses no end, and
\* a begin that was not recorded leaves none behind.
SpansAccounted ==
    \A t \in Tracks :
        Recorded("begin", t) = Recorded("end", t) + guards[t] + lostEnds[t]

\* Conflicting definitions are refused: no id ever stands for two labels.
LabelsUnambiguous ==
    LET all == takenMetadata \union {<<id, metadata[id]>> : id \in DOMAIN metadata}
    IN \A c, d \in all : c[1] = d[1] => c[2] = d[2]
=============================================================================
