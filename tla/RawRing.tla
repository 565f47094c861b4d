------------------------------- MODULE RawRing -------------------------------
(***************************************************************************)
(* RawRingBackend of perfetto-everywhere-raw: a fixed array of slots with  *)
(* u64 read and write sequences, cast to usize wherever they index it.     *)
(* The ranges of u64, of usize and of the saturating health counters are   *)
(* constants, so that their limits are reached on small instances.  The    *)
(* backend is single-threaded (Cell and RefCell): a call is one step.      *)
(***************************************************************************)
EXTENDS Integers, Sequences, RecordGroups

CONSTANTS
    Capacity,    \* slots of the ring
    SeqRange,    \* values of the read and write sequences (2^64 in the code)
    UsizeRange,  \* values of usize (2^32 on wasm32)
    MaxCount,    \* where the saturating health counters stop
    Calls,       \* the calls an application makes, see CallOf
    Categories,  \* the allow-list given to new(); empty allows every category
    None         \* no category: span_end, log and counters

ASSUME RingAssumption ==
    /\ {Capacity, UsizeRange, SeqRange} \subseteq Nat \ {0} /\ MaxCount \in Nat
    /\ SeqRange % UsizeRange = 0 /\ Capacity < UsizeRange
    /\ \A call \in Calls : Len(call.fields) \in Nat

\* A call names its category and its field values; "Str" is a dynamic string.
CallOf(cats, values) ==
    [category : cats \union {None}, fields : Seq(values \union {"Str"})]

VARIABLES
    enabled,      \* RawRingBackend.enabled
    records,      \* RawRing.records, slot -> record
    read, write,  \* RawRing.read, RawRing.write
    dropped, emitted, drains, highWater, \* RawProducerHealth
    destination   \* the records the last drain_into wrote

ring == <<records, read, write>>
health == <<dropped, emitted, drains, highWater>>
vars == <<enabled, ring, health, destination>>

Usize(n) == n % UsizeRange
Wrap(n) == n % SeqRange
Saturate(n) == IF n > MaxCount THEN MaxCount ELSE n

Slot(sequence) == Usize(sequence) % Capacity
Occupancy == Usize(Wrap(write - read))
Blank == [end |-> FALSE, data |-> None]

Init ==
    /\ enabled = TRUE
    /\ records = [s \in 0..Capacity - 1 |-> Blank]
    /\ read = 0 /\ write = 0
    /\ dropped = 0 /\ emitted = 0 /\ drains = 0 /\ highWater = 0
    /\ destination = <<>>

SetEnabled(value) ==
    /\ enabled' = value
    /\ UNCHANGED <<ring, health, destination>>

(***************************************************************************)
(* emit.  The header record comes first; the last record ends the group.   *)
(***************************************************************************)
Group(call) ==
    [i \in 1..1 + Len(call.fields) |->
        [end  |-> i = 1 + Len(call.fields),
         data |-> IF i = 1 THEN call.category ELSE call.fields[i - 1]]]

\* span_begin and event check their category; the other calls carry none.
CategoryEnabled(category) ==
    enabled /\ (Categories = {} \/ category = None \/ category \in Categories)

Supported(call) == \A i \in DOMAIN call.fields : call.fields[i] # "Str"

Reserve(count) == count <= Capacity /\ Occupancy + count <= Capacity

\* publish: the mark is taken after the write sequence has moved.
Peak == IF Occupancy' > highWater THEN Occupancy' ELSE highWater

EmitRecorded(call) ==
    LET g == Group(call)
        \* push: records land in slot order, a later one over an earlier one
        Writers(s) == {i \in 1..Len(g) : Slot(Wrap(write + i - 1)) = s}
        Latest(I) == CHOOSE i \in I : \A j \in I : j <= i
    IN /\ CategoryEnabled(call.category) /\ Supported(call)
       /\ Reserve(Len(g))
       /\ UNCHANGED <<enabled, read, dropped, drains, destination>>
       /\ records' = [s \in DOMAIN records |->
                        IF Writers(s) = {} THEN records[s] ELSE g[Latest(Writers(s))]]
       /\ write' = Wrap(write + Len(g))
       /\ emitted' = Saturate(emitted + Len(g))
       /\ highWater' = Peak

EmitDropped(call) ==
    /\ CategoryEnabled(call.category) /\ Supported(call)
    /\ ~Reserve(Len(Group(call)))
    /\ dropped' = Saturate(dropped + Len(Group(call)))
    /\ UNCHANGED <<enabled, ring, emitted, drains, highWater, destination>>

(***************************************************************************)
(* drain_into.  At(k) is the slot k places after read; GroupFrom(k) is     *)
(* where the group that starts there ends, 0 when no end is found.         *)
(***************************************************************************)
At(k) == records[Slot(Wrap(read + k))]

GroupFrom(k) ==
    LET ends == {j \in k + 1..Occupancy : At(j - 1).end}
    IN IF ends = {} THEN 0 ELSE CHOOSE j \in ends : \A i \in ends : j <= i

\* Mutant of DrainedFrom: as many records as there is room for.
DrainedRecords(room) == IF room < Occupancy THEN room ELSE Occupancy

\* How far complete groups reach from k while they fit into room records.
DrainedFrom(room) ==
    LET reach[k \in 0..Occupancy] ==
            IF GroupFrom(k) = 0 \/ GroupFrom(k) > room
            THEN k ELSE reach[GroupFrom(k)]
    IN reach[0]

DrainInto(room) ==
    LET n == DrainedFrom(room)
    IN /\ destination' = [i \in 1..n |-> At(i - 1)]
       /\ read' = Wrap(read + n)
       /\ drains' = IF n > 0 THEN Saturate(drains + 1) ELSE drains
       /\ UNCHANGED <<enabled, records, write, dropped, emitted, highWater>>

Next ==
    \/ \E value \in BOOLEAN : SetEnabled(value)
    \/ \E call \in Calls : EmitRecorded(call) \/ EmitDropped(call)
    \/ \E room \in 0..Capacity : DrainInto(room)

Spec == Init /\ [][Next]_vars

-----------------------------------------------------------------------------
\* The unread records, oldest first.
Window == [i \in 1..Occupancy |-> At(i - 1)]

\* The ring implements the bounded queue of whole groups for as long as its
\* slots keep their order when a sequence passes the width of usize: nothing
\* accepted is lost, reordered or cut, a drain returns complete groups, and the
\* mark that trace-stopped reports is the most that was ever unread.
Queue == INSTANCE GroupQueue WITH
            queue <- Window, Groups <- {Group(call) : call \in Calls}
ImplementsGroupQueue == Queue!Spec
=============================================================================
