--------------------------- MODULE MCTracePackets ---------------------------
(***************************************************************************)
(* A page that has registered realm 1, at one of two rates, and one of   *)
(* its two ids; realm 2, the other id, the calibrations of both realms and *)
(* the producers' health come in any order or not at all.  A second has 10 *)
(* nanoseconds: at 3 ticks a second they are rounded, at 20 two ticks may  *)
(* share one.                                                              *)
(***************************************************************************)
EXTENDS TracePackets, Bitwise

MCExclusiveOr(a, b) == a ^^ b

MCRealmDefs == [label : {"a"}, rate : {0, 3, 10, 20}]

Sample(clock, time, reference, uncertainty) ==
    [clock |-> clock, time |-> time, reference |-> reference, uncertainty |-> uncertainty]

MCSamples ==
    << [clock : {"c"}, time : 0..3, reference : {2, 3, 9, 14}, uncertainty : {0}]
         \union {Sample("c", 1, 0, 0), Sample("c", 1, 3, 9)},
       {Sample("c", 1, 4, 0), Sample("d", 2, 5, 0)} >>

Shape(kind, track, name, category, target, fields, records) ==
    [kind |-> kind, track |-> track, name |-> name, category |-> category,
     target |-> target, fields |-> fields, records |-> records]

MCShapes ==
    {Shape("begin", 1, 1, 2, None, {}, 2), Shape("end", 1, 3, None, None, {}, 1),
     Shape("log", 0, 1, None, 2, {}, 2), Shape("counter", 1, 2, None, None, {}, 2),
     Shape("instant", 0, 1, 1, None, {2}, 2), Shape("health", 0, 1, None, None, {}, 2)}

Registered ==
    /\ \E rate \in {3, 20} : realms = [r \in {1} |-> [label |-> "a", rate |-> rate]]
    /\ metadata = [n \in {1} |-> "a"]
    /\ health = Absent
    /\ calibrations = [r \in Realms |-> <<>>]
    /\ groups = <<>> /\ ingested = 0
    /\ status = "open" /\ events = <<>> /\ reported = Absent

RegisteredSpec == Registered /\ [][Next]_vars
=============================================================================
