-------------------------- MODULE MCTraceCollector --------------------------
(***************************************************************************)
(* Configured starts where a page that registers first is when its         *)
(* producers begin to send: every realm, name and clock is known.          *)
(***************************************************************************)
EXTENDS TraceCollector

Definition == [label |-> "label", rate |-> 1]
MCRealmDefs == {Definition}
MCSamples == [r \in Realms |-> {}]

Shape(kind, track, records) ==
    [kind |-> kind, track |-> track, name |-> "n", category |-> "n", target |-> "n",
     fields |-> {}, records |-> records]

MCShapes ==
    {Shape(k, t, 1) : k \in {"begin", "end"}, t \in Tracks} \union {Shape("instant", 0, 2)}

Configured ==
    /\ realms = [r \in Realms |-> Definition] /\ metadata = [n \in Names |-> "label"]
    /\ calibrations = [r \in Realms |->
         <<[clock |-> "c", time |-> 0, reference |-> 1, uncertainty |-> 0]>>]
    /\ health = Absent
    /\ groups = <<>> /\ ingested = 0
    /\ status = "open" /\ events = <<>> /\ reported = Absent

ConfiguredSpec == Configured /\ [][Next]_vars
=============================================================================
