------------------------- MODULE MCOrdinaryProducer -------------------------
(***************************************************************************)
(* An instance of OrdinaryProducer: a span, a counter, two events whose    *)
(* dynamic strings hash to the id of "span end", a log with more fields    *)
(* than a batch has room for, and an event whose category is filtered.     *)
(***************************************************************************)
EXTENDS OrdinaryProducer

Def(id, label) == [id |-> id, label |-> label]
Call(kind, category, uses, fields) ==
    [kind |-> kind, category |-> category, uses |-> uses, fields |-> fields]

MCSpans == {Call("begin", "ui", <<Def("span", "span"), Def("ui", "ui")>>, 0)}

Text(label) == Call("event", "ui",
    <<Def("event", "event"), Def("ui", "ui"), Def("span end", label)>>, 1)
Counter == Call("counter", None, <<Def("load", "load")>>, 0)
Large == Call("log", None, <<Def("target", "target"), Def("event", "event"),
                             Def("f", "f"), Def("g", "g")>>, 2)
Filtered == Call("event", "net", <<Def("event", "event"), Def("net", "net")>>, 0)

MCSingles == {Text("text"), Text("other"), Counter, Large, Filtered}
=============================================================================
