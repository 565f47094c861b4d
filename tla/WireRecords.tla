---------------------------- MODULE WireRecords ----------------------------
(***************************************************************************)
(* The fixed-layout record of perfetto-everywhere-core and what receivers  *)
(* do with a sequence of records: decode each, validate the groups, split  *)
(* them.  Identifiers and payloads are opaque; a kind is known by whether  *)
(* it is a field.                                                          *)
(***************************************************************************)
EXTENDS Naturals, Sequences, FiniteSets

RECORD_VERSION == 1
Kinds == {"header", "field"} \* RecordKind, by is_field
KnownFlags == {"start", "end", "step", "terminate"}

\* The bits of a header: a group of one record both starts and ends.
Record(kind, flags, realm, clock, time) ==
    [version |-> RECORD_VERSION, kind |-> kind, flags |-> flags,
     realm |-> realm, clock |-> clock, time |-> time]

\* What a record's bytes can say, the unknown included.
Wire == [version : Nat, kind : Kinds \union {"unknown"},
         flags : SUBSET (KnownFlags \union {"other"}), realm : Nat, clock : Nat, time : Nat]

\* Record::decode accepts r: every check before it reads the identifiers, and
\* the two reserved ones after.
Decodable(r) ==
    /\ r.version = RECORD_VERSION
    /\ r.flags \subseteq KnownFlags
    /\ ~({"step", "terminate"} \subseteq r.flags)
    /\ r.kind \in Kinds
    /\ r.realm # 0 /\ r.clock # 0

-----------------------------------------------------------------------------
(***************************************************************************)
(* validate_record_groups: one pass with the context of the open group.    *)
(***************************************************************************)
Context(r) == <<r.realm, r.clock, r.time>>
Closed == <<>>
Invalid == <<"invalid">>

\* Mutant of Continues: a field may carry the start of a group.
ContinuesStarting(open, r) == r.kind = "field" /\ open = Context(r)

Continues(open, r) == r.kind = "field" /\ open = Context(r) /\ "start" \notin r.flags

Opens(open, r) == r.kind # "field" /\ open = Closed /\ "start" \in r.flags

Step(open, r) ==
    IF ~(Continues(open, r) \/ Opens(open, r)) THEN Invalid
    ELSE IF "end" \in r.flags THEN Closed ELSE Context(r)

\* What is open after each of the records.
Open(rs) ==
    LET open[n \in 0..Len(rs)] == IF n = 0 THEN Closed ELSE Step(open[n - 1], rs[n])
    IN open

Valid(rs) == Open(rs)[Len(rs)] = Closed

(***************************************************************************)
(* ingest_batch's loop over valid records: a group is a header, and unless *)
(* that ends it, everything up to the next record that does.               *)
(***************************************************************************)
\* Mutant of GroupEnd: a header that ends its group still takes a field.
GroupEndGreedy(rs, i) ==
    CHOOSE j \in i..Len(rs) :
        /\ "end" \in rs[j].flags /\ (j > i \/ j = Len(rs))
        /\ \A k \in i + 1..j - 1 : "end" \notin rs[k].flags

\* The index of the last record of the group whose header is at i.
GroupEnd(rs, i) ==
    CHOOSE j \in i..Len(rs) :
        "end" \in rs[j].flags /\ \A k \in i..j - 1 : "end" \notin rs[k].flags

\* The groups from each of the records on.
SplitFrom(rs) ==
    LET from[i \in 1..Len(rs) + 1] ==
            IF i > Len(rs) THEN <<>>
            ELSE LET j == GroupEnd(rs, i) IN <<SubSeq(rs, i, j)>> \o from[j + 1]
    IN from

Split(rs) == SplitFrom(rs)[1]

-----------------------------------------------------------------------------
(***************************************************************************)
(* The grammar the record's documentation promises, independent of how the *)
(* validator reads: a sequence of groups, each a header and its fields.    *)
(***************************************************************************)
Group(g) ==
    /\ Len(g) > 0
    /\ \A i \in 1..Len(g) :
        /\ g[i].kind = IF i = 1 THEN "header" ELSE "field"
        /\ "start" \in g[i].flags <=> i = 1
        /\ "end" \in g[i].flags <=> i = Len(g)
        /\ Context(g[i]) = Context(g[1])

Flatten(gs) ==
    LET flat[n \in 0..Len(gs)] == IF n = 0 THEN <<>> ELSE flat[n - 1] \o gs[n]
    IN flat[Len(gs)]

\* The records between two neighbouring cuts.
Pieces(rs, cuts) ==
    {SubSeq(rs, p[1] + 1, p[2]) :
        p \in {q \in cuts \X cuts : q[1] < q[2] /\ ~\E k \in cuts : q[1] < k /\ k < q[2]}}

Sentence(rs) ==
    \E cuts \in SUBSET (0..Len(rs)) :
        {0, Len(rs)} \subseteq cuts /\ \A g \in Pieces(rs, cuts) : Group(g)
=============================================================================
