---------------------------- MODULE RecordGroups ----------------------------
(***************************************************************************)
(* Record groups, the unit every producer accepts, drops and transfers: a  *)
(* header record followed by its field records, the last of which carries  *)
(* FLAG_GROUP_END.  A record is reduced to that flag and an opaque payload.*)
(***************************************************************************)
EXTENDS Naturals, Sequences

RecordOf(Data) == [end : BOOLEAN, data : Data]

\* A sequence of records that is exactly one group.
IsGroup(g) ==
    /\ Len(g) > 0
    /\ \A i \in 1..Len(g) : g[i].end <=> i = Len(g)

\* A sequence of records that is made of complete groups only.
WholeGroups(r) == Len(r) > 0 => r[Len(r)].end

\* Mutant of Cuts: records are drained one by one.
CutsAnywhere(r) == 0..Len(r)

\* The lengths at which r can be cut without cutting a group.
Cuts(r) == {0} \union {k \in 1..Len(r) : r[k].end}

\* drain_into takes groups from the front for as long as the next one fits into
\* n records: what it takes is the longest prefix of complete groups of at most
\* n records.  Fit is the set that holds that one length.
Fit(r, n) == {k \in Cuts(r) : k <= n /\ \A j \in Cuts(r) : j <= n => j <= k}

Taken(r, n) == SubSeq(r, 1, n)
Rest(r, n) == SubSeq(r, n + 1, Len(r))
=============================================================================
