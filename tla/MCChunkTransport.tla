-------------------------- MODULE MCChunkTransport --------------------------
(* Instances of ChunkTransport with groups of one and of two records: a    *)
(* group of two does not fit the last place of a chunk of three.           *)
EXTENDS ChunkTransport

MCRecords == [end : BOOLEAN, data : {1, 2}]
Single == <<[end |-> TRUE, data |-> 1]>>
Double == <<[end |-> FALSE, data |-> 2], [end |-> TRUE, data |-> 1]>>
MCGroups == {Single, Double}
=============================================================================
