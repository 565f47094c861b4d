-------------------------- MODULE MCChunkCollector --------------------------
(***************************************************************************)
(* Three chunks: a group with a field, two groups, a group of one record.  *)
(***************************************************************************)
EXTENDS ChunkCollector

Single(time) == <<Record("header", {"start", "end"}, 1, 1, time)>>
WithField(time) ==
    <<Record("header", {"start"}, 1, 1, time), Record("field", {"end"}, 1, 1, time)>>

MCPayloads == << <<WithField(1)>>, <<Single(2), WithField(3)>>, <<Single(4)>> >>
=============================================================================
