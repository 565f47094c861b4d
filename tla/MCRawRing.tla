----------------------------- MODULE MCRawRing -----------------------------
(* Instances of RawRing: one allowed and one filtered category, groups of  *)
(* one to three records, and a call with a dynamic string.                *)
EXTENDS RawRing

MCCalls ==
    { [category |-> "audio", fields |-> <<>>],
      [category |-> None,    fields |-> <<"I64">>],
      [category |-> None,    fields |-> <<"I64", "I64">>],
      [category |-> "other", fields |-> <<>>],
      [category |-> None,    fields |-> <<"Str">>] }
=============================================================================
