--------------------------- MODULE MCAudioCapture ---------------------------
(* The records of AudioCapture for a bounded number of callbacks.          *)
EXTENDS AudioCapture

MCRecords == [end : {TRUE}, data : (1..MaxQuanta) \X Steps]
MCGroups == {<<r>> : r \in MCRecords}
MCMaxRecords == 4 * MaxQuanta + 1
=============================================================================
