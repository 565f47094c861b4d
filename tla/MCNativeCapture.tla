--------------------------- MODULE MCNativeCapture ---------------------------
(* Instances of NativeCapture: sessions that allow everything or only one  *)
(* of two categories.                                                       *)
EXTENDS NativeCapture

MCAllowLists == {{}, {CHOOSE c \in Categories : TRUE}}
=============================================================================
