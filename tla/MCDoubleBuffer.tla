--------------------------- MODULE MCDoubleBuffer ---------------------------
(* The instance of DoubleBuffer that TLC checks. *)
EXTENDS DoubleBuffer
=============================================================================
