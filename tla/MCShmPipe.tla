------------------------------ MODULE MCShmPipe ------------------------------
(* Small instances of ShmPipe. *)
EXTENDS ShmPipe
CONSTANTS r1, r2
=============================================================================
