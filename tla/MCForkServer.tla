---- MODULE MCForkServer ----
(* Small instances of ForkServer. *)
EXTENDS ForkServer
CONSTANTS c1, c2, c3, c4
====
