---- MODULE MCCgi ----
(* Small instances of Cgi. *)
EXTENDS Cgi
CONSTANTS r1, r2, r3, w1, w2

\* r1 writes nothing, r2 one block, r3 as much as the buffer takes, or more.
Outputs == {[r \in Requests |-> CASE r = r1 -> 0 [] r = r2 -> 1 [] OTHER -> Capacity + more] :
              more \in 0..1}
====
