--------------------------- MODULE MCHeaderReader ---------------------------
(* Requests of at most MaxLen tokens, a blank line only at their end: whole  *)
(* ones, and those that a client breaks off.                                 *)
EXTENDS HeaderReader
CONSTANT MaxLen

MCRequests ==
  UNION {{s \in [1..n -> {"x", "n"}] :
            s[1] = "x" /\ \A i \in 1..n - 2 : ~(s[i] = "n" /\ s[i + 1] = "n")} : n \in 1..MaxLen}
=============================================================================
