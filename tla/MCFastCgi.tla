----------------------------- MODULE MCFastCgi ------------------------------
(* A small instance of FastCgi for TLC: a host whose process lighttpd starts *)
(* on a unix socket, and a remote host over TCP.                             *)
EXTENDS FastCgi
CONSTANTS h1, h2, q1, q2
MCHosts == <<h1, h2>>
MCHostProcs == [h \in {h1, h2} |-> IF h = h1 THEN <<q1>> ELSE <<q2>>]
MCDisableTime == [h \in {h1, h2} |-> 1]
=============================================================================
