----------------------------- MODULE MCLighttpd -----------------------------
(* Small instances of Lighttpd for TLC: p1 pipelines requests and meets      *)
(* every kind of trouble, p2 is a plain or a silent client that shares the  *)
(* server.                                                                  *)
EXTENDS Lighttpd
CONSTANTS p1, p2
MCScripts == [p \in {p1, p2} |->
  IF p = p1 THEN {<<"post", "body", "get">>} ELSE {<<"big">>}]
MCLiveScripts == [p \in {p1, p2} |-> IF p = p1 THEN {<<"get">>, <<"bad">>} ELSE {<< >>}]
=============================================================================
