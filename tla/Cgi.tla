-------------------------------- MODULE Cgi --------------------------------
(***************************************************************************)
(* CGI requests of uphttpd (3http_V04/src/up_cgi.c): each worker thread of *)
(* the pool makes a socket pair, forks a child that writes to one end, and *)
(* calls wait(&n), which reaps ANY child of the process, then copies what  *)
(* the child wrote to the client until it sees end of file.                *)
(*                                                                         *)
(* A child inherits every descriptor the process has open at its fork, so  *)
(* also the write ends of other workers that did not close theirs yet; end *)
(* of file comes when the last holder of the write end is gone.            *)
(***************************************************************************)
EXTENDS Integers, FiniteSets

CONSTANTS CgiWorkers, Requests,
          Capacity,   \* what the socket buffer takes without a reader
          Output,     \* what the programs may write: functions from requests to amounts
          Parent, NoReq

ASSUME SizesAssumption == Capacity \in Nat /\ Output \subseteq [Requests -> Nat]
ASSUME NamesAssumption == NoReq \notin Requests /\ Parent \notin Requests

VARIABLES
  pc,       \* where each worker is in cgi_handler
  req,      \* the request it serves
  n,        \* its local variable n, as wait stored it
  child,    \* "none", "running", "zombie" or "reaped", for each request's child
  code,     \* the exit status of its program
  left,     \* what the child has still to write
  buffer,   \* what is in the socket buffer
  writers,  \* processes that hold the write end open
  reply     \* "none", the status line 200 or 500, then "error" or "done" with it

childVars == <<child, left, buffer, writers>>
cgiVars == <<pc, req, n, childVars, code, reply>>

CgiInit == /\ pc = [w \in CgiWorkers |-> "idle"]
           /\ req = [w \in CgiWorkers |-> NoReq]
           /\ n = [w \in CgiWorkers |-> 0]
           /\ child = [r \in Requests |-> "none"]
           /\ code \in [Requests -> {0, 1}]
           /\ left \in Output
           /\ buffer = [r \in Requests |-> 0]
           /\ writers = [r \in Requests |-> {}]
           /\ reply = [r \in Requests |-> [line |-> "none", end |-> FALSE]]

Fresh == {r \in Requests : /\ child[r] = "none"
                           /\ ~reply[r].end
                           /\ \A w \in CgiWorkers : req[w] # r}

SocketPair(w, r) ==
  /\ pc[w] = "idle"
  /\ r \in Fresh
  /\ req' = [req EXCEPT ![w] = r]
  /\ writers' = [writers EXCEPT ![r] = {Parent}]
  /\ pc' = [pc EXCEPT ![w] = "fork"]
  /\ UNCHANGED <<n, child, code, left, buffer, reply>>

\* socketpair fails: no pair, cgi_handler returns -1 and up_sendfile reports 500.
SocketPairFails(w, r) ==
  /\ pc[w] = "idle"
  /\ r \in Fresh
  /\ reply' = [reply EXCEPT ![r] = [line |-> "error", end |-> TRUE]]
  /\ UNCHANGED <<pc, req, n, childVars, code>>

\* The child gets a copy of every descriptor that is open in the process.
Fork(w) ==
  /\ pc[w] = "fork"
  /\ child' = [child EXCEPT ![req[w]] = "running"]
  /\ writers' = [r \in Requests |-> IF Parent \in writers[r] THEN writers[r] \union {req[w]}
                                                             ELSE writers[r]]
  /\ pc' = [pc EXCEPT ![w] = "close"]
  /\ UNCHANGED <<req, n, code, left, buffer, reply>>

\* fork fails: both ends of the pair stay open for good.
ForkFails(w) ==
  /\ pc[w] = "fork"
  /\ reply' = [reply EXCEPT ![req[w]] = [line |-> "error", end |-> TRUE]]
  /\ req' = [req EXCEPT ![w] = NoReq]
  /\ pc' = [pc EXCEPT ![w] = "idle"]
  /\ UNCHANGED <<n, childVars, code>>

\* Mutant of CloseWriteEnd: the parent keeps its copy of the write end.
KeepWriteEnd(w) ==
  /\ pc[w] = "close"
  /\ pc' = [pc EXCEPT ![w] = "wait"]
  /\ UNCHANGED <<req, n, childVars, code, reply>>

CloseWriteEnd(w) ==
  /\ pc[w] = "close"
  /\ writers' = [writers EXCEPT ![req[w]] = @ \ {Parent}]
  /\ pc' = [pc EXCEPT ![w] = "wait"]
  /\ UNCHANGED <<req, n, child, code, left, buffer, reply>>

\* Mutant of Wait: it reaps without blocking (WNOHANG).
WaitNoHang(w) ==
  /\ pc[w] = "wait"
  /\ \/ \E z \in Requests : /\ child[z] = "zombie"
                            /\ child' = [child EXCEPT ![z] = "reaped"]
                            /\ n' = [n EXCEPT ![w] = code[z]]
     \/ /\ \A z \in Requests : child[z] # "zombie"
        /\ UNCHANGED <<child, n>>
  /\ pc' = [pc EXCEPT ![w] = "head"]
  /\ UNCHANGED <<req, code, left, buffer, writers, reply>>

\* wait(&n): any child that ended, not the one this worker forked.
Wait(w) ==
  /\ pc[w] = "wait"
  /\ \E z \in Requests : /\ child[z] = "zombie"
                         /\ child' = [child EXCEPT ![z] = "reaped"]
                         /\ n' = [n EXCEPT ![w] = code[z]]
  /\ pc' = [pc EXCEPT ![w] = "head"]
  /\ UNCHANGED <<req, code, left, buffer, writers, reply>>

\* Mutant of SendHead: the test of n is inverted.
SendHeadInverted(w) ==
  /\ pc[w] = "head"
  /\ reply' = [reply EXCEPT ![req[w]].line = IF n[w] = 0 THEN "500" ELSE "200"]
  /\ pc' = [pc EXCEPT ![w] = "copy"]
  /\ UNCHANGED <<req, n, childVars, code>>

SendHead(w) ==
  /\ pc[w] = "head"
  /\ reply' = [reply EXCEPT ![req[w]].line = IF n[w] # 0 THEN "500" ELSE "200"]
  /\ pc' = [pc EXCEPT ![w] = "copy"]
  /\ UNCHANGED <<req, n, childVars, code>>

Copy(w) ==
  /\ pc[w] = "copy"
  /\ buffer[req[w]] > 0
  /\ buffer' = [buffer EXCEPT ![req[w]] = @ - 1]
  /\ UNCHANGED <<pc, req, n, child, left, writers, code, reply>>

\* Mutant of EndOfFile: an empty buffer is taken for the end.
EndOfBuffer(w) ==
  /\ pc[w] = "copy"
  /\ buffer[req[w]] = 0
  /\ reply' = [reply EXCEPT ![req[w]].end = TRUE]
  /\ req' = [req EXCEPT ![w] = NoReq]
  /\ pc' = [pc EXCEPT ![w] = "idle"]
  /\ UNCHANGED <<n, childVars, code>>

\* read returns 0; the worker's end of the pair is never closed.
EndOfFile(w) ==
  /\ pc[w] = "copy"
  /\ buffer[req[w]] = 0
  /\ writers[req[w]] = {}
  /\ reply' = [reply EXCEPT ![req[w]].end = TRUE]
  /\ req' = [req EXCEPT ![w] = NoReq]
  /\ pc' = [pc EXCEPT ![w] = "idle"]
  /\ UNCHANGED <<n, childVars, code>>

ChildWrite(r) ==
  /\ child[r] = "running"
  /\ left[r] > 0
  /\ buffer[r] < Capacity
  /\ left' = [left EXCEPT ![r] = @ - 1]
  /\ buffer' = [buffer EXCEPT ![r] = @ + 1]
  /\ UNCHANGED <<pc, req, n, child, code, writers, reply>>

ChildExit(r) ==
  /\ child[r] = "running"
  /\ left[r] = 0
  /\ child' = [child EXCEPT ![r] = "zombie"]
  /\ writers' = [q \in Requests |-> writers[q] \ {r}]
  /\ UNCHANGED <<pc, req, n, code, left, buffer, reply>>

CgiStep(w) == \/ Fork(w) \/ ForkFails(w) \/ CloseWriteEnd(w) \/ Wait(w) \/ SendHead(w)
              \/ Copy(w) \/ EndOfFile(w)
              \/ \E r \in Requests : SocketPair(w, r) \/ SocketPairFails(w, r)
ChildStep(r) == ChildWrite(r) \/ ChildExit(r)

AllServed == (\A r \in Requests : reply[r].end) /\ UNCHANGED cgiVars

CgiNext == \/ \E w \in CgiWorkers : CgiStep(w)
           \/ \E r \in Requests : ChildStep(r)
           \/ AllServed

CgiSpec == CgiInit /\ [][CgiNext]_cgiVars

(* Threads and processes run; CGI programs end once they wrote everything. *)
CgiFairSpec == /\ CgiSpec
               /\ \A w \in CgiWorkers : WF_cgiVars(CgiStep(w))
               /\ \A r \in Requests : WF_cgiVars(ChildStep(r))

-----------------------------------------------------------------------------
(* Properties *)

CgiTypeOK ==
  /\ pc \in [CgiWorkers -> {"idle", "fork", "close", "wait", "head", "copy"}]
  /\ req \in [CgiWorkers -> Requests \union {NoReq}]
  /\ n \in [CgiWorkers -> {0, 1}]
  /\ child \in [Requests -> {"none", "running", "zombie", "reaped"}]
  /\ code \in [Requests -> {0, 1}]
  /\ left \in [Requests -> Nat]
  /\ buffer \in [Requests -> 0..Capacity]
  /\ writers \in [Requests -> SUBSET (Requests \union {Parent})]
  /\ reply \in [Requests -> [line : {"none", "200", "500", "error"}, end : BOOLEAN]]

\* Children that somebody has to reap, and workers that will.
Unreaped == {r \in Requests : child[r] \in {"running", "zombie"}}
Reapers  == {w \in CgiWorkers : pc[w] \in {"close", "wait"}}

\* Failed programs whose status was taken, replies that say so, and workers
\* about to say so.
Failed    == {r \in Requests : child[r] = "reaped" /\ code[r] # 0}
Reported  == {r \in Requests : reply[r].line = "500"}
Reporting == {w \in CgiWorkers : pc[w] = "head" /\ n[w] # 0}

(* The variables keep their types; although wait takes any child, there are *)
(* always as many children left to reap as workers that will still call it: *)
(* no worker finds no child, and no zombie stays behind.                    *)
OneChildPerWait ==
  /\ CgiTypeOK
  /\ Cardinality(Unreaped) = Cardinality(Reapers)

(* No exit status is lost or used twice: there are as many 500 lines, sent  *)
(* or about to be, as failed programs among the reaped ones.                *)
StatusesConserved ==
  Cardinality(Failed) = Cardinality(Reported) + Cardinality(Reporting)

(* A reply that ended without error holds everything the program wrote.     *)
NothingTruncated ==
  \A r \in Requests : reply[r].end /\ reply[r].line # "error" => left[r] = 0 /\ buffer[r] = 0

(* A request is served to the end, although workers reap each other's       *)
(* children and children inherit each other's write ends, as long as no     *)
(* program writes more than the socket buffer takes: nothing is read before *)
(* the program ended.                                                       *)
CgiServed ==
  (\A r \in Requests : left[r] <= Capacity)
     => \A r \in Requests : child[r] = "running" ~> reply[r].end
============================================================================
