----------------------------- MODULE ForkServer -----------------------------
(***************************************************************************)
(* http_server (server.c): the parent accepts a connection, forks a child  *)
(* that handles it, and goes on; its SIGCHLD handler calls wait once per   *)
(* delivery.  SIGCHLD is a standard signal: while one is pending, further  *)
(* ones are merged with it; while the handler runs, the next one stays     *)
(* pending.  The handler interrupts the parent anywhere, also inside       *)
(* accept, which then fails with EINTR and is called again.                *)
(***************************************************************************)
EXTENDS Naturals, FiniteSets

CONSTANTS Conns,     \* connections; the child of a connection bears its name
          MaxProcs   \* children the system lets the parent have, zombies included

ASSUME MaxProcsAssumption == MaxProcs \in Nat

VARIABLES
  pc,        \* the parent: "accept", "fork", "close", "exited"
  current,   \* its local variable connection, as a set of at most one
  arrived,   \* connections completed by the kernel and not accepted yet
  child,     \* "none", "running", "zombie" or "reaped"
  holders,   \* who has the connection's descriptor open: "parent", "child"
  pending,   \* SIGCHLD is pending
  handling,  \* clean_up_child_process runs
  merged     \* how many SIGCHLDs met one that was pending already

vars == <<pc, current, arrived, child, holders, pending, handling, merged>>

Init == /\ pc = "accept"
        /\ current = {}
        /\ arrived = {}
        /\ child = [c \in Conns |-> "none"]
        /\ holders = [c \in Conns |-> {}]
        /\ pending = FALSE
        /\ handling = FALSE
        /\ merged = 0

Children == {c \in Conns : child[c] \in {"running", "zombie"}}
Zombies  == {c \in Conns : child[c] = "zombie"}

Arrive(c) ==
  /\ pc # "exited"
  /\ child[c] = "none" /\ c \notin arrived \union current
  /\ arrived' = arrived \union {c}
  /\ UNCHANGED <<pc, current, child, holders, pending, handling, merged>>

\* accept blocks until a connection is there.  EINTR changes nothing: continue.
Accept(c) ==
  /\ pc = "accept" /\ ~handling
  /\ c \in arrived
  /\ arrived' = arrived \ {c}
  /\ current' = {c}
  /\ holders' = [holders EXCEPT ![c] = {"parent"}]
  /\ pc' = "fork"
  /\ UNCHANGED <<child, pending, handling, merged>>

\* Any other error, such as a connection its client aborted, ends the server.
AcceptFails ==
  /\ pc = "accept" /\ ~handling
  /\ arrived # {}
  /\ pc' = "exited"
  /\ UNCHANGED <<current, arrived, child, holders, pending, handling, merged>>

\* verbose: assert(getpeername = 0) fails for a client that is gone already.
PeerGone ==
  /\ pc = "fork" /\ ~handling
  /\ current # {}
  /\ pc' = "exited"
  /\ UNCHANGED <<current, arrived, child, holders, pending, handling, merged>>

\* The child inherits the descriptor of the connection.
Fork(c) ==
  /\ pc = "fork" /\ ~handling
  /\ c \in current
  /\ Cardinality(Children) < MaxProcs
  /\ child' = [child EXCEPT ![c] = "running"]
  /\ holders' = [holders EXCEPT ![c] = {"parent", "child"}]
  /\ pc' = "close"
  /\ UNCHANGED <<current, arrived, pending, handling, merged>>

\* Mutant of ForkFails: the server goes on without the child.
ForkFailureIgnored ==
  /\ pc = "fork" /\ ~handling
  /\ Cardinality(Children) >= MaxProcs
  /\ pc' = "accept"
  /\ current' = {}
  /\ UNCHANGED <<arrived, child, holders, pending, handling, merged>>

\* No process can be made: system_error ends the server.
ForkFails ==
  /\ pc = "fork" /\ ~handling
  /\ Cardinality(Children) >= MaxProcs
  /\ pc' = "exited"
  /\ UNCHANGED <<current, arrived, child, holders, pending, handling, merged>>

CloseCopy(c) ==
  /\ pc = "close" /\ ~handling
  /\ c \in current
  /\ holders' = [holders EXCEPT ![c] = @ \ {"parent"}]
  /\ current' = {}
  /\ pc' = "accept"
  /\ UNCHANGED <<arrived, child, pending, handling, merged>>

\* handle_connection returned, close, exit(0): the kernel sends SIGCHLD.
ChildExit(c) ==
  /\ pc # "exited"
  /\ child[c] = "running"
  /\ child' = [child EXCEPT ![c] = "zombie"]
  /\ holders' = [holders EXCEPT ![c] = @ \ {"child"}]
  /\ pending' = TRUE
  /\ merged' = IF pending THEN merged + 1 ELSE merged
  /\ UNCHANGED <<pc, current, arrived, handling>>

Deliver ==
  /\ pc # "exited"
  /\ pending /\ ~handling
  /\ pending' = FALSE
  /\ handling' = TRUE
  /\ UNCHANGED <<pc, current, arrived, child, holders, merged>>

\* Mutant of CleanUp: the handler returns without wait.
CleanUpNothing ==
  /\ handling
  /\ handling' = FALSE
  /\ UNCHANGED <<pc, current, arrived, child, holders, pending, merged>>

\* clean_up_child_process: wait takes one zombie, or blocks for lack of one.
CleanUp ==
  /\ handling
  /\ \E c \in Zombies : child' = [child EXCEPT ![c] = "reaped"]
  /\ handling' = FALSE
  /\ UNCHANGED <<pc, current, arrived, holders, pending, merged>>

ParentStep == AcceptFails \/ PeerGone \/ ForkFails \/ \E c \in Conns : Accept(c) \/ Fork(c) \/ CloseCopy(c)

\* The parent waits in accept for ever, or it exited.
Idle == /\ pc = "exited" \/ (pc = "accept" /\ arrived = {} /\ ~pending /\ ~handling)
        /\ UNCHANGED vars

Next == \/ ParentStep
        \/ \E c \in Conns : Arrive(c) \/ ChildExit(c)
        \/ Deliver
        \/ CleanUp
        \/ Idle

Spec == Init /\ [][Next]_vars

(* Processes run, pending signals are delivered and connections end.       *)
FairSpec == /\ Spec
            /\ SF_vars(ParentStep)
            /\ WF_vars(Deliver)
            /\ WF_vars(CleanUp)
            /\ \A c \in Conns : WF_vars(ChildExit(c))

-----------------------------------------------------------------------------
(* Properties *)

Bit(b) == IF b THEN 1 ELSE 0

TypeOK ==
  /\ pc \in {"accept", "fork", "close", "exited"}
  /\ current \in SUBSET Conns
  /\ arrived \in SUBSET Conns
  /\ child \in [Conns -> {"none", "running", "zombie", "reaped"}]
  /\ holders \in [Conns -> SUBSET {"parent", "child"}]
  /\ pending \in BOOLEAN
  /\ handling \in BOOLEAN
  /\ merged \in Nat

(* The variables keep their types, and every zombie is accounted for: its   *)
(* signal is pending, being handled, or was merged with another one.        *)
(* Merging is the only way to keep one, and the wait of the handler always  *)
(* finds one, so that it never blocks.                                      *)
ZombiesAccounted ==
  /\ TypeOK
  /\ pc # "exited" => Cardinality(Zombies) = Bit(pending) + Bit(handling) + merged

(* Whatever the signals interrupt, an arrived connection gets its child,    *)
(* unless the server ended on an error: it never goes on without the child. *)
ConnectionsServed == \A c \in Conns : c \in arrived ~> (child[c] # "none" \/ pc = "exited")
=============================================================================
