------------------------------- MODULE FastCgi -------------------------------
(* mod_fastcgi of lighttpd 1.4.32: requests that are shared out to hosts and *)
(* their processes, connected, written and answered, while processes die,    *)
(* refuse, are overloaded, and are revived (src/mod_fastcgi.c).              *)
(*                                                                           *)
(* The main loop around it is that of Lighttpd, reduced to the phases that   *)
(* call the plugin: the trigger once a second, connections waiting for a     *)
(* descriptor, poll, its events, the job list.  A handler is cut into steps  *)
(* between which only processes die: everybody else moves during poll.       *)
EXTENDS Integers, FiniteSets, Sequences, Functions

CONSTANTS
  Reqs,          \* connections, each with one request at a time
  Procs,
  Hosts,         \* the hosts of one extension, a sequence
  HostProcs,     \* HostProcs[h]: its processes, in the order of host->first
  Spawning,      \* hosts with a bin_path: lighttpd starts their processes
  Tcp,           \* hosts reached over TCP; the others have a unix socket
  DisableTime,   \* DisableTime[h]: seconds a failing process is left alone
  BackendFds,    \* descriptors that sockets to backends may take
  MaxReconnects, \* 5 at mod_fastcgi.c:3191
  MaxRequests,   \* bound: requests in a behaviour
  MaxDeaths,     \* bound: processes that die
  None

HostSet == {Hosts[i] : i \in 1..Len(Hosts)}
ProcsOf(h) == {HostProcs[h][i] : i \in 1..Len(HostProcs[h])}

ASSUME ConfigAssumption ==
  /\ IsFiniteSet(Reqs) /\ IsFiniteSet(Procs)
  /\ Hosts \in Seq(HostSet) /\ Len(Hosts) > 0
  /\ HostProcs \in [HostSet -> Seq(Procs)]
  /\ \A p \in Procs : \E h \in HostSet : p \in ProcsOf(h) /\ \A g \in HostSet : p \in ProcsOf(g) => g = h
  /\ Spawning \subseteq HostSet /\ Tcp \subseteq HostSet /\ DisableTime \in [HostSet -> Nat]
  /\ {BackendFds, MaxReconnects, MaxRequests, MaxDeaths} \subseteq Nat
  /\ None \notin Reqs \cup Procs \cup HostSet

HostOf(p) == CHOOSE h \in HostSet : p \in ProcsOf(h)

VARIABLES
  pc,          \* where the loop or the handler is
  cur, ret,    \* the request in hand, and the phase its handler returns to
  todo,        \* processes fcgi_restart_dead_procs still has to look at
  budget,      \* runs left to the connections that wait for a descriptor
  events,      \* requests whose backend socket was ready at poll
  joblist, fdwaitqueue,
  con,         \* the connection of a request
  file_started,
  ctx,         \* handler_ctx: state, host, proc, got_proc, reconnects
  sock,        \* the socket to the backend, as the kernel has it
  pstate, pload, is_local, pid, \* fcgi_proc
  orphan,      \* their address is a listening socket that only lighttpd holds
  cooling,     \* seconds until cur_ts is past its disabled_until
  hload, active_procs, \* fcgi_extension_host
  last_used,   \* ext->last_used_ndx
  extra,       \* ghost: processes counted in active_procs once too often
  requests, deaths

loopVars == <<todo, budget, events, joblist, fdwaitqueue>>
procVars == <<pstate, is_local, pid, orphan, cooling, active_procs, extra>>
reqVars  == <<con, file_started, ctx, sock, pload, hload>>
vars == <<pc, cur, ret, loopVars, reqVars, procVars, last_used, requests, deaths>>

NoCtx == [state |-> "none", host |-> None, proc |-> None, got_proc |-> FALSE, reconnects |-> 0]
OpenFds == {r \in Reqs : sock[r] # "none"}
FreeFds == BackendFds - Cardinality(OpenFds)
(* The loop passes over those that run.                                      *)
Stopped(s) == SelectSeq(s, LAMBDA p : pstate[p] # "RUNNING")
Running(h) == {p \in ProcsOf(h) : pstate[p] = "RUNNING"}

(* mod_fastcgi_set_defaults: the processes of hosts with a bin_path are      *)
(* started, the others are taken to run.                                     *)
Init ==
  /\ pc = "top" /\ cur = None /\ ret = "top" /\ todo = <<>> /\ budget = 0 /\ events = {}
  /\ joblist = <<>> /\ fdwaitqueue = <<>>
  /\ con = [r \in Reqs |-> "idle"] /\ file_started = [r \in Reqs |-> FALSE]
  /\ ctx = [r \in Reqs |-> NoCtx] /\ sock = [r \in Reqs |-> "none"]
  /\ pstate = [p \in Procs |-> "RUNNING"] /\ pload = [p \in Procs |-> 0]
  /\ is_local = [p \in Procs |-> HostOf(p) \in Spawning]
  /\ pid = [p \in Procs |-> IF HostOf(p) \in Spawning THEN "alive" ELSE "none"]
  /\ orphan = {} /\ cooling = [p \in Procs |-> 0]
  /\ hload = [h \in HostSet |-> 0] /\ active_procs = [h \in HostSet |-> Cardinality(ProcsOf(h))]
  /\ last_used = Len(Hosts) /\ extra = [h \in HostSet |-> 0]
  /\ requests = 0 /\ deaths = 0

-----------------------------------------------------------------------------
(* Processes.                                                                *)

(* fcgi_host_disable: a process is given up, and counted out if it ran.      *)
fcgi_host_disable(h, p) ==
  IF DisableTime[h] > 0 \/ is_local[p]
    THEN /\ active_procs' = [active_procs EXCEPT ![h] = @ - (IF pstate[p] = "RUNNING" THEN 1 ELSE 0)]
         /\ pstate' = [pstate EXCEPT ![p] = IF is_local[p] THEN "DIED_WAIT_FOR_PID" ELSE "DIED"]
         /\ cooling' = [cooling EXCEPT ![p] = DisableTime[h] + 1]
         /\ UNCHANGED <<is_local, pid, orphan, extra>>
    ELSE UNCHANGED procVars

(* Mutant: a process that runs again is not counted.                         *)
fcgi_spawn_connection_uncounted(p) ==
  /\ pstate' = [pstate EXCEPT ![p] = "RUNNING"]
  /\ is_local' = [is_local EXCEPT ![p] = TRUE] /\ pid' = [pid EXCEPT ![p] = "alive"]
  /\ UNCHANGED <<active_procs, orphan>>

(* fcgi_spawn_connection that does not fail: it forked; somebody listens on  *)
(* the socket already, if only lighttpd; fork failed, which nobody looks at. *)
fcgi_spawn_connection(p) ==
  /\ pstate' = [pstate EXCEPT ![p] = "RUNNING"]
  /\ \/ /\ p \notin orphan
        /\ is_local' = [is_local EXCEPT ![p] = TRUE] /\ pid' = [pid EXCEPT ![p] = "alive"]
     \/ is_local' = [is_local EXCEPT ![p] = FALSE] /\ pid' = [pid EXCEPT ![p] = "none"]
     \/ /\ p \notin orphan
        /\ UNCHANGED is_local /\ pid' = [pid EXCEPT ![p] = IF @ = "zombie" THEN "gone" ELSE @]
  /\ active_procs' = [active_procs EXCEPT ![HostOf(p)] = @ + 1]
  /\ UNCHANGED orphan

(* It fails: no socket to listen on; or a child that ended within 100 ms,    *)
(* whose listening socket stays open in lighttpd.  With such a socket the    *)
(* connect succeeds, and nothing is left to fail.                            *)
fcgi_spawn_connection_fails(p) ==
  /\ p \notin orphan /\ orphan' \in {orphan, orphan \cup {p}}
  /\ pstate' = [pstate EXCEPT ![p] = "DIED"]
  /\ UNCHANGED <<is_local, active_procs>>

(* fcgi_restart_dead_procs, one process at a time.  waitpid tells a process  *)
(* that refuses connections from one that died.                              *)
IsDead(p) ==
  \/ pstate[p] = "DIED"
  \/ pstate[p] = "DIED_WAIT_FOR_PID" /\ ~(is_local[p] /\ pid[p] = "alive")
Reaped(p) ==
  [pid EXCEPT ![p] = IF pstate[p] = "DIED_WAIT_FOR_PID" /\ @ = "zombie" THEN "gone" ELSE @]

MayRespawn(p) == IsDead(p) /\ HostOf(p) \in Spawning /\ pload[p] = 0
MayReenable(p) ==
  /\ pstate[p] # "RUNNING" /\ cooling[p] = 0
  /\ IsDead(p) => HostOf(p) \notin Spawning

Looking(p) == pc = "restart" /\ todo # <<>> /\ p = Head(todo)
restartRest == <<pc, cur, ret, budget, events, joblist, fdwaitqueue, reqVars, last_used, requests, deaths>>

LeaveProc(p) ==
  /\ Looking(p) /\ ~MayRespawn(p) /\ ~MayReenable(p)
  /\ pstate' = [pstate EXCEPT ![p] = IF IsDead(p) THEN "DIED" ELSE @] /\ pid' = Reaped(p)
  /\ todo' = Tail(todo)
  /\ UNCHANGED <<is_local, orphan, cooling, active_procs, extra, restartRest>>

Reenable(p) ==
  /\ Looking(p) /\ MayReenable(p)
  /\ pstate' = [pstate EXCEPT ![p] = "RUNNING"] /\ pid' = Reaped(p)
  /\ active_procs' = [active_procs EXCEPT ![HostOf(p)] = @ + 1]
  /\ todo' = Tail(todo)
  /\ UNCHANGED <<is_local, orphan, cooling, extra, restartRest>>

Respawn(p) ==
  /\ Looking(p) /\ MayRespawn(p)
  /\ fcgi_spawn_connection(p)
  /\ todo' = Tail(todo)
  /\ UNCHANGED <<cooling, extra, restartRest>>

(* A spawn that fails ends the loop over this host's processes.              *)
RespawnFails(p) ==
  /\ Looking(p) /\ MayRespawn(p)
  /\ fcgi_spawn_connection_fails(p) /\ pid' = Reaped(p)
  /\ todo' = SelectSeq(todo, LAMBDA q : HostOf(q) # HostOf(p))
  /\ UNCHANGED <<cooling, extra, restartRest>>

(* Back to the handler that failed, or to the trigger's caller, which then   *)
(* moves cur_ts (server.c:1258).                                             *)
Restarted ==
  /\ pc = "restart" /\ todo = <<>>
  /\ IF cur # None
       THEN pc' = "retry" /\ UNCHANGED cooling
       ELSE pc' = "fdwait" /\ cooling' = [p \in Procs |-> IF cooling[p] = 0 THEN 0 ELSE cooling[p] - 1]
  /\ budget' = IF cur = None THEN FreeFds ELSE budget
  /\ UNCHANGED <<cur, ret, todo, events, joblist, fdwaitqueue, reqVars, pstate, is_local, pid, orphan,
                 active_procs, extra, last_used, requests, deaths>>

-----------------------------------------------------------------------------
(* A request and its handler_ctx.                                            *)

(* fcgi_connection_close and handler_ctx_free: the socket, the load of the   *)
(* process where the request got one, the load of the host.                  *)
fcgi_connection_close(r) ==
  LET c == ctx[r] IN
  /\ sock' = [sock EXCEPT ![r] = "none"]
  /\ pload' = IF c.got_proc THEN [pload EXCEPT ![c.proc] = @ - 1] ELSE pload
  /\ hload' = IF c.host # None THEN [hload EXCEPT ![c.host] = @ - 1] ELSE hload
  /\ ctx' = [ctx EXCEPT ![r] = NoCtx]

(* Mutant: the host keeps the load of a request that leaves it.              *)
fcgi_reconnect_keeps_load(r) ==
  LET c == ctx[r] IN
  /\ sock' = [sock EXCEPT ![r] = "none"]
  /\ pload' = IF c.got_proc THEN [pload EXCEPT ![c.proc] = @ - 1] ELSE pload
  /\ UNCHANGED hload
  /\ ctx' = [ctx EXCEPT ![r] = [c EXCEPT !.state = "INIT", !.host = None, !.reconnects = @ + 1]]

(* fcgi_reconnect: the request starts again, on any host.                    *)
fcgi_reconnect(r) ==
  LET c == ctx[r] IN
  /\ sock' = [sock EXCEPT ![r] = "none"]
  /\ pload' = IF c.got_proc THEN [pload EXCEPT ![c.proc] = @ - 1] ELSE pload
  /\ hload' = [hload EXCEPT ![c.host] = @ - 1]
  /\ ctx' = [ctx EXCEPT ![r] = [c EXCEPT !.state = "INIT", !.host = None, !.reconnects = @ + 1]]

Return == pc' = ret /\ cur' = None /\ ret' = "top"
At(step) == pc = step /\ cur # None

(* mod_fastcgi_handle_subrequest, called by the state machine or by the      *)
(* socket's event handler.                                                   *)
InSubrequest == At("machine") /\ con[cur] = "handle" /\ ctx[cur] # NoCtx

(* The choice of a host: the next one if it has no load, else the one with   *)
(* the least load among those with an active process.                        *)
NextHost == (last_used % Len(Hosts)) + 1
ActiveHosts == {i \in 1..Len(Hosts) : active_procs[Hosts[i]] > 0}
BestHosts ==
  IF hload[Hosts[NextHost]] = 0 THEN {NextHost}
  ELSE {i \in ActiveHosts : \A j \in ActiveHosts :
          \/ hload[Hosts[i]] < hload[Hosts[j]]
          \/ hload[Hosts[i]] = hload[Hosts[j]] /\ i <= j}

handlerRest == <<todo, budget, events, procVars, requests, deaths>>

ChooseHost ==
  /\ InSubrequest /\ ctx[cur].host = None
  /\ \E i \in BestHosts :
       /\ last_used' = i
       /\ ctx' = [ctx EXCEPT ![cur].host = Hosts[i], ![cur].proc = None]
       /\ hload' = [hload EXCEPT ![Hosts[i]] = @ + 1]
  /\ UNCHANGED <<pc, cur, ret, joblist, fdwaitqueue, con, file_started, sock, pload, handlerRest>>

AllHostsDown ==
  /\ InSubrequest /\ ctx[cur].host = None /\ BestHosts = {}
  /\ fcgi_connection_close(cur)
  /\ con' = [con EXCEPT ![cur] = "idle"]
  /\ Return
  /\ UNCHANGED <<joblist, fdwaitqueue, file_started, last_used, handlerRest>>

(* fcgi_write_request, state INIT: the first running process of the host     *)
(* that no later one beats.                                                  *)
Assigned == InSubrequest /\ ctx[cur].host # None
BestProc(h, p) ==
  LET s == HostProcs[h] IN
  \E i \in 1..Len(s) :
    /\ p = s[i] /\ pstate[p] = "RUNNING"
    /\ \A j \in 1..Len(s) : pstate[s[j]] = "RUNNING" =>
         pload[p] < pload[s[j]] \/ (pload[p] = pload[s[j]] /\ i <= j)

NoRunningProc ==
  /\ Assigned /\ ctx[cur].state = "INIT" /\ Running(ctx[cur].host) = {}
  /\ ctx' = [ctx EXCEPT ![cur].proc = None]
  /\ pc' = "failed"
  /\ UNCHANGED <<cur, ret, joblist, fdwaitqueue, con, file_started, sock, pload, hload, last_used,
                 handlerRest>>

(* No descriptor: the connection waits for one.                              *)
NoDescriptor ==
  /\ Assigned /\ ctx[cur].state = "INIT" /\ Cardinality(OpenFds) >= BackendFds
  /\ \E p \in Procs : BestProc(ctx[cur].host, p) /\ ctx' = [ctx EXCEPT ![cur].proc = p]
  /\ fdwaitqueue' = Append(fdwaitqueue, cur)
  /\ Return
  /\ UNCHANGED <<joblist, con, file_started, sock, pload, hload, last_used, handlerRest>>

(* fcgi_establish_connection: what connect says, of a process that serves or *)
(* does not.                                                                 *)
connect(h, p) ==
  (IF p \in orphan THEN {} ELSE {"DEAD"}) \cup (IF h \in Tcp THEN {"DELAYED"} ELSE {})
  \cup (IF pid[p] \in {"alive", "none"}
          THEN {"OK"} \cup (IF h \in Tcp THEN {} ELSE {"OVERLOADED"}) ELSE {})

StartConnect(p) ==
  /\ Assigned /\ ctx[cur].state = "INIT" /\ Cardinality(OpenFds) < BackendFds
  /\ BestProc(ctx[cur].host, p)

startRest == <<joblist, fdwaitqueue, con, file_started, pload, hload, last_used, todo, budget,
               events, requests, deaths>>

ConnectOk(p) ==
  /\ StartConnect(p) /\ "OK" \in connect(ctx[cur].host, p)
  /\ ctx' = [ctx EXCEPT ![cur] = [@ EXCEPT !.proc = p, !.reconnects = 0, !.state = "PREPARE_WRITE"]]
  /\ sock' = [sock EXCEPT ![cur] = "up"]
  /\ UNCHANGED <<pc, cur, ret, procVars, startRest>>

ConnectDelayed(p) ==
  /\ StartConnect(p) /\ "DELAYED" \in connect(ctx[cur].host, p)
  /\ ctx' = [ctx EXCEPT ![cur].proc = p, ![cur].state = "CONNECT_DELAYED"]
  /\ sock' = [sock EXCEPT ![cur] = "connecting"]
  /\ Return
  /\ UNCHANGED <<procVars, startRest>>

ConnectOverloaded(p) ==
  /\ StartConnect(p) /\ "OVERLOADED" \in connect(ctx[cur].host, p)
  /\ ctx' = [ctx EXCEPT ![cur].proc = p]
  /\ sock' = [sock EXCEPT ![cur] = "failed"]
  /\ IF DisableTime[ctx[cur].host] > 0
       THEN /\ pstate' = [pstate EXCEPT ![p] = "OVERLOADED"]
            /\ cooling' = [cooling EXCEPT ![p] = DisableTime[ctx[cur].host] + 1]
            /\ active_procs' = [active_procs EXCEPT ![ctx[cur].host] = @ - 1]
            /\ UNCHANGED <<is_local, pid, orphan, extra>>
       ELSE UNCHANGED procVars
  /\ pc' = "failed"
  /\ UNCHANGED <<cur, ret, startRest>>

ConnectDead(p) ==
  /\ StartConnect(p) /\ "DEAD" \in connect(ctx[cur].host, p)
  /\ ctx' = [ctx EXCEPT ![cur].proc = p]
  /\ sock' = [sock EXCEPT ![cur] = "failed"]
  /\ fcgi_host_disable(ctx[cur].host, p)
  /\ pc' = "failed"
  /\ UNCHANGED <<cur, ret, startRest>>

(* State CONNECT_DELAYED: SO_ERROR is zero also while the connect goes on.   *)
ConnectFailed ==
  /\ Assigned /\ ctx[cur].state = "CONNECT_DELAYED" /\ sock[cur] = "failed"
  /\ fcgi_host_disable(ctx[cur].host, ctx[cur].proc)
  /\ pc' = "failed"
  /\ UNCHANGED <<cur, ret, loopVars, reqVars, last_used, requests, deaths>>

ConnectDone ==
  /\ Assigned /\ ctx[cur].state = "CONNECT_DELAYED" /\ sock[cur] # "failed"
  /\ ctx' = [ctx EXCEPT ![cur].state = "PREPARE_WRITE"]
  /\ UNCHANGED <<pc, cur, ret, joblist, fdwaitqueue, con, file_started, sock, pload, hload, last_used,
                 handlerRest>>

(* States PREPARE_WRITE and WRITE: what is written is all of the request, or *)
(* a part of it, after which the socket may take more or be full.            *)
Writes ==
  \E s \in {<<"READ", "up">>, <<"WRITE", "up">>, <<"WRITE", "full">>} :
    ctx' = [ctx EXCEPT ![cur].got_proc = TRUE, ![cur].state = s[1]] /\ sock' = [sock EXCEPT ![cur] = s[2]]

network_backend_write ==
  /\ IF sock[cur] = "up" THEN Writes
     ELSE ctx' = [ctx EXCEPT ![cur].got_proc = TRUE, ![cur].state = "WRITE"] /\ UNCHANGED sock
  /\ IF sock[cur] \in {"up", "full", "connecting"} THEN Return ELSE pc' = "retry" /\ UNCHANGED <<cur, ret>>
  /\ UNCHANGED <<joblist, fdwaitqueue, con, file_started, hload, last_used, handlerRest>>

PrepareWrite ==
  /\ Assigned /\ ctx[cur].state = "PREPARE_WRITE"
  /\ pload' = [pload EXCEPT ![ctx[cur].proc] = @ + 1]
  /\ network_backend_write

WriteMore ==
  /\ Assigned /\ ctx[cur].state = "WRITE"
  /\ network_backend_write /\ UNCHANGED pload

(* State READ: nothing to send; an answer that has started goes out.         *)
AwaitAnswer ==
  /\ Assigned /\ ctx[cur].state = "READ"
  /\ con' = [con EXCEPT ![cur] = IF file_started[cur] THEN "started" ELSE @]
  /\ Return
  /\ UNCHANGED <<joblist, fdwaitqueue, file_started, ctx, sock, pload, hload, last_used,
                 handlerRest>>

(* The request failed.  Before anything was written, revive what can be      *)
(* revived, and start again while there are tries left.                      *)
Early == ctx[cur].state \in {"INIT", "CONNECT_DELAYED"}

Failed ==
  /\ At("failed")
  /\ pc' = "restart" /\ todo' = Stopped(HostProcs[ctx[cur].host])
  /\ UNCHANGED <<cur, ret, budget, events, joblist, fdwaitqueue, reqVars, procVars, last_used,
                 requests, deaths>>

(* Mutant: the handler leaves the job list to its caller.                    *)
RetryUnqueued ==
  /\ At("retry") /\ Early /\ ctx[cur].reconnects < MaxReconnects
  /\ fcgi_reconnect(cur)
  /\ fdwaitqueue' = IF ret = "events" THEN fdwaitqueue ELSE Append(fdwaitqueue, cur)
  /\ Return
  /\ UNCHANGED <<joblist, con, file_started, last_used, handlerRest>>

(* The job list gets the connection in any case; the state machine also      *)
(* queues it for a descriptor, which the event handler's caller does not.    *)
Retry ==
  /\ At("retry") /\ Early /\ ctx[cur].reconnects < MaxReconnects
  /\ fcgi_reconnect(cur)
  /\ joblist' = Append(joblist, cur)
  /\ fdwaitqueue' = IF ret = "events" THEN fdwaitqueue ELSE Append(fdwaitqueue, cur)
  /\ Return
  /\ UNCHANGED <<con, file_started, last_used, handlerRest>>

GiveUp ==
  /\ At("retry") /\ ~(Early /\ ctx[cur].reconnects < MaxReconnects)
  /\ fcgi_connection_close(cur)
  /\ con' = [con EXCEPT ![cur] = IF ret = "events" THEN "handle" ELSE "idle"]
  /\ joblist' = Append(joblist, cur)
  /\ Return
  /\ UNCHANGED <<fdwaitqueue, file_started, last_used, handlerRest>>

mod_fastcgi_handle_subrequest ==
  \/ ChooseHost \/ AllHostsDown \/ NoRunningProc \/ NoDescriptor
  \/ \E p \in Procs : ConnectOk(p) \/ ConnectDelayed(p) \/ ConnectOverloaded(p) \/ ConnectDead(p)
  \/ ConnectFailed \/ ConnectDone \/ PrepareWrite \/ WriteMore \/ AwaitAnswer
  \/ Failed \/ Retry \/ GiveUp

-----------------------------------------------------------------------------
(* connection_state_machine, as far as it reaches the plugin.                *)

(* fcgi_check_extension: with no active process in any host, 500.            *)
fcgi_check_extension ==
  /\ At("machine") /\ con[cur] = "new"
  /\ IF ActiveHosts = {}
       THEN /\ con' = [con EXCEPT ![cur] = "idle"] /\ Return /\ UNCHANGED ctx
       ELSE /\ con' = [con EXCEPT ![cur] = "handle"] /\ ctx' = [ctx EXCEPT ![cur].state = "INIT"]
            /\ UNCHANGED <<pc, cur, ret>>
  /\ UNCHANGED <<joblist, fdwaitqueue, file_started, sock, pload, hload, last_used, handlerRest>>

(* The answer is complete or an error page; the connection failed; or the    *)
(* run has nothing to do.                                                    *)
Answer ==
  /\ At("machine") /\ con[cur] # "new" /\ (con[cur] = "handle" => ctx[cur] = NoCtx)
  /\ IF con[cur] = "error" \/ ctx[cur] = NoCtx
       THEN /\ fcgi_connection_close(cur) /\ con' = [con EXCEPT ![cur] = "idle"]
            /\ file_started' = [file_started EXCEPT ![cur] = FALSE]
       ELSE UNCHANGED <<sock, pload, hload, ctx, con, file_started>>
  /\ Return
  /\ UNCHANGED <<joblist, fdwaitqueue, last_used, handlerRest>>

-----------------------------------------------------------------------------
(* fcgi_handle_fdevent.  An error on a socket that is polled for reading or  *)
(* writing always comes with that event, which is looked at first.           *)
EventOf(r) == pc = "events" /\ r \in events /\ events' = events \ {r}
eventRest == <<todo, budget, fdwaitqueue, last_used, requests, deaths>>

WriteEvent(r) ==
  /\ EventOf(r) /\ ctx[r].state \in {"CONNECT_DELAYED", "WRITE"}
  /\ cur' = r /\ ret' = "events" /\ pc' = "machine"
  /\ UNCHANGED <<joblist, reqVars, procVars, eventRest>>

(* fcgi_demux_response: a part of the answer, at first its header, with or   *)
(* without content that puts the connection on the job list (bound: one).    *)
AnswerStarts(r) ==
  /\ EventOf(r) /\ ctx[r].state = "READ" /\ sock[r] = "ready" /\ ~file_started[r]
  /\ file_started' = [file_started EXCEPT ![r] = TRUE]
  /\ sock' = [sock EXCEPT ![r] = "up"]
  /\ joblist' \in {joblist, Append(joblist, r)}
  /\ UNCHANGED <<pc, cur, ret, con, ctx, pload, hload, procVars, eventRest>>

AnswerEnds(r) ==
  /\ EventOf(r) /\ ctx[r].state = "READ" /\ sock[r] = "ready"
  /\ fcgi_connection_close(r)
  /\ joblist' = Append(joblist, r)
  /\ UNCHANGED <<pc, cur, ret, con, file_started, procVars, eventRest>>

(* The end of the stream in the middle of an answer.  A process that died is *)
(* buried and replaced at once, whatever its state was, and the count it had *)
(* is left as it was.                                                        *)
Buries(p) == pid[p] = "zombie" /\ pstate[p] # "DIED"
CountedTwice(p) ==
  extra' = [extra EXCEPT ![HostOf(p)] = @ + (IF pstate[p] = "RUNNING" THEN 1 ELSE 0)]

BuryProc(p) ==
  \/ /\ ~Buries(p) /\ UNCHANGED procVars
  \/ /\ Buries(p) /\ fcgi_spawn_connection(p) /\ CountedTwice(p) /\ UNCHANGED cooling
  \/ /\ Buries(p) /\ CountedTwice(p)
     /\ fcgi_spawn_connection_fails(p) /\ pid' = [pid EXCEPT ![p] = "gone"]
     /\ UNCHANGED cooling

(* 500 if nothing of the answer has been seen, else the connection ends.     *)
AnswerBreaks(r) ==
  /\ EventOf(r) /\ ctx[r].state = "READ" /\ sock[r] = "lost"
  /\ BuryProc(ctx[r].proc)
  /\ fcgi_connection_close(r)
  /\ con' = [con EXCEPT ![r] = IF file_started[r] THEN "error" ELSE "handle"]
  /\ joblist' = Append(joblist, r)
  /\ UNCHANGED <<pc, cur, ret, file_started, eventRest>>

fcgi_handle_fdevent ==
  \E r \in Reqs : WriteEvent(r) \/ AnswerStarts(r) \/ AnswerEnds(r) \/ AnswerBreaks(r)

-----------------------------------------------------------------------------
(* The main loop.                                                            *)
loopRest == <<joblist, reqVars, procVars, last_used, requests, deaths>>

(* mod_fastcgi_handle_trigger: once a second, the processes of every host.   *)
AllProcs == FoldFunction(LAMBDA s, t : t \o s, <<>>, [i \in 1..Len(Hosts) |-> HostProcs[Hosts[i]]])

Trigger ==
  /\ pc = "top"
  /\ pc' = "restart" /\ todo' = Stopped(AllProcs)
  /\ UNCHANGED <<cur, ret, budget, events, fdwaitqueue, loopRest>>

SameSecond ==
  /\ pc = "top"
  /\ pc' = "fdwait" /\ budget' = FreeFds
  /\ UNCHANGED <<cur, ret, todo, events, fdwaitqueue, loopRest>>

(* As many waiting connections are run as there are descriptors.             *)
FdWait ==
  /\ pc = "fdwait"
  /\ IF budget > 0 /\ fdwaitqueue # <<>>
       THEN /\ cur' = Head(fdwaitqueue) /\ ret' = "fdwait" /\ pc' = "machine"
            /\ fdwaitqueue' = Tail(fdwaitqueue) /\ budget' = budget - 1
       ELSE pc' = "poll" /\ budget' = 0 /\ UNCHANGED <<cur, ret, fdwaitqueue>>
  /\ UNCHANGED <<todo, events, loopRest>>

Ready(r) ==
  \/ ctx[r].state = "CONNECT_DELAYED" /\ sock[r] \in {"up", "failed", "lost"}
  \/ ctx[r].state = "WRITE" /\ sock[r] \in {"up", "failed", "lost"}
  \/ ctx[r].state = "READ" /\ sock[r] \in {"ready", "lost"}

Poll ==
  /\ pc = "poll"
  /\ events' = {r \in Reqs : Ready(r)}
  /\ pc' = IF events' = {} THEN "jobs" ELSE "events"
  /\ UNCHANGED <<cur, ret, todo, budget, fdwaitqueue, loopRest>>

EventsEnd ==
  /\ pc = "events" /\ events = {}
  /\ pc' = "jobs"
  /\ UNCHANGED <<cur, ret, loopVars, reqVars, procVars, last_used, requests, deaths>>

Jobs ==
  /\ pc = "jobs"
  /\ IF joblist # <<>>
       THEN cur' = Head(joblist) /\ ret' = "jobs" /\ pc' = "machine" /\ joblist' = Tail(joblist)
       ELSE pc' = "top" /\ UNCHANGED <<cur, ret, joblist>>
  /\ UNCHANGED <<todo, budget, events, fdwaitqueue, reqVars, procVars, last_used, requests, deaths>>

Server ==
  \/ Trigger \/ SameSecond \/ FdWait \/ Poll \/ EventsEnd \/ Jobs
  \/ fcgi_check_extension \/ Answer
  \/ mod_fastcgi_handle_subrequest \/ fcgi_handle_fdevent
  \/ \E p \in Procs : LeaveProc(p) \/ Reenable(p) \/ Respawn(p) \/ RespawnFails(p)
  \/ Restarted

-----------------------------------------------------------------------------
(* Everybody else.                                                           *)
otherRest == <<pc, cur, ret, todo, budget, events, fdwaitqueue, ctx, pload, hload, last_used>>

RequestArrives(r) ==
  /\ pc = "poll" /\ con[r] = "idle" /\ requests < MaxRequests
  /\ requests' = requests + 1
  /\ con' = [con EXCEPT ![r] = "new"]
  /\ joblist' = Append(joblist, r)
  /\ UNCHANGED <<file_started, sock, procVars, deaths, otherRest>>

(* The client of an answer that has started is gone, or too slow.            *)
ClientGone(r) ==
  /\ pc = "poll" /\ con[r] = "started"
  /\ con' = [con EXCEPT ![r] = "error"]
  /\ joblist' = Append(joblist, r)
  /\ UNCHANGED <<file_started, sock, procVars, requests, deaths, otherRest>>

SockChanges(r, to) ==
  /\ sock' = [sock EXCEPT ![r] = to]
  /\ UNCHANGED <<con, file_started, joblist, procVars, requests, deaths, otherRest>>

ConnectCompletes(r) ==
  /\ pc = "poll" /\ sock[r] = "connecting"
  /\ \E to \in {"up", "failed"} : SockChanges(r, to)

(* A process reads, answers, or drops the connection, or does not.  Behind   *)
(* the listening socket of a process that never was, there is nobody.        *)
BackendActs(r) ==
  /\ pc = "poll" /\ ctx[r].proc \notin orphan
  /\ \/ sock[r] = "up" /\ ctx[r].state = "READ" /\ SockChanges(r, "ready")
     \/ sock[r] \in {"up", "full"} /\ ctx[r].state \in {"WRITE", "READ"} /\ SockChanges(r, "lost")
     \/ sock[r] = "full" /\ SockChanges(r, "up")

(* A process dies where the server can tell: before it waits, connects,      *)
(* writes or polls.                                                          *)
ProcDies(p) ==
  /\ pc \in {"poll", "restart", "machine"}
  /\ pid[p] = "alive" /\ deaths < MaxDeaths
  /\ deaths' = deaths + 1
  /\ pid' = [pid EXCEPT ![p] = "zombie"]
  /\ sock' = [r \in Reqs |-> IF ctx[r].proc # p THEN sock[r]
                             ELSE IF sock[r] \in {"up", "full"} THEN "lost"
                             ELSE IF sock[r] = "connecting" THEN "failed" ELSE sock[r]]
  /\ UNCHANGED <<con, file_started, joblist, pstate, is_local, orphan, cooling, active_procs, extra,
                 requests, otherRest>>

Environment ==
  \/ \E r \in Reqs : RequestArrives(r) \/ ClientGone(r) \/ ConnectCompletes(r) \/ BackendActs(r)
  \/ \E p \in Procs : ProcDies(p)

Next == Server \/ Environment

(* The server runs, and a connect that goes on comes to an end.  The         *)
(* processes owe nothing.                                                    *)
Spec ==
  /\ Init /\ [][Next]_vars
  /\ WF_vars(Server)
  /\ \A r \in Reqs : SF_vars(ConnectCompletes(r))

-----------------------------------------------------------------------------
(* Properties.                                                               *)

(* The loads that balance requests over hosts and processes count exactly    *)
(* the requests assigned to them, through every reconnect, abort, close and  *)
(* failed connect; an unsigned load that wraps would take a process out of   *)
(* use for ever, or keep a dead one from being restarted (mod_fastcgi.c:2786, *)
(* 2910, 3134).                                                              *)
LoadsAgree ==
  /\ \A p \in Procs : pload[p] = Cardinality({r \in Reqs : ctx[r].got_proc /\ ctx[r].proc = p})
  /\ \A h \in HostSet : hload[h] = Cardinality({r \in Reqs : ctx[r].host = h})

(* active_procs counts the running processes of a host, and those that were  *)
(* replaced while they were still counted (mod_fastcgi.c:3291-3297): never   *)
(* fewer, so that no host with a running process is passed over.             *)
ActiveProcsExplained ==
  \A h \in HostSet : active_procs[h] = Cardinality(Running(h)) + extra[h]

(* Every request is answered or refused, whatever happens to the processes,  *)
(* unless its own process stays silent for ever, or is gone and its socket   *)
(* still open (1129), or requests that wait in this way keep the last        *)
(* descriptor for ever (mod_fastcgi.c:2931, 3094; server.c:1447).            *)
Awaiting(r) == ctx[r].state \in {"WRITE", "READ"} /\ sock[r] \in {"up", "full"}
NoneFreed == FreeFds = 0 /\ \A r \in OpenFds : Awaiting(r)

RequestsAnswered ==
  \A r \in Reqs : con[r] # "idle" ~> (con[r] = "idle" \/ []Awaiting(r) \/ []NoneFreed)
=============================================================================
