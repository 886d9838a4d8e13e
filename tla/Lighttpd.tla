------------------------------ MODULE Lighttpd ------------------------------
(* The event loop of lighttpd 1.4.32 and the state machine of its            *)
(* connections (server.c, connections.c, joblist.c, network.c).              *)
(*                                                                           *)
(* One thread runs everything: a loop of phases (timeouts once a second,     *)
(* listening sockets on or off, connections waiting for a descriptor, poll,  *)
(* events, job list), each of which may run connection_state_machine on a    *)
(* connection.  One action is one phase step, or one round of the state      *)
(* machine's loop; clients, backends, signals and the clock move between     *)
(* any two of them.                                                          *)
(*                                                                           *)
(* A byte stream is a sequence of tokens: "get", "head" (requests without a  *)
(* body, the latter with Connection: close), "post" (a request whose body is *)
(* the token "body"), "bad" (a request the parser refuses), "big" (more than *)
(* 64 kB and no end of header).  A timer is the number of seconds since its  *)
(* timestamp, up to the first value that counts as expired.                  *)
EXTENDS Naturals, FiniteSets, Sequences

CONSTANTS
  Clients,      \* peers, each connects at most once
  Cons,         \* connection objects of srv->conns
  Rough,        \* clients that may stop reading, reset, or be throttled
  Dynamic,      \* clients whose requests may find no file, fail or go to a backend
  Scripts,      \* Scripts[p]: what client p may send, a set of sequences of tokens
  MaxConns,     \* srv->max_conns
  MaxFds,       \* srv->max_fds
  BaseFds,      \* descriptors in use before the loop starts (server.c:1193)
  FdReserve,    \* 16 at server.c:1450
  ConnTenths, LowTenths, HighTenths, \* 9, 8 and 9, the marks of server.c:1378-1392 in tenths
  MaxKeepAlive, \* server.max-keep-alive-requests
  Idle,         \* every timeout, in seconds
  MaxRetries,   \* bound: times a request may wait for a descriptor
  MaxFcntlFailures \* bound: accepts whose fcntl fails

Tokens == {"get", "head", "post", "body", "bad", "big"}

ASSUME SizesAssumption ==
  /\ IsFiniteSet(Clients) /\ IsFiniteSet(Cons) /\ Rough \subseteq Clients /\ Dynamic \subseteq Clients
  /\ \A p \in Clients : Scripts[p] \subseteq Seq(Tokens)
  /\ MaxConns \in 1..Cardinality(Cons)
  /\ {ConnTenths, LowTenths, HighTenths} \subseteq 0..10
  /\ {MaxFds, BaseFds, FdReserve, MaxKeepAlive, Idle, MaxRetries, MaxFcntlFailures} \subseteq Nat

(* server.c:913-923 caps the connections.                                    *)
ASSUME CapAssumption == MaxConns <= MaxFds \div 2

(* "body" stands for the bytes a POST announces: it follows one, and only it. *)
ASSUME ScriptsAssumption ==
  \A p \in Clients : \A s \in Scripts[p] : \A i \in 1..Len(s) :
    s[i] = "body" <=> i > 1 /\ s[i - 1] = "post"

VARIABLES
  pc,               \* where the main loop is
  run,              \* the connection in connection_state_machine, and the phase to return to
  tix,              \* index of the timeout loop
  free_fds,         \* budget of the loop over fdwaitqueue
  second,           \* time() differs from srv->cur_ts
  graceful_shutdown, srv_shutdown,
  sockets_disabled, \* srv->sockets_disabled
  listening,        \* the listening socket: "polled", "idle" (no event) or "closed"
  pid_file,         \* the pid file exists
  ptr, used,        \* srv->conns
  con,              \* the connection objects
  cur_fds, want_fds, fdwaitqueue, joblist,
  events,           \* results of the last poll still to be handled
  client,           \* the peers and the kernel's side of their sockets
  fcntl_failures

loopVars == <<tix, free_fds, second, events>>
ctlVars  == <<graceful_shutdown, srv_shutdown, sockets_disabled, listening, pid_file>>
fdVars   == <<cur_fds, want_fds, fdwaitqueue>>
vars == <<pc, run, loopVars, ctlVars, ptr, used, con, fdVars, joblist, client, fcntl_failures>>

States == {"CONNECT", "REQUEST_START", "READ", "REQUEST_END", "READ_POST", "HANDLE_REQUEST",
           "RESPONSE_START", "WRITE", "RESPONSE_END", "ERROR", "CLOSE"}
Expired == Idle + 1
Older(n) == IF n = Expired THEN n ELSE n + 1
NoRun == [con |-> CHOOSE c \in Cons : TRUE, ret |-> "top"]
Open == {ptr[i] : i \in 1..used}

(* connection_reset: what a request leaves behind is cleared; read_queue,    *)
(* keep_alive, request_count and the write timer stay, and so does a traffic *)
(* limit that was reached.                                                   *)
connection_reset(k) ==
  [k EXCEPT !.rd = TRUE, !.wr = TRUE, !.status = "none", !.wq = 0, !.finished = FALSE,
            !.backend = "none", !.mode = "DIRECT", !.in_error_handler = FALSE,
            !.retries = 0, !.req = "none", !.since = 0,
            !.paused = IF @ = "yes" THEN "yes" ELSE "no"]

(* Mutant: a backend that has begun to answer is not closed with its request. *)
BackendFdForgotten(k) == IF k.backend = "busy" THEN 1 ELSE 0

(* The descriptors of its backend that a reset or an abort closes.           *)
BackendFd(k) == IF k.backend \in {"busy", "started"} THEN 1 ELSE 0

Blank ==
  [st |-> "CONNECT", fd |-> "none", rd |-> TRUE, wr |-> TRUE, rq |-> <<>>, wq |-> 0,
   keep_alive |-> FALSE, count |-> 0, req |-> "none", status |-> "none", mode |-> "DIRECT",
   backend |-> "none", answer |-> FALSE, finished |-> FALSE, in_error_handler |-> FALSE,
   paused |-> "no", retries |-> 0, ev |-> "", age |-> 0, write_ts |-> 0, since |-> 0]

Init ==
  /\ pc = "top" /\ run = NoRun /\ tix = 1 /\ free_fds = 0 /\ second = FALSE /\ events = {}
  /\ graceful_shutdown = FALSE /\ srv_shutdown = FALSE /\ sockets_disabled = FALSE
  /\ listening = "polled" /\ pid_file = TRUE
  /\ ptr = CHOOSE s \in [1..Cardinality(Cons) -> Cons] : \A c \in Cons : \E i \in DOMAIN s : s[i] = c
  /\ used = 0
  /\ con = [c \in Cons |-> Blank]
  /\ cur_fds = BaseFds /\ want_fds = 0 /\ fdwaitqueue = <<>> /\ joblist = <<>>
  /\ client = [p \in Clients |-> [st |-> "away", script |-> <<>>, sent |-> 0, read |-> 0,
                                  fin |-> "no", full |-> FALSE, answers |-> 0]]
  /\ fcntl_failures = 0

Unread(p) == SubSeq(client[p].script, client[p].read + 1, client[p].sent)

-----------------------------------------------------------------------------
(* Reading and writing, shared by the event handler and the state machine.   *)
(* A result is the connection after the call, the tokens taken from the      *)
(* socket, whether the socket's send buffer is left full and whether the     *)
(* connection was appended to the job list.                                  *)
Result(k, taken, full, job) == [k |-> k, taken |-> taken, full |-> full, job |-> job]

(* connection_handle_read: all that has arrived, or a full buffer of it;     *)
(* nothing yet; the end of the stream; an error.                             *)
connection_handle_read(k) ==
  LET fresh == [k EXCEPT !.age = 0]
      dry   == [fresh EXCEPT !.rd = FALSE]
      data  == Unread(k.fd)
  IN IF client[k.fd].fin = "reset"
       THEN {[k |-> [dry EXCEPT !.st = "ERROR"], taken |-> 0, closed |-> FALSE]}
     ELSE IF data = <<>>
       THEN {[k |-> dry, taken |-> 0, closed |-> client[k.fd].fin = "eof"]}
     ELSE {[k |-> [fresh EXCEPT !.rd = (n < Len(data)), !.rq = @ \o SubSeq(data, 1, n)],
            taken |-> n, closed |-> FALSE] : n \in 1..Len(data)}

(* The end of connection_handle_read_state: find the header, or collect the  *)
(* body (a failing temporary file makes it a 413).                           *)
TakeHeader(k) ==
  IF k.rq = <<>> THEN {k}
  ELSE IF Head(k.rq) = "big"
    THEN {[k EXCEPT !.status = "error", !.keep_alive = FALSE, !.st = "HANDLE_REQUEST"]}
  ELSE {[k EXCEPT !.req = Head(k.rq), !.rq = Tail(@), !.st = "REQUEST_END"]}

(* Mutant: the body stays in the queue, where the next request is looked for. *)
TakeBodyLeft(k) ==
  IF k.rq = <<>> THEN {k} ELSE {[k EXCEPT !.st = "HANDLE_REQUEST"]}

TakeBody(k) ==
  IF k.rq = <<>> THEN {k}
  ELSE {[k EXCEPT !.rq = Tail(@), !.st = "HANDLE_REQUEST"],
        [k EXCEPT !.status = "error", !.keep_alive = FALSE, !.st = "HANDLE_REQUEST"]}

connection_handle_read_state(k) ==
  LET reads == IF k.rd THEN connection_handle_read(k)
                       ELSE {[k |-> k, taken |-> 0, closed |-> FALSE]}
      Parsed(r) == IF r.k.st = "READ" THEN TakeHeader(r.k)
                   ELSE IF r.k.st = "READ_POST" THEN TakeBody(r.k) ELSE {r.k}
      Ended(r, q) == IF r.closed /\ q.st = k.st THEN [q EXCEPT !.st = "ERROR"] ELSE q
  IN UNION {{Result(Ended(r, q), r.taken, client[k.fd].full, FALSE) : q \in Parsed(r)} :
            r \in reads}

(* Mutant: only a write that empties the queue stamps the timer. *)
connection_handle_write_unstamped(k) ==
  {Result([k EXCEPT !.wq = 0, !.st = IF k.finished THEN "RESPONSE_END" ELSE @,
                    !.write_ts = IF k.finished THEN @ ELSE 1], 0, FALSE, k.finished)}
  \cup (IF k.fd \in Rough /\ k.wq = 2
          THEN {Result([k EXCEPT !.wr = FALSE, !.wq = 1], 0, TRUE, FALSE)} ELSE {})

(* connection_handle_write over network_write_chunkqueue: everything went    *)
(* out, the socket is full, the traffic limit is reached, the peer is gone.  *)
(* The write queue counts the writes an answer needs at most (bound: two,    *)
(* and one pause for the traffic limit, but for one it inherited).           *)
connection_handle_write(k) ==
  LET sent == [k EXCEPT !.wq = 0, !.write_ts = 1]
      held == [k EXCEPT !.wr = FALSE, !.write_ts = 1]
  IN IF client[k.fd].fin = "reset"
       THEN {Result([k EXCEPT !.st = "ERROR"], 0, FALSE, TRUE)}
     ELSE (IF k.finished
             THEN {Result([sent EXCEPT !.st = "RESPONSE_END"], 0, FALSE, TRUE)}
             ELSE {Result(sent, 0, FALSE, FALSE)})
          \cup (IF k.fd \in Rough /\ k.wq = 2
                  THEN {Result([held EXCEPT !.wq = 1], 0, TRUE, FALSE)} ELSE {})
          \cup (IF k.fd \in Rough /\ k.paused # "was"
                  THEN {Result([held EXCEPT !.paused = "yes"], 0, client[k.fd].full, TRUE)}
                  ELSE {})

(* The read that throws away what a lingering connection still sends.        *)
FlushOnClose(k) ==
  LET p == client[k.fd] IN
  IF (p.sent = p.read /\ p.fin # "no") \/ p.fin = "reset"
    THEN Result([k EXCEPT !.age = Expired], 0, p.full, FALSE)
    ELSE Result(k, p.sent - p.read, p.full, FALSE)

(* What the call did to the peer's socket; an answer that is out is counted. *)
Took(r) ==
  LET p == r.k.fd IN
  client' = [client EXCEPT ![p].read = @ + r.taken, ![p].full = r.full,
               ![p].answers = @ + (IF r.k.st = "RESPONSE_END" THEN 1 ELSE 0)]

-----------------------------------------------------------------------------
(* The connection array.                                                     *)

(* connections_get_new_connection: the first unused object, reset.           *)
connections_get_new_connection == ptr[used + 1]

(* connection_del: the last connection in use takes the freed place.         *)
connection_del(c) ==
  LET i == CHOOSE j \in 1..used : ptr[j] = c IN
  /\ ptr' = [ptr EXCEPT ![i] = ptr[used], ![used] = c]
  /\ used' = used - 1

(* connection_close, but for the connection's own record.                    *)
connection_close(c, fds) ==
  /\ connection_del(c)
  /\ cur_fds' = cur_fds - 1 - fds
  /\ client' = [client EXCEPT ![con[c].fd] =
                 [st |-> "closed", script |-> <<>>, sent |-> 0, read |-> 0,
                  fin |-> "no", full |-> FALSE, answers |-> 0]]

(* shutdown(fd, SHUT_WR), then linger, or connection_close where it fails.   *)
ShutdownOrClose(c, k, fds) ==
  IF client[k.fd].fin = "reset"
    THEN /\ connection_close(c, fds)
         /\ con' = [con EXCEPT ![c] = [k EXCEPT !.st = "CONNECT", !.ev = ""]]
    ELSE /\ con' = [con EXCEPT ![c] = [k EXCEPT !.st = "CLOSE", !.age = 0]]
         /\ cur_fds' = cur_fds - fds
         /\ UNCHANGED <<ptr, used, client>>

-----------------------------------------------------------------------------
(* connection_state_machine, one action per state.  It runs until a round    *)
(* leaves the state as it was, then asks for the events it needs.            *)

Enter(c, ret) == run' = [con |-> c, ret |-> ret] /\ pc' = "machine"

(* The switch at the end of connection_state_machine.                        *)
Interest(k) ==
  [k EXCEPT !.ev = IF k.st \in {"READ", "READ_POST", "CLOSE"} THEN "in"
                   ELSE IF k.st = "WRITE" /\ k.wq > 0 /\ ~k.wr /\ k.paused # "yes" THEN "out"
                   ELSE ""]

In(st) == pc = "machine" /\ con[run.con].st = st

(* The loop goes on: the state changed, or done was -1.                      *)
Again == UNCHANGED <<pc, run>>
(* The loop ends.                                                            *)
Leave(k) == con' = [con EXCEPT ![run.con] = Interest(k)] /\ pc' = run.ret /\ run' = NoRun
(* A round that only changes the connection.                                 *)
Round(k) ==
  IF k.st = con[run.con].st THEN Leave(k)
                            ELSE con' = [con EXCEPT ![run.con] = k] /\ Again

machineRest == <<loopVars, ctlVars, want_fds, fdwaitqueue, fcntl_failures>>

RequestStart ==
  /\ In("REQUEST_START")
  /\ Round([con[run.con] EXCEPT !.st = "READ", !.count = @ + 1, !.age = 0])
  /\ UNCHANGED <<machineRest, ptr, used, cur_fds, joblist, client>>

ReadState ==
  /\ In("READ") \/ In("READ_POST")
  /\ \E r \in connection_handle_read_state(con[run.con]) : Round(r.k) /\ Took(r)
  /\ UNCHANGED <<machineRest, ptr, used, cur_fds, joblist>>

(* http_request_parse: a refused request or a body that is too long gets its *)
(* status and ends the connection's keep-alive; a POST waits for its body.   *)
http_request_parse(k) ==
  LET refused == [k EXCEPT !.status = "error", !.keep_alive = FALSE, !.st = "HANDLE_REQUEST"]
  IN IF k.req \in {"bad", "body"} THEN {refused}
     ELSE IF k.req = "post"
       THEN {refused, [k EXCEPT !.keep_alive = TRUE, !.st = "READ_POST"]}
     ELSE {[k EXCEPT !.keep_alive = (k.req = "get"), !.st = "HANDLE_REQUEST"]}

RequestEnd ==
  /\ In("REQUEST_END")
  /\ \E k \in http_request_parse(con[run.con]) : Round(k)
  /\ UNCHANGED <<machineRest, ptr, used, cur_fds, joblist, client>>

(* http_response_prepare has an answer: a 404 goes once to the error         *)
(* handler, everything else to the response.                                 *)
Prepared(k) ==
  IF k.mode = "DIRECT" /\ k.status = "missing" /\ ~k.in_error_handler
    THEN /\ con' = [con EXCEPT ![run.con] =
                     [k EXCEPT !.status = "none", !.in_error_handler = TRUE]]
         /\ Again
    ELSE Round([k EXCEPT !.st = "RESPONSE_START", !.status = IF @ = "none" THEN "ok" ELSE @])

(* Decided: by the parser, by a failed backend, by a backend that started.   *)
HandleDecided ==
  /\ In("HANDLE_REQUEST")
  /\ LET k == con[run.con] IN
       \/ /\ k.mode = "DIRECT" /\ k.status = "error"
          /\ Prepared([k EXCEPT !.wq = IF k.finished THEN @ ELSE 0])
       \/ /\ k.mode = "plugin" /\ k.backend \in {"none", "started"}
          /\ Prepared(k)
  /\ UNCHANGED <<machineRest, ptr, used, cur_fds, joblist, client>>

(* Undecided: the plugins answer from a file, find nothing, fail, or leave   *)
(* the request to a backend.                                                 *)
HandleDirect ==
  /\ In("HANDLE_REQUEST")
  /\ LET k == con[run.con] IN
       /\ k.mode = "DIRECT" /\ k.status = "none"
       /\ \/ Prepared([k EXCEPT !.wq = 1, !.finished = TRUE])
          \/ k.fd \in Dynamic /\ Prepared([k EXCEPT !.status = "missing"])
          \/ k.fd \in Dynamic /\ Round([k EXCEPT !.st = "ERROR"])
  /\ UNCHANGED <<machineRest, ptr, used, cur_fds, joblist, client>>

(* A backend's subrequest handler: it connects and waits for the backend, or *)
(* has no descriptor and waits for one (HANDLER_WAIT_FOR_FD), or gives up.   *)
HandleBackend ==
  /\ In("HANDLE_REQUEST")
  /\ LET k == con[run.con] IN
       /\ k.fd \in Dynamic
       /\ \/ k.mode = "DIRECT" /\ k.status = "none"
          \/ k.mode = "plugin" /\ k.backend = "wait_fd"
       /\ \/ /\ cur_fds < MaxFds
             /\ Leave([k EXCEPT !.mode = "plugin", !.backend = "busy"])
             /\ cur_fds' = cur_fds + 1
             /\ UNCHANGED <<want_fds, fdwaitqueue>>
          \/ /\ k.retries < MaxRetries
             /\ Leave([k EXCEPT !.mode = "plugin", !.backend = "wait_fd", !.retries = @ + 1])
             /\ want_fds' = want_fds + 1 /\ fdwaitqueue' = Append(fdwaitqueue, run.con)
             /\ UNCHANGED cur_fds
          \/ /\ Prepared([k EXCEPT !.mode = "DIRECT", !.backend = "none", !.status = "error"])
             /\ UNCHANGED <<cur_fds, want_fds, fdwaitqueue>>
  /\ UNCHANGED <<loopVars, ctlVars, fcntl_failures, ptr, used, joblist, client>>

HandleWaiting ==
  /\ In("HANDLE_REQUEST")
  /\ con[run.con].mode = "plugin" /\ con[run.con].backend = "busy"
  /\ Leave(con[run.con])
  /\ UNCHANGED <<machineRest, ptr, used, cur_fds, joblist, client>>

(* connection_handle_write_prepare: an error page is complete, a HEAD and a  *)
(* 204, 205 or 304 have no body, though the backend may have more to say; an *)
(* unfinished answer keeps the connection only if its length is known;       *)
(* http_response_write_header enforces max-keep-alive-requests.              *)
(* What only the decision reads is forgotten here, not by connection_reset.  *)
connection_handle_write_prepare(k, body) ==
  LET done == \/ k.finished \/ k.req = "head" \/ body = "none"
              \/ k.mode = "DIRECT" /\ k.status # "ok"
  IN [k EXCEPT !.wq = 2, !.finished = done, !.st = "WRITE", !.since = 0,
               !.status = "none", !.in_error_handler = FALSE, !.retries = 0,
               !.keep_alive = @ /\ (done \/ body = "known") /\ k.count <= MaxKeepAlive]

ResponseStart ==
  /\ In("RESPONSE_START")
  /\ \E body \in {"known", "unknown", "none"} :
       Round(connection_handle_write_prepare(con[run.con], body))
  /\ UNCHANGED <<machineRest, ptr, used, cur_fds, joblist, client>>

Write ==
  /\ In("WRITE")
  /\ LET k == con[run.con] IN
       IF k.wq > 0 /\ k.wr
         THEN \E r \in connection_handle_write(k) :
                /\ Round(r.k) /\ Took(r)
                /\ joblist' = IF r.job THEN Append(joblist, run.con) ELSE joblist
         ELSE Round(k) /\ UNCHANGED <<joblist, client>>
  /\ UNCHANGED <<machineRest, ptr, used, cur_fds>>

ResponseEnd ==
  /\ In("RESPONSE_END")
  /\ LET k == connection_reset(con[run.con])
         fds == BackendFd(con[run.con])
     IN IF k.keep_alive
          THEN /\ con' = [con EXCEPT ![run.con] = [k EXCEPT !.st = "REQUEST_START"]]
               /\ cur_fds' = cur_fds - fds
               /\ UNCHANGED <<ptr, used, client>>
          ELSE ShutdownOrClose(run.con, k, fds)
  /\ Again
  /\ UNCHANGED <<machineRest, joblist>>

Error ==
  /\ In("ERROR")
  /\ ShutdownOrClose(run.con, [connection_reset(con[run.con]) EXCEPT !.keep_alive = FALSE],
                     BackendFd(con[run.con]))
  /\ Again
  /\ UNCHANGED <<machineRest, joblist>>

Connect ==
  /\ In("CONNECT")
  /\ Leave([con[run.con] EXCEPT !.rq = <<>>, !.count = 0])
  /\ UNCHANGED <<machineRest, ptr, used, cur_fds, joblist, client>>

Close ==
  /\ In("CLOSE")
  /\ LET r == FlushOnClose(con[run.con]) IN
       IF r.k.age = Expired
         THEN /\ connection_close(run.con, 0)
              /\ Round([r.k EXCEPT !.st = "CONNECT", !.ev = ""])
         ELSE Round(r.k) /\ Took(r) /\ UNCHANGED <<ptr, used, cur_fds>>
  /\ UNCHANGED <<machineRest, joblist>>

connection_state_machine ==
  \/ RequestStart \/ ReadState \/ RequestEnd
  \/ HandleDecided \/ HandleDirect \/ HandleBackend \/ HandleWaiting
  \/ ResponseStart \/ Write \/ ResponseEnd \/ Error \/ Connect \/ Close

-----------------------------------------------------------------------------
(* The main loop (server.c:1206).                                            *)

(* Top: leave the loop, check the timeouts once a second, or go on.  A pid   *)
(* file that a graceful shutdown should have removed is left alone.          *)
Top ==
  /\ pc = "top"
  /\ IF srv_shutdown
       THEN /\ pc' = "stopped" /\ pid_file' = (pid_file /\ graceful_shutdown)
            /\ UNCHANGED <<con, second, tix>>
     ELSE IF second
       THEN /\ pc' = "trigger" /\ tix' = 1 /\ second' = FALSE
            /\ con' = [c \in Cons |->
                 [con[c] EXCEPT
                    !.age = IF con[c].st \in {"READ", "READ_POST", "CLOSE"} THEN Older(@) ELSE @,
                    !.since = IF con[c].st = "WRITE" THEN Older(@) ELSE @,
                    !.write_ts = IF @ \in {0, Expired + 1} THEN @ ELSE @ + 1]]
            /\ UNCHANGED pid_file
     ELSE pc' = "sockets" /\ UNCHANGED <<con, pid_file, second, tix>>
  /\ UNCHANGED <<run, free_fds, events, graceful_shutdown, srv_shutdown, sockets_disabled,
                 listening, ptr, used, fdVars, joblist, client, fcntl_failures>>

(* Mutant: a peer that stops reading is waited for without end. *)
TimedOutReadsOnly(k) == k.st \in {"READ", "READ_POST"} /\ k.age = Expired

(* The timeouts of one connection: a state set to ERROR, a lingering time    *)
(* that is over, a traffic limit that no longer holds (its average may or    *)
(* may not be low enough yet), perhaps one that an earlier answer reached.   *)
TimedOut(k) ==
  \/ k.st \in {"READ", "READ_POST"} /\ k.age = Expired
  \/ k.st = "WRITE" /\ k.write_ts = Expired + 1

Resumed(k) == [k EXCEPT !.paused = IF k.st = "WRITE" THEN "was" ELSE "no"]

(* Mutant: a lingering connection is not run when its time is over. *)
TimeoutsNoLinger(k) ==
  {[k |-> IF TimedOut(k) THEN [k EXCEPT !.st = "ERROR"] ELSE k, changed |-> TimedOut(k)]}
  \cup (IF k.paused = "yes" THEN {[k |-> Resumed(k), changed |-> TRUE]} ELSE {})

Timeouts(k) ==
  LET k1 == IF TimedOut(k) THEN [k EXCEPT !.st = "ERROR"] ELSE k
      changed == TimedOut(k) \/ (k.st = "CLOSE" /\ k.age = Expired)
  IN {[k |-> k1, changed |-> changed]}
     \cup (IF k.paused = "yes" THEN {[k |-> Resumed(k1), changed |-> TRUE]} ELSE {})

(* One round of the timeout loop.  The index moves on although a connection  *)
(* that is closed gives its place to the last one.                           *)
Trigger ==
  /\ pc = "trigger"
  /\ IF tix > used
       THEN pc' = "sockets" /\ tix' = 1 /\ UNCHANGED <<run, con>>
       ELSE \E t \in Timeouts(con[ptr[tix]]) :
              /\ con' = [con EXCEPT ![ptr[tix]] = t.k]
              /\ tix' = tix + 1
              /\ IF t.changed THEN Enter(ptr[tix], "trigger") ELSE UNCHANGED <<pc, run>>
  /\ UNCHANGED <<free_fds, second, events, ctlVars, ptr, used, fdVars, joblist, client,
                 fcntl_failures>>

(* The listening sockets: taken out of the poll when descriptors or          *)
(* connections run out or the server is to stop, put back below a lower      *)
(* mark.  Only the step that takes them out closes them.                     *)
FewConns == used <= (MaxConns * ConnTenths) \div 10
LowFds == cur_fds + want_fds < (MaxFds * LowTenths) \div 10
OutOfFds == cur_fds + want_fds > (MaxFds * HighTenths) \div 10

Sockets ==
  /\ pc = "sockets"
  /\ IF sockets_disabled
       THEN IF LowFds /\ FewConns /\ ~graceful_shutdown
              THEN sockets_disabled' = FALSE /\ listening' = "polled" /\ UNCHANGED pid_file
              ELSE UNCHANGED <<sockets_disabled, listening, pid_file>>
     ELSE IF OutOfFds \/ used >= MaxConns \/ graceful_shutdown
       THEN /\ sockets_disabled' = TRUE
            /\ listening' = IF graceful_shutdown THEN "closed" ELSE "idle"
            /\ pid_file' = (pid_file /\ ~graceful_shutdown)
       ELSE UNCHANGED <<sockets_disabled, listening, pid_file>>
  /\ srv_shutdown' = (srv_shutdown \/ (graceful_shutdown /\ used = 0))
  /\ free_fds' = IF want_fds > 0 /\ MaxFds > cur_fds + FdReserve
                   THEN MaxFds - cur_fds - FdReserve ELSE 0
  /\ pc' = "fdwait"
  /\ UNCHANGED <<run, tix, second, events, graceful_shutdown, ptr, used, con, fdVars, joblist,
                 client, fcntl_failures>>

(* The connections that wait for a descriptor, as many as there are.         *)
FdWait ==
  /\ pc = "fdwait"
  /\ IF free_fds > 0 /\ fdwaitqueue # <<>>
       THEN /\ Enter(Head(fdwaitqueue), "fdwaited") /\ fdwaitqueue' = Tail(fdwaitqueue)
            /\ UNCHANGED free_fds
       ELSE pc' = "poll" /\ free_fds' = 0 /\ UNCHANGED <<run, fdwaitqueue>>
  /\ UNCHANGED <<tix, second, events, ctlVars, ptr, used, con, cur_fds, want_fds, joblist, client,
                 fcntl_failures>>

(* Mutant: an entry that was run is counted as waiting for ever. *)
FdWaitedWanted ==
  /\ pc = "fdwaited"
  /\ free_fds' = free_fds - 1 /\ pc' = "fdwait"
  /\ UNCHANGED <<run, tix, second, events, ctlVars, ptr, used, con, fdVars, joblist, client,
                 fcntl_failures>>

FdWaited ==
  /\ pc = "fdwaited"
  /\ want_fds' = want_fds - 1 /\ free_fds' = free_fds - 1 /\ pc' = "fdwait"
  /\ UNCHANGED <<run, tix, second, events, ctlVars, ptr, used, con, cur_fds, fdwaitqueue,
                 joblist, client, fcntl_failures>>

(* fdevent_poll: one result per descriptor that is polled and ready.         *)
ConReady(c) ==
  LET k == con[c]  p == client[k.fd] IN
  /\ c \in Open
  /\ \/ k.ev = "in" /\ (p.sent > p.read \/ p.fin # "no")
     \/ k.ev = "out" /\ (~p.full \/ p.fin = "reset")
BackendReady(c) == c \in Open /\ con[c].backend \in {"busy", "started"} /\ con[c].answer
Arriving == {p \in Clients : client[p].st = "connecting"}

Ready ==
  {<<"con", c>> : c \in {d \in Cons : ConReady(d)}}
  \cup {<<"backend", c>> : c \in {d \in Cons : BackendReady(d)}}
  \cup {<<"listen", d>> : d \in {e \in {NoRun.con} : listening = "polled" /\ Arriving # {}}}

(* It returns with events, or with none after a second; a second may have    *)
(* passed in any case.  A signal that ends it early only brings forward what *)
(* the next round does.                                                      *)
Poll ==
  /\ pc = "poll"
  /\ events' = Ready
  /\ \/ second' = TRUE
     \/ Ready # {} /\ second' = FALSE
  /\ pc' = "events"
  /\ UNCHANGED <<run, tix, free_fds, ctlVars, ptr, used, con, fdVars, joblist, client,
                 fcntl_failures>>

(* The handlers, in the order of the descriptor table: any order.            *)
Handled(e) == events' = events \ {e}

(* connection_handle_fdevent: note readiness, then read, write or flush.     *)
Woken(c) ==
  LET k == con[c]
      r == [k EXCEPT !.rd = @ \/ k.ev = "in", !.wr = @ \/ (k.ev = "out" /\ ~client[k.fd].full)]
  IN IF client[k.fd].fin # "reset" THEN r
     ELSE IF k.st = "CLOSE" THEN [r EXCEPT !.age = Expired] ELSE [r EXCEPT !.st = "ERROR"]

HandleFdevent ==
  /\ pc = "events"
  /\ \E c \in Cons :
       /\ <<"con", c>> \in events /\ Handled(<<"con", c>>)
       /\ LET k == Woken(c)
              results ==
                IF k.st \in {"READ", "READ_POST"} THEN connection_handle_read_state(k)
                ELSE IF k.st = "WRITE" /\ k.wq > 0 /\ k.wr THEN connection_handle_write(k)
                ELSE IF k.st = "CLOSE" THEN {FlushOnClose(k)}
                ELSE {Result(k, 0, client[k.fd].full, FALSE)}
          IN \E r \in results :
               /\ con' = [con EXCEPT ![c] = r.k]
               /\ Took(r)
               /\ joblist' = joblist \o (IF r.job THEN <<c, c>> ELSE <<c>>)
  /\ UNCHANGED <<pc, run, tix, free_fds, second, ctlVars, ptr, used, fdVars, fcntl_failures>>

(* Mutant: the end of an answer queues nothing (no last chunk). *)
BackendStepNoEnd(k) ==
  LET data == [k EXCEPT !.backend = "started", !.wq = IF @ = 0 THEN 1 ELSE @, !.answer = FALSE]
      end  == [k EXCEPT !.backend = "none", !.finished = TRUE, !.answer = FALSE]
  IN IF k.backend = "started" THEN {end} ELSE {data}

(* A backend's event (its handler is a plugin's): part of the answer, its    *)
(* end, a failure before or after the first byte, a connection to retry.     *)
(* Whatever it queues or ends puts the connection on the job list, and the   *)
(* end of an answer leaves the write queue non-empty (http_chunk.c:114).     *)
BackendStep(k) ==
  LET more == IF k.wq = 0 THEN 1 ELSE k.wq
      data == [k EXCEPT !.backend = "started", !.wq = more, !.answer = FALSE]
      end  == [k EXCEPT !.backend = "none", !.wq = more, !.finished = TRUE, !.answer = FALSE]
      fail == [k EXCEPT !.backend = "none", !.answer = FALSE, !.st = "ERROR"]
      err  == [k EXCEPT !.backend = "none", !.answer = FALSE, !.mode = "DIRECT",
                        !.status = "error", !.st = "HANDLE_REQUEST"]
      retry == [k EXCEPT !.backend = "wait_fd", !.answer = FALSE, !.retries = @ + 1]
  IN {end, fail} \cup (IF k.backend = "started" THEN {} ELSE {data, err})
                 \cup (IF k.backend = "busy" /\ k.retries < MaxRetries THEN {retry} ELSE {})

BackendEvent ==
  /\ pc = "events"
  /\ \E c \in Cons :
       /\ <<"backend", c>> \in events /\ Handled(<<"backend", c>>)
       /\ \E k \in BackendStep(con[c]) :
            /\ con' = [con EXCEPT ![c] = k]
            /\ cur_fds' = cur_fds - BackendFd(con[c]) + BackendFd(k)
       /\ joblist' = Append(joblist, c)
  /\ UNCHANGED <<pc, run, tix, free_fds, second, ctlVars, ptr, used, want_fds, fdwaitqueue,
                 client, fcntl_failures>>

(* network_server_handle_fdevent and connection_accept: take connections     *)
(* until there is no place, no descriptor or nobody left.  One whose fcntl   *)
(* fails ends the loop, and stays as it is.                                  *)
ListenEvent ==
  /\ pc = "events"
  /\ \E c \in Cons : <<"listen", c>> \in events /\ Handled(<<"listen", c>>)
  /\ pc' = "accept"
  /\ UNCHANGED <<run, tix, free_fds, second, ctlVars, ptr, used, con, fdVars, joblist, client,
                 fcntl_failures>>

AcceptEnds ==
  /\ pc = "accept"
  /\ used >= MaxConns \/ cur_fds >= MaxFds \/ Arriving = {}
  /\ pc' = "events"
  /\ UNCHANGED <<run, loopVars, ctlVars, ptr, used, con, fdVars, joblist, client, fcntl_failures>>

connection_accept ==
  /\ pc = "accept"
  /\ used < MaxConns /\ cur_fds < MaxFds
  /\ \E p \in Arriving :
       LET c == connections_get_new_connection IN
       /\ con' = [con EXCEPT ![c] = [connection_reset(@) EXCEPT !.st = "REQUEST_START", !.fd = p,
                                                               !.ev = ""]]
       /\ client' = [client EXCEPT ![p].st = "accepted"]
       /\ used' = used + 1 /\ cur_fds' = cur_fds + 1
       /\ \/ Enter(c, "accept") /\ UNCHANGED fcntl_failures
          \/ /\ fcntl_failures < MaxFcntlFailures /\ fcntl_failures' = fcntl_failures + 1
             /\ pc' = "events" /\ UNCHANGED run
  /\ UNCHANGED <<loopVars, ctlVars, ptr, want_fds, fdwaitqueue, joblist>>

EventsEnd ==
  /\ pc = "events" /\ events = {}
  /\ pc' = "jobs"
  /\ UNCHANGED <<run, loopVars, ctlVars, ptr, used, con, fdVars, joblist, client, fcntl_failures>>

(* The job list, with what is appended to it while it runs.                  *)
Jobs ==
  /\ pc = "jobs"
  /\ IF joblist # <<>>
       THEN Enter(Head(joblist), "jobs") /\ joblist' = Tail(joblist)
       ELSE pc' = "top" /\ UNCHANGED <<run, joblist>>
  /\ UNCHANGED <<loopVars, ctlVars, ptr, used, con, fdVars, client, fcntl_failures>>

Server ==
  \/ Top \/ Trigger \/ Sockets \/ FdWait \/ FdWaited \/ Poll \/ HandleFdevent \/ BackendEvent
  \/ ListenEvent \/ AcceptEnds \/ connection_accept \/ EventsEnd \/ Jobs
  \/ connection_state_machine

-----------------------------------------------------------------------------
(* Everybody else.  What peers and backends do is visible to the server only *)
(* through poll, read and write; they move while it polls.                   *)

serverVars == <<pc, run, loopVars, ctlVars, ptr, used, fdVars, joblist, fcntl_failures>>

ClientConnect(p) ==
  /\ pc = "poll" /\ client[p].st = "away" /\ listening # "closed"
  /\ \E s \in Scripts[p] : \E n \in {0, 1} \cap (0..Len(s)) :
       client' = [client EXCEPT ![p].st = "connecting", ![p].script = s, ![p].sent = n]
  /\ UNCHANGED <<serverVars, con>>

ClientSends(p) ==
  /\ pc = "poll" /\ client[p].st = "accepted" /\ client[p].fin = "no"
  /\ client[p].sent < Len(client[p].script)
  /\ client' = [client EXCEPT ![p].sent = @ + 1]
  /\ UNCHANGED <<serverVars, con>>

ClientReceives(p) ==
  /\ pc = "poll" /\ client[p].full
  /\ client' = [client EXCEPT ![p].full = FALSE]
  /\ UNCHANGED <<serverVars, con>>

(* The peer closes its side, or the connection is reset.                     *)
ClientEnds(p) ==
  /\ pc = "poll" /\ client[p].st = "accepted" /\ client[p].fin # "reset"
  /\ \E f \in (IF p \in Rough THEN {"eof", "reset"} ELSE {"eof"}) \ {client[p].fin} :
       client' = [client EXCEPT ![p].fin = f]
  /\ UNCHANGED <<serverVars, con>>

BackendAnswers(c) ==
  /\ pc = "poll" /\ con[c].backend \in {"busy", "started"} /\ ~con[c].answer
  /\ con' = [con EXCEPT ![c].answer = TRUE]
  /\ UNCHANGED <<serverVars, client>>

(* sigaction_handler: the first SIGINT asks for a graceful shutdown, the     *)
(* second one and SIGTERM stop the loop.  The flags are read at the top of   *)
(* the loop and where the sockets are looked at right after it, so that a    *)
(* signal may as well arrive at the top.                                     *)
Sigint ==
  /\ pc = "top" /\ ~srv_shutdown
  /\ IF graceful_shutdown THEN srv_shutdown' = TRUE /\ UNCHANGED graceful_shutdown
                          ELSE graceful_shutdown' = TRUE /\ UNCHANGED srv_shutdown
  /\ UNCHANGED <<pc, run, loopVars, sockets_disabled, listening, pid_file, ptr, used, con, fdVars,
                 joblist, client, fcntl_failures>>

Sigterm ==
  /\ pc = "top" /\ ~srv_shutdown /\ srv_shutdown' = TRUE
  /\ UNCHANGED <<pc, run, loopVars, graceful_shutdown, sockets_disabled, listening, pid_file, ptr,
                 used, con, fdVars, joblist, client, fcntl_failures>>

Environment ==
  \/ \E p \in Clients : ClientConnect(p) \/ ClientSends(p) \/ ClientReceives(p) \/ ClientEnds(p)
  \/ \E c \in Cons : BackendAnswers(c)
  \/ Sigint \/ Sigterm

Next == Server \/ Environment

(* The process runs and backends answer; peers and signals owe nothing.      *)
Spec ==
  /\ Init /\ [][Next]_vars
  /\ WF_vars(Server) /\ \A c \in Cons : SF_vars(BackendAnswers(c))

-----------------------------------------------------------------------------
(* Properties.                                                               *)

(* The variables keep their types.                                           *)
TypeOK ==
  /\ pc \in {"top", "trigger", "sockets", "fdwait", "fdwaited", "poll", "events", "accept",
             "jobs", "machine", "stopped"}
  /\ run \in [con : Cons, ret : {"top", "trigger", "fdwaited", "accept", "jobs"}]
  /\ listening \in {"polled", "idle", "closed"}
  /\ used \in 0..MaxConns /\ DOMAIN ptr = 1..Cardinality(Cons)
  /\ \A c \in Cons :
       /\ con[c].st \in States /\ con[c].fd \in Clients \cup {"none"}
       /\ con[c].age \in 0..Expired /\ con[c].write_ts \in 0..(Expired + 1)
       /\ con[c].backend \in {"none", "wait_fd", "busy", "started"}
       /\ con[c].ev \in {"", "in", "out"}
  /\ \A p \in Clients : client[p].read <= client[p].sent

(* connection_accept whose fcntl failed leaves a connection nobody serves.   *)
Stuck(c) == c \in Open /\ con[c].st = "REQUEST_START" /\ ~(pc = "machine" /\ run.con = c)

(* The variables keep their types; descriptors and connections are accounted *)
(* for through every close, swap, abort and retry: the array holds every     *)
(* object once, those in use are exactly the accepted peers, cur_fds counts  *)
(* their sockets and the backends' (connections.c:39-151, mod_fastcgi.c      *)
(* close and reconnect), and want_fds counts the wait queue                  *)
(* (connections.c:1493, server.c:1456).                                      *)
DescriptorsAccounted ==
  LET Busy == {c \in Open : con[c].backend \in {"busy", "started"}} IN
  /\ TypeOK
  /\ {ptr[i] : i \in 1..Cardinality(Cons)} = Cons
  /\ \A p \in Clients : client[p].st = "accepted" <=>
       Cardinality({c \in Open : con[c].fd = p}) = 1
  /\ cur_fds = BaseFds + used + Cardinality(Busy)
  /\ want_fds = Len(fdwaitqueue) + (IF run.ret = "fdwaited" \/ pc = "fdwaited" THEN 1 ELSE 0)
  /\ \A c \in Cons \ Open : con[c].st = "CONNECT" /\ con[c].ev = "" /\ con[c].backend = "none"

(* When the server goes to sleep, something will wake every connection: an   *)
(* event it asked for, its backend, its place in the queue for descriptors,  *)
(* or the timeout loop.  Nothing is left to do that only another event of a  *)
(* silent descriptor would start (connections.c:1802-1826).                  *)
NobodyForgotten ==
  pc = "poll" => \A c \in Open :
    LET k == con[c]
        backend == k.backend \in {"busy", "started"}
    IN \/ k.st \in {"READ", "READ_POST", "CLOSE"} /\ k.ev = "in"
       \/ k.st = "HANDLE_REQUEST" /\ (backend \/ \E i \in DOMAIN fdwaitqueue : fdwaitqueue[i] = c)
       \/ k.st = "WRITE" /\ (IF k.wq > 0 THEN k.ev = "out" \/ k.paused = "yes" ELSE backend)
       \/ Stuck(c) /\ fcntl_failures > 0

(* t is the nth request of script s, in which a body is none.                *)
Requests(s, n) == Cardinality({i \in 1..n : s[i] # "body"})
IsRequest(s, n, t) == t # "body" /\ \E i \in 1..Len(s) : s[i] = t /\ Requests(s, i) = n

(* A connection answers the requests of its peer once each and in order,     *)
(* whatever arrives together (pipelining), in pieces or while an earlier     *)
(* request is served, and never takes a body for a request                   *)
(* (connections.c:895-1180, 1390-1600).                                      *)
AnsweredInOrder ==
  \A c \in Open : LET k == con[c]  p == k.fd IN
    /\ k.st \in {"REQUEST_END", "READ_POST", "HANDLE_REQUEST", "RESPONSE_START", "WRITE"} =>
         /\ client[p].answers = k.count - 1
         /\ k.req # "none" => IsRequest(client[p].script, k.count, k.req)
    /\ k.st \in {"RESPONSE_END", "REQUEST_START"} => client[p].answers = k.count

(* A write timeout is measured from a write of the answer it cuts off:       *)
(* write_request_ts is never cleared, yet no connection times out on the     *)
(* timestamp of an earlier request or of an earlier owner of its place       *)
(* (server.c:1310, connections.c:630).                                       *)
WriteTimerFresh ==
  pc = "poll" => \A c \in Open :
    con[c].st = "WRITE" => con[c].write_ts \in 1..(con[c].since + 1)

(* Every accepted connection ends, however its peer behaves, if backends     *)
(* answer: by the protocol, a timeout or an error; all but those whose fcntl *)
(* failed.                                                                   *)
ConnectionsEnd ==
  \A p \in Clients :
    client[p].st = "accepted" ~> (client[p].st = "closed" \/ pc = "stopped"
                                  \/ \E c \in Cons : Stuck(c) /\ con[c].fd = p)

(* Stuck connections alone keep the server above a lower mark.               *)
StuckFill ==
  LET n == Cardinality({c \in Cons : Stuck(c)}) IN
  \/ n > (MaxConns * ConnTenths) \div 10
  \/ BaseFds + n >= (MaxFds * LowTenths) \div 10

(* A server that stopped listening for want of connections or descriptors    *)
(* listens again or is asked to stop, whichever mark it passed, unless stuck *)
(* connections fill it (server.c:1375-1391).                                 *)
SocketsComeBack ==
  sockets_disabled ~> (~sockets_disabled \/ graceful_shutdown \/ srv_shutdown \/ StuckFill)

(* A graceful shutdown ends, unless a stuck connection keeps conns->used     *)
(* above zero (server.c:1441).                                               *)
GracefulEnds == graceful_shutdown ~> (pc = "stopped" \/ \E c \in Cons : Stuck(c))
=============================================================================
