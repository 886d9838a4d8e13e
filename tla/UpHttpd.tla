------------------------------ MODULE UpHttpd ------------------------------
(***************************************************************************)
(* The server around the pool (3http_V04/src/uphttpd.c): the main thread   *)
(* accepts connections and hands their descriptors to the pool, the        *)
(* workers run client_handler2, and SIGINT runs sig_handler, which         *)
(* destroys the pool from inside a signal handler.  The handler is a       *)
(* second context of the main thread: while it runs, the main thread       *)
(* stands still where it was interrupted, perhaps holding queue_lock.      *)
(*                                                                         *)
(* The pool is ThreadPool, with the main thread and the handler as its two *)
(* clients and the connections as its jobs.  SIGINT arrives at one of the  *)
(* places SignalAt, and once; a second one would find srv_destroy set.     *)
(***************************************************************************)
EXTENDS Naturals, Sequences, FiniteSets

CONSTANTS PoolSize,   \* pool_init(3) in the code
          Main, Handler,
          Conns,      \* connections, each with its descriptor
          Slow,       \* those whose client may be silent, or whose answer may be held up
          SignalAt,   \* places of the main thread where SIGINT may arrive
          NoJob, NoOne

Workers == 1..PoolSize

ASSUME PoolSizeAssumption == PoolSize \in Nat
ASSUME ContextsAssumption == /\ Main # Handler
                             /\ {Main, Handler} \intersect Workers = {}
                             /\ NoOne \notin {Main, Handler} \union Workers
                             /\ NoJob \notin Conns

VARIABLES pool, queueLock, waiting, queue, curQueueSize, shutdown, wpc, worker,
          cpc, newworker, joined, unused, done, dropped  \* of the pool
VARIABLES
  srvShutdown, srvDestroy,  \* the two flags of server_destroy and sig_handler
  pmaster,    \* "none", "live", "freed"
  mpc,        \* where the main thread is in server_run2
  accepted,   \* its local variable conn_fd
  sig,        \* "none", then "raised", "destroy", "returned" along sig_handler
  hit,        \* where SIGINT interrupted the main thread
  hpc,        \* where each worker is in client_handler2, with what it calls
  fd,         \* each connection's descriptor: "none", "open" or "closed"
  peer,       \* what its client did: "absent", "connected", "sent", "stalled", "left", "reset"
  answered,   \* connections that got a response
  fault       \* a NULL or freed structure was used

Pool == INSTANCE ThreadPool
          WITH MaxThreadNum <- PoolSize, Clients <- {Main, Handler}, Owner <- Main, Jobs <- Conns

poolVars == <<pool, queueLock, waiting, queue, curQueueSize, shutdown, wpc, worker,
              cpc, newworker, joined, unused, done, dropped>>
mainVars == <<srvShutdown, srvDestroy, pmaster, mpc, accepted, sig, hit, fault>>
connVars == <<hpc, fd, peer, answered>>
vars == <<poolVars, mainVars, connVars>>

Init == /\ Pool!Init
        /\ srvShutdown = FALSE /\ srvDestroy = FALSE
        /\ pmaster = "none"
        /\ mpc = "start"
        /\ accepted = NoJob
        /\ sig = "none" /\ hit = "nowhere"
        /\ hpc = [w \in Workers |-> "idle"]
        /\ fd = [c \in Conns |-> "none"]
        /\ peer = [c \in Conns |-> "absent"]
        /\ answered = {}
        /\ fault = FALSE

\* The process runs, and the main thread is not inside the signal handler.
Alive == mpc # "exited" /\ ~fault
MainRuns == Alive /\ sig \in {"none", "returned"}

-----------------------------------------------------------------------------
(* Clients *)

\* connect is completed by the kernel; the connection waits to be accepted.
Connect(c) ==
  /\ Alive
  /\ peer[c] = "absent"
  /\ peer' = [peer EXCEPT ![c] = "connected"]
  /\ UNCHANGED <<poolVars, mainVars, hpc, fd, answered>>

\* It sends its request, or goes away.
Act(c) ==
  /\ Alive
  /\ peer[c] = "connected"
  /\ c \notin Slow
  /\ \E act \in {"sent", "left", "reset"} : peer' = [peer EXCEPT ![c] = act]
  /\ UNCHANGED <<poolVars, mainVars, hpc, fd, answered>>

\* It sends a request whose answer is held up: it is more than the socket takes
\* and the client does not read, or it is that of a CGI program that runs on.
Stall(c) ==
  /\ Alive
  /\ peer[c] = "connected"
  /\ c \in Slow
  /\ peer' = [peer EXCEPT ![c] = "stalled"]
  /\ UNCHANGED <<poolVars, mainVars, hpc, fd, answered>>

\* The client reads after all or goes away, the program ends: perhaps never.
Resume(c) ==
  /\ Alive
  /\ peer[c] = "stalled"
  /\ peer' = [peer EXCEPT ![c] = "sent"]
  /\ UNCHANGED <<poolVars, mainVars, hpc, fd, answered>>

ClientStep(c) == Connect(c) \/ Act(c) \/ Stall(c) \/ Resume(c)

Backlog == {c \in Conns : peer[c] # "absent" /\ fd[c] = "none"}

-----------------------------------------------------------------------------
(* server_run2, in the main thread *)

StartPool ==
  /\ MainRuns
  /\ mpc = "start"
  /\ pmaster' = "live"
  /\ mpc' = "create"
  /\ Pool!PoolInit(Main)
  /\ UNCHANGED <<srvShutdown, srvDestroy, accepted, sig, hit, fault, connVars>>

Create ==
  /\ MainRuns
  /\ mpc = "create"
  /\ Pool!CreateThread(Main)
  /\ mpc' = IF cpc'[Main] = "idle" THEN "loop" ELSE "create"
  /\ UNCHANGED <<srvShutdown, srvDestroy, pmaster, accepted, sig, hit, fault, connVars>>

LoopTest ==
  /\ MainRuns
  /\ mpc = "loop"
  /\ mpc' = IF srvShutdown THEN "leave" ELSE "select"
  /\ UNCHANGED <<poolVars, srvShutdown, srvDestroy, pmaster, accepted, sig, hit, fault, connVars>>

\* The arguments of select are set up; a signal here does not interrupt it.
CallSelect ==
  /\ MainRuns
  /\ mpc = "select"
  /\ mpc' = "selecting"
  /\ UNCHANGED <<poolVars, srvShutdown, srvDestroy, pmaster, accepted, sig, hit, fault, connVars>>

\* Mutant of Select: an interrupted call is taken for a time-out.
SelectIgnoresEintr ==
  /\ MainRuns
  /\ mpc = "selecting"
  /\ mpc' = IF Backlog = {} THEN "loop" ELSE "accept"
  /\ UNCHANGED <<poolVars, srvShutdown, srvDestroy, pmaster, accepted, sig, hit, fault, connVars>>

\* select times out, or finds a connection, or was interrupted: then it returns
\* -1 and so does server_run2, without the call of server_destroy at its end.
Select ==
  /\ MainRuns
  /\ mpc = "selecting"
  /\ mpc' = IF hit = "selecting" THEN "exited" ELSE IF Backlog = {} THEN "loop" ELSE "accept"
  /\ UNCHANGED <<poolVars, srvShutdown, srvDestroy, pmaster, accepted, sig, hit, fault, connVars>>

\* A connection the client aborted makes accept fail, and the loop ends.
Accept(c) ==
  /\ MainRuns
  /\ mpc = "accept"
  /\ c \in Backlog
  /\ \/ /\ fd' = [fd EXCEPT ![c] = "open"]
        /\ accepted' = c
        /\ mpc' = "submit"
     \/ /\ peer[c] = "reset"
        /\ mpc' = "leave"
        /\ UNCHANGED <<fd, accepted>>
  /\ UNCHANGED <<poolVars, srvShutdown, srvDestroy, pmaster, sig, hit, fault, hpc, peer, answered>>

Submit ==
  /\ MainRuns
  /\ mpc = "submit"
  /\ Pool!AddCall(Main, accepted)
  /\ accepted' = NoJob
  /\ mpc' = "adding"
  /\ UNCHANGED <<srvShutdown, srvDestroy, pmaster, sig, hit, fault, connVars>>

\* Inside pool_add_worker; it returns to the printing of pmaster->worker_nums.
Adding ==
  /\ MainRuns
  /\ mpc = "adding"
  /\ Pool!AddStep(Main)
  /\ mpc' = IF cpc'[Main] = "idle" THEN "print" ELSE "adding"
  /\ UNCHANGED <<srvShutdown, srvDestroy, pmaster, accepted, sig, hit, fault, connVars>>

PrintCount ==
  /\ MainRuns
  /\ mpc = "print"
  /\ mpc' = "loop"
  /\ fault' = (pmaster # "live")
  /\ UNCHANGED <<poolVars, srvShutdown, srvDestroy, pmaster, accepted, sig, hit, connVars>>

\* The main thread goes on in pool_add_worker although the pool is gone.
UseFreedPool ==
  /\ MainRuns
  /\ mpc = "adding"
  /\ pool = "freed"
  /\ fault' = TRUE
  /\ UNCHANGED <<poolVars, srvShutdown, srvDestroy, pmaster, mpc, accepted, sig, hit, connVars>>

\* server_destroy finds srv_destroy set whenever srv_shutdown is: the handler
\* ran to its end before the main thread goes on.  Then main returns.
Leave ==
  /\ MainRuns
  /\ mpc = "leave"
  /\ srvShutdown => srvDestroy
  /\ mpc' = "exited"
  /\ UNCHANGED <<poolVars, srvShutdown, srvDestroy, pmaster, accepted, sig, hit, fault, connVars>>

-----------------------------------------------------------------------------
(* sig_handler and server_destroy, on top of the interrupted main thread *)

Sigint ==
  /\ Alive
  /\ sig = "none"
  /\ mpc \in SignalAt
  /\ srvShutdown' = TRUE
  /\ sig' = "raised"
  /\ hit' = mpc
  /\ UNCHANGED <<poolVars, srvDestroy, pmaster, mpc, accepted, fault, connVars>>

\* Before pool_init, pool is NULL; during it, its thread table is not filled.
ServerDestroy ==
  /\ Alive
  /\ sig = "raised"
  /\ srvDestroy' = TRUE
  /\ IF mpc \in {"start", "create"}
       THEN /\ fault' = TRUE
            /\ UNCHANGED <<poolVars, sig>>
       ELSE /\ Pool!DestroyCall(Handler)
            /\ sig' = "destroy"
            /\ UNCHANGED fault
  /\ UNCHANGED <<srvShutdown, pmaster, mpc, accepted, hit, connVars>>

\* Mutant of DestroyPool: the threads are not joined before the pool is freed.
DestroyPoolNoJoin ==
  /\ Alive
  /\ sig = "destroy"
  /\ \/ Pool!DestroySetFlag(Handler) \/ Pool!DestroyBroadcast(Handler)
     \/ /\ cpc[Handler] = "join"
        /\ pool' = "freed"
        /\ dropped' = dropped \union {queue[i] : i \in DOMAIN queue}
        /\ queue' = <<>>
        /\ cpc' = [cpc EXCEPT ![Handler] = "idle"]
        /\ UNCHANGED <<queueLock, waiting, curQueueSize, shutdown, wpc, worker,
                       newworker, joined, unused, done>>
  /\ UNCHANGED <<mainVars, connVars>>

DestroyPool ==
  /\ Alive
  /\ sig = "destroy"
  /\ Pool!DestroyStep(Handler)
  /\ UNCHANGED <<mainVars, connVars>>

\* free(pmaster), and the handler returns.
HandlerReturn ==
  /\ Alive
  /\ sig = "destroy"
  /\ pool = "freed"
  /\ pmaster' = "freed"
  /\ sig' = "returned"
  /\ UNCHANGED <<poolVars, srvShutdown, srvDestroy, mpc, accepted, hit, fault, connVars>>

-----------------------------------------------------------------------------
(* thread_routine, whose jobs are calls of client_handler2 *)

\* Everything a worker does except running and ending a job.
PoolStep(w) ==
  /\ Alive
  /\ \/ Pool!WorkerLock(w) \/ Pool!WorkerCheck(w) \/ Pool!CondWait(w) \/ Pool!CondReturn(w)
     \/ Pool!WorkerTest(w) \/ Pool!WorkerTake(w)
  /\ UNCHANGED <<mainVars, connVars>>

StartHandler(w) ==
  /\ Alive
  /\ Pool!WorkerPop(w)
  /\ hpc' = [hpc EXCEPT ![w] = "read"]
  /\ UNCHANGED <<mainVars, fd, peer, answered>>

Spurious(w) ==
  /\ Alive
  /\ Pool!SpuriousWakeup(w)
  /\ UNCHANGED <<mainVars, connVars>>

\* Mutant of Read: a connection its client closed is left open (as in 3http_V03).
ReadForgetsClose(w) ==
  /\ Alive
  /\ hpc[w] = "read"
  /\ \E c \in {worker[w]} :
       \/ peer[c] \in {"sent", "stalled"} /\ hpc' = [hpc EXCEPT ![w] = "send"]
       \/ peer[c] \in {"left", "reset"} /\ hpc' = [hpc EXCEPT ![w] = "return"]
  /\ UNCHANGED <<poolVars, mainVars, fd, peer, answered>>

\* read blocks while the client is connected and silent.  A read error returns
\* at once and leaves the descriptor open.
Read(w) ==
  /\ Alive
  /\ hpc[w] = "read"
  /\ \E c \in {worker[w]} :
       \/ peer[c] \in {"sent", "stalled"} /\ hpc' = [hpc EXCEPT ![w] = "send"]
       \/ peer[c] = "left" /\ hpc' = [hpc EXCEPT ![w] = "close"]
       \/ peer[c] = "reset" /\ hpc' = [hpc EXCEPT ![w] = "return"]
  /\ UNCHANGED <<poolVars, mainVars, fd, peer, answered>>

\* Mutant of SendFile: a failing up_sendfile closes the connection itself.
SendFileCloses(w) ==
  /\ Alive
  /\ hpc[w] = "send" /\ peer[worker[w]] # "stalled"
  /\ \/ answered' = answered \union {worker[w]} /\ UNCHANGED fd
     \/ fd' = [fd EXCEPT ![worker[w]] = "closed"] /\ UNCHANGED answered
  /\ hpc' = [hpc EXCEPT ![w] = "close"]
  /\ UNCHANGED <<poolVars, mainVars, peer>>

\* up_sendfile sends a file or an error page, or fails to write to a client
\* that is gone; client_handler2 closes the descriptor whichever it was.  Its
\* write, or the wait of cgi_handler, blocks while the answer is held up.
SendFile(w) ==
  /\ Alive
  /\ hpc[w] = "send" /\ peer[worker[w]] # "stalled"
  /\ \/ answered' = answered \union {worker[w]}
     \/ UNCHANGED answered
  /\ hpc' = [hpc EXCEPT ![w] = "close"]
  /\ UNCHANGED <<poolVars, mainVars, fd, peer>>

\* Mutant of CloseConn: the descriptor stays open (as in 3http_V03).
CloseConnForgets(w) ==
  /\ Alive
  /\ hpc[w] = "close"
  /\ hpc' = [hpc EXCEPT ![w] = "return"]
  /\ UNCHANGED <<poolVars, mainVars, fd, peer, answered>>

CloseConn(w) ==
  /\ Alive
  /\ hpc[w] = "close"
  /\ fd' = [fd EXCEPT ![worker[w]] = "closed"]
  /\ hpc' = [hpc EXCEPT ![w] = "return"]
  /\ UNCHANGED <<poolVars, mainVars, peer, answered>>

\* Mutant of HandlerDone: the worker serves its connection for ever.
HandlerNeverDone(w) ==
  /\ Alive
  /\ hpc[w] = "return"
  /\ UNCHANGED vars

HandlerDone(w) ==
  /\ Alive
  /\ hpc[w] = "return"
  /\ Pool!WorkerFinish(w)
  /\ hpc' = [hpc EXCEPT ![w] = "idle"]
  /\ UNCHANGED <<mainVars, fd, peer, answered>>

WorkerStep(w) == \/ PoolStep(w) \/ StartHandler(w) \/ Read(w) \/ SendFile(w)
                 \/ CloseConn(w) \/ HandlerDone(w)

MainStep == \/ StartPool \/ Create \/ LoopTest \/ CallSelect \/ Select \/ Submit \/ Adding \/ PrintCount
            \/ UseFreedPool \/ Leave
            \/ \E c \in Conns : Accept(c)

HandlerStep == ServerDestroy \/ DestroyPool \/ HandlerReturn

Over == ~Alive /\ UNCHANGED vars

Next == \/ MainStep
        \/ Sigint
        \/ HandlerStep
        \/ \E w \in Workers : WorkerStep(w) \/ Spurious(w)
        \/ \E c \in Conns : ClientStep(c)
        \/ Over

Spec == Init /\ [][Next]_vars

(* The threads run.  Clients owe nothing, nor do CGI programs; one that is  *)
(* not slow acts once it is connected.                                      *)
(* Workers that wake spuriously again and again, each time with queue_lock, *)
(* do not keep the main thread from it for ever: strong fairness.           *)
Fairness == /\ SF_vars(MainStep)
            /\ WF_vars(HandlerStep)
            /\ \A w \in Workers : WF_vars(WorkerStep(w))
            /\ \A c \in Conns : WF_vars(Act(c))

FairSpec == Spec /\ Fairness

-----------------------------------------------------------------------------
(* Properties *)

MainPC == {"start", "create", "loop", "select", "selecting", "accept", "submit",
           "adding", "print", "leave", "exited"}

TypeOK ==
  /\ Pool!TypeOK
  /\ srvShutdown \in BOOLEAN /\ srvDestroy \in BOOLEAN /\ fault \in BOOLEAN
  /\ pmaster \in {"none", "live", "freed"}
  /\ mpc \in MainPC
  /\ accepted \in Conns \union {NoJob}
  /\ sig \in {"none", "raised", "destroy", "returned"}
  /\ hit \in MainPC \union {"nowhere"}
  /\ hpc \in [Workers -> {"idle", "read", "send", "close", "return"}]
  /\ fd \in [Conns -> {"none", "open", "closed"}]
  /\ peer \in [Conns -> {"absent", "connected", "sent", "stalled", "left", "reset"}]
  /\ answered \in SUBSET Conns

Queued == {queue[i] : i \in DOMAIN queue}
Busy(c) == \E w \in Workers : worker[w] = c

\* The worker waits in read, or in write or wait, for somebody outside.
Blocked(w) == \/ hpc[w] = "read" /\ peer[worker[w]] = "connected"
              \/ hpc[w] = "send" /\ peer[worker[w]] = "stalled"

Held(c) == c \in {accepted, newworker[Main]} \union Queued \/ Busy(c)

(* Neither the pool nor pmaster is used once the signal handler freed them, *)
(* nor before pool_init made it, when SIGINT comes at the test of the loop  *)
(* or inside select, where the server spends its time.                      *)
NoFault == hit \in {"loop", "selecting"} => ~fault

(* The variables keep their types, and a descriptor in the hands of the     *)
(* main thread, of the queue or of a handler that still uses it is open: it *)
(* was not closed by somebody else, which would let the kernel give its     *)
(* number to the next connection.                                           *)
HeldDescriptorsOpen ==
  /\ TypeOK
  /\ \A c \in Conns : c \in {accepted, newworker[Main]} \union Queued => fd[c] = "open"
  /\ \A w \in Workers : hpc[w] \in {"read", "send", "close"} => fd[worker[w]] = "open"

(* An open descriptor nobody holds any more comes from a read that failed   *)
(* (client_handler2 returns without close) or from a queue that was thrown  *)
(* away; there is no third way to lose one.                                 *)
LeaksExplained ==
  \A c \in Conns : fd[c] = "open" /\ ~Held(c) => peer[c] = "reset" \/ c \in dropped

(* The pool keeps its promise when it is destroyed from a signal handler.   *)
PoolPromise == Pool!ImplementsJobPool

(* A client that sends its request, and reads, sees its connection closed   *)
(* after the answer, unless the server stops or every worker is held for    *)
(* ever: by silent clients, clients that do not read, CGI programs that do  *)
(* not end.                                                                 *)
RequestsServed ==
  \A c \in Conns : peer[c] = "sent" ~>
    \/ fd[c] = "closed" \/ srvShutdown \/ ~Alive
    \/ [](\A w \in Workers : Blocked(w))

(* Ctrl-C ends the server, well or badly, unless it interrupts the main     *)
(* thread while that holds queue_lock, the flag falls into a worker's       *)
(* window before pthread_cond_wait, or a worker that is joined is held for  *)
(* ever by its client or its CGI program.                                   *)
SigintEnds ==
  (/\ cpc[Handler] = "broadcast"
   /\ queueLock # Main
   /\ \A w \in Workers : wpc[w] # "wait") ~> (~Alive \/ \E w \in Workers : []Blocked(w))

(* thread_pool.c:124 says of pool_destroy that it waits for the threads to  *)
(* leave: called by the handler, it comes back, too, if they can leave.     *)
HandlerDestroyReturns ==
  (cpc[Handler] = "broadcast" /\ \A w \in Workers : wpc[w] # "wait") ~>
    (pool = "freed" \/ \E w \in Workers : []Blocked(w))
============================================================================
