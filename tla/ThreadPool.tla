----------------------------- MODULE ThreadPool -----------------------------
(***************************************************************************)
(* The thread pool of uphttpd (3http_V04/src/thread_pool.c): a singly      *)
(* linked queue of jobs, one mutex (queue_lock), one condition variable    *)
(* (queue_ready), a counter (cur_queue_size) and a flag (shutdown) that    *)
(* pool_destroy writes WITHOUT holding the mutex.                          *)
(*                                                                         *)
(* Every access that another thread can see between is a step of its own:  *)
(* the counter and the list change in two steps, the loop's test and       *)
(* pthread_cond_wait are two steps (the latter releases the mutex and      *)
(* joins the wait set atomically), and so are the two reads of shutdown.   *)
(* A waiter may also wake spuriously.                                      *)
(*                                                                         *)
(* The module is about well-behaved users: the owner creates and destroys  *)
(* the pool, and nobody calls into it once its destruction began.          *)
(***************************************************************************)
EXTENDS Naturals, Sequences, FiniteSets

CONSTANTS MaxThreadNum,  \* argument of pool_init
          Clients,       \* contexts that call the pool's functions
          Owner,         \* the one that calls pool_init and pool_destroy
          Jobs,          \* identities of the CThread_worker nodes
          NoJob, NoOne

Workers == 1..MaxThreadNum

ASSUME MaxThreadNumAssumption == MaxThreadNum \in Nat
ASSUME OwnerAssumption == Owner \in Clients
ASSUME DisjointAssumption == /\ Clients \intersect Workers = {}
                             /\ NoOne \notin Clients \union Workers
                             /\ NoJob \notin Jobs

VARIABLES
  pool,       \* "none" before pool_init, "live", "freed" after pool_destroy
  queueLock,  \* holder of queue_lock, or NoOne
  waiting,    \* workers blocked on queue_ready and not yet woken
  queue,      \* the list from queue_head
  curQueueSize,
  shutdown,
  wpc,        \* where each worker is in thread_routine
  worker,     \* its local variable worker (the job it runs)
  cpc,        \* where each client is in pool_init, pool_add_worker, pool_destroy
  newworker,  \* the client's local variable newworker
  joined,     \* loop counter i of pool_init's creation and pool_destroy's joins
  unused,     \* jobs not yet allocated
  done,       \* jobs whose process function returned and whose node was freed
  dropped     \* jobs whose node pool_destroy freed

lockVars   == <<queueLock, waiting>>
queueVars  == <<queue, curQueueSize>>
workerVars == <<wpc, worker>>
clientVars == <<cpc, newworker, joined>>
ghostVars  == <<unused, done, dropped>>
vars == <<pool, lockVars, queueVars, shutdown, workerVars, clientVars, ghostVars>>

Holding == {"check", "wait", "test", "take", "pop"}  \* worker owns queue_lock
Adding  == {"add", "append", "count", "signal"}
Closing == {"close", "broadcast", "join", "free"}

WorkerPC == {"new", "lock", "asleep", "run", "exited"} \union Holding
ClientPC == {"idle", "create"} \union Adding \union Closing

Init == /\ pool = "none"
        /\ queueLock = NoOne
        /\ waiting = {}
        /\ queue = <<>>
        /\ curQueueSize = 0
        /\ shutdown = FALSE
        /\ wpc = [w \in Workers |-> "new"]
        /\ worker = [w \in Workers |-> NoJob]
        /\ cpc = [c \in Clients |-> "idle"]
        /\ newworker = [c \in Clients |-> NoJob]
        /\ joined = 0
        /\ unused = Jobs
        /\ done = {}
        /\ dropped = {}

-----------------------------------------------------------------------------
(* pool_init *)

PoolInit(c) ==
  /\ pool = "none"
  /\ cpc[c] = "idle"
  /\ pool' = "live"
  /\ cpc' = [cpc EXCEPT ![c] = "create"]
  /\ UNCHANGED <<lockVars, queueVars, shutdown, workerVars, newworker, joined, ghostVars>>

\* A thread runs from the moment it is created, while later ones are not there yet.
CreateThread(c) ==
  /\ cpc[c] = "create"
  /\ IF joined < MaxThreadNum
       THEN /\ wpc' = [wpc EXCEPT ![joined + 1] = "lock"]
            /\ joined' = joined + 1
            /\ UNCHANGED cpc
       ELSE /\ cpc' = [cpc EXCEPT ![c] = "idle"]
            /\ joined' = 0
            /\ UNCHANGED wpc
  /\ UNCHANGED <<pool, lockVars, queueVars, shutdown, worker, newworker, ghostVars>>

-----------------------------------------------------------------------------
(* pool_add_worker *)

AddCall(c, j) ==
  /\ cpc[c] = "idle"
  /\ j \in unused
  /\ unused' = unused \ {j}
  /\ newworker' = [newworker EXCEPT ![c] = j]
  /\ cpc' = [cpc EXCEPT ![c] = "add"]
  /\ UNCHANGED <<pool, lockVars, queueVars, shutdown, workerVars, joined, done, dropped>>

AddLock(c) ==
  /\ cpc[c] = "add"
  /\ pool = "live"
  /\ queueLock = NoOne
  /\ queueLock' = c
  /\ cpc' = [cpc EXCEPT ![c] = "append"]
  /\ UNCHANGED <<pool, waiting, queueVars, shutdown, workerVars, newworker, joined, ghostVars>>

\* Mutant of AddAppend: the node is linked at the head of the list.
AddPrepend(c) ==
  /\ cpc[c] = "append"
  /\ pool = "live"
  /\ queue' = <<newworker[c]>> \o queue
  /\ newworker' = [newworker EXCEPT ![c] = NoJob]
  /\ cpc' = [cpc EXCEPT ![c] = "count"]
  /\ UNCHANGED <<pool, lockVars, curQueueSize, shutdown, workerVars, joined, ghostVars>>

AddAppend(c) ==
  /\ cpc[c] = "append"
  /\ pool = "live"
  /\ queue' = Append(queue, newworker[c])
  /\ newworker' = [newworker EXCEPT ![c] = NoJob]
  /\ cpc' = [cpc EXCEPT ![c] = "count"]
  /\ UNCHANGED <<pool, lockVars, curQueueSize, shutdown, workerVars, joined, ghostVars>>

\* Mutant of AddCount: the function returns without its signal.
AddCountNoSignal(c) ==
  /\ cpc[c] = "count"
  /\ pool = "live"
  /\ curQueueSize' = curQueueSize + 1
  /\ queueLock' = NoOne
  /\ cpc' = [cpc EXCEPT ![c] = "idle"]
  /\ UNCHANGED <<pool, waiting, queue, shutdown, workerVars, newworker, joined, ghostVars>>

AddCount(c) ==
  /\ cpc[c] = "count"
  /\ pool = "live"
  /\ curQueueSize' = curQueueSize + 1
  /\ queueLock' = NoOne
  /\ cpc' = [cpc EXCEPT ![c] = "signal"]
  /\ UNCHANGED <<pool, waiting, queue, shutdown, workerVars, newworker, joined, ghostVars>>

\* pthread_cond_signal wakes one waiter, any of them, and is lost when there is none.
AddSignal(c) ==
  /\ cpc[c] = "signal"
  /\ pool = "live"
  /\ \/ /\ waiting = {}
        /\ UNCHANGED waiting
     \/ \E w \in waiting : waiting' = waiting \ {w}
  /\ cpc' = [cpc EXCEPT ![c] = "idle"]
  /\ UNCHANGED <<pool, queueLock, queueVars, shutdown, workerVars, newworker, joined, ghostVars>>

-----------------------------------------------------------------------------
(* pool_destroy: it takes no lock *)

\* When shutdown is set already pool_destroy returns -1 and nothing changes.
DestroyCall(c) ==
  /\ cpc[c] = "idle"
  /\ pool = "live"
  /\ ~shutdown
  /\ cpc' = [cpc EXCEPT ![c] = "close"]
  /\ UNCHANGED <<pool, lockVars, queueVars, shutdown, workerVars, newworker, joined, ghostVars>>

DestroySetFlag(c) ==
  /\ cpc[c] = "close"
  /\ pool = "live"
  /\ shutdown' = TRUE
  /\ cpc' = [cpc EXCEPT ![c] = "broadcast"]
  /\ UNCHANGED <<pool, lockVars, queueVars, workerVars, newworker, joined, ghostVars>>

\* Mutant of DestroyBroadcast: a signal, which wakes one worker only.
DestroySignal(c) ==
  /\ cpc[c] = "broadcast"
  /\ pool = "live"
  /\ waiting' = IF waiting = {} THEN {} ELSE waiting \ {CHOOSE w \in waiting : TRUE}
  /\ cpc' = [cpc EXCEPT ![c] = "join"]
  /\ UNCHANGED <<pool, queueLock, queueVars, shutdown, workerVars, newworker, joined, ghostVars>>

DestroyBroadcast(c) ==
  /\ cpc[c] = "broadcast"
  /\ pool = "live"
  /\ waiting' = {}
  /\ cpc' = [cpc EXCEPT ![c] = "join"]
  /\ UNCHANGED <<pool, queueLock, queueVars, shutdown, workerVars, newworker, joined, ghostVars>>

\* Mutant of DestroyJoin: the last thread is not joined.
DestroyJoinAllButLast(c) ==
  /\ cpc[c] = "join"
  /\ pool = "live"
  /\ IF joined < MaxThreadNum - 1
       THEN /\ wpc[joined + 1] = "exited"
            /\ joined' = joined + 1
            /\ UNCHANGED cpc
       ELSE /\ cpc' = [cpc EXCEPT ![c] = "free"]
            /\ UNCHANGED joined
  /\ UNCHANGED <<pool, lockVars, queueVars, shutdown, workerVars, newworker, ghostVars>>

\* pthread_join blocks until the thread with the next index has exited.
DestroyJoin(c) ==
  /\ cpc[c] = "join"
  /\ pool = "live"
  /\ IF joined < MaxThreadNum
       THEN /\ wpc[joined + 1] = "exited"
            /\ joined' = joined + 1
            /\ UNCHANGED cpc
       ELSE /\ cpc' = [cpc EXCEPT ![c] = "free"]
            /\ UNCHANGED joined
  /\ UNCHANGED <<pool, lockVars, queueVars, shutdown, workerVars, newworker, ghostVars>>

DestroyFree(c) ==
  /\ cpc[c] = "free"
  /\ pool = "live"
  /\ dropped' = dropped \union {queue[i] : i \in DOMAIN queue}
  /\ queue' = <<>>
  /\ pool' = "freed"
  /\ cpc' = [cpc EXCEPT ![c] = "idle"]
  /\ UNCHANGED <<lockVars, curQueueSize, shutdown, workerVars, newworker, joined, unused, done>>

-----------------------------------------------------------------------------
(* thread_routine *)

WorkerLock(w) ==
  /\ wpc[w] = "lock"
  /\ queueLock = NoOne
  /\ queueLock' = w
  /\ wpc' = [wpc EXCEPT ![w] = "check"]
  /\ UNCHANGED <<pool, waiting, queueVars, shutdown, worker, clientVars, ghostVars>>

WorkerCheck(w) ==
  /\ wpc[w] = "check"
  /\ wpc' = [wpc EXCEPT ![w] = IF curQueueSize = 0 /\ ~shutdown THEN "wait" ELSE "test"]
  /\ UNCHANGED <<pool, lockVars, queueVars, shutdown, worker, clientVars, ghostVars>>

CondWait(w) ==
  /\ wpc[w] = "wait"
  /\ queueLock' = NoOne
  /\ waiting' = waiting \union {w}
  /\ wpc' = [wpc EXCEPT ![w] = "asleep"]
  /\ UNCHANGED <<pool, queueVars, shutdown, worker, clientVars, ghostVars>>

\* Mutant of CondReturn: the loop around pthread_cond_wait is an if.
CondReturnIf(w) ==
  /\ wpc[w] = "asleep"
  /\ w \notin waiting
  /\ queueLock = NoOne
  /\ queueLock' = w
  /\ wpc' = [wpc EXCEPT ![w] = "test"]
  /\ UNCHANGED <<pool, waiting, queueVars, shutdown, worker, clientVars, ghostVars>>

\* A woken thread owns the mutex again when pthread_cond_wait returns.
CondReturn(w) ==
  /\ wpc[w] = "asleep"
  /\ w \notin waiting
  /\ queueLock = NoOne
  /\ queueLock' = w
  /\ wpc' = [wpc EXCEPT ![w] = "check"]
  /\ UNCHANGED <<pool, waiting, queueVars, shutdown, worker, clientVars, ghostVars>>

SpuriousWakeup(w) ==
  /\ w \in waiting
  /\ waiting' = waiting \ {w}
  /\ UNCHANGED <<pool, queueLock, queueVars, shutdown, workerVars, clientVars, ghostVars>>

\* Mutant of WorkerTest: a worker leaves only when the list is empty.
WorkerTestDrain(w) ==
  /\ wpc[w] = "test"
  /\ IF shutdown /\ curQueueSize = 0
       THEN /\ queueLock' = NoOne
            /\ wpc' = [wpc EXCEPT ![w] = "exited"]
       ELSE /\ wpc' = [wpc EXCEPT ![w] = "take"]
            /\ UNCHANGED queueLock
  /\ UNCHANGED <<pool, waiting, queueVars, shutdown, worker, clientVars, ghostVars>>

WorkerTest(w) ==
  /\ wpc[w] = "test"
  /\ IF shutdown
       THEN /\ queueLock' = NoOne
            /\ wpc' = [wpc EXCEPT ![w] = "exited"]
       ELSE /\ wpc' = [wpc EXCEPT ![w] = "take"]
            /\ UNCHANGED queueLock
  /\ UNCHANGED <<pool, waiting, queueVars, shutdown, worker, clientVars, ghostVars>>

\* The guard is the two assertions: AssertionsHold says they never stop a worker.
WorkerTake(w) ==
  /\ wpc[w] = "take"
  /\ curQueueSize # 0
  /\ queue # <<>>
  /\ curQueueSize' = curQueueSize - 1
  /\ wpc' = [wpc EXCEPT ![w] = "pop"]
  /\ UNCHANGED <<pool, lockVars, queue, shutdown, worker, clientVars, ghostVars>>

WorkerPop(w) ==
  /\ wpc[w] = "pop"
  /\ queue # <<>>
  /\ worker' = [worker EXCEPT ![w] = Head(queue)]
  /\ queue' = Tail(queue)
  /\ queueLock' = NoOne
  /\ wpc' = [wpc EXCEPT ![w] = "run"]
  /\ UNCHANGED <<pool, waiting, curQueueSize, shutdown, clientVars, ghostVars>>

\* process returns, the node is freed and the loop starts again.
WorkerFinish(w) ==
  /\ wpc[w] = "run"
  /\ done' = done \union {worker[w]}
  /\ worker' = [worker EXCEPT ![w] = NoJob]
  /\ wpc' = [wpc EXCEPT ![w] = "lock"]
  /\ UNCHANGED <<pool, lockVars, queueVars, shutdown, clientVars, unused, dropped>>

-----------------------------------------------------------------------------
(* How the pool is used: one owner, no call once its destruction began. *)

Usable == pool = "live" /\ cpc[Owner] \notin {"create"} \union Closing

UserInit == PoolInit(Owner)
UserAdd(c) == Usable /\ \E j \in Jobs : AddCall(c, j)
UserDestroy == /\ \A c \in Clients : cpc[c] = "idle"
               /\ DestroyCall(Owner)

AddStep(c) == AddLock(c) \/ AddAppend(c) \/ AddCount(c) \/ AddSignal(c)
DestroyStep(c) == \/ DestroySetFlag(c) \/ DestroyBroadcast(c)
                  \/ DestroyJoin(c) \/ DestroyFree(c)

\* What a client does inside a function of the pool, once it called it.
ClientStep(c) == CreateThread(c) \/ AddStep(c) \/ DestroyStep(c)

\* What a worker does by itself; SpuriousWakeup is not its own doing.
WorkerStep(w) == \/ WorkerLock(w) \/ WorkerCheck(w) \/ CondWait(w) \/ CondReturn(w)
                 \/ WorkerTest(w) \/ WorkerTake(w) \/ WorkerPop(w) \/ WorkerFinish(w)

\* The owner returned from pool_destroy: the program goes on without the pool.
Finished == pool = "freed" /\ UNCHANGED vars

Next == \/ UserInit
        \/ UserDestroy
        \/ \E c \in Clients : UserAdd(c) \/ ClientStep(c)
        \/ \E w \in Workers : WorkerStep(w) \/ SpuriousWakeup(w)
        \/ Finished

Spec == Init /\ [][Next]_vars

(* The scheduler runs every runnable thread and process functions return.  *)
(* Users owe nothing (they need not submit or destroy), a spurious wakeup  *)
(* is never owed, and the mutex is not assumed to be fair.                 *)
Fairness == /\ \A c \in Clients : WF_vars(ClientStep(c))
            /\ \A w \in Workers : WF_vars(WorkerStep(w))

FairSpec == Spec /\ Fairness

-----------------------------------------------------------------------------
(* Properties *)

TypeOK ==
  /\ pool \in {"none", "live", "freed"}
  /\ queueLock \in Clients \union Workers \union {NoOne}
  /\ waiting \in SUBSET Workers
  /\ queue \in Seq(Jobs)
  /\ curQueueSize \in Nat
  /\ shutdown \in BOOLEAN
  /\ wpc \in [Workers -> WorkerPC]
  /\ worker \in [Workers -> Jobs \union {NoJob}]
  /\ cpc \in [Clients -> ClientPC]
  /\ newworker \in [Clients -> Jobs \union {NoJob}]
  /\ joined \in 0..MaxThreadNum
  /\ unused \in SUBSET Jobs
  /\ done \in SUBSET Jobs
  /\ dropped \in SUBSET Jobs

(* The assertions of the code (lines 100, 177 and 178) never fail, although *)
(* the counter and the list they read are changed in separate steps, and    *)
(* although shutdown changes under a worker that is between its two tests.  *)
AssertionsHold ==
  /\ \A c \in Clients : cpc[c] = "count" => queue # <<>>
  /\ \A w \in Workers : /\ wpc[w] = "take" => curQueueSize # 0 /\ queue # <<>>
                        /\ wpc[w] = "pop" => queue # <<>>

(* pool_destroy frees the pool, its mutex and its condition variable: by    *)
(* then no worker may use them again, none may hold the mutex or wait.      *)
NoUseAfterFree ==
  pool = "freed" => /\ \A w \in Workers : wpc[w] = "exited"
                    /\ queueLock = NoOne
                    /\ waiting = {}

Awake == {w \in Workers : \/ wpc[w] \in {"lock", "check", "test", "take"}
                          \/ wpc[w] = "asleep" /\ w \notin waiting}

(* The single signal per job, sent after the mutex is released, is enough:  *)
(* no worker is left waiting while there are more jobs than workers awake   *)
(* to fetch them or signals about to be sent.                               *)
NoWorkerSleepsOnWork ==
  ~shutdown /\ waiting # {} =>
    curQueueSize <= Cardinality(Awake) + Cardinality({c \in Clients : cpc[c] = "signal"})

(* Once shutdown is set, only a worker that passed its test before can      *)
(* still fetch a job, and there is at most one: it holds the mutex.  After  *)
(* it no job starts.                                                        *)
Fetching == {w \in Workers : wpc[w] \in {"take", "pop"}}
OneStragglerAtMost ==
  [][/\ shutdown => Fetching' \subseteq Fetching
     /\ shutdown' => \A v, w \in Fetching' : v = w]_vars

(* The pool does what JobPool promises: submission order, each job at most  *)
(* once, running jobs end before the pool is gone, the rest is dropped.     *)
Running == {worker[w] : w \in {v \in Workers : wpc[v] = "run"}}
Phase == CASE pool = "freed" -> "closed"
           [] pool # "freed" /\ shutdown -> "closing"
           [] OTHER -> "open"
Abstract == INSTANCE JobPool WITH pending <- queue, running <- Running, phase <- Phase
ImplementsJobPool == Abstract!JobSpec

(* A job in the queue is executed, unless the pool is destroyed first: no   *)
(* wakeup is lost between the submitter and the workers.                    *)
SubmittedJobsRun ==
  \A j \in Jobs : (\E i \in DOMAIN queue : queue[i] = j) ~> (j \in done \/ shutdown)

(* pool_destroy returns if its flag did not fall into a worker's window     *)
(* between the loop's test and pthread_cond_wait.                           *)
DestroyReturns ==
  (cpc[Owner] = "broadcast" /\ \A w \in Workers : wpc[w] # "wait") ~> pool = "freed"
=============================================================================
