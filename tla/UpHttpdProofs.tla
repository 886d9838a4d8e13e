--------------------------- MODULE UpHttpdProofs ---------------------------
(***************************************************************************)
(* Proofs about uphttpd: about UpHttpd, its main loop, connections and     *)
(* signals, for any number of workers and connections and for a SIGINT     *)
(* that comes anywhere; and about Cgi, what a worker does for a CGI        *)
(* request, for any number of workers and requests, any programs and any   *)
(* size of the socket buffer.                                              *)
(*                                                                         *)
(* ThreadPool's own proofs are about clients that stop calling before the  *)
(* pool is destroyed; here the handler destroys it under a main thread     *)
(* that may be inside pool_add_worker.  So the invariant is a new one: it  *)
(* ties the places of the main thread, of the handler and of the threads   *)
(* to each other (MainThread, Destruction, Interrupted, Threads), and each *)
(* connection to one place and its descriptor (OnePlace, Descriptors).     *)
(*                                                                         *)
(* The balances of Cgi count sets that each step changes by one element.   *)
(* What makes them inductive is where a request stands: Owners says that   *)
(* it has one worker at most, Stages what its worker's place says of its   *)
(* child and its reply, Writers that a running child holds its own write   *)
(* end.                                                                    *)
(***************************************************************************)
EXTENDS UpHttpd, Cgi, FiniteSetTheorems, TLAPS

-----------------------------------------------------------------------------
(* The main loop, connections and signals.                                   *)

USE PoolSizeAssumption, ContextsAssumption

(* Where the main thread is in server_run2 says where it is in the functions *)
(* of the pool, and which connection it has at hand.                         *)
MainThread ==
  /\ pool = "none" <=> mpc = "start"
  /\ pmaster = "none" <=> mpc = "start"
  /\ cpc[Main] = "create" <=> mpc = "create"
  /\ cpc[Main] \in Pool!Adding <=> mpc = "adding"
  /\ cpc[Main] \notin Pool!Closing
  /\ accepted \in Conns <=> mpc = "submit"
  /\ newworker[Main] \in Conns <=> cpc[Main] \in {"add", "append"}

(* Only the handler destroys the pool, and what is gone is its doing. *)
Destruction ==
  /\ cpc[Handler] \in {"idle"} \union Pool!Closing
  /\ newworker[Handler] = NoJob
  /\ cpc[Handler] # "idle" <=> sig = "destroy" /\ pool = "live"
  /\ pool = "freed" => sig \in {"destroy", "returned"}
  /\ sig = "returned" <=> pmaster = "freed"
  /\ sig = "returned" => pool = "freed"
  /\ shutdown <=> cpc[Handler] \in {"broadcast", "join", "free"} \/ pool = "freed"

(* The main thread stands still under the handler; after a signal at the     *)
(* test of the loop or in select only few places are left to it.             *)
Interrupted ==
  /\ srvShutdown <=> sig # "none"
  /\ hit = "nowhere" <=> sig = "none"
  /\ sig \in {"raised", "destroy"} => mpc = hit
  /\ sig \in {"destroy", "returned"} => mpc \notin {"start", "create"}
  /\ sig = "returned" => /\ hit = "loop" => mpc \in {"loop", "leave", "exited"}
                         /\ hit = "selecting" => mpc \in {"selecting", "exited"}

(* The threads are created in order, have left when the pool is freed, and   *)
(* run client_handler2 exactly while they hold a connection.                 *)
Threads ==
  /\ mpc = "start" => joined = 0 /\ \A w \in Workers : wpc[w] = "new"
  /\ mpc = "create" => \A w \in Workers : wpc[w] = "new" <=> w > joined
  /\ mpc \notin {"start", "create"} => \A w \in Workers : wpc[w] # "new"
  /\ mpc # "create" /\ pool # "freed" /\ cpc[Handler] \notin {"join", "free"} => joined = 0
  /\ cpc[Handler] = "join" => \A w \in Workers : w <= joined => wpc[w] = "exited"
  /\ cpc[Handler] = "free" \/ pool = "freed" => \A w \in Workers : wpc[w] = "exited"
  /\ \A w \in Workers : /\ worker[w] \in Conns <=> wpc[w] = "run"
                        /\ hpc[w] # "idle" <=> wpc[w] = "run"

(* Not yet handed to the pool, or no longer in it. *)
Elsewhere == unused \union done \union dropped

(* A connection is in one place at most: in pool_add_worker, in the list,    *)
(* with a worker, or in none of them.                                        *)
OnePlace ==
  /\ \A i, k \in DOMAIN queue : queue[i] = queue[k] => i = k
  /\ \A v, w \in Workers : worker[v] = worker[w] /\ worker[v] \in Conns => v = w
  /\ \A i \in DOMAIN queue : /\ queue[i] \notin Elsewhere \union {newworker[Main]}
                             /\ \A w \in Workers : worker[w] # queue[i]
  /\ \A w \in Workers : worker[w] \in Conns => worker[w] \notin Elsewhere \union {newworker[Main]}
  /\ newworker[Main] \notin Elsewhere
  /\ unused \intersect (done \union dropped) = {}

(* No connection disappears. *)
NoneLost == \A c \in Conns : c \in Elsewhere \union {newworker[Main]} \union Queued \/ Busy(c)

(* Descriptors against the places of their connections: open in the hands    *)
(* of who uses them, closed or lost to a reset when the handler is done.     *)
Descriptors ==
  /\ \A c \in Conns : /\ c \in unused <=> fd[c] = "none" \/ c = accepted
                      /\ c \in {accepted, newworker[Main]} => fd[c] = "open"
                      /\ c \in done => fd[c] = "closed" \/ peer[c] = "reset"
  /\ \A i \in DOMAIN queue : fd[queue[i]] = "open"
  /\ \A w \in Workers :
       /\ hpc[w] \in {"read", "send", "close"} => fd[worker[w]] = "open"
       /\ hpc[w] = "return" => fd[worker[w]] = "closed" \/ peer[worker[w]] = "reset"

Control == MainThread /\ Destruction /\ Interrupted /\ Threads
Inv == TypeOK /\ Control /\ OnePlace /\ NoneLost /\ Descriptors

(* The pool's variables keep their types: what its functions do to them.     *)
LEMMA PoolTypesStep == TypeOK /\ Control /\ [Next]_vars => Pool!TypeOK'
<1> SUFFICES ASSUME TypeOK, Control, [Next]_vars PROVE Pool!TypeOK'
  OBVIOUS
<1> USE DEF Pool!TypeOK, MainPC, poolVars, mainVars, connVars, Pool!lockVars, Pool!queueVars,
            Pool!workerVars, Pool!clientVars, Pool!ghostVars, Workers, Pool!Workers, Pool!WorkerPC,
            Pool!ClientPC, Pool!Holding, Pool!Adding, Pool!Closing
<1>1. CASE UNCHANGED poolVars
  BY <1>1 DEF TypeOK
<1>2. CASE StartPool
  BY <1>2 DEF TypeOK, StartPool, Pool!PoolInit
<1>3. CASE Create
  BY <1>3 DEF TypeOK, Create, Pool!CreateThread
<1>4. CASE Submit
  BY <1>4 DEF TypeOK, Submit, Pool!AddCall
<1>5. CASE Adding
  <2>1. CASE Pool!AddLock(Main)
    BY <2>1 DEF TypeOK, Pool!AddLock
  <2>2. CASE Pool!AddAppend(Main)
    <3>1. newworker[Main] \in Conns
      BY <2>2 DEF Pool!AddAppend, Control, MainThread
    <3> QED BY <2>2, <3>1 DEF TypeOK, Pool!AddAppend
  <2>3. CASE Pool!AddCount(Main)
    BY <2>3 DEF TypeOK, Pool!AddCount
  <2>4. CASE Pool!AddSignal(Main)
    <3>1. waiting' \subseteq waiting
      BY <2>4 DEF Pool!AddSignal
    <3> QED BY <2>4, <3>1 DEF TypeOK, Pool!AddSignal
  <2> QED BY <1>5, <2>1, <2>2, <2>3, <2>4 DEF Adding, Pool!AddStep
<1>6. CASE ServerDestroy
  <2>1. UNCHANGED poolVars \/ Pool!DestroyCall(Handler)
    BY <1>6 DEF ServerDestroy
  <2>2. CASE Pool!DestroyCall(Handler)
    BY <2>2 DEF TypeOK, Pool!DestroyCall
  <2> QED BY <1>1, <2>1, <2>2
<1>7. CASE DestroyPool
  <2>1. CASE Pool!DestroySetFlag(Handler)
    BY <2>1 DEF TypeOK, Pool!DestroySetFlag
  <2>2. CASE Pool!DestroyBroadcast(Handler)
    BY <2>2 DEF TypeOK, Pool!DestroyBroadcast
  <2>3. CASE Pool!DestroyJoin(Handler)
    <3>1. joined < PoolSize => joined + 1 \in 0..PoolSize
      BY DEF TypeOK
    <3> QED BY <2>3, <3>1 DEF TypeOK, Pool!DestroyJoin
  <2>4. CASE Pool!DestroyFree(Handler)
    BY <2>4 DEF TypeOK, Pool!DestroyFree
  <2> QED BY <1>7, <2>1, <2>2, <2>3, <2>4 DEF DestroyPool, Pool!DestroyStep
<1>8. ASSUME NEW w \in Workers, PoolStep(w) \/ Spurious(w) PROVE Pool!TypeOK'
  <2>1. CASE Pool!WorkerLock(w) \/ Pool!CondReturn(w)
    BY <2>1 DEF TypeOK, Pool!WorkerLock, Pool!CondReturn
  <2>2. CASE Pool!WorkerCheck(w)
    BY <2>2 DEF TypeOK, Pool!WorkerCheck
  <2>3. CASE Pool!CondWait(w)
    BY <2>3 DEF TypeOK, Pool!CondWait
  <2>4. CASE Pool!WorkerTest(w)
    BY <2>4 DEF TypeOK, Pool!WorkerTest
  <2>5. CASE Pool!WorkerTake(w)
    BY <2>5 DEF TypeOK, Pool!WorkerTake
  <2>6. CASE Pool!SpuriousWakeup(w)
    BY <2>6 DEF TypeOK, Pool!SpuriousWakeup
  <2> QED BY <1>8, <2>1, <2>2, <2>3, <2>4, <2>5, <2>6 DEF PoolStep, Spurious
<1>9. ASSUME NEW w \in Workers, Pool!WorkerPop(w) PROVE Pool!TypeOK'
  BY <1>9 DEF TypeOK, Pool!WorkerPop
<1>10. ASSUME NEW w \in Workers, Pool!WorkerFinish(w) PROVE Pool!TypeOK'
  <2>1. worker[w] \in Conns
    BY <1>10 DEF Pool!WorkerFinish, Control, Threads
  <2> QED BY <1>10, <2>1 DEF TypeOK, Pool!WorkerFinish
<1> QED
  BY <1>1, <1>2, <1>3, <1>4, <1>5, <1>6, <1>7, <1>8, <1>9, <1>10
     DEF vars, Next, MainStep, LoopTest, CallSelect, Select, Accept, PrintCount, UseFreedPool, Leave,
         Sigint, HandlerStep, HandlerReturn, WorkerStep, StartHandler, Read, SendFile, CloseConn,
         HandlerDone, ClientStep, Connect, Act, Stall, Resume, Over

(* Every variable keeps its type. *)
LEMMA TypeStep == TypeOK /\ Control /\ [Next]_vars => TypeOK'
<1> SUFFICES ASSUME TypeOK, Control, [Next]_vars PROVE TypeOK'
  OBVIOUS
<1>0. Pool!TypeOK'
  BY PoolTypesStep
<1> USE DEF TypeOK, MainPC, mainVars, connVars
<1>1. CASE UNCHANGED vars
  BY <1>0, <1>1 DEF vars
<1>2. CASE StartPool \/ Create \/ LoopTest \/ CallSelect \/ Select \/ Adding \/ Leave
  BY <1>0, <1>2 DEF StartPool, Create, LoopTest, CallSelect, Select, Adding, Leave
<1>3. CASE PrintCount \/ UseFreedPool
  BY <1>0, <1>3 DEF PrintCount, UseFreedPool
<1>4. ASSUME NEW c \in Conns, Accept(c) PROVE TypeOK'
  BY <1>0, <1>4 DEF Accept
<1>5. CASE Submit
  BY <1>0, <1>5 DEF Submit
<1>6. CASE Sigint
  BY <1>0, <1>6 DEF Sigint
<1>7. CASE ServerDestroy
  <2>1. UNCHANGED <<srvShutdown, pmaster, mpc, accepted, hit, connVars>> /\ srvDestroy' = TRUE
    BY <1>7 DEF ServerDestroy
  <2>2. fault' \in BOOLEAN /\ sig' \in {"none", "raised", "destroy", "returned"}
    BY <1>7 DEF ServerDestroy
  <2> QED BY <1>0, <2>1, <2>2
<1>8. CASE DestroyPool \/ HandlerReturn
  BY <1>0, <1>8 DEF DestroyPool, HandlerReturn
<1>9. ASSUME NEW w \in Workers, PoolStep(w) \/ Spurious(w) \/ StartHandler(w) \/ HandlerDone(w) PROVE TypeOK'
  BY <1>0, <1>9 DEF PoolStep, Spurious, StartHandler, HandlerDone
<1>10. ASSUME NEW w \in Workers, Read(w) PROVE TypeOK'
  BY <1>0, <1>10 DEF Read
<1>11. ASSUME NEW w \in Workers, SendFile(w) PROVE TypeOK'
  <2>1. worker[w] \in Conns
    BY <1>11 DEF SendFile, Control, Threads, Pool!TypeOK
  <2> QED BY <1>0, <1>11, <2>1 DEF SendFile
<1>12. ASSUME NEW w \in Workers, CloseConn(w) PROVE TypeOK'
  <2>1. worker[w] \in Conns
    BY <1>12 DEF CloseConn, Control, Threads, Pool!TypeOK
  <2>2. fd' = [fd EXCEPT ![worker[w]] = "closed"] /\ hpc' = [hpc EXCEPT ![w] = "return"]
    BY <1>12 DEF CloseConn
  <2> QED BY <1>0, <1>12, <2>1, <2>2 DEF CloseConn
<1>13. ASSUME NEW c \in Conns, ClientStep(c) PROVE TypeOK'
  BY <1>0, <1>13 DEF ClientStep, Connect, Act, Stall, Resume
<1> QED
  BY <1>1, <1>2, <1>3, <1>4, <1>5, <1>6, <1>7, <1>8, <1>9, <1>10, <1>11, <1>12, <1>13
     DEF Next, MainStep, HandlerStep, WorkerStep, Over

(* The main thread and the pool's functions it is in stay in step. *)
LEMMA MainThreadStep == TypeOK /\ Control /\ [Next]_vars => MainThread'
<1> SUFFICES ASSUME TypeOK, Control, [Next]_vars PROVE MainThread'
  OBVIOUS
<1> USE DEF TypeOK, Pool!TypeOK, Control, MainThread, Destruction, Interrupted, MainPC, poolVars,
            mainVars, connVars, Pool!lockVars, Pool!queueVars, Pool!workerVars, Pool!clientVars,
            Pool!ghostVars, Workers, Pool!Workers, Pool!WorkerPC, Pool!ClientPC, Pool!Holding,
            Pool!Adding, Pool!Closing
<1>1. CASE UNCHANGED vars
  BY <1>1 DEF vars
<1>2. CASE StartPool
  BY <1>2 DEF MainRuns, StartPool, Pool!PoolInit
<1>3. CASE Create
  BY <1>3 DEF MainRuns, Create, Pool!CreateThread
<1>4. CASE LoopTest \/ CallSelect \/ Select \/ Leave
  BY <1>4 DEF MainRuns, LoopTest, CallSelect, Select, Leave
<1>5. CASE PrintCount \/ UseFreedPool
  BY <1>5 DEF MainRuns, PrintCount, UseFreedPool
<1>6. ASSUME NEW c \in Conns, Accept(c) PROVE MainThread'
  BY <1>6 DEF MainRuns, Accept, Backlog
<1>7. CASE Submit
  BY <1>7 DEF MainRuns, Submit, Pool!AddCall
<1>8. CASE Adding
  <2> USE DEF MainRuns, Adding
  <2>1. CASE Pool!AddLock(Main)
    BY <1>8, <2>1 DEF Pool!AddLock
  <2>2. CASE Pool!AddAppend(Main)
    BY <1>8, <2>2 DEF Pool!AddAppend
  <2>3. CASE Pool!AddCount(Main)
    BY <1>8, <2>3 DEF Pool!AddCount
  <2>4. CASE Pool!AddSignal(Main)
    BY <1>8, <2>4 DEF Pool!AddSignal
  <2> QED BY <1>8, <2>1, <2>2, <2>3, <2>4 DEF Pool!AddStep
<1>9. CASE Sigint
  BY <1>9 DEF Sigint, Alive
<1>10. CASE ServerDestroy
  BY <1>10 DEF ServerDestroy, Pool!DestroyCall
<1>11. CASE DestroyPool
  <2> USE DEF DestroyPool
  <2>1. CASE Pool!DestroySetFlag(Handler)
    BY <1>11, <2>1 DEF Pool!DestroySetFlag
  <2>2. CASE Pool!DestroyBroadcast(Handler)
    BY <1>11, <2>2 DEF Pool!DestroyBroadcast
  <2>3. CASE Pool!DestroyJoin(Handler)
    BY <1>11, <2>3 DEF Pool!DestroyJoin
  <2>4. CASE Pool!DestroyFree(Handler)
    BY <1>11, <2>4 DEF Pool!DestroyFree
  <2> QED BY <1>11, <2>1, <2>2, <2>3, <2>4 DEF DestroyPool, Pool!DestroyStep
<1>12. CASE HandlerReturn
  BY <1>12 DEF HandlerReturn
<1>13. ASSUME NEW w \in Workers, PoolStep(w) \/ Spurious(w) PROVE MainThread'
  BY <1>13 DEF PoolStep, Spurious, Pool!WorkerLock, Pool!WorkerCheck, Pool!CondWait,
              Pool!CondReturn, Pool!WorkerTest, Pool!WorkerTake, Pool!SpuriousWakeup
<1>14. ASSUME NEW w \in Workers, StartHandler(w) PROVE MainThread'
  BY <1>14 DEF StartHandler, Pool!WorkerPop
<1>15. ASSUME NEW w \in Workers, Read(w) \/ SendFile(w) PROVE MainThread'
  BY <1>15 DEF Read, SendFile
<1>16. ASSUME NEW w \in Workers, CloseConn(w) PROVE MainThread'
  BY <1>16 DEF CloseConn
<1>17. ASSUME NEW w \in Workers, HandlerDone(w) PROVE MainThread'
  BY <1>17 DEF HandlerDone, Pool!WorkerFinish
<1>18. ASSUME NEW c \in Conns, ClientStep(c) PROVE MainThread'
  BY <1>18 DEF ClientStep, Connect, Act, Stall, Resume
<1> QED
  BY <1>1, <1>2, <1>3, <1>4, <1>5, <1>6, <1>7, <1>8, <1>9, <1>10, <1>11, <1>12, <1>13, <1>14, <1>15,
     <1>16, <1>17, <1>18
     DEF Next, MainStep, HandlerStep, WorkerStep, Over

(* The handler is the only one to destroy the pool. *)
LEMMA DestructionStep == TypeOK /\ Control /\ [Next]_vars => Destruction'
<1> SUFFICES ASSUME TypeOK, Control, [Next]_vars PROVE Destruction'
  OBVIOUS
<1> USE DEF TypeOK, Pool!TypeOK, Control, MainThread, Destruction, Interrupted, MainPC, poolVars,
            mainVars, connVars, Pool!lockVars, Pool!queueVars, Pool!workerVars, Pool!clientVars,
            Pool!ghostVars, Workers, Pool!Workers, Pool!WorkerPC, Pool!ClientPC, Pool!Holding,
            Pool!Adding, Pool!Closing
<1>1. CASE UNCHANGED vars
  BY <1>1 DEF vars
<1>2. CASE StartPool
  BY <1>2 DEF MainRuns, StartPool, Pool!PoolInit
<1>3. CASE Create
  BY <1>3 DEF MainRuns, Create, Pool!CreateThread
<1>4. CASE LoopTest \/ CallSelect \/ Select \/ Leave
  BY <1>4 DEF MainRuns, LoopTest, CallSelect, Select, Leave
<1>5. CASE PrintCount \/ UseFreedPool
  BY <1>5 DEF MainRuns, PrintCount, UseFreedPool
<1>6. ASSUME NEW c \in Conns, Accept(c) PROVE Destruction'
  BY <1>6 DEF MainRuns, Accept, Backlog
<1>7. CASE Submit
  BY <1>7 DEF MainRuns, Submit, Pool!AddCall
<1>8. CASE Adding
  <2> USE DEF MainRuns, Adding
  <2>1. CASE Pool!AddLock(Main)
    BY <1>8, <2>1 DEF Pool!AddLock
  <2>2. CASE Pool!AddAppend(Main)
    BY <1>8, <2>2 DEF Pool!AddAppend
  <2>3. CASE Pool!AddCount(Main)
    BY <1>8, <2>3 DEF Pool!AddCount
  <2>4. CASE Pool!AddSignal(Main)
    BY <1>8, <2>4 DEF Pool!AddSignal
  <2> QED BY <1>8, <2>1, <2>2, <2>3, <2>4 DEF Pool!AddStep
<1>9. CASE Sigint
  BY <1>9 DEF Sigint, Alive
<1>10. CASE ServerDestroy
  BY <1>10 DEF ServerDestroy, Pool!DestroyCall
<1>11. CASE DestroyPool
  <2> USE DEF DestroyPool
  <2>1. CASE Pool!DestroySetFlag(Handler)
    BY <1>11, <2>1 DEF Pool!DestroySetFlag
  <2>2. CASE Pool!DestroyBroadcast(Handler)
    BY <1>11, <2>2 DEF Pool!DestroyBroadcast
  <2>3. CASE Pool!DestroyJoin(Handler)
    BY <1>11, <2>3 DEF Pool!DestroyJoin
  <2>4. CASE Pool!DestroyFree(Handler)
    BY <1>11, <2>4 DEF Pool!DestroyFree
  <2> QED BY <1>11, <2>1, <2>2, <2>3, <2>4 DEF DestroyPool, Pool!DestroyStep
<1>12. CASE HandlerReturn
  BY <1>12 DEF HandlerReturn
<1>13. ASSUME NEW w \in Workers, PoolStep(w) \/ Spurious(w) PROVE Destruction'
  BY <1>13 DEF PoolStep, Spurious, Pool!WorkerLock, Pool!WorkerCheck, Pool!CondWait,
              Pool!CondReturn, Pool!WorkerTest, Pool!WorkerTake, Pool!SpuriousWakeup
<1>14. ASSUME NEW w \in Workers, StartHandler(w) PROVE Destruction'
  BY <1>14 DEF StartHandler, Pool!WorkerPop
<1>15. ASSUME NEW w \in Workers, Read(w) \/ SendFile(w) PROVE Destruction'
  BY <1>15 DEF Read, SendFile
<1>16. ASSUME NEW w \in Workers, CloseConn(w) PROVE Destruction'
  BY <1>16 DEF CloseConn
<1>17. ASSUME NEW w \in Workers, HandlerDone(w) PROVE Destruction'
  BY <1>17 DEF HandlerDone, Pool!WorkerFinish
<1>18. ASSUME NEW c \in Conns, ClientStep(c) PROVE Destruction'
  BY <1>18 DEF ClientStep, Connect, Act, Stall, Resume
<1> QED
  BY <1>1, <1>2, <1>3, <1>4, <1>5, <1>6, <1>7, <1>8, <1>9, <1>10, <1>11, <1>12, <1>13, <1>14, <1>15,
     <1>16, <1>17, <1>18
     DEF Next, MainStep, HandlerStep, WorkerStep, Over

(* The main thread goes on where the signal hit it. *)
LEMMA InterruptedStep == TypeOK /\ Control /\ [Next]_vars => Interrupted'
<1> SUFFICES ASSUME TypeOK, Control, [Next]_vars PROVE Interrupted'
  OBVIOUS
<1> USE DEF TypeOK, Pool!TypeOK, Control, MainThread, Destruction, Interrupted, MainPC, poolVars,
            mainVars, connVars, Pool!lockVars, Pool!queueVars, Pool!workerVars, Pool!clientVars,
            Pool!ghostVars, Workers, Pool!Workers, Pool!WorkerPC, Pool!ClientPC, Pool!Holding,
            Pool!Adding, Pool!Closing
<1>1. CASE UNCHANGED vars
  BY <1>1 DEF vars
<1>2. CASE StartPool
  BY <1>2 DEF MainRuns, StartPool, Pool!PoolInit
<1>3. CASE Create
  BY <1>3 DEF MainRuns, Create, Pool!CreateThread
<1>4. CASE LoopTest \/ CallSelect \/ Select \/ Leave
  BY <1>4 DEF MainRuns, LoopTest, CallSelect, Select, Leave
<1>5. CASE PrintCount \/ UseFreedPool
  BY <1>5 DEF MainRuns, PrintCount, UseFreedPool
<1>6. ASSUME NEW c \in Conns, Accept(c) PROVE Interrupted'
  BY <1>6 DEF MainRuns, Accept, Backlog
<1>7. CASE Submit
  BY <1>7 DEF MainRuns, Submit, Pool!AddCall
<1>8. CASE Adding
  <2> USE DEF MainRuns, Adding
  <2>1. CASE Pool!AddLock(Main)
    BY <1>8, <2>1 DEF Pool!AddLock
  <2>2. CASE Pool!AddAppend(Main)
    BY <1>8, <2>2 DEF Pool!AddAppend
  <2>3. CASE Pool!AddCount(Main)
    BY <1>8, <2>3 DEF Pool!AddCount
  <2>4. CASE Pool!AddSignal(Main)
    BY <1>8, <2>4 DEF Pool!AddSignal
  <2> QED BY <1>8, <2>1, <2>2, <2>3, <2>4 DEF Pool!AddStep
<1>9. CASE Sigint
  BY <1>9 DEF Sigint, Alive
<1>10. CASE ServerDestroy
  BY <1>10 DEF ServerDestroy, Pool!DestroyCall
<1>11. CASE DestroyPool
  <2> USE DEF DestroyPool
  <2>1. CASE Pool!DestroySetFlag(Handler)
    BY <1>11, <2>1 DEF Pool!DestroySetFlag
  <2>2. CASE Pool!DestroyBroadcast(Handler)
    BY <1>11, <2>2 DEF Pool!DestroyBroadcast
  <2>3. CASE Pool!DestroyJoin(Handler)
    BY <1>11, <2>3 DEF Pool!DestroyJoin
  <2>4. CASE Pool!DestroyFree(Handler)
    BY <1>11, <2>4 DEF Pool!DestroyFree
  <2> QED BY <1>11, <2>1, <2>2, <2>3, <2>4 DEF DestroyPool, Pool!DestroyStep
<1>12. CASE HandlerReturn
  BY <1>12 DEF HandlerReturn
<1>13. ASSUME NEW w \in Workers, PoolStep(w) \/ Spurious(w) PROVE Interrupted'
  BY <1>13 DEF PoolStep, Spurious, Pool!WorkerLock, Pool!WorkerCheck, Pool!CondWait,
              Pool!CondReturn, Pool!WorkerTest, Pool!WorkerTake, Pool!SpuriousWakeup
<1>14. ASSUME NEW w \in Workers, StartHandler(w) PROVE Interrupted'
  BY <1>14 DEF StartHandler, Pool!WorkerPop
<1>15. ASSUME NEW w \in Workers, Read(w) \/ SendFile(w) PROVE Interrupted'
  BY <1>15 DEF Read, SendFile
<1>16. ASSUME NEW w \in Workers, CloseConn(w) PROVE Interrupted'
  BY <1>16 DEF CloseConn
<1>17. ASSUME NEW w \in Workers, HandlerDone(w) PROVE Interrupted'
  BY <1>17 DEF HandlerDone, Pool!WorkerFinish
<1>18. ASSUME NEW c \in Conns, ClientStep(c) PROVE Interrupted'
  BY <1>18 DEF ClientStep, Connect, Act, Stall, Resume
<1> QED
  BY <1>1, <1>2, <1>3, <1>4, <1>5, <1>6, <1>7, <1>8, <1>9, <1>10, <1>11, <1>12, <1>13, <1>14, <1>15,
     <1>16, <1>17, <1>18
     DEF Next, MainStep, HandlerStep, WorkerStep, Over

(* The threads are created, run and leave in order. *)
LEMMA ThreadsStep == TypeOK /\ Control /\ [Next]_vars => Threads'
<1> SUFFICES ASSUME TypeOK, Control, [Next]_vars PROVE Threads'
  OBVIOUS
<1> USE DEF TypeOK, Pool!TypeOK, Control, MainThread, Destruction, Interrupted, Threads, MainPC,
            poolVars, mainVars, connVars, Pool!lockVars, Pool!queueVars, Pool!workerVars,
            Pool!clientVars, Pool!ghostVars, Workers, Pool!Workers, Pool!WorkerPC, Pool!ClientPC,
            Pool!Holding, Pool!Adding, Pool!Closing
<1>1. CASE UNCHANGED vars
  BY <1>1 DEF vars
<1>2. CASE StartPool
  BY <1>2 DEF MainRuns, StartPool, Pool!PoolInit
<1>3. CASE Create
  BY <1>3 DEF MainRuns, Create, Pool!CreateThread
<1>4. CASE LoopTest \/ CallSelect \/ Select \/ Leave
  BY <1>4 DEF MainRuns, LoopTest, CallSelect, Select, Leave
<1>5. CASE PrintCount \/ UseFreedPool
  BY <1>5 DEF MainRuns, PrintCount, UseFreedPool
<1>6. ASSUME NEW c \in Conns, Accept(c) PROVE Threads'
  BY <1>6 DEF MainRuns, Accept, Backlog
<1>7. CASE Submit
  BY <1>7 DEF MainRuns, Submit, Pool!AddCall
<1>8. CASE Adding
  <2> USE DEF MainRuns, Adding
  <2>1. CASE Pool!AddLock(Main)
    BY <1>8, <2>1 DEF Pool!AddLock
  <2>2. CASE Pool!AddAppend(Main)
    BY <1>8, <2>2 DEF Pool!AddAppend
  <2>3. CASE Pool!AddCount(Main)
    BY <1>8, <2>3 DEF Pool!AddCount
  <2>4. CASE Pool!AddSignal(Main)
    BY <1>8, <2>4 DEF Pool!AddSignal
  <2> QED BY <1>8, <2>1, <2>2, <2>3, <2>4 DEF Pool!AddStep
<1>9. CASE Sigint
  BY <1>9 DEF Sigint, Alive
<1>10. CASE ServerDestroy
  BY <1>10 DEF ServerDestroy, Pool!DestroyCall
<1>11. CASE DestroyPool
  <2> USE DEF DestroyPool
  <2>1. CASE Pool!DestroySetFlag(Handler)
    BY <1>11, <2>1 DEF Pool!DestroySetFlag
  <2>2. CASE Pool!DestroyBroadcast(Handler)
    BY <1>11, <2>2 DEF Pool!DestroyBroadcast
  <2>3. CASE Pool!DestroyJoin(Handler)
    <3>1. CASE joined < PoolSize
      <4>1. wpc[joined + 1] = "exited" /\ joined' = joined + 1 /\ cpc' = cpc /\ cpc[Handler] = "join"
        BY <2>3, <3>1 DEF Pool!DestroyJoin
      <4>2. \A w \in Workers : w <= joined' => wpc[w] = "exited"
        BY <4>1
      <4> QED BY <1>11, <2>3, <4>1, <4>2 DEF Pool!DestroyJoin
    <3>2. CASE ~(joined < PoolSize)
      <4>1. joined = PoolSize /\ cpc' = [cpc EXCEPT ![Handler] = "free"] /\ cpc[Handler] = "join"
        BY <2>3, <3>2 DEF Pool!DestroyJoin
      <4>2. \A w \in Workers : wpc[w] = "exited"
        BY <4>1
      <4> QED BY <1>11, <2>3, <3>2, <4>1, <4>2 DEF Pool!DestroyJoin
    <3> QED BY <3>1, <3>2
  <2>4. CASE Pool!DestroyFree(Handler)
    BY <1>11, <2>4 DEF Pool!DestroyFree
  <2> QED BY <1>11, <2>1, <2>2, <2>3, <2>4 DEF DestroyPool, Pool!DestroyStep
<1>12. CASE HandlerReturn
  BY <1>12 DEF HandlerReturn
<1>13. ASSUME NEW w \in Workers, PoolStep(w) \/ Spurious(w) PROVE Threads'
  BY <1>13 DEF PoolStep, Spurious, Pool!WorkerLock, Pool!WorkerCheck, Pool!CondWait,
              Pool!CondReturn, Pool!WorkerTest, Pool!WorkerTake, Pool!SpuriousWakeup
<1>14. ASSUME NEW w \in Workers, StartHandler(w) PROVE Threads'
  BY <1>14 DEF StartHandler, Pool!WorkerPop
<1>15. ASSUME NEW w \in Workers, Read(w) \/ SendFile(w) PROVE Threads'
  <2>1. UNCHANGED <<poolVars, mpc>>
    BY <1>15 DEF Read, SendFile
  <2>2. hpc[w] # "idle" /\ \E h \in {"send", "close", "return"} : hpc' = [hpc EXCEPT ![w] = h]
    BY <1>15 DEF Read, SendFile
  <2> QED BY <2>1, <2>2
<1>16. ASSUME NEW w \in Workers, CloseConn(w) PROVE Threads'
  BY <1>16 DEF CloseConn
<1>17. ASSUME NEW w \in Workers, HandlerDone(w) PROVE Threads'
  BY <1>17 DEF HandlerDone, Pool!WorkerFinish
<1>18. ASSUME NEW c \in Conns, ClientStep(c) PROVE Threads'
  BY <1>18 DEF ClientStep, Connect, Act, Stall, Resume
<1> QED
  BY <1>1, <1>2, <1>3, <1>4, <1>5, <1>6, <1>7, <1>8, <1>9, <1>10, <1>11, <1>12, <1>13, <1>14, <1>15,
     <1>16, <1>17, <1>18
     DEF Next, MainStep, HandlerStep, WorkerStep, Over

places == <<queue, worker, newworker, unused, done, dropped>>

(* Only five steps move a connection. *)
LEMMA ConnsMove ==
  ASSUME [Next]_vars
  PROVE  \/ UNCHANGED places
         \/ Submit \/ (Adding /\ Pool!AddAppend(Main)) \/ (DestroyPool /\ Pool!DestroyFree(Handler))
         \/ \E w \in Workers : StartHandler(w) \/ HandlerDone(w)
<1> USE DEF places, vars, poolVars, Pool!lockVars, Pool!queueVars, Pool!workerVars, Pool!clientVars,
            Pool!ghostVars
<1>1. CASE UNCHANGED vars
  BY <1>1
<1>2. ASSUME MainStep PROVE UNCHANGED places \/ Submit \/ (Adding /\ Pool!AddAppend(Main))
  <2>1. CASE Adding
    BY <2>1 DEF Adding, Pool!AddStep, Pool!AddLock, Pool!AddCount, Pool!AddSignal
  <2>2. CASE StartPool \/ Create
    BY <2>2 DEF StartPool, Create, Pool!PoolInit, Pool!CreateThread
  <2> QED
    BY <1>2, <2>1, <2>2 DEF MainStep, LoopTest, CallSelect, Select, Accept, PrintCount,
       UseFreedPool, Leave
<1>3. ASSUME HandlerStep PROVE UNCHANGED places \/ (DestroyPool /\ Pool!DestroyFree(Handler))
  BY <1>3 DEF HandlerStep, ServerDestroy, DestroyPool, HandlerReturn, Pool!DestroyCall,
     Pool!DestroyStep,
              Pool!DestroySetFlag, Pool!DestroyBroadcast, Pool!DestroyJoin
<1>4. ASSUME NEW w \in Workers, WorkerStep(w) \/ Spurious(w)
      PROVE  UNCHANGED places \/ StartHandler(w) \/ HandlerDone(w)
  BY <1>4 DEF WorkerStep, PoolStep, Spurious, Read, SendFile, CloseConn, Pool!WorkerLock,
     Pool!WorkerCheck,
              Pool!CondWait, Pool!CondReturn, Pool!WorkerTest, Pool!WorkerTake, Pool!SpuriousWakeup
<1>5. CASE Sigint \/ (\E c \in Conns : ClientStep(c)) \/ Over
  BY <1>5 DEF Sigint, ClientStep, Connect, Act, Stall, Resume, Over
<1> QED BY <1>1, <1>2, <1>3, <1>4, <1>5 DEF Next

(* Submit takes the accepted connection out of the unused ones. *)
LEMMA SubmitMoves ==
  ASSUME TypeOK, Control, Submit
  PROVE  /\ newworker[Main] \notin Conns
         /\ accepted \in Conns /\ accepted \in unused /\ unused' = unused \ {accepted}
         /\ newworker' = [newworker EXCEPT ![Main] = accepted]
         /\ accepted' = NoJob
         /\ UNCHANGED <<queue, worker, done, dropped, hpc, fd, peer>>
BY DEF TypeOK, Pool!TypeOK, Control, MainThread, Submit, Pool!AddCall, connVars, Pool!queueVars,
   Pool!workerVars

(* AddAppend links the node in the main thread's hand at the end. *)
LEMMA AppendMoves ==
  ASSUME TypeOK, Control, Adding, Pool!AddAppend(Main)
  PROVE  /\ newworker[Main] \in Conns /\ newworker' = [newworker EXCEPT ![Main] = NoJob]
         /\ DOMAIN queue = 1..Len(queue) /\ Len(queue) \in Nat
         /\ DOMAIN queue' = 1..(Len(queue) + 1)
         /\ \A i \in DOMAIN queue : queue'[i] = queue[i]
         /\ queue'[Len(queue) + 1] = newworker[Main]
         /\ UNCHANGED <<worker, unused, done, dropped, accepted, hpc, fd, peer>>
<1>1. newworker[Main] \in Conns /\ queue \in Seq(Conns)
  BY DEF Pool!AddAppend, Control, MainThread, TypeOK, Pool!TypeOK
<1>2. queue' = Append(queue, newworker[Main])
  BY DEF Pool!AddAppend
<1>3. /\ newworker' = [newworker EXCEPT ![Main] = NoJob]
      /\ UNCHANGED <<worker, unused, done, dropped, accepted, hpc, fd, peer>>
  BY DEF Adding, connVars, Pool!AddAppend, Pool!workerVars, Pool!ghostVars
<1> QED BY <1>1, <1>2, <1>3

(* DestroyFree throws the whole list away. *)
LEMMA FreeMoves ==
  ASSUME TypeOK, DestroyPool, Pool!DestroyFree(Handler)
  PROVE  /\ queue' = <<>> /\ DOMAIN queue' = {} /\ dropped' = dropped \union Queued
         /\ UNCHANGED <<worker, newworker, unused, done, accepted, hpc, fd, peer>>
BY DEF DestroyPool, Pool!DestroyFree, Queued, mainVars, connVars, Pool!workerVars

(* A thread that had none takes the first connection of the list. *)
LEMMA StartMoves ==
  ASSUME TypeOK, Control, NEW w \in Workers, StartHandler(w)
  PROVE  /\ worker[w] \notin Conns
         /\ queue # <<>> /\ 1 \in DOMAIN queue /\ worker' = [worker EXCEPT ![w] = queue[1]]
         /\ DOMAIN queue = 1..Len(queue) /\ Len(queue) \in Nat /\ queue[1] \in Conns
         /\ DOMAIN queue' = 1..(Len(queue) - 1)
         /\ \A i \in DOMAIN queue' : queue'[i] = queue[i + 1]
         /\ hpc' = [hpc EXCEPT ![w] = "read"]
         /\ UNCHANGED <<newworker, unused, done, dropped, accepted, fd, peer>>
<1>1. queue \in Seq(Conns) /\ queue # <<>> /\ queue' = Tail(queue) /\ worker' = [worker EXCEPT ![w] = Head(queue)]
  BY DEF TypeOK, Pool!TypeOK, StartHandler, Pool!WorkerPop
<1>2. /\ hpc' = [hpc EXCEPT ![w] = "read"]
      /\ UNCHANGED <<newworker, unused, done, dropped, accepted, fd, peer>>
  BY DEF StartHandler, Pool!WorkerPop, mainVars, Pool!clientVars, Pool!ghostVars
<1>3. worker[w] \notin Conns
  BY DEF StartHandler, Pool!WorkerPop, Control, Threads
<1> QED BY <1>1, <1>2, <1>3

(* A handler that returns has no connection any more. *)
LEMMA DoneMoves ==
  ASSUME TypeOK, Control, NEW w \in Workers, HandlerDone(w)
  PROVE  /\ worker[w] \in Conns /\ worker' = [worker EXCEPT ![w] = NoJob]
         /\ done' = done \union {worker[w]} /\ hpc[w] = "return" /\ hpc' = [hpc EXCEPT ![w] = "idle"]
         /\ UNCHANGED <<queue, newworker, unused, dropped, accepted, fd, peer>>
BY DEF TypeOK, Pool!TypeOK, Control, Threads, HandlerDone, Pool!WorkerFinish, mainVars, Pool!queueVars,
       Pool!clientVars, Workers, Pool!Workers

(* The types that the following proofs use. *)
LEMMA Types ==
  ASSUME TypeOK
  PROVE  /\ worker \in [Workers -> Conns \union {NoJob}]
         /\ newworker \in [{Main, Handler} -> Conns \union {NoJob}]
         /\ queue \in Seq(Conns) /\ DOMAIN queue = 1..Len(queue) /\ Len(queue) \in Nat
         /\ \A i \in DOMAIN queue : queue[i] \in Conns
         /\ unused \subseteq Conns /\ done \subseteq Conns /\ dropped \subseteq Conns
         /\ accepted \in Conns \union {NoJob}
         /\ hpc \in [Workers -> {"idle", "read", "send", "close", "return"}]
         /\ fd \in [Conns -> {"none", "open", "closed"}]
         /\ peer \in [Conns -> {"absent", "connected", "sent", "stalled", "left", "reset"}]
BY DEF TypeOK, Pool!TypeOK, Workers, Pool!Workers

(* A connection stays in one place. *)
LEMMA OnePlaceStep == TypeOK /\ Control /\ OnePlace /\ Descriptors /\ [Next]_vars => OnePlace'
<1> SUFFICES ASSUME TypeOK, Control, OnePlace, Descriptors, [Next]_vars PROVE OnePlace'
  OBVIOUS
<1> USE Types DEF OnePlace, Elsewhere
<1>1. CASE UNCHANGED places
  BY <1>1 DEF places
<1>2. CASE Submit
  BY <1>2, SubmitMoves
<1>3. CASE Adding /\ Pool!AddAppend(Main)
  <2>1. newworker'[Main] = NoJob /\ Elsewhere' = Elsewhere /\ worker' = worker /\ unused' = unused
    BY <1>3, AppendMoves
  <2>2. ASSUME NEW i \in DOMAIN queue'
        PROVE  \/ i \in DOMAIN queue /\ queue'[i] = queue[i]
               \/ i = Len(queue) + 1 /\ queue'[i] = newworker[Main]
    BY <1>3, <2>2, AppendMoves
  <2>3. \A i, k \in DOMAIN queue' : queue'[i] = queue'[k] => i = k
    BY <2>2
  <2>4. \A i \in DOMAIN queue' : /\ queue'[i] \in Conns /\ queue'[i] \notin Elsewhere
                                 /\ \A w \in Workers : worker[w] # queue'[i]
    BY <1>3, <2>2, AppendMoves
  <2>5. /\ \A w \in Workers : worker[w] \in Conns => worker[w] \notin Elsewhere \union {NoJob}
        /\ NoJob \notin Elsewhere /\ unused' \intersect (done' \union dropped') = {}
    BY <1>3, AppendMoves
  <2> QED BY <2>1, <2>3, <2>4, <2>5
<1>4. CASE DestroyPool /\ Pool!DestroyFree(Handler)
  <2>1. \A c \in Queued : c \notin Elsewhere \union {newworker[Main]} /\ \A w \in Workers : worker[w] # c
    BY DEF Queued
  <2> QED BY <1>4, <2>1, FreeMoves
<1>5. ASSUME NEW w \in Workers, StartHandler(w) PROVE OnePlace'
  <2>1. newworker' = newworker /\ Elsewhere' = Elsewhere /\ unused' = unused
    BY <1>5, StartMoves
  <2>2. ASSUME NEW i \in DOMAIN queue'
        PROVE i + 1 \in DOMAIN queue /\ queue'[i] = queue[i + 1] /\ i + 1 # 1
    BY <1>5, <2>2, StartMoves
  <2>3. ASSUME NEW v \in Workers
        PROVE \/ v # w /\ worker'[v] = worker[v]
              \/ v = w /\ worker'[v] = queue[1]
    BY <1>5, StartMoves
  <2>4. 1 \in DOMAIN queue
    BY <1>5, StartMoves
  <2>5. \A i, k \in DOMAIN queue' : queue'[i] = queue'[k] => i = k
    <3>1. ASSUME NEW i \in DOMAIN queue', NEW k \in DOMAIN queue', queue'[i] = queue'[k] PROVE i = k
      <4>1. i \in Nat /\ k \in Nat /\ i + 1 = k + 1
        BY <1>5, <2>2, <3>1, StartMoves
      <4> QED BY <4>1
    <3> QED BY <3>1
  <2>6. \A u, v \in Workers : worker'[u] = worker'[v] /\ worker'[u] \in Conns => u = v
    BY <2>3, <2>4
  <2>7. \A i \in DOMAIN queue' : /\ queue'[i] \notin Elsewhere \union {newworker[Main]}
                                 /\ \A v \in Workers : worker'[v] # queue'[i]
    BY <2>2, <2>3, <2>4
  <2>8. \A v \in Workers : worker'[v] \in Conns => worker'[v] \notin Elsewhere \union {newworker[Main]}
    BY <2>3, <2>4
  <2>9. unused' \intersect (done' \union dropped') = {}
    BY <1>5, StartMoves
  <2> QED BY <2>1, <2>5, <2>6, <2>7, <2>8, <2>9
<1>6. ASSUME NEW w \in Workers, HandlerDone(w) PROVE OnePlace'
  <2>1. Elsewhere' = Elsewhere \union {worker[w]} /\ UNCHANGED <<queue, newworker>>
    BY <1>6, DoneMoves
  <2>2. \A v \in Workers : worker'[v] = IF v = w THEN NoJob ELSE worker[v]
    BY <1>6, DoneMoves
  <2>3. \A u, v \in Workers : worker'[u] = worker'[v] /\ worker'[u] \in Conns => u = v
    BY <2>2
  <2>4. \A i \in DOMAIN queue : /\ queue[i] \notin Elsewhere' \union {newworker[Main]}
                                /\ \A v \in Workers : worker'[v] # queue[i]
    BY <2>1, <2>2
  <2>5. \A v \in Workers : worker'[v] \in Conns => worker'[v] \notin Elsewhere' \union {newworker[Main]}
    BY <1>6, <2>1, <2>2, DoneMoves
  <2>6. newworker[Main] \notin Elsewhere' /\ unused' \intersect (done' \union dropped') = {}
    BY <1>6, <2>1, DoneMoves
  <2> QED BY <2>1, <2>3, <2>4, <2>5, <2>6
<1> QED BY ConnsMove, <1>1, <1>2, <1>3, <1>4, <1>5, <1>6

(* A connection that leaves a place turns up in another. *)
LEMMA NoneLostStep == TypeOK /\ Control /\ NoneLost /\ [Next]_vars => NoneLost'
<1> SUFFICES ASSUME TypeOK, Control, NoneLost, [Next]_vars, NEW c \in Conns
             PROVE  (c \in Elsewhere \union {newworker[Main]} \union Queued \/ Busy(c))'
  BY DEF NoneLost
<1> USE Types DEF NoneLost, Elsewhere, Queued, Busy
<1>1. CASE UNCHANGED places
  BY <1>1 DEF places
<1>2. CASE Submit
  BY <1>2, SubmitMoves
<1>3. CASE Adding /\ Pool!AddAppend(Main)
  BY <1>3, AppendMoves
<1>4. CASE DestroyPool /\ Pool!DestroyFree(Handler)
  BY <1>4, FreeMoves
<1>5. ASSUME NEW w \in Workers, StartHandler(w)
      PROVE  (c \in Elsewhere \union {newworker[Main]} \union Queued \/ Busy(c))'
  <2>1. UNCHANGED <<newworker, unused, done, dropped>>
    BY <1>5, StartMoves
  <2>2. \A v \in Workers : v # w => worker'[v] = worker[v]
    BY <1>5, StartMoves
  <2>3. worker[w] \notin Conns /\ worker'[w] = queue[1]
    BY <1>5, StartMoves
  <2>4. CASE c \in Queued
    <3>1. PICK i \in DOMAIN queue : queue[i] = c
      BY <2>4
    <3>2. CASE i = 1
      BY <2>3, <3>1, <3>2
    <3>3. CASE i # 1
      <4>1. i - 1 \in DOMAIN queue' /\ (i - 1) + 1 = i
        BY <1>5, <3>3, StartMoves
      <4>2. queue'[i - 1] = c
        BY <1>5, <3>1, <4>1, StartMoves
      <4> QED BY <4>1, <4>2
    <3> QED BY <3>2, <3>3
  <2>5. CASE Busy(c)
    BY <2>2, <2>3, <2>5
  <2> QED BY <2>1, <2>4, <2>5
<1>6. ASSUME NEW w \in Workers, HandlerDone(w)
      PROVE  (c \in Elsewhere \union {newworker[Main]} \union Queued \/ Busy(c))'
  BY <1>6, DoneMoves
<1> QED BY ConnsMove, <1>1, <1>2, <1>3, <1>4, <1>5, <1>6

(* The steps that do not move a connection, and what they do to descriptors. *)
LEMMA ConnsStay ==
  ASSUME [Next]_vars
  PROVE  \/ UNCHANGED <<places, accepted, hpc, fd, peer>>
         \/ Submit \/ (Adding /\ Pool!AddAppend(Main)) \/ (DestroyPool /\ Pool!DestroyFree(Handler))
         \/ \E w \in Workers : StartHandler(w) \/ HandlerDone(w)
         \/ UNCHANGED places /\ \/ \E c \in Conns : Accept(c) \/ ClientStep(c)
                                \/ \E w \in Workers : Read(w) \/ SendFile(w) \/ CloseConn(w)
<1> USE DEF vars, mainVars, connVars
<1>1. CASE UNCHANGED places /\ MainStep
  BY <1>1 DEF MainStep, StartPool, Create, LoopTest, CallSelect, Select, Submit, Adding, PrintCount,
              UseFreedPool, Leave
<1>2. CASE UNCHANGED places /\ HandlerStep
  BY <1>2 DEF HandlerStep, ServerDestroy, DestroyPool, HandlerReturn
<1>3. ASSUME UNCHANGED places, NEW w \in Workers, WorkerStep(w) \/ Spurious(w)
      PROVE  \/ UNCHANGED <<places, accepted, hpc, fd, peer>>
             \/ StartHandler(w) \/ HandlerDone(w) \/ Read(w) \/ SendFile(w) \/ CloseConn(w)
  BY <1>3 DEF WorkerStep, PoolStep, Spurious
<1>4. CASE UNCHANGED places /\ (UNCHANGED vars \/ Sigint \/ Over)
  BY <1>4 DEF Sigint, Over
<1> QED BY ConnsMove, <1>1, <1>2, <1>3, <1>4 DEF Next

(* Descriptors stay with their connections. *)
LEMMA DescriptorsStep == TypeOK /\ Control /\ OnePlace /\ Descriptors /\ [Next]_vars => Descriptors'
<1> SUFFICES ASSUME TypeOK, Control, OnePlace, Descriptors, [Next]_vars PROVE Descriptors'
  OBVIOUS
<1>0. /\ \A w \in Workers : worker[w] \in Conns <=> hpc[w] # "idle"
      /\ accepted \in Conns <=> mpc = "submit"
  BY DEF Control, Threads, MainThread
<1> USE Types, <1>0 DEF OnePlace, Elsewhere, Descriptors
<1>1. CASE UNCHANGED <<places, accepted, hpc, fd, peer>>
  BY <1>1 DEF places
<1>2. CASE Submit
  BY <1>2, SubmitMoves
<1>3. CASE Adding /\ Pool!AddAppend(Main)
  BY <1>3, AppendMoves
<1>4. CASE DestroyPool /\ Pool!DestroyFree(Handler)
  BY <1>4, FreeMoves
<1>5. ASSUME NEW w \in Workers, StartHandler(w) PROVE Descriptors'
  <2>1. \A i \in DOMAIN queue' : fd'[queue'[i]] = "open"
    BY <1>5, StartMoves
  <2>2. fd'[queue[1]] = "open" /\ queue[1] \in Conns
    BY <1>5, StartMoves
  <2>3. ASSUME NEW v \in Workers
        PROVE  /\ hpc'[v] \in {"read", "send", "close"} => fd'[worker'[v]] = "open"
               /\ hpc'[v] = "return" => fd'[worker'[v]] = "closed" \/ peer'[worker'[v]] = "reset"
    <3>1. CASE v = w
      BY <1>5, StartMoves, <2>2, <3>1
    <3>2. CASE v # w
      <4>1. hpc'[v] = hpc[v] /\ worker'[v] = worker[v] /\ fd' = fd /\ peer' = peer
        BY <1>5, StartMoves, <3>2
      <4> QED BY <4>1
    <3> QED BY <3>1, <3>2
  <2>4. UNCHANGED <<newworker, unused, done, dropped, accepted, fd, peer>>
    BY <1>5, StartMoves
  <2> QED BY <2>1, <2>3, <2>4
<1>6. ASSUME NEW w \in Workers, HandlerDone(w) PROVE Descriptors'
  BY <1>6, DoneMoves
<1>7. ASSUME NEW c \in Conns, Accept(c), UNCHANGED places PROVE Descriptors'
  <2>1. mpc = "accept" /\ fd[c] = "none" /\ UNCHANGED <<hpc, peer>>
    BY <1>7 DEF Accept, Backlog
  <2>2. CASE UNCHANGED <<fd, accepted>>
    BY <1>7, <2>1, <2>2 DEF places
  <2>3. CASE fd' = [fd EXCEPT ![c] = "open"] /\ accepted' = c
    BY <1>7, <2>1, <2>3 DEF places
  <2> QED BY <1>7, <2>2, <2>3 DEF Accept
<1>8. ASSUME NEW c \in Conns, ClientStep(c), UNCHANGED places PROVE Descriptors'
  <2>1. peer[c] # "reset" /\ \E p : peer' = [peer EXCEPT ![c] = p]
    BY <1>8 DEF ClientStep, Connect, Act, Stall, Resume
  <2>2. UNCHANGED <<accepted, hpc, fd>>
    BY <1>8 DEF ClientStep, Connect, Act, Stall, Resume, mainVars
  <2> QED BY <1>8, <2>1, <2>2 DEF places
<1>9. ASSUME NEW w \in Workers, Read(w), UNCHANGED places PROVE Descriptors'
  <2>1. /\ hpc[w] = "read" /\ UNCHANGED <<accepted, fd, peer>>
        /\ \/ hpc' = [hpc EXCEPT ![w] = "send"] \/ hpc' = [hpc EXCEPT ![w] = "close"]
           \/ hpc' = [hpc EXCEPT ![w] = "return"] /\ peer[worker[w]] = "reset"
    BY <1>9 DEF Read, mainVars
  <2> QED BY <1>9, <2>1 DEF places
<1>10. ASSUME NEW w \in Workers, SendFile(w), UNCHANGED places PROVE Descriptors'
  <2>1. hpc[w] = "send" /\ hpc' = [hpc EXCEPT ![w] = "close"] /\ UNCHANGED <<accepted, fd, peer>>
    BY <1>10 DEF SendFile, mainVars
  <2> QED BY <1>10, <2>1 DEF places
<1>11. ASSUME NEW w \in Workers, CloseConn(w), UNCHANGED places PROVE Descriptors'
  <2>1. /\ hpc[w] = "close" /\ hpc' = [hpc EXCEPT ![w] = "return"] /\ UNCHANGED <<accepted, peer>>
        /\ fd' = [fd EXCEPT ![worker[w]] = "closed"]
    BY <1>11 DEF CloseConn, mainVars
  <2> QED BY <1>11, <2>1 DEF places
<1> QED BY ConnsStay, <1>1, <1>2, <1>3, <1>4, <1>5, <1>6, <1>7, <1>8, <1>9, <1>10, <1>11

(* Nothing to do with a signal at rest is used after it was freed. *)
LEMMA NoFaultStep == Control /\ NoFault /\ [Next]_vars => NoFault'
<1> SUFFICES ASSUME Control, NoFault, [Next]_vars PROVE NoFault'
  OBVIOUS
<1> USE DEF NoFault, Control, mainVars
<1>1. CASE UNCHANGED <<fault, hit>>
  BY <1>1
<1>2. CASE PrintCount
  <2>1. sig = "returned" => hit \notin {"loop", "selecting"}
    BY <1>2 DEF PrintCount, Interrupted
  <2>2. sig = "none" => pmaster = "live" \/ hit = "nowhere"
    BY DEF Interrupted
  <2> QED BY <1>2, <2>1, <2>2 DEF PrintCount, MainRuns
<1>3. CASE UseFreedPool
  <2>1. sig = "returned" /\ mpc = "adding" /\ hit' = hit
    BY <1>3 DEF UseFreedPool, MainRuns, Destruction
  <2> QED BY <2>1 DEF Interrupted
<1>4. CASE Sigint
  BY <1>4 DEF Sigint, Alive
<1>5. CASE ServerDestroy
  BY <1>5 DEF ServerDestroy, Interrupted
<1>6. ASSUME MainStep PROVE UNCHANGED <<fault, hit>> \/ PrintCount \/ UseFreedPool
  BY <1>6 DEF MainStep, StartPool, Create, LoopTest, CallSelect, Select, Submit, Adding, Leave, Accept
<1>7. ASSUME HandlerStep PROVE UNCHANGED <<fault, hit>> \/ ServerDestroy
  BY <1>7 DEF HandlerStep, DestroyPool, HandlerReturn
<1>8. ASSUME NEW w \in Workers, WorkerStep(w) \/ Spurious(w) PROVE UNCHANGED <<fault, hit>>
  BY <1>8 DEF WorkerStep, PoolStep, StartHandler, Read, SendFile, CloseConn, HandlerDone, Spurious
<1>9. CASE (\E c \in Conns : ClientStep(c)) \/ Over \/ UNCHANGED vars
  BY <1>9 DEF ClientStep, Connect, Act, Stall, Resume, Over, vars
<1> QED BY <1>1, <1>2, <1>3, <1>4, <1>5, <1>6, <1>7, <1>8, <1>9 DEF Next

(* A server that has not started satisfies the invariant. *)
LEMMA InvInit == Init => Inv /\ NoFault
<1> SUFFICES ASSUME Init PROVE Inv /\ NoFault
  OBVIOUS
<1> USE DEF Init, Pool!Init, Workers, Pool!Workers
<1>1. TypeOK
  <2>1. queue \in Seq(Conns) /\ joined \in 0..PoolSize
    OBVIOUS
  <2>2. Pool!TypeOK
    BY <2>1 DEF Pool!TypeOK, Pool!WorkerPC, Pool!ClientPC
  <2> QED BY <2>2 DEF TypeOK, MainPC
<1>2. Control
  BY DEF Control, MainThread, Destruction, Interrupted, Threads, Pool!Adding, Pool!Closing
<1>3. OnePlace /\ NoneLost
  BY DEF OnePlace, NoneLost, Elsewhere
<1>4. Descriptors
  BY DEF Descriptors
<1> QED BY <1>1, <1>2, <1>3, <1>4 DEF Inv, NoFault

(* Inv holds in every reachable state. *)
LEMMA Invariance == Spec => []Inv
<1>1. Inv /\ [Next]_vars => Inv'
  BY TypeStep, MainThreadStep, DestructionStep, InterruptedStep, ThreadsStep, OnePlaceStep,
     NoneLostStep,
     DescriptorsStep DEF Inv, Control
<1> QED BY <1>1, InvInit, PTL DEF Spec

(* A descriptor that the main thread, the list or a handler still uses is   *)
(* open: client_handler2 closes its own connection only, and once.          *)
THEOREM DescriptorsInUse == Spec => []HeldDescriptorsOpen
<1>1. Inv => HeldDescriptorsOpen
  BY DEF Inv, Descriptors, HeldDescriptorsOpen, Queued
<1> QED BY <1>1, Invariance, PTL

(* A descriptor is lost in two ways only: a read that failed, line 330 of   *)
(* uphttpd.c, and a list that pool_destroy throws away.                     *)
THEOREM Leaks == Spec => []LeaksExplained
<1>1. ASSUME Inv, NEW c \in Conns, fd[c] = "open", ~Held(c) PROVE peer[c] = "reset" \/ c \in dropped
  <2>1. c \in done \union dropped
    BY <1>1 DEF Inv, NoneLost, Descriptors, Elsewhere, Held
  <2> QED BY <1>1, <2>1 DEF Inv, Descriptors
<1>2. Inv => LeaksExplained
  BY <1>1 DEF LeaksExplained
<1> QED BY <1>2, Invariance, PTL

(* SIGINT at the test of the loop or in select does no harm: what the main  *)
(* thread does afterwards never touches what server_destroy freed.          *)
THEOREM QuietSignal == Spec => []NoFault
<1>1. Inv => Control
  BY DEF Inv
<1> QED BY <1>1, InvInit, NoFaultStep, Invariance, PTL DEF Spec

AbstractStep == [Pool!Abstract!JobNext]_(Pool!Abstract!jobVars)

(* The pool is closed by two steps of the handler. *)
LEMMA PhaseMoves ==
  ASSUME [Next]_vars
  PROVE  \/ shutdown' = shutdown /\ (pool = "freed" <=> pool' = "freed")
         \/ DestroyPool /\ (Pool!DestroySetFlag(Handler) \/ Pool!DestroyFree(Handler))
<1> USE DEF vars, poolVars, Pool!lockVars, Pool!queueVars, Pool!workerVars, Pool!clientVars,
            Pool!ghostVars
<1>1. CASE UNCHANGED vars
  BY <1>1
<1>2. ASSUME MainStep PROVE shutdown' = shutdown /\ (pool = "freed" <=> pool' = "freed")
  <2>1. CASE Adding \/ Submit
    BY <2>1 DEF Adding, Submit, Pool!AddCall, Pool!AddStep, Pool!AddLock, Pool!AddAppend, Pool!AddCount,
                Pool!AddSignal
  <2>2. CASE StartPool \/ Create
    BY <2>2 DEF StartPool, Create, Pool!PoolInit, Pool!CreateThread
  <2> QED
    BY <1>2, <2>1, <2>2 DEF MainStep, LoopTest, CallSelect, Select, Accept, PrintCount,
       UseFreedPool, Leave
<1>3. ASSUME HandlerStep
      PROVE  \/ UNCHANGED <<shutdown, pool>>
             \/ DestroyPool /\ (Pool!DestroySetFlag(Handler) \/ Pool!DestroyFree(Handler))
  BY <1>3 DEF HandlerStep, ServerDestroy, DestroyPool, HandlerReturn, Pool!DestroyCall,
     Pool!DestroyStep,
              Pool!DestroyBroadcast, Pool!DestroyJoin
<1>4. ASSUME NEW w \in Workers, WorkerStep(w) \/ Spurious(w) PROVE UNCHANGED <<shutdown, pool>>
  BY <1>4 DEF WorkerStep, PoolStep, StartHandler, HandlerDone, Spurious, Read, SendFile, CloseConn,
              Pool!WorkerLock, Pool!WorkerCheck, Pool!CondWait, Pool!CondReturn, Pool!WorkerTest,
              Pool!WorkerTake, Pool!WorkerPop, Pool!WorkerFinish, Pool!SpuriousWakeup
<1>5. CASE Sigint \/ (\E c \in Conns : ClientStep(c)) \/ Over
  BY <1>5 DEF Sigint, ClientStep, Connect, Act, Stall, Resume, Over
<1> QED BY <1>1, <1>2, <1>3, <1>4, <1>5 DEF Next

(* What a step shows of the pool to its user is a step of JobPool. *)
LEMMA StepRefines == Inv /\ Inv' /\ [Next]_vars => AbstractStep
<1> SUFFICES ASSUME Inv, Inv', [Next]_vars PROVE AbstractStep
  OBVIOUS
<1>0. /\ AbstractStep <=> \/ Pool!Abstract!JobNext
                          \/ UNCHANGED <<queue, Pool!Running, done, dropped, Pool!Phase>>
      /\ Pool!Phase = IF pool = "freed" THEN "closed" ELSE IF shutdown THEN "closing" ELSE "open"
      /\ Pool!Phase' = IF pool' = "freed" THEN "closed" ELSE IF shutdown' THEN "closing" ELSE "open"
  BY DEF AbstractStep, Pool!Abstract!jobVars, Pool!Phase
<1>1. TypeOK /\ Control /\ OnePlace /\ Control'
  BY DEF Inv
<1>2. /\ Pool!Running = {worker[w] : w \in {v \in Workers : worker[v] \in Conns}}
      /\ Pool!Running' = {worker'[w] : w \in {v \in Workers : worker'[v] \in Conns}}
  BY <1>1 DEF Pool!Running, Control, Threads, Workers, Pool!Workers
<1>3. ASSUME DestroyPool, Pool!DestroyFree(Handler) PROVE AbstractStep
  <2>1. shutdown /\ \A w \in Workers : wpc[w] = "exited"
    BY <1>1, <1>3 DEF Pool!DestroyFree, Control, Destruction, Threads
  <2>2. Pool!Phase = "closing" /\ Pool!Phase' = "closed"
    BY <1>0, <1>3, <2>1 DEF Pool!DestroyFree
  <2>3. Pool!Running = {} /\ Pool!Running' = {}
    BY <1>1, <1>2, <1>3, <2>1, FreeMoves DEF Control, Threads
  <2>4. Pool!Abstract!Vanish
    BY <1>1, <1>3, <2>2, <2>3, FreeMoves DEF Pool!Abstract!Vanish, Pool!Abstract!Waiting, Queued
  <2> QED BY <1>0, <2>4 DEF Pool!Abstract!JobNext
<1>4. CASE UNCHANGED places
  <2>1. UNCHANGED <<queue, Pool!Running, done, dropped>>
    BY <1>2, <1>4 DEF places
  <2>2. CASE shutdown' = shutdown /\ (pool = "freed" <=> pool' = "freed")
    BY <1>0, <2>1, <2>2
  <2>3. CASE Pool!DestroySetFlag(Handler)
    <3>1. ~shutdown /\ shutdown' /\ pool = "live" /\ pool' = "live"
      BY <1>1, <2>3 DEF Pool!DestroySetFlag, Control, Destruction
    <3>2. Pool!Phase = "open" /\ Pool!Phase' = "closing"
      BY <1>0, <3>1
    <3>3. Pool!Abstract!Close
      BY <2>1, <3>2 DEF Pool!Abstract!Close
    <3> QED BY <1>0, <3>3 DEF Pool!Abstract!JobNext
  <2> QED BY <1>3, <2>2, <2>3, PhaseMoves
<1>5. CASE Submit
  <2>1. UNCHANGED <<queue, worker, done, dropped, pool, shutdown>>
    BY <1>5 DEF Submit, Pool!AddCall, Pool!queueVars, Pool!workerVars
  <2>2. UNCHANGED <<Pool!Running, Pool!Phase>>
    BY <1>0, <1>2, <2>1
  <2> QED BY <1>0, <2>1, <2>2
<1>6. CASE Adding /\ Pool!AddAppend(Main)
  <2>1. newworker[Main] \in Conns /\ queue' = Append(queue, newworker[Main])
    BY <1>1, <1>6, AppendMoves DEF Pool!AddAppend
  <2>2. pool = "live" /\ ~shutdown /\ UNCHANGED <<pool, shutdown, worker, done, dropped>>
    BY <1>1, <1>6 DEF Adding, MainRuns, Pool!AddAppend, Control, Destruction, Pool!workerVars,
       Pool!ghostVars
  <2>3. Pool!Phase = "open" /\ UNCHANGED <<Pool!Running, Pool!Phase>>
    BY <1>0, <1>2, <2>2
  <2>4. newworker[Main] \notin Pool!Abstract!Waiting \union Pool!Running \union done \union dropped
    BY <1>1, <1>2, <2>1 DEF OnePlace, Elsewhere, Pool!Abstract!Waiting
  <2>5. Pool!Abstract!Submit(newworker[Main])
    BY <2>1, <2>2, <2>3, <2>4 DEF Pool!Abstract!Submit
  <2> QED BY <1>0, <2>1, <2>5 DEF Pool!Abstract!JobNext
<1>7. ASSUME NEW w \in Workers, StartHandler(w) PROVE AbstractStep
  <2>1. /\ pool # "freed" /\ UNCHANGED <<pool, shutdown, done, dropped>>
        /\ queue # <<>> /\ queue' = Tail(queue) /\ worker' = [worker EXCEPT ![w] = Head(queue)]
    BY <1>1, <1>7 DEF StartHandler, Pool!WorkerPop, Control, Threads, Pool!ghostVars
  <2>2. Pool!Phase # "closed" /\ Pool!Phase' = Pool!Phase
    BY <1>0, <2>1
  <2>3. worker[w] \notin Conns /\ Head(queue) \in Conns
    BY <1>1, <1>7, StartMoves
  <2>4. Pool!Running' = Pool!Running \union {Head(queue)}
    BY <1>1, <1>2, <2>1, <2>3, Types
  <2>5. Pool!Abstract!Start
    BY <2>1, <2>2, <2>4 DEF Pool!Abstract!Start
  <2> QED BY <1>0, <2>5 DEF Pool!Abstract!JobNext
<1>8. ASSUME NEW w \in Workers, HandlerDone(w) PROVE AbstractStep
  <2>1. pool # "freed" /\ UNCHANGED <<pool, shutdown>>
    BY <1>1, <1>8 DEF HandlerDone, Pool!WorkerFinish, Control, Threads, Pool!queueVars
  <2>2. Pool!Phase # "closed" /\ Pool!Phase' = Pool!Phase
    BY <1>0, <2>1
  <2>3. /\ worker[w] \in Conns /\ worker' = [worker EXCEPT ![w] = NoJob]
        /\ done' = done \union {worker[w]} /\ UNCHANGED <<queue, dropped>>
    BY <1>1, <1>8, DoneMoves
  <2>4. worker[w] \in Pool!Running
    BY <1>2, <2>3
  <2>5. \A v \in Workers : worker[v] = worker[w] => v = w
    BY <1>1, <2>3 DEF OnePlace
  <2>6. Pool!Running' = Pool!Running \ {worker[w]}
    BY <1>1, <1>2, <2>3, <2>5, Types
  <2>7. Pool!Abstract!Finish(worker[w])
    BY <2>2, <2>3, <2>4, <2>6 DEF Pool!Abstract!Finish
  <2> QED BY <1>0, <2>3, <2>7 DEF Pool!Abstract!JobNext
<1> QED BY <1>3, <1>4, <1>5, <1>6, <1>7, <1>8, ConnsMove

(* Destroyed by a signal handler under a main thread that may be inside     *)
(* pool_add_worker, the pool keeps JobPool's promise: jobs start in order,  *)
(* once, and those that started end before it is freed.                     *)
THEOREM PoolKeepsPromise == Spec => PoolPromise
<1>1. Init => Pool!Abstract!PoolInit
  BY DEF Init, Pool!Init, Pool!Abstract!PoolInit, Pool!Running, Pool!Phase
<1>2. Inv /\ Inv' /\ [Next]_vars => [Pool!Abstract!JobNext]_(Pool!Abstract!jobVars)
  BY StepRefines DEF AbstractStep
<1> QED
  BY <1>1, <1>2, Invariance, PTL DEF Spec, PoolPromise, Pool!ImplementsJobPool, Pool!Abstract!JobSpec

-----------------------------------------------------------------------------
(* CGI requests.                                                             *)

(* A worker that is not idle serves a request, and no other worker does.     *)
Owners ==
  /\ \A w \in CgiWorkers : req[w] \in Requests <=> pc[w] # "idle"
  /\ \A v, w \in CgiWorkers : req[v] = req[w] /\ req[v] \in Requests => v = w

(* What is done for a request when its worker is in a place of cgi_handler;  *)
(* a request that nobody serves is untouched or ended.                       *)
Stages ==
  /\ \A w \in CgiWorkers : pc[w] # "idle" =>
       /\ ~reply[req[w]].end
       /\ child[req[w]] = "none" <=> pc[w] = "fork"
       /\ reply[req[w]].line = "none" <=> pc[w] # "copy"
       /\ reply[req[w]].line # "error"
  /\ \A r \in Requests : (\A w \in CgiWorkers : req[w] # r) /\ ~reply[r].end =>
       child[r] = "none" /\ reply[r].line = "none"

(* Who may still write: the parent until the child is made, the child while  *)
(* it runs, which has written everything when it ended.                      *)
Writers ==
  /\ \A w \in CgiWorkers : pc[w] = "fork" => Parent \in writers[req[w]]
  /\ \A r \in Requests : child[r] = "running" => r \in writers[r]
  /\ \A r \in Requests : child[r] \in {"zombie", "reaped"} => left[r] = 0
  /\ \A r \in Requests : reply[r].end /\ reply[r].line # "error" =>
       child[r] \in {"zombie", "reaped"} /\ buffer[r] = 0

(* The sets that are counted are finite: each was empty and grows by one.    *)
Finite ==
  /\ IsFiniteSet(Unreaped) /\ IsFiniteSet(Reapers)
  /\ IsFiniteSet(Failed) /\ IsFiniteSet(Reported) /\ IsFiniteSet(Reporting)

Served == CgiTypeOK /\ Owners /\ Stages /\ Writers
Counts == /\ Finite
          /\ Cardinality(Unreaped) = Cardinality(Reapers)
          /\ StatusesConserved
CgiInv == Served /\ Counts

-----------------------------------------------------------------------------
(* Where requests stand, one lemma per action.                               *)

(* What an action that serves w's request may use.                           *)
LEMMA InService ==
  ASSUME Served, NEW w \in CgiWorkers, pc[w] # "idle"
  PROVE  /\ req[w] \in Requests /\ ~reply[req[w]].end /\ reply[req[w]].line # "error"
         /\ child[req[w]] = "none" <=> pc[w] = "fork"
         /\ reply[req[w]].line = "none" <=> pc[w] # "copy"
         /\ \A v \in CgiWorkers : v # w => req[v] # req[w]
BY DEF Served, CgiTypeOK, Owners, Stages

(* A request is taken, or refused at once.                                   *)
LEMMA SocketPairServed ==
  ASSUME Served, NEW w \in CgiWorkers, NEW r \in Requests, SocketPair(w, r) \/ SocketPairFails(w, r)
  PROVE  Served'
<1>1. /\ pc[w] = "idle" /\ child[r] = "none" /\ ~reply[r].end /\ reply[r].line = "none"
      /\ \A v \in CgiWorkers : req[v] # r
  BY DEF SocketPair, SocketPairFails, Fresh, Served, Stages
<1>2. CASE SocketPair(w, r)
  <2> USE DEF SocketPair
  <2>1. CgiTypeOK'
    BY <1>2 DEF Served, CgiTypeOK
  <2>2. Owners'
    BY <1>1, <1>2 DEF Served, CgiTypeOK, Owners
  <2>3. Stages'
    BY <1>1, <1>2 DEF Served, CgiTypeOK, Owners, Stages
  <2>4. Writers'
    BY <1>1, <1>2 DEF Served, CgiTypeOK, Owners, Stages, Writers
  <2> QED BY <2>1, <2>2, <2>3, <2>4 DEF Served
<1>3. CASE SocketPairFails(w, r)
  <2> USE DEF SocketPairFails, childVars
  <2>1. CgiTypeOK'
    BY <1>3 DEF Served, CgiTypeOK
  <2>2. reply'[r].end /\ reply'[r].line = "error" /\ \A q \in Requests : q # r => reply'[q] = reply[q]
    BY <1>3 DEF Served, CgiTypeOK
  <2>3. Owners' /\ Writers'
    BY <1>3, <2>2 DEF Served, Owners, Writers
  <2>4. Stages'
    BY <1>1, <1>3, <2>2 DEF Served, Owners, Stages
  <2> QED BY <2>1, <2>3, <2>4 DEF Served
<1> QED BY <1>2, <1>3

(* The child is made, with its copy of the write end.                        *)
LEMMA ForkServed == ASSUME Served, NEW w \in CgiWorkers, Fork(w) PROVE Served'
<1>1. pc[w] = "fork" /\ req[w] \in Requests /\ \A v \in CgiWorkers : v # w => req[v] # req[w]
  BY InService DEF Fork
<1>2. CgiTypeOK'
  BY <1>1 DEF Fork, Served, CgiTypeOK
<1>3. Owners'
  BY <1>1 DEF Fork, Served, CgiTypeOK, Owners
<1>4. Stages'
  BY <1>1 DEF Fork, Served, CgiTypeOK, Owners, Stages
<1>5. \A r \in Requests : writers[r] \subseteq writers'[r]
  BY DEF Fork
<1>6. req[w] \in writers'[req[w]]
  BY <1>1 DEF Fork, Served, Writers
<1>7. child[req[w]] = "none" /\ ~reply[req[w]].end
  BY <1>1, InService
<1>8. Writers'
  BY <1>1, <1>5, <1>6, <1>7 DEF Fork, Served, CgiTypeOK, Owners, Writers
<1> QED BY <1>2, <1>3, <1>4, <1>8 DEF Served

(* The request is refused, and its worker free.                              *)
LEMMA ForkFailsServed == ASSUME Served, NEW w \in CgiWorkers, ForkFails(w) PROVE Served'
<1>1. pc[w] = "fork" /\ req[w] \in Requests /\ \A v \in CgiWorkers : v # w => req[v] # req[w]
  BY InService DEF ForkFails
<1>2. CgiTypeOK'
  BY <1>1 DEF ForkFails, childVars, Served, CgiTypeOK
<1>3. /\ reply'[req[w]].end /\ reply'[req[w]].line = "error"
      /\ \A q \in Requests : q # req[w] => reply'[q] = reply[q]
  BY <1>1 DEF ForkFails, childVars, Served, CgiTypeOK
<1>4. Owners'
  BY <1>1, NamesAssumption DEF ForkFails, childVars, Served, CgiTypeOK, Owners
<1>5. Stages'
  BY <1>1, <1>3 DEF ForkFails, childVars, Served, CgiTypeOK, Owners, Stages
<1>6. Writers'
  BY <1>1, <1>3 DEF ForkFails, childVars, Served, CgiTypeOK, Owners, Writers
<1> QED BY <1>2, <1>4, <1>5, <1>6 DEF Served

(* The worker goes on to wait for a child.                                   *)
LEMMA CloseWriteEndServed == ASSUME Served, NEW w \in CgiWorkers, CloseWriteEnd(w) PROVE Served'
<1>1. pc[w] = "close" /\ req[w] \in Requests /\ \A v \in CgiWorkers : v # w => req[v] # req[w]
  BY InService DEF CloseWriteEnd
<1>2. CgiTypeOK'
  BY <1>1 DEF CloseWriteEnd, Served, CgiTypeOK
<1>3. Owners' /\ Stages'
  BY <1>1 DEF CloseWriteEnd, Served, CgiTypeOK, Owners, Stages
<1>4. Writers'
  BY <1>1, NamesAssumption DEF CloseWriteEnd, Served, CgiTypeOK, Owners, Writers
<1> QED BY <1>2, <1>3, <1>4 DEF Served

(* Any child that ended is reaped.                                           *)
LEMMA WaitServed ==
  ASSUME Served, NEW w \in CgiWorkers, Wait(w)
  PROVE  Served'
<1>1. pc[w] = "wait"
  BY DEF Wait
<1>2. PICK z \in Requests : /\ child[z] = "zombie"
                            /\ child' = [child EXCEPT ![z] = "reaped"]
                            /\ n' = [n EXCEPT ![w] = code[z]]
  BY DEF Wait
<1>3. pc' = [pc EXCEPT ![w] = "head"] /\ UNCHANGED <<req, code, left, buffer, writers, reply>>
  BY DEF Wait
<1>4. CgiTypeOK'
  BY <1>2, <1>3 DEF Served, CgiTypeOK
<1>5. Owners'
  BY <1>1, <1>3 DEF Served, CgiTypeOK, Owners
<1>6. Stages'
  BY <1>1, <1>2, <1>3 DEF Served, CgiTypeOK, Owners, Stages
<1>7. Writers'
  BY <1>1, <1>2, <1>3 DEF Served, CgiTypeOK, Owners, Writers
<1> QED BY <1>4, <1>5, <1>6, <1>7 DEF Served

(* The status line is sent.                                                  *)
LEMMA HeadServed == ASSUME Served, NEW w \in CgiWorkers, SendHead(w) PROVE Served'
<1>1. pc[w] = "head" /\ req[w] \in Requests /\ \A v \in CgiWorkers : v # w => req[v] # req[w]
  BY InService DEF SendHead
<1>2. ~reply[req[w]].end /\ child[req[w]] # "none"
  BY <1>1, InService
<1>3. CgiTypeOK'
  BY <1>1 DEF SendHead, childVars, Served, CgiTypeOK
<1>4. /\ ~reply'[req[w]].end /\ reply'[req[w]].line \in {"500", "200"}
      /\ \A q \in Requests : q # req[w] => reply'[q] = reply[q]
  BY <1>1, <1>2 DEF SendHead, childVars, Served, CgiTypeOK
<1>5. Owners'
  BY <1>1 DEF SendHead, childVars, Served, CgiTypeOK, Owners
<1>6. Stages'
  BY <1>1, <1>2, <1>4 DEF SendHead, childVars, Served, CgiTypeOK, Owners, Stages
<1>7. Writers'
  BY <1>1, <1>4 DEF SendHead, childVars, Served, CgiTypeOK, Owners, Writers
<1> QED BY <1>3, <1>5, <1>6, <1>7 DEF Served

(* A piece of the output is taken from the buffer.                           *)
LEMMA CopyServed == ASSUME Served, NEW w \in CgiWorkers, Copy(w) PROVE Served'
<1>1. req[w] \in Requests /\ ~reply[req[w]].end
  BY InService DEF Copy
<1>2. CgiTypeOK'
  BY <1>1, SizesAssumption DEF Copy, Served, CgiTypeOK
<1>3. Owners' /\ Stages'
  BY DEF Copy, Served, Owners, Stages
<1>4. Writers'
  BY <1>1 DEF Copy, Served, CgiTypeOK, Writers
<1> QED BY <1>2, <1>3, <1>4 DEF Served

(* At the end of file nobody writes any more: the child has ended, and wrote *)
(* everything.                                                               *)
LEMMA EndOfFileServed == ASSUME Served, NEW w \in CgiWorkers, EndOfFile(w) PROVE Served'
<1>1. pc[w] = "copy" /\ req[w] \in Requests /\ \A v \in CgiWorkers : v # w => req[v] # req[w]
  BY InService DEF EndOfFile
<1>2. child[req[w]] # "none" /\ buffer[req[w]] = 0 /\ writers[req[w]] = {}
  BY <1>1, InService DEF EndOfFile
<1>3. child[req[w]] \in {"zombie", "reaped"}
  BY <1>1, <1>2 DEF Served, CgiTypeOK, Writers
<1>4. CgiTypeOK'
  BY <1>1 DEF EndOfFile, childVars, Served, CgiTypeOK
<1>5. reply'[req[w]].end /\ \A q \in Requests : q # req[w] => reply'[q] = reply[q]
  BY <1>1 DEF EndOfFile, childVars, Served, CgiTypeOK
<1>6. Owners'
  BY <1>1, NamesAssumption DEF EndOfFile, childVars, Served, CgiTypeOK, Owners
<1>7. Stages'
  BY <1>1, <1>5 DEF EndOfFile, childVars, Served, CgiTypeOK, Owners, Stages
<1>8. Writers'
  BY <1>1, <1>2, <1>3, <1>5 DEF EndOfFile, childVars, Served, CgiTypeOK, Owners, Writers
<1> QED BY <1>4, <1>6, <1>7, <1>8 DEF Served

(* Programs write while they run, and end when they wrote everything.        *)
LEMMA ChildServed == ASSUME Served, NEW r \in Requests, ChildWrite(r) \/ ChildExit(r) PROVE Served'
<1>1. CASE ChildWrite(r)
  <2>1. CgiTypeOK'
    BY <1>1, SizesAssumption DEF ChildWrite, Served, CgiTypeOK
  <2>2. Owners' /\ Stages'
    BY <1>1 DEF ChildWrite, Served, Owners, Stages
  <2>3. Writers'
    BY <1>1 DEF ChildWrite, Served, CgiTypeOK, Writers
  <2> QED BY <2>1, <2>2, <2>3 DEF Served
<1>2. CASE ChildExit(r)
  <2>1. CgiTypeOK'
    BY <1>2 DEF ChildExit, Served, CgiTypeOK
  <2>2. Owners' /\ Stages'
    BY <1>2 DEF ChildExit, Served, CgiTypeOK, Owners, Stages
  <2>3. Writers'
    BY <1>2, NamesAssumption DEF ChildExit, Served, CgiTypeOK, Owners, Writers
  <2> QED BY <2>1, <2>2, <2>3 DEF Served
<1> QED BY <1>1, <1>2

-----------------------------------------------------------------------------
(* The balances, one lemma per action that touches one.                      *)

(* A set that gains or loses an element.                                     *)
LEMMA Grows ==
  ASSUME NEW S, NEW T, NEW x, IsFiniteSet(S), x \notin S, T = S \cup {x}
  PROVE  IsFiniteSet(T) /\ Cardinality(T) = Cardinality(S) + 1 /\ Cardinality(S) \in Nat
BY FS_AddElement, FS_CardinalityType

(* ... and one that loses one.                                               *)
LEMMA Shrinks ==
  ASSUME NEW S, NEW T, NEW x, IsFiniteSet(S), x \in S, T = S \ {x}
  PROVE  IsFiniteSet(T) /\ Cardinality(T) = Cardinality(S) - 1 /\ Cardinality(S) \in Nat
BY FS_RemoveElement, FS_CardinalityType

(* Most steps leave every counted set as it is.                              *)
LEMMA SameCounts ==
  ASSUME Counts, UNCHANGED <<Unreaped, Reapers, Failed, Reported, Reporting>>
  PROVE  Counts'
BY DEF Counts, Finite, StatusesConserved

(* Steps that make no child, reap none and report no status of a program.    *)
LEMMA QuietCounts ==
  ASSUME CgiInv, NEW w \in CgiWorkers, NEW r \in Requests,
         \/ SocketPair(w, r) \/ SocketPairFails(w, r) \/ ForkFails(w) \/ CloseWriteEnd(w)
         \/ Copy(w) \/ EndOfFile(w) \/ ChildWrite(r) \/ ChildExit(r)
  PROVE  Counts'
<1> USE DEF CgiInv, Served, CgiTypeOK
<1>1. Unreaped' = Unreaped
  BY DEF Unreaped, SocketPair, SocketPairFails, ForkFails, CloseWriteEnd, Copy, EndOfFile,
         ChildWrite, ChildExit, childVars
<1>2. Failed' = Failed
  BY DEF Failed, SocketPair, SocketPairFails, ForkFails, CloseWriteEnd, Copy, EndOfFile,
         ChildWrite, ChildExit, childVars
<1>3. Reapers' = Reapers
  BY DEF Reapers, SocketPair, SocketPairFails, ForkFails, CloseWriteEnd, Copy, EndOfFile,
         ChildWrite, ChildExit
<1>4. Reporting' = Reporting
  BY DEF Reporting, SocketPair, SocketPairFails, ForkFails, CloseWriteEnd, Copy, EndOfFile,
         ChildWrite, ChildExit
<1>5. Reported' = Reported
  <2>1. CASE SocketPairFails(w, r)
    <3>1. reply[r].line = "none"
      BY <2>1 DEF SocketPairFails, Fresh, Stages
    <3> QED BY <2>1, <3>1 DEF Reported, SocketPairFails
  <2>2. CASE ForkFails(w)
    <3>1. req[w] \in Requests /\ reply[req[w]].line = "none"
      BY <2>2, InService DEF ForkFails
    <3> QED BY <2>2, <3>1 DEF Reported, ForkFails
  <2>3. CASE EndOfFile(w)
    <3>1. req[w] \in Requests
      BY <2>3, InService DEF EndOfFile
    <3> QED BY <2>3, <3>1 DEF Reported, EndOfFile
  <2>4. CASE UNCHANGED reply
    BY <2>4 DEF Reported
  <2> QED BY <2>1, <2>2, <2>3, <2>4 DEF SocketPair, CloseWriteEnd, Copy, ChildWrite, ChildExit
<1> QED BY <1>1, <1>2, <1>3, <1>4, <1>5, SameCounts

(* One more child, and one more worker that will wait.                       *)
LEMMA ForkCounts == ASSUME CgiInv, NEW w \in CgiWorkers, Fork(w) PROVE Counts'
<1> USE DEF CgiInv, Served, CgiTypeOK
<1>1. pc[w] = "fork" /\ req[w] \in Requests /\ child[req[w]] = "none"
  BY InService DEF Fork
<1>2. Unreaped' = Unreaped \cup {req[w]} /\ req[w] \notin Unreaped
  BY <1>1 DEF Unreaped, Fork
<1>3. Reapers' = Reapers \cup {w} /\ w \notin Reapers
  BY <1>1 DEF Reapers, Fork
<1>4. UNCHANGED <<Failed, Reported, Reporting>>
  BY <1>1 DEF Failed, Reported, Reporting, Fork
<1>5. IsFiniteSet(Unreaped') /\ Cardinality(Unreaped') = Cardinality(Unreaped) + 1
  BY <1>2, Grows DEF Counts, Finite
<1>6. IsFiniteSet(Reapers') /\ Cardinality(Reapers') = Cardinality(Reapers) + 1
  BY <1>3, Grows DEF Counts, Finite
<1> QED BY <1>4, <1>5, <1>6 DEF Counts, Finite, StatusesConserved

(* One child less, one wait less, and a failure goes to the worker.          *)
LEMMA WaitCounts == ASSUME CgiInv, NEW w \in CgiWorkers, Wait(w) PROVE Counts'
<1> USE DEF CgiInv, Served, CgiTypeOK
<1>1. pc[w] = "wait" /\ pc' = [pc EXCEPT ![w] = "head"] /\ UNCHANGED <<code, reply>>
  BY DEF Wait
<1>2. PICK z \in Requests : /\ child[z] = "zombie"
                            /\ child' = [child EXCEPT ![z] = "reaped"]
                            /\ n' = [n EXCEPT ![w] = code[z]]
  BY DEF Wait
<1>3. Unreaped' = Unreaped \ {z} /\ z \in Unreaped
  BY <1>2 DEF Unreaped
<1>4. Reapers' = Reapers \ {w} /\ w \in Reapers
  BY <1>1 DEF Reapers
<1>5. IsFiniteSet(Unreaped') /\ Cardinality(Unreaped') = Cardinality(Unreaped) - 1
  BY <1>3, Shrinks DEF Counts, Finite
<1>6. IsFiniteSet(Reapers') /\ Cardinality(Reapers') = Cardinality(Reapers) - 1
  BY <1>4, Shrinks DEF Counts, Finite
<1>7. Reported' = Reported
  BY <1>1 DEF Reported
<1>8. CASE code[z] # 0
  <2>1. Failed' = Failed \cup {z} /\ z \notin Failed
    BY <1>1, <1>2, <1>8 DEF Failed
  <2>2. Reporting' = Reporting \cup {w} /\ w \notin Reporting
    BY <1>1, <1>2, <1>8 DEF Reporting
  <2>3. IsFiniteSet(Failed') /\ Cardinality(Failed') = Cardinality(Failed) + 1
    BY <2>1, Grows DEF Counts, Finite
  <2>4. IsFiniteSet(Reporting') /\ Cardinality(Reporting') = Cardinality(Reporting) + 1
        /\ Cardinality(Reporting) \in Nat
    BY <2>2, Grows DEF Counts, Finite
  <2>5. Cardinality(Reported) \in Nat
    BY FS_CardinalityType DEF Counts, Finite
  <2> QED BY <1>5, <1>6, <1>7, <2>3, <2>4, <2>5 DEF Counts, Finite, StatusesConserved
<1>9. CASE code[z] = 0
  <2>1. Failed' = Failed /\ Reporting' = Reporting
    BY <1>1, <1>2, <1>9 DEF Failed, Reporting
  <2> QED BY <1>5, <1>6, <1>7, <2>1 DEF Counts, Finite, StatusesConserved
<1> QED BY <1>8, <1>9

(* A worker with a failure reports it.                                       *)
LEMMA HeadCounts == ASSUME CgiInv, NEW w \in CgiWorkers, SendHead(w) PROVE Counts'
<1> USE DEF CgiInv, Served, CgiTypeOK
<1>1. pc[w] = "head" /\ req[w] \in Requests /\ reply[req[w]].line = "none"
  BY InService DEF SendHead
<1>2. UNCHANGED <<Unreaped, Reapers, Failed>>
  BY <1>1 DEF Unreaped, Reapers, Failed, SendHead, childVars
<1>3. CASE n[w] # 0
  <2>1. Reported' = Reported \cup {req[w]} /\ req[w] \notin Reported
    BY <1>1, <1>3 DEF Reported, SendHead
  <2>2. Reporting' = Reporting \ {w} /\ w \in Reporting
    BY <1>1, <1>3 DEF Reporting, SendHead
  <2>3. IsFiniteSet(Reported') /\ Cardinality(Reported') = Cardinality(Reported) + 1
        /\ Cardinality(Reported) \in Nat
    BY <2>1, Grows DEF Counts, Finite
  <2>4. IsFiniteSet(Reporting') /\ Cardinality(Reporting') = Cardinality(Reporting) - 1
        /\ Cardinality(Reporting) \in Nat
    BY <2>2, Shrinks DEF Counts, Finite
  <2> QED BY <1>2, <2>3, <2>4 DEF Counts, Finite, StatusesConserved
<1>4. CASE n[w] = 0
  <2>1. Reported' = Reported
    BY <1>1, <1>4 DEF Reported, SendHead
  <2>2. Reporting' = Reporting
    BY <1>1, <1>4 DEF Reporting, SendHead
  <2> QED BY <1>2, <2>1, <2>2, SameCounts
<1> QED BY <1>3, <1>4

-----------------------------------------------------------------------------
(* Theorems.                                                                 *)

(* Initially nothing is served and nothing counted.                          *)
LEMMA CgiInitInv == CgiInit => CgiInv
<1> SUFFICES ASSUME CgiInit PROVE CgiInv
  OBVIOUS
<1>1. CgiTypeOK
  BY SizesAssumption DEF CgiInit, CgiTypeOK
<1>2. Owners /\ Stages /\ Writers
  BY NamesAssumption DEF CgiInit, Owners, Stages, Writers
<1>3. Unreaped = {} /\ Reapers = {} /\ Failed = {} /\ Reported = {} /\ Reporting = {}
  BY DEF CgiInit, Unreaped, Reapers, Failed, Reported, Reporting
<1> QED BY <1>1, <1>2, <1>3, FS_EmptySet DEF CgiInv, Served, Counts, Finite, StatusesConserved

(* Every step keeps the invariant.                                           *)
LEMMA CgiNextInv == CgiInv /\ [CgiNext]_cgiVars => CgiInv'
<1> SUFFICES ASSUME CgiInv, [CgiNext]_cgiVars PROVE CgiInv'
  OBVIOUS
<1>1. ASSUME NEW w \in CgiWorkers, NEW r \in Requests, SocketPair(w, r) \/ SocketPairFails(w, r)
      PROVE  CgiInv'
  BY <1>1, SocketPairServed, QuietCounts DEF CgiInv
<1>2. ASSUME NEW w \in CgiWorkers, Fork(w) PROVE CgiInv'
  BY <1>2, ForkServed, ForkCounts DEF CgiInv
<1>3. ASSUME NEW w \in CgiWorkers, ForkFails(w) PROVE CgiInv'
  <2>1. req[w] \in Requests
    BY <1>3, InService DEF CgiInv, ForkFails
  <2> QED BY <1>3, <2>1, ForkFailsServed, QuietCounts DEF CgiInv
<1>4. ASSUME NEW w \in CgiWorkers, CloseWriteEnd(w) PROVE CgiInv'
  <2>1. req[w] \in Requests
    BY <1>4, InService DEF CgiInv, CloseWriteEnd
  <2> QED BY <1>4, <2>1, CloseWriteEndServed, QuietCounts DEF CgiInv
<1>5. ASSUME NEW w \in CgiWorkers, Wait(w) PROVE CgiInv'
  BY <1>5, WaitServed, WaitCounts DEF CgiInv
<1>6. ASSUME NEW w \in CgiWorkers, SendHead(w) PROVE CgiInv'
  BY <1>6, HeadServed, HeadCounts DEF CgiInv
<1>7. ASSUME NEW w \in CgiWorkers, Copy(w) PROVE CgiInv'
  <2>1. req[w] \in Requests
    BY <1>7, InService DEF CgiInv, Copy
  <2> QED BY <1>7, <2>1, CopyServed, QuietCounts DEF CgiInv
<1>8. ASSUME NEW w \in CgiWorkers, EndOfFile(w) PROVE CgiInv'
  <2>1. req[w] \in Requests
    BY <1>8, InService DEF CgiInv, EndOfFile
  <2> QED BY <1>8, <2>1, EndOfFileServed, QuietCounts DEF CgiInv
<1>9. ASSUME NEW r \in Requests, ChildWrite(r) \/ ChildExit(r) PROVE CgiInv'
  <2>1. Served'
    BY <1>9, ChildServed DEF CgiInv
  <2>2. UNCHANGED <<Unreaped, Reapers, Failed, Reported, Reporting>>
    BY <1>9 DEF ChildWrite, ChildExit, Unreaped, Reapers, Failed, Reported, Reporting,
                CgiInv, Served, CgiTypeOK
  <2> QED BY <2>1, <2>2, SameCounts DEF CgiInv
<1>10. CASE UNCHANGED cgiVars
  <2>1. Served'
    BY <1>10 DEF cgiVars, childVars, CgiInv, Served, CgiTypeOK, Owners, Stages, Writers
  <2>2. UNCHANGED <<Unreaped, Reapers, Failed, Reported, Reporting>>
    BY <1>10 DEF cgiVars, childVars, Unreaped, Reapers, Failed, Reported, Reporting
  <2> QED BY <2>1, <2>2, SameCounts DEF CgiInv
<1> QED
  BY <1>1, <1>2, <1>3, <1>4, <1>5, <1>6, <1>7, <1>8, <1>9, <1>10
  DEF CgiNext, CgiStep, ChildStep, AllServed

(* For any number of workers, requests and programs: there are always as     *)
(* many children to reap as workers that will still call wait, although      *)
(* wait takes any child.                                                     *)
THEOREM ChildrenAreReaped == CgiSpec => []OneChildPerWait
<1>1. CgiInv => OneChildPerWait
  BY DEF CgiInv, Served, Counts, OneChildPerWait
<1> QED BY <1>1, CgiInitInv, CgiNextInv, PTL DEF CgiSpec

(* ... no exit status is lost or reported twice, although a worker reports   *)
(* the status of any child;                                                  *)
THEOREM StatusesAreConserved == CgiSpec => []StatusesConserved
<1>1. CgiInv => StatusesConserved
  BY DEF CgiInv, Counts
<1> QED BY <1>1, CgiInitInv, CgiNextInv, PTL DEF CgiSpec

(* ... and a reply that ended without error holds all of its own program's   *)
(* output, although the worker may go on while its own child still runs.     *)
THEOREM RepliesAreWhole == CgiSpec => []NothingTruncated
<1>1. CgiInv => NothingTruncated
  BY DEF CgiInv, Served, Writers, NothingTruncated
<1> QED BY <1>1, CgiInitInv, CgiNextInv, PTL DEF CgiSpec
============================================================================
