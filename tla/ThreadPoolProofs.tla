-------------------------- MODULE ThreadPoolProofs --------------------------
(***************************************************************************)
(* Proofs about ThreadPool, for any number of workers, clients and jobs.   *)
(*                                                                         *)
(* Inv, the inductive invariant, has four parts: the types, with the nodes *)
(* in the hands of clients and workers (TypeInv); the life of the pool and *)
(* of its threads (Lifecycle); who owns the mutex (Mutex); what the        *)
(* counter says of the list (Counting).  Two more invariants stand on it:  *)
(* Balance, jobs against those who will fetch them, and Exclusive, each    *)
(* job in one place, from which it follows that ThreadPool implements      *)
(* JobPool.                                                                *)
(***************************************************************************)
EXTENDS ThreadPool, FiniteSetTheorems, TLAPS

USE MaxThreadNumAssumption, OwnerAssumption, DisjointAssumption

(* A client has a node at hand exactly while it is about to link it, and a *)
(* worker exactly while it runs it.                                        *)
NodesAtHand ==
  /\ \A c \in Clients : newworker[c] \in Jobs <=> cpc[c] \in {"add", "append"}
  /\ \A w \in Workers : worker[w] \in Jobs <=> wpc[w] = "run"

TypeInv == TypeOK /\ NodesAtHand

(* Who can be where in the life of the pool: the owner alone creates and   *)
(* destroys it, threads appear in order, leave only after shutdown is set, *)
(* and have all left when the owner frees the pool.                        *)
Lifecycle ==
  /\ \A c \in Clients : /\ cpc[c] \in {"create"} \union Closing => c = Owner
                        /\ cpc[c] # "idle" => pool = "live"
  /\ pool = "none" => joined = 0 /\ queueLock = NoOne /\ \A w \in Workers : wpc[w] = "new"
  /\ cpc[Owner] = "create" => \A w \in Workers : wpc[w] = "new" <=> w > joined
  /\ pool # "none" /\ cpc[Owner] # "create" => \A w \in Workers : wpc[w] # "new"
  /\ pool = "live" /\ cpc[Owner] \notin {"create", "join", "free"} => joined = 0
  /\ cpc[Owner] \in {"create"} \union Closing => \A c \in Clients : c = Owner \/ cpc[c] = "idle"
  /\ shutdown <=> cpc[Owner] \in {"broadcast", "join", "free"} \/ pool = "freed"
  /\ \A w \in Workers : wpc[w] = "exited" => shutdown
  /\ cpc[Owner] = "join" => \A w \in Workers : w <= joined => wpc[w] = "exited"
  /\ cpc[Owner] = "free" \/ pool = "freed" => \A w \in Workers : wpc[w] = "exited"

(* queue_lock has one holder, and only sleeping workers are waiting.       *)
Mutex ==
  /\ \A w \in Workers : wpc[w] \in Holding <=> queueLock = w
  /\ \A c \in Clients : cpc[c] \in {"append", "count"} <=> queueLock = c
  /\ \A w \in waiting : wpc[w] = "asleep"

(* Between the two steps that link or unlink a node the counter is one     *)
(* short, and only the holder of the mutex is there.                       *)
HalfWay == \/ queueLock \in Workers /\ wpc[queueLock] = "pop"
           \/ queueLock \in Clients /\ cpc[queueLock] = "count"

Counting ==
  /\ pool # "freed" => Len(queue) = IF HalfWay THEN curQueueSize + 1 ELSE curQueueSize
  /\ \A w \in Workers : /\ wpc[w] = "wait" => curQueueSize = 0
                        /\ wpc[w] = "test" => curQueueSize # 0 \/ shutdown
                        /\ wpc[w] = "take" => curQueueSize # 0

Inv == TypeInv /\ Lifecycle /\ Mutex /\ Counting

(* Every variable keeps its type whatever step a client or a worker takes. *)
LEMMA TypeStep == TypeInv /\ Lifecycle /\ [Next]_vars => TypeInv'
<1> SUFFICES ASSUME TypeInv, Lifecycle, [Next]_vars PROVE TypeInv'
  OBVIOUS
<1> USE DEF TypeInv, TypeOK, NodesAtHand, lockVars, queueVars, workerVars, clientVars, ghostVars,
            WorkerPC, ClientPC, Holding, Adding, Closing, Workers
<1>1. CASE UNCHANGED vars
  BY <1>1 DEF vars
<1>2. CASE UserInit
  BY <1>2 DEF UserInit, PoolInit
<1>3. CASE UserDestroy
  BY <1>3 DEF UserDestroy, DestroyCall
<1>4. ASSUME NEW c \in Clients, UserAdd(c) PROVE TypeInv'
  BY <1>4 DEF UserAdd, AddCall, Usable
<1>5. ASSUME NEW c \in Clients, CreateThread(c) PROVE TypeInv'
  <2>1. CASE joined < MaxThreadNum
    <3>1. joined + 1 \in Workers /\ c = Owner
      BY <1>5, <2>1 DEF CreateThread, Lifecycle
    <3>2. pool = "live" /\ wpc[joined + 1] = "new"
      BY <1>5, <2>1, <3>1 DEF CreateThread, Lifecycle
    <3>3. wpc' = [wpc EXCEPT ![joined + 1] = "lock"] /\ joined' \in 0..MaxThreadNum
      BY <1>5, <2>1 DEF CreateThread
    <3>4. TypeOK'
      BY <1>5, <2>1, <3>1, <3>3 DEF CreateThread
    <3>5. NodesAtHand'
      BY <1>5, <2>1, <3>1, <3>2, <3>3 DEF CreateThread
    <3> QED BY <3>4, <3>5
  <2>2. CASE ~(joined < MaxThreadNum)
    BY <1>5, <2>2 DEF CreateThread, Lifecycle
  <2> QED BY <2>1, <2>2
<1>6. ASSUME NEW c \in Clients, AddStep(c) PROVE TypeInv'
  <2>1. CASE AddLock(c)
    BY <2>1 DEF AddLock
  <2>2. CASE AddAppend(c)
    BY <2>2 DEF AddAppend
  <2>3. CASE AddCount(c)
    BY <2>3 DEF AddCount
  <2>4. CASE AddSignal(c)
    BY <2>4 DEF AddSignal
  <2> QED BY <1>6, <2>1, <2>2, <2>3, <2>4 DEF AddStep
<1>7. ASSUME NEW c \in Clients, DestroyStep(c) PROVE TypeInv'
  <2>1. CASE DestroySetFlag(c)
    BY <2>1 DEF DestroySetFlag
  <2>2. CASE DestroyBroadcast(c)
    BY <2>2 DEF DestroyBroadcast
  <2>3. CASE DestroyJoin(c)
    <3>1. CASE joined < MaxThreadNum
      <4>1. joined + 1 \in 0..MaxThreadNum
        BY <3>1
      <4> QED BY <2>3, <3>1, <4>1 DEF DestroyJoin
    <3>2. CASE ~(joined < MaxThreadNum)
      BY <2>3, <3>2 DEF DestroyJoin
    <3> QED BY <3>1, <3>2
  <2>4. CASE DestroyFree(c)
    BY <2>4 DEF DestroyFree
  <2> QED BY <1>7, <2>1, <2>2, <2>3, <2>4 DEF DestroyStep
<1>8. ASSUME NEW w \in Workers, WorkerStep(w) PROVE TypeInv'
  <2>1. CASE WorkerLock(w)
    BY <2>1 DEF WorkerLock
  <2>2. CASE WorkerCheck(w)
    BY <2>2 DEF WorkerCheck
  <2>3. CASE CondWait(w)
    BY <2>3 DEF CondWait
  <2>4. CASE CondReturn(w)
    BY <2>4 DEF CondReturn
  <2>5. CASE WorkerTest(w)
    BY <2>5 DEF WorkerTest
  <2>6. CASE WorkerTake(w)
    BY <2>6 DEF WorkerTake
  <2>7. CASE WorkerPop(w)
    BY <2>7 DEF WorkerPop
  <2>8. CASE WorkerFinish(w)
    BY <2>8 DEF WorkerFinish
  <2> QED BY <1>8, <2>1, <2>2, <2>3, <2>4, <2>5, <2>6, <2>7, <2>8 DEF WorkerStep
<1>9. ASSUME NEW w \in Workers, SpuriousWakeup(w) PROVE TypeInv'
  BY <1>9 DEF SpuriousWakeup
<1> QED
  BY <1>1, <1>2, <1>3, <1>4, <1>5, <1>6, <1>7, <1>8, <1>9 DEF Next, ClientStep, Finished

(* The life of the pool, its owner and its threads follows one order.     *)
LEMMA LifecycleStep == TypeInv /\ Lifecycle /\ [Next]_vars => Lifecycle'
<1> SUFFICES ASSUME TypeInv, Lifecycle, [Next]_vars PROVE Lifecycle'
  OBVIOUS
<1> USE DEF TypeInv, TypeOK, Lifecycle, lockVars, queueVars, workerVars, clientVars, ghostVars,
            WorkerPC, ClientPC, Holding, Adding, Closing, Workers
<1>1. CASE UNCHANGED vars
  BY <1>1 DEF vars
<1>2. CASE UserInit
  BY <1>2 DEF UserInit, PoolInit
<1>3. CASE UserDestroy
  BY <1>3 DEF UserDestroy, DestroyCall
<1>4. ASSUME NEW c \in Clients, UserAdd(c) PROVE Lifecycle'
  BY <1>4 DEF UserAdd, AddCall, Usable
<1>5. ASSUME NEW c \in Clients, CreateThread(c) PROVE Lifecycle'
  <2>1. CASE joined < MaxThreadNum
    <3>1. joined + 1 \in Workers /\ c = Owner
      BY <1>5, <2>1 DEF CreateThread, Lifecycle
    <3>2. pool = "live" /\ wpc[joined + 1] = "new"
      BY <1>5, <2>1, <3>1 DEF CreateThread, Lifecycle
    <3> QED BY <1>5, <2>1, <3>1, <3>2 DEF CreateThread
  <2>2. CASE ~(joined < MaxThreadNum)
    BY <1>5, <2>2 DEF CreateThread, Lifecycle
  <2> QED BY <2>1, <2>2
<1>6. ASSUME NEW c \in Clients, AddStep(c) PROVE Lifecycle'
  <2>1. CASE AddLock(c)
    BY <2>1 DEF AddLock
  <2>2. CASE AddAppend(c)
    BY <2>2 DEF AddAppend
  <2>3. CASE AddCount(c)
    BY <2>3 DEF AddCount
  <2>4. CASE AddSignal(c)
    BY <2>4 DEF AddSignal
  <2> QED BY <1>6, <2>1, <2>2, <2>3, <2>4 DEF AddStep
<1>7. ASSUME NEW c \in Clients, DestroyStep(c) PROVE Lifecycle'
  <2>1. CASE DestroySetFlag(c)
    BY <2>1 DEF DestroySetFlag
  <2>2. CASE DestroyBroadcast(c)
    BY <2>2 DEF DestroyBroadcast
  <2>3. CASE DestroyJoin(c)
    BY <2>3 DEF DestroyJoin
  <2>4. CASE DestroyFree(c)
    BY <2>4 DEF DestroyFree
  <2> QED BY <1>7, <2>1, <2>2, <2>3, <2>4 DEF DestroyStep
<1>8. ASSUME NEW w \in Workers, WorkerStep(w) PROVE Lifecycle'
  <2>1. CASE WorkerLock(w)
    BY <2>1 DEF WorkerLock
  <2>2. CASE WorkerCheck(w)
    BY <2>2 DEF WorkerCheck
  <2>3. CASE CondWait(w)
    BY <2>3 DEF CondWait
  <2>4. CASE CondReturn(w)
    BY <2>4 DEF CondReturn
  <2>5. CASE WorkerTest(w)
    BY <2>5 DEF WorkerTest
  <2>6. CASE WorkerTake(w)
    BY <2>6 DEF WorkerTake
  <2>7. CASE WorkerPop(w)
    BY <2>7 DEF WorkerPop
  <2>8. CASE WorkerFinish(w)
    BY <2>8 DEF WorkerFinish
  <2> QED BY <1>8, <2>1, <2>2, <2>3, <2>4, <2>5, <2>6, <2>7, <2>8 DEF WorkerStep
<1>9. ASSUME NEW w \in Workers, SpuriousWakeup(w) PROVE Lifecycle'
  BY <1>9 DEF SpuriousWakeup
<1> QED
  BY <1>1, <1>2, <1>3, <1>4, <1>5, <1>6, <1>7, <1>8, <1>9 DEF Next, ClientStep, Finished

(* Every lock and unlock of queue_lock keeps it with a single holder.       *)
LEMMA MutexStep == TypeInv /\ Lifecycle /\ Mutex /\ [Next]_vars => Mutex'
<1> SUFFICES ASSUME TypeInv, Lifecycle, Mutex, [Next]_vars PROVE Mutex'
  OBVIOUS
<1> USE DEF TypeInv, TypeOK, Mutex, lockVars, queueVars, workerVars, clientVars, ghostVars,
            WorkerPC, ClientPC, Holding, Adding, Closing, Workers
<1>1. CASE UNCHANGED vars
  BY <1>1 DEF vars
<1>2. CASE UserInit
  BY <1>2 DEF UserInit, PoolInit
<1>3. CASE UserDestroy
  BY <1>3 DEF UserDestroy, DestroyCall
<1>4. ASSUME NEW c \in Clients, UserAdd(c) PROVE Mutex'
  BY <1>4 DEF UserAdd, AddCall, Usable
<1>5. ASSUME NEW c \in Clients, CreateThread(c) PROVE Mutex'
  <2>1. CASE joined < MaxThreadNum
    <3>1. joined + 1 \in Workers /\ c = Owner
      BY <1>5, <2>1 DEF CreateThread, Lifecycle
    <3>2. pool = "live" /\ wpc[joined + 1] = "new"
      BY <1>5, <2>1, <3>1 DEF CreateThread, Lifecycle
    <3> QED BY <1>5, <2>1, <3>1, <3>2 DEF CreateThread
  <2>2. CASE ~(joined < MaxThreadNum)
    BY <1>5, <2>2 DEF CreateThread, Lifecycle
  <2> QED BY <2>1, <2>2
<1>6. ASSUME NEW c \in Clients, AddStep(c) PROVE Mutex'
  <2>1. CASE AddLock(c)
    BY <2>1 DEF AddLock
  <2>2. CASE AddAppend(c)
    BY <2>2 DEF AddAppend
  <2>3. CASE AddCount(c)
    BY <2>3 DEF AddCount
  <2>4. CASE AddSignal(c)
    BY <2>4 DEF AddSignal
  <2> QED BY <1>6, <2>1, <2>2, <2>3, <2>4 DEF AddStep
<1>7. ASSUME NEW c \in Clients, DestroyStep(c) PROVE Mutex'
  <2>1. CASE DestroySetFlag(c)
    BY <2>1 DEF DestroySetFlag
  <2>2. CASE DestroyBroadcast(c)
    BY <2>2 DEF DestroyBroadcast
  <2>3. CASE DestroyJoin(c)
    BY <2>3 DEF DestroyJoin
  <2>4. CASE DestroyFree(c)
    BY <2>4 DEF DestroyFree
  <2> QED BY <1>7, <2>1, <2>2, <2>3, <2>4 DEF DestroyStep
<1>8. ASSUME NEW w \in Workers, WorkerStep(w) PROVE Mutex'
  <2>1. CASE WorkerLock(w)
    BY <2>1 DEF WorkerLock
  <2>2. CASE WorkerCheck(w)
    BY <2>2 DEF WorkerCheck
  <2>3. CASE CondWait(w)
    BY <2>3 DEF CondWait
  <2>4. CASE CondReturn(w)
    BY <2>4 DEF CondReturn
  <2>5. CASE WorkerTest(w)
    BY <2>5 DEF WorkerTest
  <2>6. CASE WorkerTake(w)
    BY <2>6 DEF WorkerTake
  <2>7. CASE WorkerPop(w)
    BY <2>7 DEF WorkerPop
  <2>8. CASE WorkerFinish(w)
    BY <2>8 DEF WorkerFinish
  <2> QED BY <1>8, <2>1, <2>2, <2>3, <2>4, <2>5, <2>6, <2>7, <2>8 DEF WorkerStep
<1>9. ASSUME NEW w \in Workers, SpuriousWakeup(w) PROVE Mutex'
  BY <1>9 DEF SpuriousWakeup
<1> QED
  BY <1>1, <1>2, <1>3, <1>4, <1>5, <1>6, <1>7, <1>8, <1>9 DEF Next, ClientStep, Finished

(* The counter and the list agree at every step outside the half-way ones.  *)
LEMMA CountingStep == Inv /\ [Next]_vars => Counting'
<1> SUFFICES ASSUME Inv, [Next]_vars PROVE Counting'
  OBVIOUS
<1> USE DEF Inv, TypeInv, TypeOK, Mutex, Counting, HalfWay, lockVars, queueVars, workerVars, clientVars, ghostVars,
            WorkerPC, ClientPC, Holding, Adding, Closing, Workers
<1>1. CASE UNCHANGED vars
  BY <1>1 DEF vars
<1>2. CASE UserInit
  BY <1>2 DEF UserInit, PoolInit
<1>3. CASE UserDestroy
  BY <1>3 DEF UserDestroy, DestroyCall
<1>4. ASSUME NEW c \in Clients, UserAdd(c) PROVE Counting'
  BY <1>4 DEF UserAdd, AddCall, Usable
<1>5. ASSUME NEW c \in Clients, CreateThread(c) PROVE Counting'
  <2>1. CASE joined < MaxThreadNum
    <3>1. joined + 1 \in Workers /\ c = Owner
      BY <1>5, <2>1 DEF CreateThread, Lifecycle
    <3>2. pool = "live" /\ wpc[joined + 1] = "new"
      BY <1>5, <2>1, <3>1 DEF CreateThread, Lifecycle
    <3> QED BY <1>5, <2>1, <3>1, <3>2 DEF CreateThread
  <2>2. CASE ~(joined < MaxThreadNum)
    BY <1>5, <2>2 DEF CreateThread, Lifecycle
  <2> QED BY <2>1, <2>2
<1>6. ASSUME NEW c \in Clients, AddStep(c) PROVE Counting'
  <2>1. CASE AddLock(c)
    BY <2>1 DEF AddLock
  <2>2. CASE AddAppend(c)
    BY <2>2 DEF AddAppend
  <2>3. CASE AddCount(c)
    BY <2>3 DEF AddCount
  <2>4. CASE AddSignal(c)
    BY <2>4 DEF AddSignal
  <2> QED BY <1>6, <2>1, <2>2, <2>3, <2>4 DEF AddStep
<1>7. ASSUME NEW c \in Clients, DestroyStep(c) PROVE Counting'
  <2>1. CASE DestroySetFlag(c)
    BY <2>1 DEF DestroySetFlag
  <2>2. CASE DestroyBroadcast(c)
    BY <2>2 DEF DestroyBroadcast
  <2>3. CASE DestroyJoin(c)
    BY <2>3 DEF DestroyJoin
  <2>4. CASE DestroyFree(c)
    BY <2>4 DEF DestroyFree
  <2> QED BY <1>7, <2>1, <2>2, <2>3, <2>4 DEF DestroyStep
<1>8. ASSUME NEW w \in Workers, WorkerStep(w) PROVE Counting'
  <2>1. CASE WorkerLock(w)
    BY <2>1 DEF WorkerLock
  <2>2. CASE WorkerCheck(w)
    BY <2>2 DEF WorkerCheck
  <2>3. CASE CondWait(w)
    BY <2>3 DEF CondWait
  <2>4. CASE CondReturn(w)
    BY <2>4 DEF CondReturn
  <2>5. CASE WorkerTest(w)
    <3>1. queueLock = w /\ ~HalfWay
      BY <2>5 DEF WorkerTest
    <3>2. wpc' = [wpc EXCEPT ![w] = IF shutdown THEN "exited" ELSE "take"]
      BY <2>5 DEF WorkerTest
    <3>3. UNCHANGED <<pool, queue, curQueueSize, shutdown, cpc>> /\ queueLock' \in {w, NoOne}
      BY <2>5, <3>1 DEF WorkerTest
    <3>4. ~HalfWay'
      BY <3>1, <3>2, <3>3
    <3>5. pool' # "freed" => Len(queue') = curQueueSize'
      BY <3>1, <3>3
    <3>6. ~shutdown => curQueueSize # 0
      BY <2>5 DEF WorkerTest
    <3>7. ASSUME NEW v \in Workers
          PROVE  /\ wpc'[v] = "wait" => curQueueSize' = 0
                 /\ wpc'[v] = "test" => curQueueSize' # 0 \/ shutdown'
                 /\ wpc'[v] = "take" => curQueueSize' # 0
      BY <3>2, <3>3, <3>6
    <3> QED BY <3>4, <3>5, <3>7
  <2>6. CASE WorkerTake(w)
    BY <2>6 DEF WorkerTake
  <2>7. CASE WorkerPop(w)
    BY <2>7 DEF WorkerPop
  <2>8. CASE WorkerFinish(w)
    BY <2>8 DEF WorkerFinish
  <2> QED BY <1>8, <2>1, <2>2, <2>3, <2>4, <2>5, <2>6, <2>7, <2>8 DEF WorkerStep
<1>9. ASSUME NEW w \in Workers, SpuriousWakeup(w) PROVE Counting'
  BY <1>9 DEF SpuriousWakeup
<1> QED
  BY <1>1, <1>2, <1>3, <1>4, <1>5, <1>6, <1>7, <1>8, <1>9 DEF Next, ClientStep, Finished

(* A pool that does not exist yet satisfies the invariant. *)
LEMMA InvInit == Init => Inv
<1> SUFFICES ASSUME Init PROVE Inv
  OBVIOUS
<1> USE DEF Init, WorkerPC, ClientPC, Holding, Adding, Closing, Workers
<1>1. TypeInv
  <2>1. queue \in Seq(Jobs) /\ joined \in 0..MaxThreadNum
    OBVIOUS
  <2>2. TypeOK
    BY <2>1 DEF TypeOK
  <2>3. NodesAtHand
    BY DEF NodesAtHand
  <2> QED BY <2>2, <2>3 DEF TypeInv
<1>2. Lifecycle
  BY DEF Lifecycle
<1>3. Mutex
  BY DEF Mutex
<1>4. Counting
  BY DEF Counting, HalfWay
<1> QED BY <1>1, <1>2, <1>3, <1>4 DEF Inv

(* Inv holds in every reachable state. *)
LEMMA Invariance == Spec => []Inv
<1>1. Inv /\ [Next]_vars => Inv'
  BY TypeStep, LifecycleStep, MutexStep, CountingStep DEF Inv
<1> QED BY <1>1, InvInit, PTL DEF Spec

(* Type correctness of the pool, for every instance.                       *)
THEOREM TypeCorrect == Spec => []TypeOK
<1>1. Inv => TypeOK
  BY DEF Inv, TypeInv
<1> QED BY <1>1, Invariance, PTL

(* The assertions of thread_routine and pool_add_worker never fail.        *)
THEOREM NoAssertionFails == Spec => []AssertionsHold
<1>1. Inv => AssertionsHold
  BY DEF Inv, TypeInv, TypeOK, Lifecycle, Mutex, Counting, HalfWay, AssertionsHold, Holding
<1> QED BY <1>1, Invariance, PTL

(* pool_destroy frees nothing that a worker still uses.                    *)
THEOREM FreedPoolIsUnused == Spec => []NoUseAfterFree
<1>1. Inv => NoUseAfterFree
  BY DEF Inv, TypeInv, TypeOK, Lifecycle, Mutex, NoUseAfterFree, Holding
<1> QED BY <1>1, Invariance, PTL

(* After shutdown at most one more job is fetched: by the worker that had  *)
(* passed its test and still holds the mutex.                              *)
THEOREM Stragglers == Spec => OneStragglerAtMost
<1> DEFINE Straggler == /\ shutdown => Fetching' \subseteq Fetching
                        /\ shutdown' => \A v, w \in Fetching' : v = w
<1>1. ASSUME Inv, Inv', Next PROVE Straggler
  <2>1. \A v, w \in Fetching' : v = w
    BY <1>1 DEF Inv, Mutex, Fetching, Holding
  <2>2. ASSUME shutdown, NEW x \in Fetching' PROVE x \in Fetching
    <3> USE <2>2 DEF Fetching
    <3>0. wpc \in [Workers -> WorkerPC]
      BY <1>1 DEF Inv, TypeInv, TypeOK
    <3>1. ASSUME NEW w \in Workers, WorkerStep(w) PROVE x \in Fetching
      BY <3>0, <3>1 DEF WorkerStep, WorkerLock, WorkerCheck, CondWait, CondReturn, WorkerTest,
                        WorkerTake, WorkerPop, WorkerFinish
    <3>2. ASSUME NEW c \in Clients, CreateThread(c) PROVE x \in Fetching
      BY <3>0, <3>2 DEF CreateThread, Workers
    <3>3. CASE UNCHANGED wpc
      BY <3>3
    <3>4. Next => \/ \E w \in Workers : WorkerStep(w)
                  \/ \E c \in Clients : CreateThread(c)
                  \/ UNCHANGED wpc
      BY DEF Next, UserInit, PoolInit, UserDestroy, DestroyCall, UserAdd, AddCall, ClientStep,
             AddStep, AddLock, AddAppend, AddCount, AddSignal, DestroyStep, DestroySetFlag,
             DestroyBroadcast, DestroyJoin, DestroyFree, SpuriousWakeup, Finished, vars, workerVars
    <3> QED BY <1>1, <3>1, <3>2, <3>3, <3>4
  <2> QED BY <2>1, <2>2
<1>2. Inv /\ Inv' /\ [Next]_vars => [Straggler]_vars
  BY <1>1
<1> QED BY <1>2, Invariance, PTL DEF Spec, OneStragglerAtMost
-----------------------------------------------------------------------------
(* No wakeup is lost: the balance between jobs and those who will fetch    *)
(* them is inductive on top of Inv.                                        *)

Signalling == {c \in Clients : cpc[c] = "signal"}

(* The property, and that only finitely many clients are about to signal.  *)
Balance == IsFiniteSet(Signalling) /\ NoWorkerSleepsOnWork

(* One element more or less changes the size by one.                       *)
LEMMA OneMore ==
  ASSUME NEW S, IsFiniteSet(S), NEW x, x \notin S
  PROVE  /\ IsFiniteSet(S \union {x}) /\ Cardinality(S) \in Nat
         /\ Cardinality(S \union {x}) = Cardinality(S) + 1
  BY FS_AddElement, FS_CardinalityType

(* The same for an element taken away. *)
LEMMA OneLess ==
  ASSUME NEW S, IsFiniteSet(S), NEW x \in S
  PROVE  /\ IsFiniteSet(S \ {x}) /\ Cardinality(S) \in Nat
         /\ Cardinality(S \ {x}) = Cardinality(S) - 1
  BY FS_RemoveElement, FS_CardinalityType

(* Only finitely many workers are awake, before and after a step. *)
LEMMA AwakeFinite == IsFiniteSet(Awake) /\ IsFiniteSet(Awake')
<1>1. IsFiniteSet(Workers)
  BY FS_Interval DEF Workers
<1>2. Awake \subseteq Workers /\ Awake' \subseteq Workers
  BY DEF Awake
<1> QED BY <1>1, <1>2, FS_Subset

(* What a step does to the balance, by the way it moves the three numbers. *)
LEMMA BalanceKept ==
  ASSUME Inv, Balance, Next, shutdown => shutdown',
         IsFiniteSet(Signalling'),
         ~shutdown' /\ waiting' # {} =>
           \/ curQueueSize' = 0
           \/ /\ waiting # {} /\ curQueueSize' \in Nat
              /\ curQueueSize' - curQueueSize <=
                   (Cardinality(Awake') - Cardinality(Awake))
                   + (Cardinality(Signalling') - Cardinality(Signalling))
  PROVE  Balance'
<1>1. /\ Cardinality(Awake) \in Nat /\ Cardinality(Awake') \in Nat
      /\ Cardinality(Signalling) \in Nat /\ Cardinality(Signalling') \in Nat
      /\ curQueueSize \in Nat
  BY AwakeFinite, FS_CardinalityType DEF Balance, Inv, TypeInv, TypeOK
<1>2. ASSUME ~shutdown', waiting' # {}
      PROVE  curQueueSize' <= Cardinality(Awake') + Cardinality(Signalling')
  <2>1. CASE curQueueSize' = 0
    BY <1>1, <2>1
  <2>2. CASE curQueueSize' # 0
    <3>1. waiting # {} /\ ~shutdown
      BY <1>2, <2>2
    <3>2. curQueueSize <= Cardinality(Awake) + Cardinality(Signalling)
      BY <3>1 DEF Balance, NoWorkerSleepsOnWork, Signalling
    <3> QED BY <1>1, <1>2, <2>2, <3>2
  <2> QED BY <2>1, <2>2
<1> QED BY <1>2 DEF Balance, NoWorkerSleepsOnWork, Signalling

(* A step that moves nothing but, perhaps, wakes or sends to sleep nobody. *)
LEMMA BalanceUntouched ==
  ASSUME Inv, Balance, Next, UNCHANGED <<waiting, curQueueSize>>, shutdown => shutdown',
         Awake \subseteq Awake', Signalling' = Signalling
  PROVE  Balance'
<1>1. Cardinality(Awake) <= Cardinality(Awake') /\ Cardinality(Awake) \in Nat
      /\ Cardinality(Awake') \in Nat /\ Cardinality(Signalling) \in Nat
  BY AwakeFinite, FS_CardinalityType, FS_Subset DEF Balance
<1>2. curQueueSize \in Nat
  BY DEF Inv, TypeInv, TypeOK
<1>3. curQueueSize' - curQueueSize <=
        (Cardinality(Awake') - Cardinality(Awake))
        + (Cardinality(Signalling') - Cardinality(Signalling))
  BY <1>1, <1>2
<1> QED BY <1>2, <1>3, BalanceKept DEF Balance

(* Every step keeps the balance: a job brings a signal, a signal a worker, *)
(* and a worker that fetches a job takes it from both sides.               *)
LEMMA BalanceStep == Inv /\ Inv' /\ Balance /\ [Next]_vars => Balance'
<1> SUFFICES ASSUME Inv, Inv', Balance, [Next]_vars PROVE Balance'
  OBVIOUS
<1> USE DEF lockVars, queueVars, workerVars, clientVars, ghostVars
<1>0. /\ TypeOK /\ IsFiniteSet(Signalling)
      /\ Cardinality(Awake) \in Nat /\ Cardinality(Signalling) \in Nat
  BY AwakeFinite, FS_CardinalityType DEF Inv, TypeInv, Balance
<1>1. CASE UNCHANGED vars
  BY <1>1 DEF vars, Balance, NoWorkerSleepsOnWork, Awake, Signalling
<1>2. CASE Next /\ (UserInit \/ UserDestroy)
  <2>1. Awake' = Awake /\ Signalling' = Signalling
    BY <1>0, <1>2 DEF UserInit, PoolInit, UserDestroy, DestroyCall, Awake, Signalling, TypeOK
  <2> QED BY <1>2, <2>1, BalanceUntouched DEF UserInit, PoolInit, UserDestroy, DestroyCall
<1>3. ASSUME Next, NEW c \in Clients, UserAdd(c) PROVE Balance'
  <2>1. Awake' = Awake /\ Signalling' = Signalling
    BY <1>0, <1>3 DEF UserAdd, AddCall, Awake, Signalling, TypeOK
  <2> QED BY <1>3, <2>1, BalanceUntouched DEF UserAdd, AddCall
<1>4. ASSUME Next, NEW c \in Clients, CreateThread(c) PROVE Balance'
  <2>1. Signalling' = Signalling
    BY <1>0, <1>4 DEF CreateThread, Signalling, TypeOK
  <2>2. ASSUME NEW w \in Awake PROVE w \in Awake'
    BY <1>0, <1>4, <2>2 DEF CreateThread, Awake, TypeOK
  <2>3. Awake \subseteq Awake'
    BY <2>2
  <2> QED BY <1>4, <2>1, <2>3, BalanceUntouched DEF CreateThread
<1>5. ASSUME Next, NEW c \in Clients, AddLock(c) \/ AddAppend(c) PROVE Balance'
  <2>1. Awake' = Awake /\ Signalling' = Signalling
    BY <1>0, <1>5 DEF AddLock, AddAppend, Awake, Signalling, TypeOK
  <2> QED BY <1>5, <2>1, BalanceUntouched DEF AddLock, AddAppend
<1>6. ASSUME Next, NEW c \in Clients, AddCount(c) PROVE Balance'
  <2>1. Awake' = Awake /\ c \notin Signalling /\ Signalling' = Signalling \union {c}
    BY <1>0, <1>6 DEF AddCount, Awake, Signalling, TypeOK
  <2>2. IsFiniteSet(Signalling') /\ Cardinality(Signalling') = Cardinality(Signalling) + 1
    BY <1>0, <2>1, OneMore
  <2>3. curQueueSize' - curQueueSize <=
          (Cardinality(Awake') - Cardinality(Awake))
          + (Cardinality(Signalling') - Cardinality(Signalling))
    BY <1>0, <1>6, <2>1, <2>2 DEF AddCount, TypeOK
  <2>4. UNCHANGED <<shutdown, waiting>> /\ curQueueSize' \in Nat
    BY <1>0, <1>6 DEF AddCount, TypeOK
  <2> QED BY <1>6, <2>2, <2>3, <2>4, BalanceKept
<1>7. ASSUME Next, NEW c \in Clients, AddSignal(c) PROVE Balance'
  <2>1. c \in Signalling /\ Signalling' = Signalling \ {c}
    BY <1>0, <1>7 DEF AddSignal, Signalling, TypeOK
  <2>2. IsFiniteSet(Signalling') /\ Cardinality(Signalling') = Cardinality(Signalling) - 1
    BY <1>0, <2>1, OneLess
  <2>3. UNCHANGED <<shutdown, curQueueSize, wpc>>
    BY <1>7 DEF AddSignal
  <2>4. CASE waiting = {} /\ waiting' = {}
    BY <1>7, <2>2, <2>3, <2>4, BalanceKept
  <2>5. ASSUME NEW w \in waiting, waiting' = waiting \ {w} PROVE Balance'
    <3>1. w \in Workers /\ wpc[w] = "asleep"
      BY <1>0 DEF TypeOK, Inv, Mutex
    <3>2. w \notin Awake /\ Awake' = Awake \union {w}
      BY <2>3, <2>5, <3>1 DEF Awake
    <3>3. Cardinality(Awake') = Cardinality(Awake) + 1
      BY <3>2, AwakeFinite, OneMore
    <3>4. curQueueSize' - curQueueSize <=
            (Cardinality(Awake') - Cardinality(Awake))
            + (Cardinality(Signalling') - Cardinality(Signalling))
      BY <1>0, <2>2, <2>3, <3>3 DEF TypeOK
    <3>5. waiting # {} /\ curQueueSize' \in Nat
      BY <1>0, <2>3, <2>5 DEF TypeOK
    <3> QED BY <1>7, <2>2, <2>3, <3>4, <3>5, BalanceKept
  <2> QED BY <1>7, <2>4, <2>5 DEF AddSignal
<1>8. ASSUME Next, NEW c \in Clients, DestroySetFlag(c) \/ DestroyBroadcast(c) PROVE Balance'
  <2>1. Signalling' = Signalling
    BY <1>0, <1>8 DEF DestroySetFlag, DestroyBroadcast, Signalling, TypeOK
  <2>2. shutdown'
    BY <1>8 DEF DestroySetFlag, DestroyBroadcast, Inv, Lifecycle, Closing
  <2> QED BY <1>0, <1>8, <2>1, <2>2, BalanceKept
<1>9. ASSUME Next, NEW c \in Clients, DestroyJoin(c) \/ DestroyFree(c) PROVE Balance'
  <2>1. Awake' = Awake /\ Signalling' = Signalling
    BY <1>0, <1>9 DEF DestroyJoin, DestroyFree, Awake, Signalling, TypeOK
  <2> QED BY <1>9, <2>1, BalanceUntouched DEF DestroyJoin, DestroyFree
<1>10. ASSUME Next, NEW w \in Workers,
              WorkerLock(w) \/ WorkerCheck(w) \/ CondReturn(w) \/ WorkerPop(w) \/ WorkerFinish(w)
       PROVE Balance'
  <2>1. Signalling' = Signalling /\ UNCHANGED <<waiting, curQueueSize, shutdown>>
    BY <1>10 DEF WorkerLock, WorkerCheck, CondReturn, WorkerPop, WorkerFinish, Signalling
  <2>2. CASE WorkerCheck(w) /\ curQueueSize = 0
    BY <1>0, <1>10, <2>1, <2>2, BalanceKept
  <2>3. CASE ~(WorkerCheck(w) /\ curQueueSize = 0)
    <3>1. ASSUME NEW v \in Awake PROVE v \in Awake'
      BY <1>0, <1>10, <2>3, <3>1
         DEF WorkerLock, WorkerCheck, CondReturn, WorkerPop, WorkerFinish, Awake, TypeOK
    <3>2. Awake \subseteq Awake'
      BY <3>1
    <3> QED BY <1>10, <2>1, <3>2, BalanceUntouched
  <2> QED BY <2>2, <2>3
<1>11. ASSUME Next, NEW w \in Workers, CondWait(w) PROVE Balance'
  <2>1. curQueueSize' = 0 /\ Signalling' = Signalling /\ shutdown' = shutdown
    BY <1>11 DEF CondWait, Inv, Counting, Signalling
  <2> QED BY <1>0, <1>11, <2>1, BalanceKept
<1>12. ASSUME Next, NEW w \in Workers, WorkerTest(w) PROVE Balance'
  <2>1. Signalling' = Signalling /\ UNCHANGED <<waiting, curQueueSize, shutdown>>
    BY <1>12 DEF WorkerTest, Signalling
  <2>2. CASE shutdown
    BY <1>0, <1>12, <2>1, <2>2, BalanceKept
  <2>3. CASE ~shutdown
    <3>1. ASSUME NEW v \in Awake PROVE v \in Awake'
      BY <1>0, <1>12, <2>3, <3>1 DEF WorkerTest, Awake, TypeOK
    <3>2. Awake \subseteq Awake'
      BY <3>1
    <3> QED BY <1>12, <2>1, <3>2, BalanceUntouched
  <2> QED BY <2>2, <2>3
<1>13. ASSUME Next, NEW w \in Workers, WorkerTake(w) PROVE Balance'
  <2>1. w \in Awake /\ Awake' = Awake \ {w} /\ Signalling' = Signalling
    BY <1>0, <1>13 DEF WorkerTake, Awake, Signalling, TypeOK
  <2>2. Cardinality(Awake') = Cardinality(Awake) - 1
    BY <2>1, AwakeFinite, OneLess
  <2>3. /\ UNCHANGED <<shutdown, waiting>>
        /\ curQueueSize' = curQueueSize - 1 /\ curQueueSize # 0 /\ curQueueSize \in Nat
    BY <1>0, <1>13 DEF WorkerTake, TypeOK
  <2>4. curQueueSize' - curQueueSize <=
          (Cardinality(Awake') - Cardinality(Awake))
          + (Cardinality(Signalling') - Cardinality(Signalling))
    BY <1>0, <2>1, <2>2, <2>3
  <2>5. curQueueSize' \in Nat
    BY <2>3
  <2> QED BY <1>0, <1>13, <2>1, <2>3, <2>4, <2>5, BalanceKept
<1>14. ASSUME Next, NEW w \in Workers, SpuriousWakeup(w) PROVE Balance'
  <2>1. w \in waiting /\ wpc[w] = "asleep" /\ wpc' = wpc /\ waiting' = waiting \ {w}
    BY <1>14 DEF SpuriousWakeup, Inv, Mutex
  <2>2. w \notin Awake /\ Awake' = Awake \union {w} /\ Signalling' = Signalling
    BY <1>14, <2>1 DEF SpuriousWakeup, Awake, Signalling
  <2>3. Cardinality(Awake') = Cardinality(Awake) + 1
    BY <2>2, AwakeFinite, OneMore
  <2>4. UNCHANGED <<shutdown, curQueueSize>> /\ curQueueSize \in Nat /\ waiting # {}
    BY <1>0, <1>14, <2>1 DEF SpuriousWakeup, TypeOK
  <2>5. curQueueSize' - curQueueSize <=
          (Cardinality(Awake') - Cardinality(Awake))
          + (Cardinality(Signalling') - Cardinality(Signalling))
    BY <1>0, <2>2, <2>3, <2>4
  <2> QED BY <1>0, <1>14, <2>2, <2>4, <2>5, BalanceKept
<1>15. CASE Next /\ Finished
  BY <1>1, <1>15 DEF Finished
<1> QED
  BY <1>1, <1>2, <1>3, <1>4, <1>5, <1>6, <1>7, <1>8, <1>9, <1>10, <1>11, <1>12, <1>13, <1>14, <1>15
     DEF Next, ClientStep, AddStep, DestroyStep, WorkerStep

(* No signal of pool_add_worker is lost: a worker sleeps only while the    *)
(* jobs in the list have others awake, or signals under way, to fetch them *)
(* (thread_pool.c:106, sent once per job and after the mutex is released). *)
THEOREM NoLostWakeup == Spec => []NoWorkerSleepsOnWork
<1>1. Init => Balance
  <2>1. ASSUME Init PROVE Signalling = {} /\ waiting = {}
    BY <2>1 DEF Init, Signalling
  <2> QED BY <2>1, FS_EmptySet DEF Balance, NoWorkerSleepsOnWork
<1>2. Balance => NoWorkerSleepsOnWork
  BY DEF Balance
<1> QED BY <1>1, <1>2, BalanceStep, Invariance, PTL DEF Spec

-----------------------------------------------------------------------------
(* ThreadPool implements JobPool, for any number of workers, clients and   *)
(* jobs.  On top of Inv the proof needs that a job is in one place only:   *)
(* otherwise a worker that ends would take another one's job with it.      *)

InQueue(j) == \E i \in DOMAIN queue : queue[i] = j

(* A job is unused, in a client's hand, in the list, in a worker's hand,   *)
(* done or dropped, and never in two of these or in two hands.             *)
Exclusive ==
  /\ \A i, k \in DOMAIN queue : queue[i] = queue[k] => i = k
  /\ \A v, w \in Workers : worker[v] = worker[w] /\ worker[v] \in Jobs => v = w
  /\ \A b, c \in Clients : newworker[b] = newworker[c] /\ newworker[b] \in Jobs => b = c
  /\ \A w \in Workers : worker[w] \notin unused \union done \union dropped
  /\ \A c \in Clients : newworker[c] \notin unused \union done \union dropped
  /\ \A c \in Clients, w \in Workers : newworker[c] \in Jobs => newworker[c] # worker[w]
  /\ \A i \in DOMAIN queue : /\ queue[i] \notin unused \union done \union dropped
                             /\ \A w \in Workers : worker[w] # queue[i]
                             /\ \A c \in Clients : newworker[c] # queue[i]
  /\ unused \intersect (done \union dropped) = {}

jobPlaces == <<queue, worker, newworker, unused, done, dropped>>

(* Only six steps move a job. *)
LEMMA JobsMove ==
  ASSUME [Next]_vars
  PROVE  \/ UNCHANGED jobPlaces
         \/ \E c \in Clients : UserAdd(c) \/ AddAppend(c) \/ DestroyFree(c)
         \/ \E w \in Workers : WorkerPop(w) \/ WorkerFinish(w)
<1> USE DEF jobPlaces, vars, lockVars, queueVars, workerVars, clientVars, ghostVars
<1>1. CASE UNCHANGED vars
  BY <1>1
<1>2. CASE UserInit \/ UserDestroy
  BY <1>2 DEF UserInit, PoolInit, UserDestroy, DestroyCall
<1>3. ASSUME NEW c \in Clients, CreateThread(c) \/ AddStep(c) \/ DestroyStep(c)
      PROVE UNCHANGED jobPlaces \/ AddAppend(c) \/ DestroyFree(c)
  BY <1>3 DEF CreateThread, AddStep, AddLock, AddCount, AddSignal, DestroyStep,
              DestroySetFlag, DestroyBroadcast, DestroyJoin
<1>4. ASSUME NEW w \in Workers, WorkerStep(w) \/ SpuriousWakeup(w)
      PROVE UNCHANGED jobPlaces \/ WorkerPop(w) \/ WorkerFinish(w)
  BY <1>4 DEF WorkerStep, WorkerLock, WorkerCheck, CondWait, CondReturn, WorkerTest,
              WorkerTake, SpuriousWakeup
<1> QED BY <1>1, <1>2, <1>3, <1>4 DEF Next, ClientStep, Finished

(* The nodes stay in one place whatever step is taken. *)
LEMMA ExclusiveStep == Inv /\ Exclusive /\ [Next]_vars => Exclusive'
<1> SUFFICES ASSUME Inv, Exclusive, [Next]_vars PROVE Exclusive'
  OBVIOUS
<1> USE DEF Inv, TypeInv, TypeOK, NodesAtHand
<1>1. CASE UNCHANGED jobPlaces
  BY <1>1 DEF jobPlaces, Exclusive
<1>2. ASSUME NEW c \in Clients, UserAdd(c) PROVE Exclusive'
  <2>1. PICK j \in Jobs : AddCall(c, j)
    BY <1>2 DEF UserAdd
  <2> QED BY <2>1 DEF AddCall, Exclusive, queueVars, workerVars
<1>3. ASSUME NEW c \in Clients, AddAppend(c) PROVE Exclusive'
  <2>1. newworker[c] \in Jobs /\ newworker' = [newworker EXCEPT ![c] = NoJob]
    BY <1>3 DEF AddAppend
  <2>2. /\ DOMAIN queue' = 1..(Len(queue) + 1)
        /\ \A i \in DOMAIN queue : queue'[i] = queue[i]
        /\ queue'[Len(queue) + 1] = newworker[c]
    BY <1>3, <2>1 DEF AddAppend
  <2>3. UNCHANGED <<worker, unused, done, dropped>>
    BY <1>3 DEF AddAppend, workerVars, ghostVars
  <2> QED BY <2>1, <2>2, <2>3 DEF Exclusive
<1>4. ASSUME NEW c \in Clients, DestroyFree(c) PROVE Exclusive'
  <2>1. queue' = <<>> /\ UNCHANGED <<worker, newworker, unused, done>>
    BY <1>4 DEF DestroyFree, workerVars
  <2>2. dropped' = dropped \union {queue[i] : i \in DOMAIN queue}
    BY <1>4 DEF DestroyFree
  <2> QED BY <2>1, <2>2 DEF Exclusive
<1>5. ASSUME NEW w \in Workers, WorkerPop(w) PROVE Exclusive'
  <2>1. queue # <<>> /\ worker' = [worker EXCEPT ![w] = queue[1]]
    BY <1>5 DEF WorkerPop
  <2>2. /\ DOMAIN queue' = 1..(Len(queue) - 1)
        /\ \A i \in DOMAIN queue' : queue'[i] = queue[i + 1]
    BY <1>5, <2>1 DEF WorkerPop
  <2>3. UNCHANGED <<newworker, unused, done, dropped>>
    BY <1>5 DEF WorkerPop, clientVars, ghostVars
  <2> QED BY <2>1, <2>2, <2>3 DEF Exclusive
<1>6. ASSUME NEW w \in Workers, WorkerFinish(w) PROVE Exclusive'
  <2>1. worker[w] \in Jobs /\ worker' = [worker EXCEPT ![w] = NoJob]
    BY <1>6 DEF WorkerFinish
  <2>2. done' = done \union {worker[w]} /\ UNCHANGED <<queue, newworker, unused, dropped>>
    BY <1>6 DEF WorkerFinish, queueVars, clientVars
  <2> QED BY <2>1, <2>2 DEF Exclusive
<1> QED BY JobsMove, <1>1, <1>2, <1>3, <1>4, <1>5, <1>6

(* No job is ever executed twice, lost or freed by two threads: it is in   *)
(* one place of thread_pool.c at any time.                                 *)
THEOREM OnePlacePerJob == Spec => []Exclusive
<1>1. Init => Exclusive
  BY DEF Init, Exclusive
<1> QED BY <1>1, ExclusiveStep, Invariance, PTL DEF Spec

AbstractStep == [Abstract!JobNext]_(Abstract!jobVars)

(* What a step shows to the users of the pool is a step of JobPool: linking *)
(* a node submits the job, unlinking starts it, setting the flag closes the *)
(* pool, freeing it drops what is queued; everything else is invisible.     *)
LEMMA StepRefines == Inv /\ Exclusive /\ [Next]_vars => AbstractStep
<1> SUFFICES ASSUME Inv, Exclusive, [Next]_vars PROVE AbstractStep
  OBVIOUS
<1> USE DEF Inv, TypeInv, TypeOK, NodesAtHand
<1>0. /\ AbstractStep <=> Abstract!JobNext \/ UNCHANGED <<queue, Running, done, dropped, Phase>>
      /\ Phase = IF pool = "freed" THEN "closed" ELSE IF shutdown THEN "closing" ELSE "open"
      /\ Phase' = IF pool' = "freed" THEN "closed" ELSE IF shutdown' THEN "closing" ELSE "open"
  BY DEF AbstractStep, Abstract!jobVars, Phase
<1>1. ASSUME UNCHANGED <<queue, done, dropped, shutdown>>, (pool = "freed") = (pool' = "freed"),
             \A w \in Workers : (wpc[w] = "run") = (wpc'[w] = "run"),
             \A w \in Workers : wpc[w] = "run" => worker'[w] = worker[w]
      PROVE  AbstractStep
  <2>1. Running' = Running
    BY <1>1 DEF Running
  <2> QED BY <1>0, <1>1, <2>1
<1>2. CASE UNCHANGED vars
  BY <1>1, <1>2 DEF vars, queueVars, workerVars, ghostVars
<1>3. CASE UserInit \/ UserDestroy
  BY <1>1, <1>3 DEF UserInit, PoolInit, UserDestroy, DestroyCall, queueVars, workerVars, ghostVars
<1>4. ASSUME NEW c \in Clients, UserAdd(c) PROVE AbstractStep
  BY <1>1, <1>4 DEF UserAdd, AddCall, queueVars, workerVars
<1>5. ASSUME NEW c \in Clients, CreateThread(c) PROVE AbstractStep
  BY <1>1, <1>5 DEF CreateThread, Lifecycle, queueVars, ghostVars, Workers
<1>6. ASSUME NEW c \in Clients, AddStep(c) PROVE AbstractStep
  <2>1. CASE AddAppend(c)
    <3>1. newworker[c] \in Jobs /\ queue' = Append(queue, newworker[c])
      BY <2>1 DEF AddAppend
    <3>2. pool = "live" /\ ~shutdown /\ UNCHANGED <<pool, shutdown, wpc, worker, done, dropped>>
      BY <2>1 DEF AddAppend, Lifecycle, workerVars, ghostVars, Closing
    <3>3. Phase = "open" /\ Phase' = Phase /\ Running' = Running
      BY <1>0, <3>2 DEF Running
    <3>4. newworker[c] \notin Abstract!Waiting \union Running \union done \union dropped
      BY <3>1 DEF Exclusive, Abstract!Waiting, Running
    <3>5. Abstract!Submit(newworker[c])
      BY <3>1, <3>2, <3>3, <3>4 DEF Abstract!Submit
    <3> QED BY <1>0, <3>1, <3>5 DEF Abstract!JobNext
  <2>2. CASE AddLock(c) \/ AddCount(c) \/ AddSignal(c)
    BY <1>1, <2>2 DEF AddLock, AddCount, AddSignal, queueVars, workerVars, ghostVars
  <2> QED BY <1>6, <2>1, <2>2 DEF AddStep
<1>7. ASSUME NEW c \in Clients, DestroyStep(c) PROVE AbstractStep
  <2>1. CASE DestroySetFlag(c)
    <3>1. c = Owner /\ ~shutdown
      BY <2>1 DEF DestroySetFlag, Lifecycle, Closing
    <3>2. Phase = "open" /\ Phase' = "closing" /\ Running' = Running
      BY <1>0, <2>1, <3>1 DEF DestroySetFlag, Running, workerVars
    <3>3. Abstract!Close
      BY <2>1, <3>2 DEF DestroySetFlag, Abstract!Close, queueVars, ghostVars
    <3> QED BY <1>0, <3>3 DEF Abstract!JobNext
  <2>2. CASE DestroyFree(c)
    <3>1. c = Owner /\ shutdown /\ \A w \in Workers : wpc[w] = "exited"
      BY <2>2 DEF DestroyFree, Lifecycle, Closing
    <3>2. Phase = "closing" /\ Phase' = "closed"
      BY <1>0, <2>2, <3>1 DEF DestroyFree
    <3>3. Running = {} /\ Running' = Running
      BY <2>2, <3>1 DEF DestroyFree, Running, workerVars
    <3>4. Abstract!Vanish
      BY <2>2, <3>2, <3>3 DEF DestroyFree, Abstract!Vanish, Abstract!Waiting
    <3> QED BY <1>0, <3>4 DEF Abstract!JobNext
  <2>3. CASE DestroyBroadcast(c) \/ DestroyJoin(c)
    BY <1>1, <2>3 DEF DestroyBroadcast, DestroyJoin, queueVars, workerVars, ghostVars
  <2> QED BY <1>7, <2>1, <2>2, <2>3 DEF DestroyStep
<1>8. ASSUME NEW w \in Workers, WorkerStep(w) PROVE AbstractStep
  <2>1. CASE WorkerPop(w)
    <3>1. /\ pool # "freed" /\ UNCHANGED <<pool, shutdown, done, dropped>>
          /\ wpc' = [wpc EXCEPT ![w] = "run"] /\ wpc[w] # "run"
          /\ queue # <<>> /\ worker' = [worker EXCEPT ![w] = Head(queue)]
      BY <2>1 DEF WorkerPop, Lifecycle, ghostVars
    <3>2. Phase # "closed" /\ Phase' = Phase
      BY <1>0, <3>1
    <3>3. Running' = Running \union {Head(queue)}
      BY <3>1 DEF Running
    <3>4. Abstract!Start
      BY <2>1, <3>1, <3>2, <3>3 DEF WorkerPop, Abstract!Start
    <3> QED BY <1>0, <3>4 DEF Abstract!JobNext
  <2>2. CASE WorkerFinish(w)
    <3>1. /\ pool # "freed" /\ UNCHANGED <<pool, shutdown, queue, dropped>>
          /\ wpc' = [wpc EXCEPT ![w] = "lock"] /\ wpc[w] = "run"
          /\ worker' = [worker EXCEPT ![w] = NoJob]
      BY <2>2 DEF WorkerFinish, Lifecycle, queueVars
    <3>2. Phase # "closed" /\ Phase' = Phase
      BY <1>0, <3>1
    <3>3. worker[w] \in Jobs /\ worker[w] \in Running
      BY <3>1 DEF Running
    <3>4. \A v \in Workers : wpc[v] = "run" /\ worker[v] = worker[w] => v = w
      BY DEF Exclusive
    <3>5. Running' = Running \ {worker[w]}
      BY <3>1, <3>4 DEF Running
    <3>6. Abstract!Finish(worker[w])
      BY <2>2, <3>1, <3>2, <3>3, <3>5 DEF WorkerFinish, Abstract!Finish
    <3> QED BY <1>0, <3>3, <3>6 DEF Abstract!JobNext
  <2>3. CASE WorkerStep(w) /\ ~WorkerPop(w) /\ ~WorkerFinish(w)
    BY <1>1, <2>3 DEF WorkerStep, WorkerLock, WorkerCheck, CondWait, CondReturn, WorkerTest,
                      WorkerTake, queueVars, ghostVars
  <2> QED BY <1>8, <2>1, <2>2, <2>3
<1>9. ASSUME NEW w \in Workers, SpuriousWakeup(w) PROVE AbstractStep
  BY <1>1, <1>9 DEF SpuriousWakeup, queueVars, workerVars, ghostVars
<1> QED
  BY <1>2, <1>3, <1>4, <1>5, <1>6, <1>7, <1>8, <1>9 DEF Next, ClientStep, Finished

(* thread_pool.c implements JobPool: jobs start in submission order, each  *)
(* at most once, and the ones that started end before the pool is freed.   *)
THEOREM Refinement == Spec => ImplementsJobPool
<1>1. Init => Abstract!PoolInit
  BY DEF Init, Abstract!PoolInit, Running, Phase
<1>2. Inv /\ Exclusive /\ [Next]_vars => [Abstract!JobNext]_(Abstract!jobVars)
  BY StepRefines DEF AbstractStep
<1> QED BY <1>1, <1>2, Invariance, OnePlacePerJob, PTL DEF Spec, ImplementsJobPool, Abstract!JobSpec
=============================================================================
