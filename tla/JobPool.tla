------------------------------ MODULE JobPool ------------------------------
(***************************************************************************)
(* What a pool of threads promises to its users, with no thread, lock or   *)
(* condition variable in sight: jobs start in the order in which they were *)
(* submitted, no job starts twice, a job that started runs to its end      *)
(* before the pool is gone, and the jobs that never started are dropped    *)
(* when it goes.  ThreadPool.tla (thread_pool.c) implements this.          *)
(***************************************************************************)
EXTENDS Sequences, FiniteSets

CONSTANT Jobs

VARIABLES pending,   \* jobs submitted and not started, oldest first
          running,   \* jobs being executed
          done,      \* jobs executed to their end
          dropped,   \* jobs thrown away unexecuted
          phase      \* "open", then "closing" while the threads leave, then "closed"

jobVars == <<pending, running, done, dropped, phase>>

Waiting == {pending[i] : i \in DOMAIN pending}

PoolInit == /\ pending = <<>>
            /\ running = {}
            /\ done = {}
            /\ dropped = {}
            /\ phase = "open"

Submit(j) == /\ phase = "open"
             /\ j \notin Waiting \union running \union done \union dropped
             /\ pending' = Append(pending, j)
             /\ UNCHANGED <<running, done, dropped, phase>>

\* A waiting job may still start while the pool closes: the code allows it.
Start == /\ phase # "closed"
         /\ pending # <<>>
         /\ pending' = Tail(pending)
         /\ running' = running \union {Head(pending)}
         /\ UNCHANGED <<done, dropped, phase>>

Finish(j) == /\ phase # "closed"
             /\ j \in running
             /\ running' = running \ {j}
             /\ done' = done \union {j}
             /\ UNCHANGED <<pending, dropped, phase>>

Close == /\ phase = "open"
         /\ phase' = "closing"
         /\ UNCHANGED <<pending, running, done, dropped>>

Vanish == /\ phase = "closing"
          /\ running = {}
          /\ phase' = "closed"
          /\ dropped' = dropped \union Waiting
          /\ pending' = <<>>
          /\ UNCHANGED <<running, done>>

JobNext == \/ \E j \in Jobs : Submit(j) \/ Finish(j)
           \/ Start
           \/ Close
           \/ Vanish

JobSpec == PoolInit /\ [][JobNext]_jobVars
============================================================================
