------------------------------ MODULE ShmPipe ------------------------------
(***************************************************************************)
(* 03IPC/05shm: writer.c copies its standard input, block by block, into a *)
(* shared memory object; read.c writes each block to its standard output.  *)
(* Two named semaphores hand the buffer over.  The names live in the       *)
(* kernel: a process that is killed leaves them, with the values they had, *)
(* to the next one; unlinking a name leaves the object to those who have   *)
(* it open.  One writer runs at a time; there may be several readers.      *)
(***************************************************************************)
EXTENDS Integers, Sequences

CONSTANTS Readers,     \* the processes that may run read.c
          Blocks,      \* blocks on the writer's standard input, then its end
          MaxCrashes   \* how many times a process is killed

ASSUME BlocksAssumption == Blocks \in Nat
ASSUME MaxCrashesAssumption == MaxCrashes \in Nat

Sems  == {"write", "read"}            \* SEM_WRITE and SEM_READ
Kinds == Sems \union {"shm"}
Ids   == 1..MaxCrashes + 1            \* every writer makes at most one of each

VARIABLES
  name,     \* the object a name stands for, 0 when there is none
  made,     \* objects of each kind made so far
  sem,      \* the values of the semaphores
  count,    \* in each shared memory: the block, 0 at the end, -1 on an error
  sized,    \* shared memories that have their size
  wpc, wobj,         \* the writer's program point and open objects
  rpc, robj,         \* the same for each reader
  next,     \* the next block of the input
  output,   \* what was written to the standard output
  crashes,
  harm      \* history: something happened that the programs do not survive

kernel == <<name, made, sem, count, sized>>
vars == <<kernel, wpc, wobj, rpc, robj, next, output, crashes, harm>>

NoObjects == [k \in Kinds |-> 0]

Init == /\ name = NoObjects
        /\ made = NoObjects
        /\ sem = [k \in Sems |-> [i \in Ids |-> 0]]
        /\ count = [i \in Ids |-> 0]
        /\ sized = {}
        /\ wpc = "off" /\ wobj = NoObjects
        /\ rpc = [r \in Readers |-> "off"] /\ robj = [r \in Readers |-> NoObjects]
        /\ next = 1
        /\ output = <<>>
        /\ crashes = 0
        /\ harm = FALSE

(* Opening, or unlinking, the object of a kind is a program point of its own. *)
Opening(k)   == CASE k = "write" -> "open write" [] k = "read" -> "open read"
                  [] k = "shm" -> "open shm"
Unlinking(k) == CASE k = "write" -> "unlink write" [] k = "read" -> "unlink read"
                  [] k = "shm" -> "unlink shm"

WGoes(from, to) == wpc = from /\ wpc' = to
RGoes(r, from, to) == rpc[r] = from /\ rpc' = [rpc EXCEPT ![r] = to]

-----------------------------------------------------------------------------
(* The writer *)

InitialValue(k) == IF k = "write" THEN 1 ELSE 0

WStart == /\ WGoes("off", "open write")
          /\ UNCHANGED <<kernel, wobj, rpc, robj, next, output, crashes, harm>>

\* O_CREAT | O_EXCL, and without them when the name exists: its value stays.
WOpenSem(k) ==
  /\ WGoes(Opening(k), IF k = "write" THEN "open read" ELSE "open shm")
  /\ IF name[k] # 0
     THEN UNCHANGED <<name, made, sem>> /\ wobj' = [wobj EXCEPT ![k] = name[k]]
     ELSE LET new == made[k] + 1
          IN  /\ name' = [name EXCEPT ![k] = new]
              /\ made' = [made EXCEPT ![k] = new]
              /\ sem' = [sem EXCEPT ![k][new] = InitialValue(k)]
              /\ wobj' = [wobj EXCEPT ![k] = new]
  /\ UNCHANGED <<count, sized, rpc, robj, next, output, crashes, harm>>

WOpenShm ==
  /\ WGoes("open shm", "truncate")
  /\ IF name["shm"] # 0
     THEN UNCHANGED <<name, made>> /\ wobj' = [wobj EXCEPT !["shm"] = name["shm"]]
     ELSE LET new == made["shm"] + 1
          IN  /\ name' = [name EXCEPT !["shm"] = new]
              /\ made' = [made EXCEPT !["shm"] = new]
              /\ wobj' = [wobj EXCEPT !["shm"] = new]
  /\ UNCHANGED <<sem, count, sized, rpc, robj, next, output, crashes, harm>>

WTruncate == /\ WGoes("truncate", "wait")
             /\ sized' = sized \union {wobj["shm"]}
             /\ UNCHANGED <<name, made, sem, count, wobj, rpc, robj, next, output, crashes, harm>>

Down(k, i) == sem[k][i] > 0 /\ sem' = [sem EXCEPT ![k][i] = @ - 1]
Up(k, i)   == sem' = [sem EXCEPT ![k][i] = @ + 1]

WWait == /\ WGoes("wait", "fill")
         /\ Down("write", wobj["write"])
         /\ UNCHANGED <<name, made, count, sized, wobj, rpc, robj, next, output, crashes, harm>>

\* read: a block, the end of the input, or an error that nobody looks at.
WFill ==
  /\ WGoes("fill", "post")
  /\ \/ /\ count' = [count EXCEPT ![wobj["shm"]] = IF next <= Blocks THEN next ELSE 0]
        /\ next' = IF next <= Blocks THEN next + 1 ELSE next
        /\ UNCHANGED harm
     \/ /\ count' = [count EXCEPT ![wobj["shm"]] = -1]
        /\ harm' = TRUE
        /\ UNCHANGED next
  /\ UNCHANGED <<name, made, sem, sized, wobj, rpc, robj, output, crashes>>

\* Mutant of WPost: both semaphores are posted.
WPostBoth == /\ WGoes("post", "test")
             /\ sem' = [sem EXCEPT !["read"][wobj["read"]] = @ + 1,
                                   !["write"][wobj["write"]] = @ + 1]
             /\ UNCHANGED <<name, made, count, sized, wobj, rpc, robj, next, output, crashes, harm>>

WPost == /\ WGoes("post", "test")
         /\ Up("read", wobj["read"])
         /\ UNCHANGED <<name, made, count, sized, wobj, rpc, robj, next, output, crashes, harm>>

\* The count is read again after the semaphore was posted.
WTest == /\ WGoes("test", IF count[wobj["shm"]] = 0 THEN "last" ELSE "wait")
         /\ UNCHANGED <<kernel, wobj, rpc, robj, next, output, crashes, harm>>

\* Mutant of WLast: the writer does not wait for the reader.
WLastNot == /\ WGoes("last", "unlink shm")
            /\ UNCHANGED <<kernel, wobj, rpc, robj, next, output, crashes, harm>>

WLast == /\ WGoes("last", "unlink shm")
         /\ Down("write", wobj["write"])
         /\ UNCHANGED <<name, made, count, sized, wobj, rpc, robj, next, output, crashes, harm>>

\* write_destroy: one name after the other.
WUnlink(k) ==
  /\ WGoes(Unlinking(k), CASE k = "shm"   -> "unlink write"
                             [] k = "write" -> "unlink read"
                             [] k = "read"  -> "done")
  /\ name' = [name EXCEPT ![k] = 0]
  /\ UNCHANGED <<made, sem, count, sized, wobj, rpc, robj, next, output, crashes, harm>>

-----------------------------------------------------------------------------
(* A reader *)

RStart(r) == /\ RGoes(r, "off", "open write")
             /\ UNCHANGED <<kernel, wpc, wobj, robj, next, output, crashes, harm>>

\* A name that does not exist, or a memory without a size: the reader leaves.
ROpen(r, k) ==
  /\ rpc[r] = Opening(k)
  /\ IF name[k] # 0
     THEN /\ robj' = [robj EXCEPT ![r][k] = name[k]]
          /\ rpc' = [rpc EXCEPT ![r] = CASE k = "write" -> "open read"
                                          [] k = "read"  -> "open shm"
                                          [] k = "shm"   -> "map"]
     ELSE rpc' = [rpc EXCEPT ![r] = "off"] /\ UNCHANGED robj
  /\ UNCHANGED <<kernel, wpc, wobj, next, output, crashes, harm>>

RMap(r) == /\ RGoes(r, "map", IF robj[r]["shm"] \in sized THEN "wait" ELSE "off")
           /\ UNCHANGED <<kernel, wpc, wobj, robj, next, output, crashes, harm>>

RWait(r) == /\ RGoes(r, "wait", "write")
            /\ Down("read", robj[r]["read"])
            /\ UNCHANGED <<name, made, count, sized, wpc, wobj, robj, next, output, crashes, harm>>

\* write of no bytes returns 0, and the next post is the last one.  A count of
\* -1 is no size that write accepts: nothing is written.
RWrite(r) ==
  LET n == count[robj[r]["shm"]]
  IN  /\ RGoes(r, "write", IF n = 0 THEN "last post" ELSE "post")
      /\ \/ output' = (IF n > 0 THEN Append(output, n) ELSE output) /\ UNCHANGED harm
         \/ n > 0 /\ output' = output /\ harm' = TRUE
      /\ UNCHANGED <<kernel, wpc, wobj, robj, next, crashes>>

\* Mutant of RPost: the reader gives the token back to the other readers.
RPostRead(r) ==
  /\ RGoes(r, "post", "wait") \/ RGoes(r, "last post", "end")
  /\ Up("read", robj[r]["read"])
  /\ UNCHANGED <<name, made, count, sized, wpc, wobj, robj, next, output, crashes, harm>>

\* Mutant of RPost: the reader leaves the loop before the post.
RPostNotLast(r) ==
  /\ \/ RGoes(r, "post", "wait") /\ Up("write", robj[r]["write"])
     \/ RGoes(r, "last post", "end") /\ UNCHANGED sem
  /\ UNCHANGED <<name, made, count, sized, wpc, wobj, robj, next, output, crashes, harm>>

RPost(r) ==
  /\ RGoes(r, "post", "wait") \/ RGoes(r, "last post", "end")
  /\ Up("write", robj[r]["write"])
  /\ UNCHANGED <<name, made, count, sized, wpc, wobj, robj, next, output, crashes, harm>>

-----------------------------------------------------------------------------
(* Killed processes: the kernel closes what they have open, no more.       *)

\* Where a process holds neither the buffer nor a half removed set of names.
Harmless == {"open write", "open read", "open shm", "truncate", "map", "wait"}

Crash(at) == /\ crashes < MaxCrashes
             /\ crashes' = crashes + 1
             /\ harm' = (harm \/ at \notin Harmless)
             /\ UNCHANGED <<kernel, next, output>>

WCrash == /\ wpc \notin {"off", "done"}
          /\ wpc' = "off" /\ wobj' = NoObjects
          /\ Crash(wpc)
          /\ UNCHANGED <<rpc, robj>>

RCrash(r) == /\ rpc[r] \notin {"off", "end"}
             /\ rpc' = [rpc EXCEPT ![r] = "off"] /\ robj' = [robj EXCEPT ![r] = NoObjects]
             /\ Crash(rpc[r])
             /\ UNCHANGED <<wpc, wobj>>

Writer == \/ WStart \/ WOpenShm \/ WTruncate
          \/ \E k \in Sems : WOpenSem(k)
          \/ WWait \/ WFill \/ WPost \/ WTest \/ WLast
          \/ \E k \in Kinds : WUnlink(k)

Reader(r) == \/ RStart(r) \/ RMap(r)
             \/ \E k \in Kinds : ROpen(r, k)
             \/ RWait(r) \/ RWrite(r) \/ RPost(r)

Next == \/ Writer \/ WCrash
        \/ \E r \in Readers : Reader(r) \/ RCrash(r)

Spec == Init /\ [][Next]_vars

(* Both programs run, and are started again when they were killed.         *)
FairSpec == Spec /\ WF_vars(Writer) /\ \A r \in Readers : WF_vars(Reader(r))

-----------------------------------------------------------------------------
(* Properties *)

WPoints == {"off", "open write", "open read", "open shm", "truncate", "wait", "fill", "post",
            "test", "last", "unlink shm", "unlink write", "unlink read", "done"}
RPoints == {"off", "open write", "open read", "open shm", "map", "wait", "write", "post",
            "last post", "end"}

TypeOK ==
  /\ name \in [Kinds -> 0..MaxCrashes + 1]
  /\ made \in [Kinds -> 0..MaxCrashes + 1]
  /\ sem \in [Sems -> [Ids -> Nat]]
  /\ count \in [Ids -> -1..Blocks]
  /\ sized \subseteq Ids
  /\ wpc \in WPoints
  /\ wobj \in [Kinds -> 0..MaxCrashes + 1]
  /\ rpc \in [Readers -> RPoints]
  /\ robj \in [Readers -> [Kinds -> 0..MaxCrashes + 1]]
  /\ next \in 1..Blocks + 1
  /\ output \in Seq(1..Blocks)
  /\ crashes \in 0..MaxCrashes
  /\ harm \in BOOLEAN

WriterHolds == wpc \in {"fill", "post", "unlink shm", "unlink write", "unlink read"}
ReaderHolds(r) == rpc[r] \in {"write", "post", "last post"}

(* The variables keep their types; whoever is killed and whatever it leaves *)
(* behind, a buffer is in the hands of one process: it is never read while  *)
(* it is written, and the writer removes it only when no reader uses it.    *)
(* Not even two buffers, an old one and its successor, are in use at once.  *)
BufferExclusive ==
  /\ TypeOK
  /\ \A r \in Readers : ReaderHolds(r) =>
       /\ ~WriterHolds
       /\ \A q \in Readers \ {r} : ~ReaderHolds(q)

(* The blocks come out in the order they went in, none of them twice, also  *)
(* when processes are killed and their successors find old semaphores.      *)
OutputInOrder == \A i, j \in 1..Len(output) : i < j => output[i] < output[j]

(* A process killed while it has neither the buffer nor begun to remove the *)
(* names does no harm: its successor goes on, and every block of the input  *)
(* is written out, by whichever reader gets it.                             *)
AllArrives == <>harm \/ <>[](output = [i \in 1..Blocks |-> i])

(* The writer waits for the reader (writer.c:98) and then ends: the end of  *)
(* the input ends the writer and a reader, and leaves no name behind.       *)
BothEnd ==
  <>harm \/ <>[](wpc = "done" /\ name = NoObjects /\ \E r \in Readers : rpc[r] = "end")
=============================================================================
