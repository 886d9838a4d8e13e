---------------------------- MODULE ShmPipeProofs ----------------------------
(***************************************************************************)
(* Proofs about ShmPipe, for any number of readers, blocks and kills.      *)
(*                                                                         *)
(* Neither property is inductive.  What keeps the buffer exclusive is that *)
(* there is at most one token in the world, whatever generations of        *)
(* semaphores exist (OneToken): a kill can destroy it, and a new one is    *)
(* made only with a new SEM_WRITE, when no token is left.  What keeps the  *)
(* blocks in order is that only the memory with a name can hold a block,   *)
(* and that a token in SEM_READ stands for a block nobody has written out  *)
(* (Ordered).  Made, Named and Opened say which objects a process has.     *)
(***************************************************************************)
EXTENDS ShmPipe, TLAPS

USE BlocksAssumption, MaxCrashesAssumption

(* The kinds of objects, and the numbers objects may have. *)
LEMMA Members ==
  /\ Sems \subseteq Kinds /\ {"write", "read"} \subseteq Sems /\ "shm" \in Kinds
  /\ \A k \in Sems : k = "write" \/ k = "read"
  /\ \A k \in Kinds : k \in Sems \/ k = "shm"
  /\ \A i : i \in Ids <=> i \in 0..MaxCrashes + 1 /\ i # 0
  /\ \A i \in Ids : i \in Nat
  BY DEF Sems, Kinds, Ids

(* Where the writer has not yet opened its object of a kind. *)
NotYet(k) == {"off", "open write"}
             \union (IF k \in {"read", "shm"} THEN {"open read"} ELSE {})
             \union (IF k = "shm" THEN {"open shm"} ELSE {})

(* A writer makes at most one object of each kind, and only a kill brings  *)
(* another writer.                                                         *)
Made == \A k \in Kinds : /\ made[k] <= IF wpc \in NotYet(k) THEN crashes ELSE crashes + 1
                         /\ name[k] <= made[k]

(* Between its loop and the removal of a name the writer has the object    *)
(* that the name stands for.                                               *)
InLoop == {"truncate", "wait", "fill", "post", "test", "last", "unlink shm"}
Keeps(k) == InLoop
            \union (IF k = "write" THEN {"open read"} ELSE {})
            \union (IF k \in Sems THEN {"open shm", "unlink write"} ELSE {})
            \union (IF k = "read" THEN {"unlink read"} ELSE {})
Named == \A k \in Kinds : wpc \in Keeps(k) => name[k] # 0 /\ wobj[k] = name[k]

(* A reader past the open of an object has one. *)
Opened == \A r \in Readers :
  /\ rpc[r] \notin {"off", "open write"} => robj[r]["write"] # 0
  /\ rpc[r] \notin {"off", "open write", "open read"} => robj[r]["read"] # 0
  /\ rpc[r] \notin {"off", "open write", "open read", "open shm"} => robj[r]["shm"] # 0

(* One token at most: in a semaphore, in the writer's hands or a reader's; *)
(* and none once SEM_WRITE has lost its name, but for the writer's.        *)
OneToken ==
  /\ \A k \in Sems, i \in Ids : sem[k][i] # 0 =>
       /\ sem[k][i] = 1 /\ name["write"] # 0 /\ ~WriterHolds
       /\ \A r \in Readers : ~ReaderHolds(r)
       /\ \A h \in Sems, j \in Ids : sem[h][j] # 0 => h = k /\ j = i
  /\ \A r \in Readers : ReaderHolds(r) =>
       name["write"] # 0 /\ ~WriterHolds /\ \A q \in Readers : ReaderHolds(q) => q = r

(* A block may be in the buffer that no reader has written out.            *)
Unread == \/ wpc = "post"
          \/ \E i \in Ids : sem["read"][i] # 0
          \/ \E r \in Readers : rpc[r] = "write"

(* Every memory but the one with a name is empty; what its count says was  *)
(* read from the input, and written out only when no token stands for it.  *)
Ordered ==
  /\ \A i \in 1..Len(output) : output[i] < next
  /\ \A s \in Ids : count[s] > 0 =>
       /\ s = name["shm"] /\ count[s] < next
       /\ Unread => \A i \in 1..Len(output) : output[i] < count[s]
  /\ wpc \in {"last", "unlink shm"} => count[wobj["shm"]] = 0

Inv == TypeOK /\ Made /\ Named /\ Opened /\ OneToken /\ Ordered /\ OutputInOrder

(* Where a process uses an object it has one. *)
LEMMA HasObjects ==
  ASSUME TypeOK, Named, Opened
  PROVE  /\ wpc \in InLoop => \A k \in Kinds : wobj[k] \in Ids /\ wobj[k] = name[k]
         /\ \A r \in Readers : rpc[r] \in {"map", "wait", "write", "post", "last post"} =>
              \A k \in Kinds : robj[r][k] \in Ids
<1>1. \A i \in 0..MaxCrashes + 1 : i # 0 => i \in Ids
  BY Members
<1>2. ASSUME wpc \in InLoop, NEW k \in Kinds PROVE wobj[k] \in Ids /\ wobj[k] = name[k]
  BY <1>1, <1>2 DEF TypeOK, Named, Keeps
<1>3. ASSUME NEW r \in Readers, rpc[r] \in {"map", "wait", "write", "post", "last post"},
             NEW k \in Kinds
      PROVE  robj[r][k] \in Ids
  <2>1. robj[r][k] \in 0..MaxCrashes + 1
    BY DEF TypeOK
  <2>2. robj[r][k] # 0
    BY <1>3, Members DEF Opened
  <2> QED BY <1>1, <2>1, <2>2
<1> QED BY <1>2, <1>3

(* An object made by a writer that has none of its kind is a new one. *)
LEMMA NewObject ==
  ASSUME TypeOK, Made, NEW k \in Kinds, wpc \in NotYet(k)
  PROVE  made[k] + 1 \in Ids /\ made[k] + 1 \in 0..MaxCrashes + 1
  BY Members DEF TypeOK, Made

(* Semaphores keep their type: they are lowered only above zero. *)
LEMMA SemTypes ==
  ASSUME TypeOK, NEW k \in Sems, NEW i \in Ids, Down(k, i) \/ Up(k, i)
  PROVE  sem' \in [Sems -> [Ids -> Nat]]
<1>1. sem[k] \in [Ids -> Nat] /\ sem[k][i] \in Nat
  BY DEF TypeOK
<1>2. CASE Down(k, i)
  <2>1. [sem[k] EXCEPT ![i] = @ - 1] \in [Ids -> Nat]
    BY <1>1, <1>2 DEF Down
  <2> QED BY <1>2, <2>1 DEF Down, TypeOK
<1>3. CASE Up(k, i)
  <2>1. [sem[k] EXCEPT ![i] = @ + 1] \in [Ids -> Nat]
    BY <1>1
  <2> QED BY <1>3, <2>1 DEF Up, TypeOK
<1> QED BY <1>2, <1>3

(* What opening an object does, whichever it is. *)
LEMMA WriterOpens ==
  ASSUME TypeOK, WOpenShm \/ \E k \in Sems : WOpenSem(k)
  PROVE  \E k \in Kinds :
           /\ wpc \in NotYet(k) \ Keeps(k) /\ wpc' \in WPoints \ NotYet(k)
           /\ \A j \in Kinds \ {k} : /\ wpc \in NotYet(j) <=> wpc' \in NotYet(j)
                                     /\ wpc' \in Keeps(j) => wpc \in Keeps(j)
           /\ \/ /\ name[k] # 0 /\ UNCHANGED <<name, made>>
                 /\ wobj' = [wobj EXCEPT ![k] = name[k]]
              \/ /\ name' = [name EXCEPT ![k] = made[k] + 1]
                 /\ made' = [made EXCEPT ![k] = made[k] + 1]
                 /\ wobj' = [wobj EXCEPT ![k] = made[k] + 1]
<1> DEFINE Moves(k) == /\ wpc \in NotYet(k) \ Keeps(k) /\ wpc' \in WPoints \ NotYet(k)
                       /\ \A j \in Kinds \ {k} : /\ wpc \in NotYet(j) <=> wpc' \in NotYet(j)
                                                 /\ wpc' \in Keeps(j) => wpc \in Keeps(j)
           Gets(k)  == \/ /\ name[k] # 0 /\ UNCHANGED <<name, made>>
                          /\ wobj' = [wobj EXCEPT ![k] = name[k]]
                       \/ /\ name' = [name EXCEPT ![k] = made[k] + 1]
                          /\ made' = [made EXCEPT ![k] = made[k] + 1]
                          /\ wobj' = [wobj EXCEPT ![k] = made[k] + 1]
<1>1. CASE WOpenShm
  <2>1. "shm" \in Kinds /\ Moves("shm")
    BY <1>1, Members DEF WOpenShm, WGoes, NotYet, Keeps, InLoop, WPoints
  <2>2. Gets("shm")
    BY <1>1 DEF WOpenShm
  <2> QED BY <2>1, <2>2
<1>2. ASSUME NEW k \in Sems, WOpenSem(k) PROVE k \in Kinds /\ Moves(k) /\ Gets(k)
  <2>1. k \in Kinds /\ Moves(k)
    BY <1>2, Members DEF WOpenSem, WGoes, Opening, NotYet, Keeps, InLoop, WPoints
  <2>2. Gets(k)
    BY <1>2 DEF WOpenSem
  <2> QED BY <2>1, <2>2
<1> QED BY <1>1, <1>2

(* The objects a writer opens have numbers in range. *)
LEMMA ObjectTypes ==
  ASSUME TypeOK, Made, WOpenShm \/ \E k \in Sems : WOpenSem(k)
  PROVE  /\ wpc' \in WPoints /\ name' \in [Kinds -> 0..MaxCrashes + 1]
         /\ made' \in [Kinds -> 0..MaxCrashes + 1] /\ wobj' \in [Kinds -> 0..MaxCrashes + 1]
<1>1. PICK k \in Kinds :
        /\ wpc \in NotYet(k) /\ wpc' \in WPoints
        /\ \/ UNCHANGED <<name, made>> /\ wobj' = [wobj EXCEPT ![k] = name[k]]
           \/ /\ name' = [name EXCEPT ![k] = made[k] + 1]
              /\ made' = [made EXCEPT ![k] = made[k] + 1]
              /\ wobj' = [wobj EXCEPT ![k] = made[k] + 1]
  BY WriterOpens
<1>2. name[k] \in 0..MaxCrashes + 1 /\ made[k] + 1 \in 0..MaxCrashes + 1
  BY <1>1, NewObject DEF TypeOK
<1> QED BY <1>1, <1>2 DEF TypeOK

(* What unlinking a name does, whichever it is. *)
LEMMA WriterUnlinks ==
  ASSUME TypeOK, NEW k \in Kinds, WUnlink(k)
  PROVE  /\ wpc = Unlinking(k) /\ name' = [name EXCEPT ![k] = 0]
         /\ wpc' \in {"unlink write", "unlink read", "done"}
         /\ UNCHANGED <<made, sem, count, sized, wobj, rpc, robj, next, output, crashes, harm>>
         /\ \A j \in Kinds : wpc' \in Keeps(j) => j # k /\ wpc \in Keeps(j)
         /\ \A j \in Kinds : wpc \notin NotYet(j) /\ wpc' \notin NotYet(j)
<1>1. wpc = Unlinking(k) /\ name' = [name EXCEPT ![k] = 0]
  BY DEF WUnlink, WGoes
<1>2. UNCHANGED <<made, sem, count, sized, wobj, rpc, robj, next, output, crashes, harm>>
  BY DEF WUnlink
<1>3. \/ k = "shm" /\ wpc = "unlink shm" /\ wpc' = "unlink write"
      \/ k = "write" /\ wpc = "unlink write" /\ wpc' = "unlink read"
      \/ k = "read" /\ wpc = "unlink read" /\ wpc' = "done"
  BY Members DEF WUnlink, WGoes, Unlinking
<1>4. \A j \in Kinds : wpc' \in Keeps(j) => j # k /\ wpc \in Keeps(j)
  BY <1>3, Members DEF Keeps, InLoop
<1>5. \A j \in Kinds : wpc \notin NotYet(j) /\ wpc' \notin NotYet(j)
  BY <1>3, Members DEF NotYet
<1> QED BY <1>1, <1>2, <1>3, <1>4, <1>5

(* Every variable keeps its type; the number of an object is never past    *)
(* the last one that can be made.                                          *)
LEMMA TypeStep == TypeOK /\ Made /\ Named /\ Opened /\ [Next]_vars => TypeOK'
<1> SUFFICES ASSUME TypeOK, Made, Named, Opened, [Next]_vars PROVE TypeOK'
  OBVIOUS
<1> USE DEF WGoes, RGoes, kernel
<1>1. CASE UNCHANGED vars
  BY <1>1 DEF vars, TypeOK
<1>2. CASE WStart
  BY <1>2 DEF WStart, WPoints, TypeOK
<1>3. CASE WOpenShm
  <2>1. /\ wpc' \in WPoints /\ name' \in [Kinds -> 0..MaxCrashes + 1]
        /\ made' \in [Kinds -> 0..MaxCrashes + 1] /\ wobj' \in [Kinds -> 0..MaxCrashes + 1]
    BY <1>3, ObjectTypes
  <2> QED BY <1>3, <2>1 DEF WOpenShm, TypeOK
<1>4. CASE WTruncate
  BY <1>4, Members, HasObjects DEF WTruncate, InLoop, WPoints, TypeOK
<1>5. CASE WWait
  <2>1. sem' \in [Sems -> [Ids -> Nat]]
    BY <1>5, Members, HasObjects, SemTypes DEF WWait, InLoop
  <2> QED BY <1>5, <2>1 DEF WWait, WPoints, TypeOK
<1>6. CASE WFill
  <2>1. wobj["shm"] \in Ids
    BY <1>6, Members, HasObjects DEF WFill, InLoop
  <2>2. count' \in [Ids -> -1..Blocks]
    <3>1. (IF next <= Blocks THEN next ELSE 0) \in -1..Blocks /\ -1 \in -1..Blocks
      BY <1>6 DEF TypeOK
    <3>2. \E n \in -1..Blocks : count' = [count EXCEPT ![wobj["shm"]] = n]
      BY <1>6, <3>1 DEF WFill
    <3> QED BY <1>6, <3>2 DEF TypeOK
  <2>3. next' \in 1..Blocks + 1
    BY <1>6 DEF WFill, TypeOK
  <2>4. harm' \in BOOLEAN
    BY <1>6 DEF WFill, TypeOK
  <2>5. wpc' \in WPoints
    BY <1>6 DEF WFill, WPoints, TypeOK
  <2> QED BY <1>6, <2>2, <2>3, <2>4, <2>5 DEF WFill, TypeOK
<1>7. CASE WPost
  <2>1. sem' \in [Sems -> [Ids -> Nat]]
    BY <1>7, Members, HasObjects, SemTypes DEF WPost, InLoop
  <2> QED BY <1>7, <2>1 DEF WPost, WPoints, TypeOK
<1>8. CASE WTest
  BY <1>8 DEF WTest, WPoints, TypeOK
<1>9. CASE WLast
  <2>1. sem' \in [Sems -> [Ids -> Nat]]
    BY <1>9, Members, HasObjects, SemTypes DEF WLast, InLoop
  <2> QED BY <1>9, <2>1 DEF WLast, WPoints, TypeOK
<1>10. ASSUME NEW k \in Sems, WOpenSem(k) PROVE TypeOK'
  <2>1. /\ wpc' \in WPoints /\ name' \in [Kinds -> 0..MaxCrashes + 1]
        /\ made' \in [Kinds -> 0..MaxCrashes + 1] /\ wobj' \in [Kinds -> 0..MaxCrashes + 1]
    BY <1>10, ObjectTypes
  <2>2. sem' \in [Sems -> [Ids -> Nat]]
    <3>1. [sem[k] EXCEPT ![made[k] + 1] = InitialValue(k)] \in [Ids -> Nat]
      BY DEF InitialValue, TypeOK
    <3> QED BY <1>10, <3>1 DEF WOpenSem, TypeOK
  <2> QED BY <1>10, <2>1, <2>2 DEF WOpenSem, TypeOK
<1>11. ASSUME NEW k \in Kinds, WUnlink(k) PROVE TypeOK'
  <2>1. name' \in [Kinds -> 0..MaxCrashes + 1] /\ wpc' \in WPoints
    <3>1. name' = [name EXCEPT ![k] = 0] /\ wpc' \in {"unlink write", "unlink read", "done"}
      BY <1>11, WriterUnlinks
    <3>2. 0 \in 0..MaxCrashes + 1
      OBVIOUS
    <3> QED BY <3>1, <3>2 DEF WPoints, TypeOK
  <2> QED BY <1>11, <2>1, WriterUnlinks DEF TypeOK
<1>12. CASE WCrash
  <2>1. wpc' \in WPoints /\ wobj' \in [Kinds -> 0..MaxCrashes + 1]
    BY <1>12 DEF WCrash, WPoints, NoObjects
  <2>2. crashes' \in 0..MaxCrashes /\ UNCHANGED <<kernel, next, output>>
    BY <1>12 DEF WCrash, Crash, TypeOK
  <2>3. harm' \in BOOLEAN
    BY <1>12 DEF WCrash, Crash, TypeOK
  <2> QED BY <1>12, <2>1, <2>2, <2>3 DEF WCrash, TypeOK, kernel
<1>13. ASSUME NEW r \in Readers, RStart(r) PROVE TypeOK'
  BY <1>13 DEF RStart, RPoints, TypeOK
<1>14. ASSUME NEW r \in Readers, RMap(r) PROVE TypeOK'
  BY <1>14 DEF RMap, RPoints, TypeOK
<1>15. ASSUME NEW r \in Readers, RWait(r) PROVE TypeOK'
  <2>1. sem' \in [Sems -> [Ids -> Nat]]
    BY <1>15, Members, HasObjects, SemTypes DEF RWait
  <2> QED BY <1>15, <2>1 DEF RWait, RPoints, TypeOK
<1>16. ASSUME NEW r \in Readers, RWrite(r) PROVE TypeOK'
  <2>1. count[robj[r]["shm"]] \in -1..Blocks
    BY <1>16, Members, HasObjects DEF RWrite, TypeOK
  <2>2. output' \in Seq(1..Blocks)
    <3>1. output \in Seq(1..Blocks)
      BY <1>16 DEF TypeOK
    <3>2. ASSUME count[robj[r]["shm"]] > 0
          PROVE  Append(output, count[robj[r]["shm"]]) \in Seq(1..Blocks)
      <4>1. count[robj[r]["shm"]] \in 1..Blocks
        BY <1>16, <2>1, <3>2
      <4> QED BY <1>16, <3>1, <4>1
    <3> QED BY <1>16, <3>1, <3>2 DEF RWrite
  <2>3. harm' \in BOOLEAN
    BY <1>16 DEF RWrite, TypeOK
  <2>4. rpc' \in [Readers -> RPoints]
    BY <1>16 DEF RWrite, RPoints, TypeOK
  <2> QED BY <1>16, <2>2, <2>3, <2>4 DEF RWrite, TypeOK
<1>17. ASSUME NEW r \in Readers, RPost(r) PROVE TypeOK'
  <2>1. sem' \in [Sems -> [Ids -> Nat]]
    BY <1>17, Members, HasObjects, SemTypes DEF RPost
  <2> QED BY <1>17, <2>1 DEF RPost, RPoints, TypeOK
<1>18. ASSUME NEW r \in Readers, NEW k \in Kinds, ROpen(r, k) PROVE TypeOK'
  <2>1. robj' \in [Readers -> [Kinds -> 0..MaxCrashes + 1]]
    <3>1. robj[r] \in [Kinds -> 0..MaxCrashes + 1] /\ name[k] \in 0..MaxCrashes + 1
      BY <1>18 DEF TypeOK
    <3>2. [robj[r] EXCEPT ![k] = name[k]] \in [Kinds -> 0..MaxCrashes + 1]
      BY <1>18, <3>1
    <3> QED BY <1>18, <3>2 DEF ROpen, TypeOK
  <2>2. rpc' \in [Readers -> RPoints]
    <3>1. CASE name[k] # 0
      <4>1. rpc' = [rpc EXCEPT ![r] = IF k = "write" THEN "open read" ELSE IF k = "read" THEN "open shm" ELSE "map"]
         BY <1>18, <3>1, Members DEF ROpen
      <4> QED BY <1>18, <4>1 DEF TypeOK, RPoints
    <3>2. CASE name[k] = 0
      BY <1>18, <3>2 DEF ROpen, RPoints, TypeOK
    <3> QED BY <1>18, <3>1, <3>2
  <2> QED BY <1>18, <2>1, <2>2 DEF ROpen, TypeOK
<1>19. ASSUME NEW r \in Readers, RCrash(r) PROVE TypeOK'
  <2>1. rpc' \in [Readers -> RPoints]
    BY <1>19 DEF RCrash, RPoints, TypeOK
  <2>1a. NoObjects \in [Kinds -> 0..MaxCrashes + 1] 
    BY <1>19 DEF NoObjects
  <2>1b. robj' \in [Readers -> [Kinds -> 0..MaxCrashes + 1]]
    BY <1>19, <2>1a DEF RCrash, TypeOK
  <2>2. crashes' \in 0..MaxCrashes /\ UNCHANGED <<kernel, next, output>>
    BY <1>19 DEF RCrash, Crash, TypeOK
  <2>3. harm' \in BOOLEAN
    BY <1>19 DEF RCrash, Crash, TypeOK
  <2> QED BY <1>19, <2>1, <2>1b, <2>2, <2>3 DEF RCrash, TypeOK, kernel
<1> QED
  BY <1>1, <1>2, <1>3, <1>4, <1>5, <1>6, <1>7, <1>8, <1>9, <1>10, <1>11, <1>12, <1>13,
     <1>14, <1>15, <1>16, <1>17, <1>18, <1>19 DEF Next, Writer, Reader

(* Opening makes at most the one object that the writer did not have. *)
LEMMA MadeByOpening ==
  ASSUME TypeOK, Made, crashes' = crashes, WOpenShm \/ \E k \in Sems : WOpenSem(k)
  PROVE  Made'
<1>1. PICK k \in Kinds :
        /\ wpc \in NotYet(k) /\ wpc' \notin NotYet(k)
        /\ \A j \in Kinds \ {k} : wpc \in NotYet(j) <=> wpc' \in NotYet(j)
        /\ \/ UNCHANGED <<name, made>>
           \/ /\ name' = [name EXCEPT ![k] = made[k] + 1]
              /\ made' = [made EXCEPT ![k] = made[k] + 1]
  BY WriterOpens
<1>2. \A j \in Kinds : made[j] \in Nat /\ name[j] \in Nat /\ crashes \in Nat
  BY DEF TypeOK
<1>3. made[k] <= crashes /\ name[k] <= made[k]
  BY <1>1 DEF Made
<1>4. made'[k] <= crashes + 1 /\ name'[k] <= made'[k]
  BY <1>1, <1>2, <1>3 DEF TypeOK
<1>5. ASSUME NEW j \in Kinds \ {k} PROVE made'[j] = made[j] /\ name'[j] = name[j]
  BY <1>1 DEF TypeOK
<1> QED BY <1>1, <1>4, <1>5 DEF Made

(* No more objects are made than there were writers. *)
LEMMA MadeStep == TypeOK /\ Made /\ [Next]_vars => Made'
<1> SUFFICES ASSUME TypeOK, Made, [Next]_vars PROVE Made'
  OBVIOUS
<1> USE DEF WGoes, RGoes, kernel
<1>1. CASE UNCHANGED vars
  BY <1>1 DEF vars, Made
<1>2. CASE WStart
  BY <1>2 DEF WStart, Made, NotYet
<1>3. CASE WOpenShm
  BY <1>3, MadeByOpening DEF WOpenShm
<1>4. CASE WTruncate
  BY <1>4 DEF WTruncate, Made, NotYet
<1>5. CASE WWait
  BY <1>5 DEF WWait, Made, NotYet
<1>6. CASE WFill
  BY <1>6 DEF WFill, Made, NotYet
<1>7. CASE WPost
  BY <1>7 DEF WPost, Made, NotYet
<1>8. CASE WTest
  BY <1>8 DEF WTest, Made, NotYet
<1>9. CASE WLast
  BY <1>9 DEF WLast, Made, NotYet
<1>10. ASSUME NEW k \in Sems, WOpenSem(k) PROVE Made'
  BY <1>10, MadeByOpening DEF WOpenSem
<1>11. ASSUME NEW k \in Kinds, WUnlink(k) PROVE Made'
  <2>1. /\ made' = made /\ crashes' = crashes /\ name' = [name EXCEPT ![k] = 0]
        /\ \A j \in Kinds : wpc \notin NotYet(j) /\ wpc' \notin NotYet(j)
    BY <1>11, WriterUnlinks
  <2>2. ASSUME NEW j \in Kinds PROVE made[j] \in Nat /\ (name'[j] = name[j] \/ name'[j] = 0)
    BY <2>1 DEF TypeOK
  <2> QED BY <2>1, <2>2 DEF Made
<1>12. CASE WCrash
  <2>1. \A j \in Kinds : made[j] \in Nat /\ crashes \in Nat
    BY <1>12 DEF TypeOK
  <2>2. wpc' = "off" /\ crashes' = crashes + 1 /\ UNCHANGED <<made, name>>
    BY <1>12 DEF WCrash, Crash, kernel
  <2>3. \A j \in Kinds : wpc' \in NotYet(j)
    BY <1>12, <2>2 DEF NotYet
  <2> QED BY <1>12, <2>1, <2>2, <2>3 DEF Made
<1>13. ASSUME NEW r \in Readers, RStart(r) PROVE Made'
  BY <1>13 DEF RStart, Made
<1>14. ASSUME NEW r \in Readers, RMap(r) PROVE Made'
  BY <1>14 DEF RMap, Made
<1>15. ASSUME NEW r \in Readers, RWait(r) PROVE Made'
  BY <1>15 DEF RWait, Made
<1>16. ASSUME NEW r \in Readers, RWrite(r) PROVE Made'
  BY <1>16 DEF RWrite, Made
<1>17. ASSUME NEW r \in Readers, RPost(r) PROVE Made'
  BY <1>17 DEF RPost, Made
<1>18. ASSUME NEW r \in Readers, NEW k \in Kinds, ROpen(r, k) PROVE Made'
  BY <1>18 DEF ROpen, Made
<1>19. ASSUME NEW r \in Readers, RCrash(r) PROVE Made'
  <2>1. \A j \in Kinds : made[j] \in Nat /\ crashes \in Nat
    BY <1>19 DEF TypeOK
  <2>2. wpc' = wpc /\ crashes' = crashes + 1 /\ UNCHANGED <<made, name>>
    BY <1>19 DEF RCrash, Crash, kernel
  <2> QED BY <1>19, <2>1, <2>2 DEF Made
<1> QED
  BY <1>1, <1>2, <1>3, <1>4, <1>5, <1>6, <1>7, <1>8, <1>9, <1>10, <1>11, <1>12, <1>13,
     <1>14, <1>15, <1>16, <1>17, <1>18, <1>19 DEF Next, Writer, Reader

(* The writer's objects keep their names while it uses them. *)
LEMMA NamedStep == TypeOK /\ Made /\ Named /\ [Next]_vars => Named'
<1> SUFFICES ASSUME TypeOK, Made, Named, [Next]_vars PROVE Named'
  OBVIOUS
<1> USE DEF WGoes, RGoes, kernel, TypeOK, Named
<1>1. CASE UNCHANGED vars
  BY <1>1 DEF vars
<1>2. CASE WStart
  BY <1>2 DEF WStart, Keeps, InLoop
<1>3. CASE WOpenShm
  <2>1. \A j \in Kinds : made[j] + 1 # 0
    OBVIOUS
  <2> QED BY <1>3, <2>1, WriterOpens
<1>4. CASE WTruncate
  BY <1>4 DEF WTruncate, Keeps, InLoop
<1>5. CASE WWait
  BY <1>5 DEF WWait, Keeps, InLoop
<1>6. CASE WFill
  BY <1>6 DEF WFill, Keeps, InLoop
<1>7. CASE WPost
  BY <1>7 DEF WPost, Keeps, InLoop
<1>8. CASE WTest
  BY <1>8 DEF WTest, Keeps, InLoop
<1>9. CASE WLast
  BY <1>9 DEF WLast, Keeps, InLoop
<1>10. ASSUME NEW k \in Sems, WOpenSem(k) PROVE Named'
  <2>1. \A j \in Kinds : made[j] + 1 # 0
    OBVIOUS
  <2> QED BY <1>10, <2>1, WriterOpens
<1>11. ASSUME NEW k \in Kinds, WUnlink(k) PROVE Named'
  BY <1>11, WriterUnlinks
<1>12. CASE WCrash
  BY <1>12 DEF WCrash, Crash, Keeps, InLoop
<1>13. ASSUME NEW r \in Readers, RStart(r) PROVE Named'
  BY <1>13 DEF RStart
<1>14. ASSUME NEW r \in Readers, RMap(r) PROVE Named'
  BY <1>14 DEF RMap
<1>15. ASSUME NEW r \in Readers, RWait(r) PROVE Named'
  BY <1>15 DEF RWait
<1>16. ASSUME NEW r \in Readers, RWrite(r) PROVE Named'
  BY <1>16 DEF RWrite
<1>17. ASSUME NEW r \in Readers, RPost(r) PROVE Named'
  BY <1>17 DEF RPost
<1>18. ASSUME NEW r \in Readers, NEW k \in Kinds, ROpen(r, k) PROVE Named'
  BY <1>18 DEF ROpen
<1>19. ASSUME NEW r \in Readers, RCrash(r) PROVE Named'
  BY <1>19 DEF RCrash, Crash
<1> QED
  BY <1>1, <1>2, <1>3, <1>4, <1>5, <1>6, <1>7, <1>8, <1>9, <1>10, <1>11, <1>12, <1>13,
     <1>14, <1>15, <1>16, <1>17, <1>18, <1>19 DEF Next, Writer, Reader

(* A reader leaves where an open fails. *)
LEMMA OpenedStep == TypeOK /\ Opened /\ [Next]_vars => Opened'
<1> SUFFICES ASSUME TypeOK, Opened, [Next]_vars PROVE Opened'
  OBVIOUS
<1> USE DEF WGoes, RGoes, kernel, TypeOK, Opened, RPoints
<1>1. CASE UNCHANGED vars
  BY <1>1 DEF vars
<1>2. CASE WStart
  BY <1>2 DEF WStart
<1>3. CASE WOpenShm
  BY <1>3 DEF WOpenShm
<1>4. CASE WTruncate
  BY <1>4 DEF WTruncate
<1>5. CASE WWait
  BY <1>5 DEF WWait
<1>6. CASE WFill
  BY <1>6 DEF WFill
<1>7. CASE WPost
  BY <1>7 DEF WPost
<1>8. CASE WTest
  BY <1>8 DEF WTest
<1>9. CASE WLast
  BY <1>9 DEF WLast
<1>10. ASSUME NEW k \in Sems, WOpenSem(k) PROVE Opened'
  BY <1>10 DEF WOpenSem
<1>11. ASSUME NEW k \in Kinds, WUnlink(k) PROVE Opened'
  BY <1>11 DEF WUnlink
<1>12. CASE WCrash
  BY <1>12 DEF WCrash, Crash
<1>13. ASSUME NEW r \in Readers, RStart(r) PROVE Opened'
  BY <1>13 DEF RStart
<1>14. ASSUME NEW r \in Readers, RMap(r) PROVE Opened'
  BY <1>14 DEF RMap
<1>15. ASSUME NEW r \in Readers, RWait(r) PROVE Opened'
  BY <1>15 DEF RWait
<1>16. ASSUME NEW r \in Readers, RWrite(r) PROVE Opened'
  BY <1>16 DEF RWrite
<1>17. ASSUME NEW r \in Readers, RPost(r) PROVE Opened'
  BY <1>17 DEF RPost
<1>18. ASSUME NEW r \in Readers, NEW k \in Kinds, ROpen(r, k) PROVE Opened'
  <2>1. robj[r] \in [Kinds -> 0..MaxCrashes + 1]
    OBVIOUS
  <2>2. CASE name[k] = 0
    BY <1>18, <2>2 DEF ROpen
  <2>3. CASE name[k] # 0
    <3>1. robj' = [robj EXCEPT ![r] = [robj[r] EXCEPT ![k] = name[k]]]
      BY <1>18, <2>3 DEF ROpen
    <3>2. ASSUME NEW q \in Readers, q # r PROVE robj'[q] = robj[q] /\ rpc'[q] = rpc[q]
      BY <1>18, <2>3, <3>1, <3>2 DEF ROpen
    <3>3. robj'[r] = [robj[r] EXCEPT ![k] = name[k]]
      BY <3>1
    <3>4. k = "write" => rpc[r] = "open write" /\ rpc'[r] = "open read"
      BY <1>18, <2>3 DEF ROpen, Opening
    <3>5. k = "read" => rpc[r] = "open read" /\ rpc'[r] = "open shm"
      BY <1>18, <2>3 DEF ROpen, Opening
    <3>6. k = "shm" => rpc[r] = "open shm" /\ rpc'[r] = "map"
      BY <1>18, <2>3 DEF ROpen, Opening
    <3>7. /\ rpc'[r] # "open read" /\ rpc'[r] # "open shm" => robj'[r]["read"] # 0 /\ robj'[r]["shm"] # 0
          /\ rpc'[r] # "open read" => robj'[r]["read"] # 0
          /\ robj'[r]["write"] # 0
      BY Members, <2>1, <2>3, <3>3, <3>4, <3>5, <3>6
    <3> QED BY <3>2, <3>7
  <2> QED BY <2>2, <2>3
<1>19. ASSUME NEW r \in Readers, RCrash(r) PROVE Opened'
  BY <1>19 DEF RCrash, Crash
<1> QED
  BY <1>1, <1>2, <1>3, <1>4, <1>5, <1>6, <1>7, <1>8, <1>9, <1>10, <1>11, <1>12, <1>13,
     <1>14, <1>15, <1>16, <1>17, <1>18, <1>19 DEF Next, Writer, Reader

(* A step that creates no token, takes none and leaves SEM_WRITE its name. *)
LEMMA TokenKept ==
  ASSUME OneToken,
         \A k \in Sems, i \in Ids : sem'[k][i] # 0 => sem'[k][i] = sem[k][i],
         WriterHolds' => WriterHolds,
         \A r \in Readers : ReaderHolds(r)' => ReaderHolds(r),
         name["write"] # 0 => name'["write"] # 0
  PROVE  OneToken'
  BY DEF OneToken

(* Who takes the token leaves none behind. *)
LEMMA TokenTaken ==
  ASSUME TypeOK, OneToken, NEW k \in Sems, NEW i \in Ids, Down(k, i)
  PROVE  /\ \A h \in Sems, j \in Ids : sem'[h][j] = 0
         /\ ~WriterHolds /\ \A r \in Readers : ~ReaderHolds(r)
         /\ name["write"] # 0
<1>1. sem[k] \in [Ids -> Nat] /\ sem[k][i] # 0
  BY DEF TypeOK, Down
<1>2. sem[k][i] = 1 /\ \A h \in Sems, j \in Ids : sem[h][j] # 0 => h = k /\ j = i
  BY <1>1 DEF OneToken
<1>3. sem' = [sem EXCEPT ![k] = [sem[k] EXCEPT ![i] = 0]]
  BY <1>2 DEF Down
<1>4. \A h \in Sems, j \in Ids : sem'[h][j] = 0
  BY <1>1, <1>2, <1>3 DEF TypeOK
<1> QED BY <1>1, <1>4 DEF OneToken

(* Who returns the token had the only one. *)
LEMMA TokenReturned ==
  ASSUME TypeOK, NEW k \in Sems, NEW i \in Ids, Up(k, i),
         \A h \in Sems, j \in Ids : sem[h][j] = 0, name'["write"] # 0,
         ~WriterHolds', \A r \in Readers : ~ReaderHolds(r)'
  PROVE  OneToken'
<1>1. sem[k] \in [Ids -> Nat] /\ sem[k][i] = 0
  BY DEF TypeOK
<1>2. sem' = [sem EXCEPT ![k] = [sem[k] EXCEPT ![i] = 1]]
  BY <1>1 DEF Up
<1>3. /\ sem'[k][i] = 1
      /\ \A h \in Sems, j \in Ids : sem'[h][j] # 0 => h = k /\ j = i
  BY <1>1, <1>2 DEF TypeOK
<1> QED BY <1>3 DEF OneToken

(* Waiting takes the token, posting returns it, a kill destroys it, and a  *)
(* new SEM_WRITE finds none left.                                          *)
LEMMA TokenStep == TypeOK /\ Made /\ Named /\ Opened /\ OneToken /\ [Next]_vars => OneToken'
<1> SUFFICES ASSUME TypeOK, Made, Named, Opened, OneToken, [Next]_vars PROVE OneToken'
  OBVIOUS
<1> USE Members DEF WGoes, RGoes, kernel
<1>1. CASE UNCHANGED vars
  BY <1>1, TokenKept DEF vars, WriterHolds, ReaderHolds
<1>2. CASE WStart
  BY <1>2, TokenKept DEF WStart, WriterHolds, ReaderHolds
<1>3. CASE WOpenShm
  <2>1. UNCHANGED <<sem, rpc>> /\ name'["write"] = name["write"] /\ wpc' = "truncate"
    BY <1>3 DEF WOpenShm, TypeOK
  <2> QED BY <2>1, TokenKept DEF WriterHolds, ReaderHolds
<1>4. CASE WTruncate
  BY <1>4, TokenKept DEF WTruncate, WriterHolds, ReaderHolds
<1>5. CASE WWait
  <2>1. wobj["write"] \in Ids
    BY <1>5, Members, HasObjects DEF WWait, InLoop
  <2>2. UNCHANGED <<name, rpc>> /\ Down("write", wobj["write"])
    BY <1>5 DEF WWait
  <2> QED BY <2>1, <2>2, TokenTaken DEF OneToken, ReaderHolds
<1>6. CASE WFill
  BY <1>6, TokenKept DEF WFill, WriterHolds, ReaderHolds
<1>7. CASE WPost
  <2>1. wobj["read"] \in Ids /\ name["write"] # 0
    BY <1>7, Members, HasObjects DEF WPost, InLoop
  <2>2. /\ WriterHolds /\ ~WriterHolds' /\ UNCHANGED <<name, rpc>>
        /\ Up("read", wobj["read"])
    BY <1>7 DEF WPost, WriterHolds
  <2>3. /\ \A h \in Sems, j \in Ids : sem[h][j] = 0
        /\ \A r \in Readers : ~ReaderHolds(r)'
    BY <2>2 DEF OneToken, ReaderHolds
  <2> QED BY <2>1, <2>2, <2>3, TokenReturned
<1>8. CASE WTest
  BY <1>8, TokenKept DEF WTest, WriterHolds, ReaderHolds
<1>9. CASE WLast
  <2>1. wobj["write"] \in Ids
    BY <1>9, Members, HasObjects DEF WLast, InLoop
  <2>2. UNCHANGED <<name, rpc>> /\ Down("write", wobj["write"])
    BY <1>9 DEF WLast
  <2> QED BY <2>1, <2>2, TokenTaken DEF OneToken, ReaderHolds
<1>10. ASSUME NEW k \in Sems, WOpenSem(k) PROVE OneToken'
  <2>1. rpc' = rpc /\ ~WriterHolds /\ ~WriterHolds'
    BY <1>10 DEF WOpenSem, WriterHolds, Opening
  <2>2. CASE name[k] # 0
    BY <1>10, <2>1, <2>2, TokenKept DEF WOpenSem, ReaderHolds
  <2>3. CASE name[k] = 0
    <3>1. /\ sem' = [sem EXCEPT ![k] = [sem[k] EXCEPT ![made[k] + 1] = InitialValue(k)]]
          /\ name' = [name EXCEPT ![k] = made[k] + 1]
      BY <1>10, <2>3 DEF WOpenSem
    <3>2. made[k] + 1 \in Ids
      BY <1>10, NewObject DEF WOpenSem, Opening, NotYet
    <3>3. CASE k = "read"
      BY <2>1, <3>1, <3>2, <3>3, TokenKept DEF InitialValue, ReaderHolds, TypeOK
    <3>4. CASE k = "write"
      <4>1. /\ \A h \in Sems, j \in Ids : sem[h][j] = 0
            /\ \A r \in Readers : ~ReaderHolds(r)'
        BY <2>1, <2>3, <3>4 DEF OneToken, ReaderHolds
      <4>2. \A h \in Sems, j \in Ids : sem'[h][j] # 0 => /\ sem'[h][j] = 1
                                                         /\ h = k /\ j = made[k] + 1
        BY <3>1, <3>4, <4>1 DEF InitialValue, TypeOK
      <4>3. name'["write"] # 0
        BY <3>1, <3>2, <3>4 DEF TypeOK
      <4> QED BY <2>1, <4>1, <4>2, <4>3 DEF OneToken
    <3> QED BY <3>3, <3>4
  <2> QED BY <2>2, <2>3
<1>11. ASSUME NEW k \in Kinds, WUnlink(k) PROVE OneToken'
  <2>1. UNCHANGED <<sem, rpc>> /\ WriterHolds
    BY <1>11 DEF WUnlink, WriterHolds, Unlinking
  <2>2. /\ \A h \in Sems, j \in Ids : sem[h][j] = 0
        /\ \A r \in Readers : ~ReaderHolds(r)
    BY <2>1 DEF OneToken
  <2> QED BY <2>1, <2>2 DEF OneToken, ReaderHolds
<1>12. CASE WCrash
  BY <1>12, TokenKept DEF WCrash, Crash, WriterHolds, ReaderHolds
<1>13. ASSUME NEW r \in Readers, RStart(r) PROVE OneToken'
  <2>1. UNCHANGED <<sem, wpc, name>> /\ \A q \in Readers : ReaderHolds(q)' => ReaderHolds(q)
    BY <1>13 DEF RStart, ReaderHolds, TypeOK
  <2> QED BY <2>1, TokenKept DEF WriterHolds
<1>14. ASSUME NEW r \in Readers, RMap(r) PROVE OneToken'
  <2>1. UNCHANGED <<sem, wpc, name>> /\ \A q \in Readers : ReaderHolds(q)' => ReaderHolds(q)
    BY <1>14 DEF RMap, ReaderHolds, TypeOK
  <2> QED BY <2>1, TokenKept DEF WriterHolds
<1>15. ASSUME NEW r \in Readers, RWait(r) PROVE OneToken'
  <2>1. robj[r]["read"] \in Ids
    BY <1>15, Members, HasObjects DEF RWait
  <2>2. /\ UNCHANGED <<name, wpc>> /\ Down("read", robj[r]["read"])
        /\ rpc' = [rpc EXCEPT ![r] = "write"]
    BY <1>15 DEF RWait
  <2>3. /\ \A h \in Sems, j \in Ids : sem'[h][j] = 0
        /\ ~WriterHolds /\ \A q \in Readers : ~ReaderHolds(q)
        /\ name["write"] # 0
    BY <2>1, <2>2, TokenTaken
  <2>4. ~WriterHolds' /\ \A q \in Readers : ReaderHolds(q)' => q = r
    BY <2>2, <2>3 DEF WriterHolds, ReaderHolds, TypeOK
  <2> QED BY <2>2, <2>3, <2>4 DEF OneToken
<1>16. ASSUME NEW r \in Readers, RWrite(r) PROVE OneToken'
  <2>1. UNCHANGED <<sem, wpc, name>> /\ \A q \in Readers : ReaderHolds(q)' => ReaderHolds(q)
    BY <1>16 DEF RWrite, ReaderHolds, TypeOK
  <2> QED BY <2>1, TokenKept DEF WriterHolds
<1>17. ASSUME NEW r \in Readers, RPost(r) PROVE OneToken'
  <2>1. robj[r]["write"] \in Ids /\ ReaderHolds(r)
    BY <1>17, Members, HasObjects DEF RPost, ReaderHolds
  <2>2. /\ UNCHANGED <<name, wpc>> /\ Up("write", robj[r]["write"])
        /\ \A q \in Readers : ReaderHolds(q)' => ReaderHolds(q) /\ q # r
    BY <1>17 DEF RPost, ReaderHolds, TypeOK
  <2>3. /\ \A h \in Sems, j \in Ids : sem[h][j] = 0
        /\ name["write"] # 0 /\ ~WriterHolds /\ \A q \in Readers : ReaderHolds(q) => q = r
    BY <2>1 DEF OneToken
  <2>4. ~WriterHolds' /\ \A q \in Readers : ~ReaderHolds(q)'
    BY <2>2, <2>3 DEF WriterHolds
  <2> QED BY <2>1, <2>2, <2>3, <2>4, TokenReturned
<1>18. ASSUME NEW r \in Readers, NEW k \in Kinds, ROpen(r, k) PROVE OneToken'
  <2>1. \A q \in Readers : rpc'[q] # rpc[q] => ~ReaderHolds(q)'
    BY <1>18 DEF ROpen, ReaderHolds, TypeOK
  <2>2. UNCHANGED <<sem, wpc, name>> /\ \A q \in Readers : ReaderHolds(q)' => ReaderHolds(q)
    BY <1>18, <2>1 DEF ROpen, ReaderHolds
  <2> QED BY <2>2, TokenKept DEF WriterHolds
<1>19. ASSUME NEW r \in Readers, RCrash(r) PROVE OneToken'
  <2>1. UNCHANGED <<sem, wpc, name>> /\ \A q \in Readers : ReaderHolds(q)' => ReaderHolds(q)
    BY <1>19 DEF RCrash, Crash, ReaderHolds, TypeOK
  <2> QED BY <2>1, TokenKept DEF WriterHolds
<1> QED
  BY <1>1, <1>2, <1>3, <1>4, <1>5, <1>6, <1>7, <1>8, <1>9, <1>10, <1>11, <1>12, <1>13,
     <1>14, <1>15, <1>16, <1>17, <1>18, <1>19 DEF Next, Writer, Reader

(* A step that neither reads the input nor writes a block. *)
LEMMA OrderKept ==
  ASSUME Ordered, OutputInOrder, UNCHANGED <<count, output, next>>, Unread' => Unread,
         (\E s \in Ids : count[s] > 0) => name'["shm"] = name["shm"],
         wpc' \in {"last", "unlink shm"} => count[wobj'["shm"]] = 0
  PROVE  (Ordered /\ OutputInOrder)'
  BY DEF Ordered, OutputInOrder

(* What is written out is older than what is still to be. *)
LEMMA OrderStep == TypeOK /\ Made /\ Named /\ Opened /\ OneToken /\ Ordered /\ OutputInOrder /\ [Next]_vars => (Ordered /\ OutputInOrder)'
<1> SUFFICES ASSUME TypeOK, Made, Named, Opened, OneToken, Ordered, OutputInOrder, [Next]_vars PROVE (Ordered /\ OutputInOrder)'
  OBVIOUS
<1> USE DEF WGoes, RGoes, kernel
<1>1. CASE UNCHANGED vars
  <2>1. UNCHANGED <<count, output, next, name, wpc, wobj, sem, rpc>>
    BY <1>1 DEF vars
  <2> QED BY <2>1, OrderKept DEF Unread, Ordered
<1>2. CASE WStart
  BY <1>2, OrderKept DEF WStart, Unread, Ordered
<1>3. CASE WOpenShm
  <2>1. UNCHANGED <<sem, count, output, next, rpc>> /\ wpc' = "truncate"
    BY <1>3 DEF WOpenShm
  <2>2. name["shm"] = 0 => \A s \in Ids : ~(count[s] > 0)
    BY Members DEF Ordered
  <2>3. name["shm"] # 0 => name' = name
    BY <1>3 DEF WOpenShm
  <2> QED BY <2>1, <2>2, <2>3, OrderKept DEF Unread
<1>4. CASE WTruncate
  BY <1>4, OrderKept DEF WTruncate, Unread, Ordered
<1>5. CASE WWait
  <2>1. /\ UNCHANGED <<count, output, next, name, wobj, rpc>>
        /\ \A i \in Ids : sem'["read"][i] = sem["read"][i]
    BY <1>5, Members DEF WWait, Down, TypeOK
  <2>2. (Unread' => Unread) /\ (wpc' = "unlink shm" => wpc = "last")
    BY <1>5, <2>1 DEF WWait, Unread
  <2> QED BY <1>5, <2>1, <2>2, OrderKept DEF WWait, Ordered
<1>6. CASE WFill
  <2>1. wobj["shm"] \in Ids /\ wobj["shm"] = name["shm"]
    BY <1>6, Members, HasObjects DEF WFill, WGoes, InLoop
  <2>2. PICK n \in {next, 0, -1} :
          /\ count' = [count EXCEPT ![wobj["shm"]] = n]
          /\ n > 0 => n = next /\ next' = next + 1
          /\ next' \in {next, next + 1}
    BY <1>6 DEF WFill, TypeOK
  <2>3. /\ UNCHANGED <<name, output>> /\ wpc' = "post"
        /\ next \in Nat /\ count \in [Ids -> Int] /\ output \in Seq(Nat)
    BY <1>6 DEF WFill, WGoes, TypeOK
  <2>4. ASSUME NEW s \in Ids, count'[s] > 0
        PROVE  s = name["shm"] /\ count'[s] = next /\ next' = next + 1
    BY <1>6, <2>1, <2>2, <2>3, <2>4 DEF Ordered
  <2>5. \A i \in 1..Len(output) : output[i] \in Nat /\ output[i] < next
    <3>1. \A i \in 1..Len(output) : output[i] \in Nat
      BY <1>6, <2>3
    <3> QED BY <1>6, <3>1 DEF Ordered
  <2>6. ASSUME NEW i \in 1..Len(output) PROVE output[i] < next'
    BY <1>6, <2>2, <2>3, <2>5
  <2>7. Ordered'
    <3>1. \A i \in 1..Len(output') : output'[i] < next'
      BY <2>3, <2>6
    <3>2. ASSUME NEW s \in Ids, count'[s] > 0
          PROVE  /\ s = name'["shm"] /\ count'[s] < next'
                 /\ \A i \in 1..Len(output') : output'[i] < count'[s]
      BY <2>3, <2>4, <2>5, <3>2
    <3> QED BY <2>3, <3>1, <3>2 DEF Ordered
  <2>8. OutputInOrder'
    BY <1>6, <2>3 DEF OutputInOrder
  <2> QED BY <1>6, <2>7, <2>8
<1>7. CASE WPost
  <2>1. UNCHANGED <<count, output, next, name, rpc>> /\ wpc' = "test" /\ Unread
    BY <1>7 DEF WPost, Unread
  <2> QED BY <2>1, OrderKept
<1>8. CASE WTest
  BY <1>8, OrderKept DEF WTest, Unread, Ordered
<1>9. CASE WLast
  <2>1. /\ UNCHANGED <<count, output, next, name, wobj, rpc>>
        /\ \A i \in Ids : sem'["read"][i] = sem["read"][i]
    BY <1>9, Members DEF WLast, Down, TypeOK
  <2>2. (Unread' => Unread) /\ (wpc' = "unlink shm" => wpc = "last")
    BY <1>9, <2>1 DEF WLast, Unread
  <2> QED BY <1>9, <2>1, <2>2, OrderKept DEF WLast, Ordered
<1>10. ASSUME NEW k \in Sems, WOpenSem(k) PROVE (Ordered /\ OutputInOrder)'
  <2>1. UNCHANGED <<count, output, next, rpc>> /\ wpc' \in {"open read", "open shm"}
    BY <1>10 DEF WOpenSem
  <2>2. name'["shm"] = name["shm"]
    BY <1>10, Members DEF WOpenSem, TypeOK
  <2>3. ASSUME NEW i \in Ids, sem'["read"][i] # 0 PROVE sem["read"][i] # 0
    <3>1. sem["read"] \in [Ids -> Nat] /\ (k = "write" \/ k = "read")
      BY Members DEF TypeOK
    <3>2. \/ sem' = sem
          \/ sem' = [sem EXCEPT ![k] = [sem[k] EXCEPT ![made[k] + 1] = IF k = "write" THEN 1 ELSE 0]]
      BY <1>10 DEF WOpenSem, InitialValue
    <3>3. CASE k = "read"
      <4>1. DOMAIN sem = Sems /\ "read" \in Sems
        BY Members DEF TypeOK
      <4>2. \/ sem' = sem
            \/ sem'["read"] = [sem["read"] EXCEPT ![made["read"] + 1] = 0]
        BY <3>2, <3>3, <4>1
      <4> QED BY <2>3, <3>1, <4>2
    <3>4. CASE k = "write"
      <4>1. sem'["read"] = sem["read"]
        BY <3>2, <3>4, Members DEF TypeOK
      <4> QED BY <2>3, <4>1
    <3> QED BY <3>1, <3>3, <3>4
  <2>4. Unread' => Unread
    BY <2>1, <2>3 DEF Unread
  <2> QED BY <2>1, <2>2, <2>4, OrderKept
<1>11. ASSUME NEW k \in Kinds, WUnlink(k) PROVE (Ordered /\ OutputInOrder)'
  <2>1. /\ UNCHANGED <<count, output, next, sem, rpc>>
        /\ wpc' \in {"unlink write", "unlink read", "done"}
    BY <1>11, WriterUnlinks
  <2>2. Unread' => Unread
    BY <2>1 DEF Unread
  <2>3. CASE k = "shm"
    <3>1. wpc = "unlink shm" /\ wobj["shm"] \in Ids /\ wobj["shm"] = name["shm"]
      BY <1>11, <2>3, WriterUnlinks, HasObjects DEF Unlinking, InLoop
    <3>2. \A s \in Ids : ~(count[s] > 0)
      <4>1. count[wobj["shm"]] = 0
        BY <3>1 DEF Ordered
      <4>2. \A s \in Ids : count[s] > 0 => s = name["shm"]
        BY DEF Ordered
      <4>3. ASSUME NEW s \in Ids, count[s] > 0 PROVE FALSE
        <5>1. s = wobj["shm"]
          BY <3>1, <4>2, <4>3
        <5> QED BY <4>1, <4>3, <5>1
      <4> QED BY <4>3
    <3> QED BY <2>1, <2>2, <3>2, OrderKept
  <2>4. CASE k # "shm"
    <3>1. name'["shm"] = name["shm"]
      BY <1>11, <2>4, WriterUnlinks, Members DEF TypeOK
    <3> QED BY <2>1, <2>2, <3>1, OrderKept
  <2> QED BY <2>3, <2>4
<1>12. CASE WCrash
  <2>1. UNCHANGED <<count, output, next, name, sem, rpc>> /\ wpc' = "off"
    BY <1>12 DEF WCrash, Crash
  <2> QED BY <2>1, OrderKept DEF Unread
<1>13. ASSUME NEW r \in Readers, RStart(r) PROVE (Ordered /\ OutputInOrder)'
  <2>1. /\ UNCHANGED <<count, output, next, name, sem, wpc, wobj>>
        /\ \A q \in Readers : rpc'[q] = "write" => rpc[q] = "write"
    BY <1>13 DEF RStart, TypeOK
  <2> QED BY <2>1, OrderKept DEF Unread, Ordered
<1>14. ASSUME NEW r \in Readers, RMap(r) PROVE (Ordered /\ OutputInOrder)'
  <2>1. /\ UNCHANGED <<count, output, next, name, sem, wpc, wobj>>
        /\ \A q \in Readers : rpc'[q] = "write" => rpc[q] = "write"
    BY <1>14 DEF RMap, TypeOK
  <2> QED BY <2>1, OrderKept DEF Unread, Ordered
<1>15. ASSUME NEW r \in Readers, RWait(r) PROVE (Ordered /\ OutputInOrder)'
  <2>1. robj[r]["read"] \in Ids
    BY <1>15, Members, HasObjects DEF RWait
  <2>2. UNCHANGED <<count, output, next, name, wpc, wobj>> /\ sem["read"][robj[r]["read"]] # 0
    BY <1>15, <2>1, Members DEF RWait, Down, TypeOK
  <2>3. Unread
    BY <2>1, <2>2 DEF Unread
  <2> QED BY <2>2, <2>3, OrderKept DEF Ordered
<1>16. ASSUME NEW r \in Readers, RWrite(r) PROVE (Ordered /\ OutputInOrder)'
  <2> DEFINE n == count[robj[r]["shm"]]
  <2>1. robj[r]["shm"] \in Ids /\ n \in Int
    <3>1. robj[r]["shm"] \in Ids
      BY <1>16, Members, HasObjects DEF RWrite, RGoes
    <3>2. count \in [Ids -> Int]
      BY <1>16 DEF TypeOK
    <3> QED BY <1>16, <3>1, <3>2
  <2>2. /\ UNCHANGED <<name, sem, count, wpc, wobj, next>>
        /\ rpc' = [rpc EXCEPT ![r] = IF n = 0 THEN "last post" ELSE "post"]
        /\ output' = output \/ (n > 0 /\ output' = Append(output, n))
    BY <1>16 DEF RWrite, RGoes, kernel
  <2>3. ReaderHolds(r) /\ Unread
    BY <1>16 DEF RWrite, RGoes, ReaderHolds, Unread
  <2>4. /\ \A i \in Ids : sem["read"][i] = 0
        /\ ~WriterHolds /\ \A q \in Readers : ReaderHolds(q) => q = r
    BY <1>16, <2>3, Members DEF OneToken
  <2>5. ~Unread'
    BY <1>16, <2>2, <2>4 DEF Unread, WriterHolds, ReaderHolds, TypeOK
  <2>6. /\ next \in Nat /\ count \in [Ids -> Int] /\ output \in Seq(Nat)
    BY <1>16 DEF TypeOK
  <2>7. CASE output' = output
    BY <1>16, <2>2, <2>5, <2>7 DEF Ordered, OutputInOrder
  <2>8. CASE n > 0 /\ output' = Append(output, n)
    <3>1. n < next /\ \A i \in 1..Len(output) : output[i] < n
      BY <1>16, <2>1, <2>3, <2>8 DEF Ordered
    <3>2. /\ Len(output') = Len(output) + 1 /\ Len(output) \in Nat
          /\ \A i \in 1..Len(output) : output'[i] = output[i]
          /\ output'[Len(output) + 1] = n
      BY <1>16, <2>1, <2>6, <2>8
    <3>3. \A i \in 1..Len(output') : i \in 1..Len(output) \/ i = Len(output) + 1
      BY <1>16, <3>2
    <3>4. ASSUME NEW i \in 1..Len(output') PROVE output'[i] < next'
      BY <1>16, <2>2, <3>1, <3>2, <3>3 DEF Ordered
    <3>5. ASSUME NEW i \in 1..Len(output'), NEW j \in 1..Len(output'), i < j
          PROVE  output'[i] < output'[j]
      <4>1. i \in 1..Len(output)
        BY <1>16, <3>2, <3>5
      <4>2. CASE j \in 1..Len(output)
        BY <1>16, <3>2, <3>5, <4>1, <4>2 DEF OutputInOrder
      <4>3. CASE j = Len(output) + 1
        BY <1>16, <3>1, <3>2, <4>1, <4>3
      <4> QED BY <1>16, <3>3, <4>2, <4>3
    <3> HIDE DEF n
    <3>6. Ordered'
      BY <1>16, <2>2, <2>5, <3>4 DEF Ordered
    <3>7. OutputInOrder'
      BY <1>16, <3>5 DEF OutputInOrder
    <3> QED BY <1>16, <3>6, <3>7
  <2> QED BY <1>16, <2>2, <2>7, <2>8
<1>17. ASSUME NEW r \in Readers, RPost(r) PROVE (Ordered /\ OutputInOrder)'
  <2>1. /\ UNCHANGED <<count, output, next, name, wpc, wobj>>
        /\ \A q \in Readers : rpc'[q] = "write" => rpc[q] = "write"
    BY <1>17 DEF RPost, TypeOK
  <2>2. \A i \in Ids : sem'["read"][i] = sem["read"][i]
    BY <1>17, Members DEF RPost, Up, TypeOK
  <2> QED BY <2>1, <2>2, OrderKept DEF Unread, Ordered
<1>18. ASSUME NEW r \in Readers, NEW k \in Kinds, ROpen(r, k) PROVE (Ordered /\ OutputInOrder)'
  <2>1. UNCHANGED <<count, output, next, name, sem, wpc, wobj>>
    BY <1>18 DEF ROpen
  <2>2. PICK p \in {"open read", "open shm", "map", "off"} : rpc' = [rpc EXCEPT ![r] = p]
    BY <1>18, Members DEF ROpen
  <2>3. \A q \in Readers : rpc'[q] = rpc[q] \/ rpc'[q] # "write"
    BY <2>2 DEF TypeOK
  <2> QED BY <2>1, <2>3, OrderKept DEF Unread, Ordered
<1>19. ASSUME NEW r \in Readers, RCrash(r) PROVE (Ordered /\ OutputInOrder)'
  <2>1. /\ UNCHANGED <<count, output, next, name, sem, wpc, wobj>>
        /\ \A q \in Readers : rpc'[q] = "write" => rpc[q] = "write"
    BY <1>19 DEF RCrash, Crash, TypeOK
  <2> QED BY <2>1, OrderKept DEF Unread, Ordered
<1> QED
  BY <1>1, <1>2, <1>3, <1>4, <1>5, <1>6, <1>7, <1>8, <1>9, <1>10, <1>11, <1>12, <1>13,
     <1>14, <1>15, <1>16, <1>17, <1>18, <1>19 DEF Next, Writer, Reader

(* Before the first writer there is no object and no token. *)
LEMMA InvInit == Init => Inv
<1> SUFFICES ASSUME Init PROVE Inv
  OBVIOUS
<1> USE Members DEF Init, NoObjects
<1>1. TypeOK
  <2>1. count \in [Ids -> -1..Blocks] /\ next \in 1..Blocks + 1 /\ output \in Seq(1..Blocks)
    OBVIOUS
  <2>2. sem \in [Sems -> [Ids -> Nat]]
    OBVIOUS
  <2>3. NoObjects \in [Kinds -> 0..MaxCrashes + 1] /\ 0 \in 0..MaxCrashes
    OBVIOUS
  <2> QED BY <2>1, <2>2, <2>3 DEF TypeOK, WPoints, RPoints
<1>2. Made /\ Named /\ Opened
  BY DEF Made, NotYet, Named, Keeps, InLoop, Opened
<1>3. OneToken
  BY DEF OneToken, ReaderHolds
<1>4. Ordered /\ OutputInOrder
  BY DEF Ordered, OutputInOrder
<1> QED BY <1>1, <1>2, <1>3, <1>4 DEF Inv

(* Inv holds in every reachable state. *)
LEMMA Invariance == Spec => []Inv
<1>1. Inv /\ [Next]_vars => Inv'
  BY TypeStep, MadeStep, NamedStep, OpenedStep, TokenStep, OrderStep DEF Inv
<1> QED BY <1>1, InvInit, PTL DEF Spec

(* The buffer of 05shm is in the hands of one process, whoever is killed   *)
(* and whatever semaphores it leaves: at most one process is between its   *)
(* sem_wait and its sem_post (writer.c:90-99, read.c:75-77).               *)
THEOREM Exclusion == Spec => []BufferExclusive
<1>1. Inv => BufferExclusive
  BY DEF Inv, OneToken, BufferExclusive
<1> QED BY <1>1, Invariance, PTL

(* Readers write the blocks out in the order of the input and none twice,  *)
(* whoever is killed and whatever memory its successor finds               *)
(* (writer.c:91, read.c:76).                                               *)
THEOREM BlocksInOrder == Spec => []OutputInOrder
<1>1. Inv => OutputInOrder
  BY DEF Inv
<1> QED BY <1>1, Invariance, PTL
=============================================================================
