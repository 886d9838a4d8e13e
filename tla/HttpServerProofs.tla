--------------------------- MODULE HttpServerProofs ---------------------------
(***************************************************************************)
(* Proofs about http_server/server.c: its forking parent, ForkServer, and  *)
(* the reader of a request in each child, HeaderReader.                    *)
(*                                                                         *)
(* The parent, for any connections and any limit of processes: every       *)
(* zombie has its signal, and the wait of the SIGCHLD handler finds one.   *)
(* ZombiesAccounted is all but inductive: a child is added and taken away  *)
(* by name, so that the zombies have to be known to be finite, and a child *)
(* that is made must not have been one already.                            *)
(*                                                                         *)
(* The reader, for any buffer size, any request and any split into reads:  *)
(* what strstr finds and what it misses.  Held says what the array holds:   *)
(* the last read from its beginning, and the NUL of the first read as long *)
(* as no read was longer than that one.                                    *)
(***************************************************************************)
EXTENDS ForkServer, HeaderReader, FiniteSetTheorems, WellFoundedInduction, TLAPS

-----------------------------------------------------------------------------
(* The parent.                                                               *)

(* A connection that waits, or whose child is about to be made, has none.    *)
NoChildYet ==
  /\ arrived \cap current = {}
  /\ \A c \in arrived : child[c] = "none"
  /\ pc = "fork" => \A c \in current : child[c] = "none"

Inv == ZombiesAccounted /\ NoChildYet /\ IsFiniteSet(Zombies)

(* The count of zombies, on its own.                                         *)
Balance == pc # "exited" => Cardinality(Zombies) = Bit(pending) + Bit(handling) + merged

(* A child that ends is one more zombie, and its signal one more.            *)
LEMMA ChildExitCounts ==
  ASSUME Inv, NEW c \in Conns, ChildExit(c)
  PROVE  IsFiniteSet(Zombies)' /\ Balance'
<1> USE DEF Inv, ZombiesAccounted, TypeOK
<1>1. Zombies' = Zombies \cup {c} /\ c \notin Zombies
  BY DEF ChildExit, Zombies
<1>2. IsFiniteSet(Zombies') /\ Cardinality(Zombies') = Cardinality(Zombies) + 1
  BY <1>1, FS_AddElement
<1>3. Bit(pending') + merged' = Bit(pending) + merged + 1 /\ handling' = handling
  BY DEF ChildExit, Bit
<1>4. Cardinality(Zombies) = Bit(pending) + Bit(handling) + merged
  BY DEF ChildExit
<1>5. Bit(pending) \in Nat /\ Bit(handling) \in Nat /\ Bit(pending') \in Nat /\ merged' \in Nat
  BY DEF Bit, ChildExit
<1> QED
  BY <1>2, <1>3, <1>4, <1>5 DEF Balance

(* A handler that is done took one zombie.                                   *)
LEMMA CleanUpCounts ==
  ASSUME Inv, CleanUp
  PROVE  IsFiniteSet(Zombies)' /\ Balance'
<1> USE DEF Inv, ZombiesAccounted, TypeOK
<1>1. PICK c \in Zombies : child' = [child EXCEPT ![c] = "reaped"]
  BY DEF CleanUp
<1>2. Zombies' = Zombies \ {c}
  BY <1>1 DEF Zombies
<1>3. IsFiniteSet(Zombies') /\ Cardinality(Zombies') = Cardinality(Zombies) - 1
  BY <1>2, FS_RemoveElement
<1>4. Bit(handling) = 1 /\ Bit(handling') = 0 /\ Bit(pending) \in Nat
  BY DEF Bit, CleanUp
<1>5. UNCHANGED <<pc, pending, merged>>
  BY DEF CleanUp
<1> QED
  BY <1>3, <1>4, <1>5 DEF Balance

(* The types of the parent's variables.                                      *)
LEMMA TypeStep ==
  ASSUME TypeOK, Next
  PROVE  TypeOK'
<1> USE DEF TypeOK
<1>1. CASE ParentStep
  <2>1. CASE AcceptFails \/ PeerGone \/ ForkFails
    BY <2>1 DEF AcceptFails, PeerGone, ForkFails
  <2>2. ASSUME NEW c \in Conns, Accept(c) \/ Fork(c) \/ CloseCopy(c)
        PROVE  TypeOK'
    BY <2>2 DEF Accept, Fork, CloseCopy
  <2> QED BY <1>1, <2>1, <2>2 DEF ParentStep
<1>2. ASSUME NEW c \in Conns, Arrive(c)
      PROVE  TypeOK'
  BY <1>2 DEF Arrive
<1>6. ASSUME NEW c \in Conns, ChildExit(c)
      PROVE  TypeOK'
  <2>1. merged' \in Nat /\ pending' \in BOOLEAN
    BY <1>6 DEF ChildExit
  <2>2. child' \in [Conns -> {"none", "running", "zombie", "reaped"}]
    BY <1>6 DEF ChildExit
  <2>3. holders' \in [Conns -> SUBSET {"parent", "child"}]
    BY <1>6 DEF ChildExit
  <2> QED BY <1>6, <2>1, <2>2, <2>3 DEF ChildExit
<1>3. CASE Deliver
  BY <1>3 DEF Deliver
<1>4. CASE CleanUp
  BY <1>4 DEF CleanUp, Zombies
<1>5. CASE Idle
  BY <1>5 DEF Idle, vars
<1> QED BY <1>1, <1>2, <1>3, <1>4, <1>5, <1>6 DEF Next

(* A connection without a child keeps none until the fork.                   *)
LEMMA NoChildStep ==
  ASSUME TypeOK, NoChildYet, Next
  PROVE  NoChildYet'
<1> USE DEF TypeOK, NoChildYet
<1>1. CASE ParentStep
  <2>1. CASE AcceptFails \/ PeerGone \/ ForkFails
    BY <2>1 DEF AcceptFails, PeerGone, ForkFails
  <2>2. ASSUME NEW c \in Conns, Accept(c) \/ Fork(c) \/ CloseCopy(c)
        PROVE  NoChildYet'
    BY <2>2 DEF Accept, Fork, CloseCopy
  <2> QED BY <1>1, <2>1, <2>2 DEF ParentStep
<1>2. ASSUME NEW c \in Conns, Arrive(c)
      PROVE  NoChildYet'
  BY <1>2 DEF Arrive
<1>3. ASSUME NEW c \in Conns, ChildExit(c)
      PROVE  NoChildYet'
  BY <1>3 DEF ChildExit
<1>4. CASE Deliver
  BY <1>4 DEF Deliver
<1>5. CASE CleanUp
  BY <1>5 DEF CleanUp, Zombies
<1>6. CASE Idle
  BY <1>6 DEF Idle, vars
<1> QED BY <1>1, <1>2, <1>3, <1>4, <1>5, <1>6 DEF Next

(* Accepting, forking and closing make no zombie and take none.              *)
LEMMA CountStep ==
  ASSUME Inv, Next
  PROVE  IsFiniteSet(Zombies)' /\ Balance'
<1> USE DEF Inv, ZombiesAccounted, TypeOK
<1>1. CASE ParentStep
  <2>1. CASE AcceptFails \/ PeerGone \/ ForkFails
    BY <2>1 DEF AcceptFails, PeerGone, ForkFails, Zombies, Balance
  <2>2. ASSUME NEW c \in Conns, Accept(c) \/ CloseCopy(c)
        PROVE  IsFiniteSet(Zombies)' /\ Balance'
    BY <2>2 DEF Accept, CloseCopy, Zombies, Balance
  <2>3. ASSUME NEW c \in Conns, Fork(c)
        PROVE  IsFiniteSet(Zombies)' /\ Balance'
    <3>1. child[c] = "none"
      BY <2>3 DEF Fork, NoChildYet
    <3>2. Zombies' = Zombies
      BY <2>3, <3>1 DEF Fork, Zombies
    <3> QED BY <2>3, <3>2 DEF Fork, Balance
  <2> QED BY <1>1, <2>1, <2>2, <2>3 DEF ParentStep
<1>2. ASSUME NEW c \in Conns, Arrive(c)
      PROVE  IsFiniteSet(Zombies)' /\ Balance'
  BY <1>2 DEF Arrive, Zombies, Balance
<1>3. CASE Deliver
  <2>1. Bit(pending) = 1 /\ Bit(pending') = 0 /\ Bit(handling) = 0 /\ Bit(handling') = 1
    BY <1>3 DEF Deliver, Bit
  <2>2. Cardinality(Zombies) = Bit(pending) + Bit(handling) + merged
    BY <1>3 DEF Deliver
  <2>3. Zombies' = Zombies /\ merged' = merged /\ merged \in Nat
    BY <1>3 DEF Deliver, Zombies
  <2>4. Bit(pending) + Bit(handling) + merged = Bit(pending') + Bit(handling') + merged'
    BY <2>1, <2>3
  <2> QED BY <2>2, <2>3, <2>4 DEF Balance
<1>4. CASE Idle
  BY <1>4 DEF Idle, vars, Zombies, Balance
<1> QED BY <1>1, <1>2, <1>3, <1>4, ChildExitCounts, CleanUpCounts DEF Next

(* The invariant is inductive,                                               *)
LEMMA InvStep == Inv /\ [Next]_vars => Inv'
<1>1. ASSUME Inv, Next
      PROVE  Inv'
  <2>1. TypeOK' /\ NoChildYet'
    BY <1>1, TypeStep, NoChildStep DEF Inv, ZombiesAccounted
  <2> QED BY <1>1, <2>1, CountStep DEF Inv, ZombiesAccounted, Balance
<1>2. ASSUME Inv, UNCHANGED vars
      PROVE  Inv'
  BY <1>2 DEF Inv, ZombiesAccounted, NoChildYet, TypeOK, Zombies, vars
<1> QED BY <1>1, <1>2

(* holds at first,                                                           *)
LEMMA InitInv == Init => Inv
<1> SUFFICES ASSUME Init PROVE Inv
  OBVIOUS
<1>1. TypeOK /\ NoChildYet /\ Zombies = {}
  BY DEF Init, TypeOK, NoChildYet, Zombies
<1>2. Bit(pending) = 0 /\ Bit(handling) = 0 /\ merged = 0
  BY DEF Init, Bit
<1> QED BY <1>1, <1>2, FS_EmptySet DEF Inv, ZombiesAccounted

(* and so always.                                                            *)
LEMMA Invariance == Spec => []Inv
  BY InitInv, InvStep, PTL DEF Spec

(* Every zombie the parent has is owed to a pending signal, to one being     *)
(* handled, or to one that was merged (server.c:78-82).                      *)
THEOREM ZombiesHaveSignals == Spec => []ZombiesAccounted
<1>1. Inv => ZombiesAccounted
  BY DEF Inv
<1> QED BY <1>1, Invariance, PTL

(* The wait of clean_up_child_process never blocks: while the server runs,   *)
(* the handler finds a child that has ended (server.c:81).                   *)
WaitFindsChild == handling /\ pc # "exited" => Zombies # {}

THEOREM HandlerNeverBlocks == Spec => []WaitFindsChild
<1>1. Inv => WaitFindsChild
  <2> SUFFICES ASSUME Inv, handling, pc # "exited", Zombies = {} PROVE FALSE
    BY DEF WaitFindsChild
  <2>1. Cardinality(Zombies) = 0
    BY FS_EmptySet
  <2>2. Bit(handling) = 1 /\ Bit(pending) \in Nat /\ merged \in Nat
    BY DEF Bit, Inv, ZombiesAccounted, TypeOK
  <2>3. Cardinality(Zombies) = Bit(pending) + Bit(handling) + merged
    BY DEF Inv, ZombiesAccounted
  <2> DEFINE p == Bit(pending)
             h == Bit(handling)
  <2>4. h = 1 /\ p \in Nat /\ 0 = p + h + merged /\ merged \in Nat
    BY <2>1, <2>2, <2>3
  <2> HIDE DEF p, h
  <2> QED BY <2>4
<1> QED BY <1>1, Invariance, PTL

-----------------------------------------------------------------------------
(* The reader.                                                               *)

(* Every read stays inside the array, and leaves a buffer of tokens.         *)
LEMMA ReaderTypeStep ==
  ASSUME ReaderTypeOK, [ReaderNext]_readerVars
  PROVE  ReaderTypeOK'
<1> USE SizeAssumption DEF ReaderTypeOK
<1>1. CASE UNCHANGED readerVars
  BY <1>1 DEF readerVars
<1>2. ASSUME NEW limit \in 0..Size, NEW n, NEW next \in {"scan"}, ReadSome(limit, n, next)
      PROVE  /\ n \in 1..Size /\ \A i \in 1..n : unread[i] \in {"x", "n"}
             /\ bytesRead' \in -1..Size /\ unread' \in Seq({"x", "n"}) /\ at' = "scan"
             /\ reads' \in Seq(Seq({"x", "n"}))
             /\ UNCHANGED <<client, beyond>>
  <2>1. n \in 1..Size /\ n <= Len(unread)
    BY <1>2 DEF ReadSome
  <2>2. \A i \in 1..n : unread[i] \in {"x", "n"}
    BY <2>1
  <2>3. SubSeq(unread, n + 1, Len(unread)) \in Seq({"x", "n"})
    BY <2>1
  <2>4. SubSeq(unread, 1, n) \in Seq({"x", "n"})
    BY <2>1
  <2>5. reads' \in Seq(Seq({"x", "n"}))
    BY <1>2, <2>4 DEF ReadSome
  <2> QED BY <1>2, <2>1, <2>2, <2>3, <2>5 DEF ReadSome
<1>3. ASSUME NEW n \in 1..Size, FirstRead(n)
      PROVE  ReaderTypeOK'
  <2>1. ReadSome(Size - 1, n, "scan") /\ Size - 1 \in 0..Size
    BY <1>3 DEF FirstRead
  <2>2. \A i \in 1..n : unread[i] \in Token
    BY <1>2, <2>1 DEF Token
  <2>3. buffer' \in [1..Size -> Token]
    BY <1>3, <2>2 DEF FirstRead, Token
  <2> QED BY <1>2, <2>1, <2>3
<1>4. ASSUME NEW n \in 1..Size, Reread(n)
      PROVE  ReaderTypeOK'
  <2>1. ReadSome(Size, n, "scan")
    BY <1>4 DEF Reread
  <2>2. \A i \in 1..n : unread[i] \in Token
    BY <1>2, <2>1 DEF Token
  <2>3. buffer' \in [1..Size -> Token]
    BY <1>4, <2>2 DEF Reread
  <2> QED BY <1>2, <2>1, <2>3
<1>5. CASE FirstReadEmpty
  BY <1>5 DEF FirstReadEmpty
<1>6. CASE Scan
  BY <1>6 DEF Scan
<1>7. CASE RereadNothing
  BY <1>7 DEF RereadNothing
<1>8. CASE ClientLeaves
  BY <1>8 DEF ClientLeaves
<1> QED BY <1>1, <1>3, <1>4, <1>5, <1>6, <1>7, <1>8 DEF ReaderNext, ServerStep

(* A set of positions has a least one.                                       *)
LEMMA SmallestOf ==
  ASSUME NEW S \in SUBSET Nat, S # {}
  PROVE  Min(S) \in S /\ \A y \in S : Min(S) <= y
<1> DEFINE R == {ss \in Nat \X Nat : ss[1] < ss[2]}
<1>1. IsWellFoundedOn(R, Nat)
  BY NatLessThanWellFounded DEF OpToRel
<1> HIDE DEF R
<1>2. PICK k \in S : \A j \in S : <<j, k>> \notin R
  BY <1>1, WFMin
<1>3. \A j \in S : ~(j < k)
  BY <1>2 DEF R
<1>4. \A j \in S : k <= j
  BY <1>3
<1> QED BY <1>4 DEF Min

(* What the array holds once something was read: what the last read returned,  *)
(* and, while no read was longer than the first, the NUL behind that one.      *)
First == reads[1]
Held ==
  at \in {"scan", "reread", "answered", "gaveup"} =>
    /\ reads # <<>>
    /\ Len(First) < Size /\ Len(LastRead) <= Size
    /\ \A j \in 1..Len(LastRead) : buffer[j] = LastRead[j]
    /\ (\A i \in 1..Len(reads) : Len(reads[i]) <= Len(First)) => buffer[Len(First) + 1] = "nul"

Searched ==
  /\ at = "first" => reads = <<>>
  /\ at \in {"scan", "reread"} =>
       \A i \in 1..Len(reads) : HoldsBlankLine(reads[i]) => at = "scan" /\ i = Len(reads)
  /\ AnswerExplained

ReaderInv == ReaderTypeOK /\ Held /\ Searched

(* The text that strstr searches begins with what the last read returned.    *)
LEMMA TextBegins ==
  ASSUME ReaderTypeOK, Held, at = "scan", HoldsBlankLine(LastRead)
  PROVE  HoldsBlankLine(Text)
<1> DEFINE l == LastRead
           nuls == {i \in 1..Size : buffer[i] = "nul"}
<1>1. l \in Seq({"x", "n"}) /\ Len(l) <= Size /\ \A j \in 1..Len(l) : buffer[j] = l[j]
  BY DEF ReaderTypeOK, Held, LastRead
<1>2. PICK i \in 1..Len(l) - 1 : l[i] = "n" /\ l[i + 1] = "n"
  BY DEF HoldsBlankLine
<1>3. i \in 1..Size /\ i + 1 \in 1..Size /\ buffer[i] = "n" /\ buffer[i + 1] = "n"
  BY <1>1, <1>2, SizeAssumption
<1>4. buffer \in Seq(Token) /\ Len(buffer) = Size
  BY SizeAssumption DEF ReaderTypeOK
<1>5. CASE nuls = {}
  <2>1. Text = buffer \o beyond
    BY <1>5 DEF Text
  <2>2. beyond \in Seq(Garbage)
    <3>1. PICK g \in Garbage, h \in Garbage : beyond = <<g, h>>
      BY DEF ReaderTypeOK
    <3> QED BY <3>1
  <2>3. Len(Text) >= Size /\ Text[i] = "n" /\ Text[i + 1] = "n" /\ Len(Text) \in Nat
    BY <2>1, <2>2, <1>3, <1>4, SizeAssumption
  <2>4. i \in 1..Len(Text) - 1
    BY <2>3, <1>3, SizeAssumption
  <2> QED BY <2>3, <2>4 DEF HoldsBlankLine
<1>6. CASE nuls # {}
  <2>1. nuls \subseteq 1..Size /\ nuls \in SUBSET Nat
    OBVIOUS
  <2>2. Min(nuls) \in nuls
    BY <1>6, <2>1, SmallestOf
  <2> DEFINE m == Min(nuls)
  <2>3. m \in 1..Size /\ buffer[m] = "nul"
    BY <2>2
  <2>4. m > Len(l)
    <3>1. \A j \in 1..Len(l) : buffer[j] # "nul"
      BY <1>1
    <3> QED BY <3>1, <2>3, <1>1
  <2>5. Text = SubSeq(buffer, 1, m - 1)
    BY <1>6 DEF Text
  <2> HIDE DEF m
  <2>6. Len(Text) = m - 1 /\ Text[i] = "n" /\ Text[i + 1] = "n"
    BY <2>3, <2>4, <2>5, <1>1, <1>2, <1>3, <1>4, SizeAssumption
  <2> QED BY <2>6, <2>3, <2>4, <1>1, <1>2 DEF HoldsBlankLine
<1> QED BY <1>5, <1>6

(* While the NUL of the first read stands behind what the last one returned,   *)
(* strstr searches what was read and nothing else.                             *)
LEMMA TextEnds ==
  ASSUME ReaderTypeOK, Held, at = "scan", HoldsBlankLine(Text),
         \A i \in 1..Len(reads) : Len(reads[i]) <= Len(LastRead) /\ Len(reads[i]) <= Len(First)
  PROVE  HoldsBlankLine(LastRead)
<1> DEFINE l == LastRead
           nuls == {i \in 1..Size : buffer[i] = "nul"}
<1>1. reads # <<>> /\ 1 \in 1..Len(reads) /\ Len(reads) \in 1..Len(reads)
  BY DEF ReaderTypeOK, Held
<1>2. l \in Seq({"x", "n"}) /\ First \in Seq({"x", "n"}) /\ Len(l) = Len(First)
  BY <1>1 DEF ReaderTypeOK, LastRead, First
<1>3. Len(l) < Size /\ buffer[Len(l) + 1] = "nul" /\ \A j \in 1..Len(l) : buffer[j] = l[j]
  BY <1>2 DEF Held
<1>4. buffer \in Seq(Token) /\ Len(buffer) = Size
  BY SizeAssumption DEF ReaderTypeOK
<1>5. Len(l) + 1 \in nuls /\ nuls \in SUBSET Nat
  BY <1>2, <1>3, SizeAssumption
<1>6. Min(nuls) \in nuls /\ Min(nuls) <= Len(l) + 1
  BY <1>5, SmallestOf
<1> DEFINE m == Min(nuls)
<1>7. m = Len(l) + 1
  <2>1. \A j \in 1..Len(l) : buffer[j] # "nul"
    BY <1>2, <1>3
  <2> QED BY <2>1, <1>2, <1>6
<1>8. Text = SubSeq(buffer, 1, m - 1)
  BY <1>5 DEF Text
<1> HIDE DEF m
<1>9. Len(Text) = Len(l) /\ \A j \in 1..Len(l) : Text[j] = l[j]
  BY <1>2, <1>3, <1>4, <1>7, <1>8, SizeAssumption
<1> QED BY <1>9, <1>2 DEF HoldsBlankLine

(* A read appends what it returned, and the array begins with it.             *)
LEMMA ReadAppends ==
  ASSUME ReaderTypeOK, NEW limit \in 0..Size, NEW n, NEW next, ReadSome(limit, n, next)
  PROVE  /\ n \in 1..Size /\ n <= limit
         /\ Len(reads') = Len(reads) + 1 /\ Len(LastRead') = n
         /\ \A i \in 1..Len(reads) : reads'[i] = reads[i]
         /\ \A j \in 1..n : LastRead'[j] = unread[j]
<1>1. n \in 1..Size /\ n <= limit /\ n <= Len(unread) /\ reads' = Append(reads, SubSeq(unread, 1, n))
  BY SizeAssumption DEF ReadSome
<1>2. unread \in Seq({"x", "n"}) /\ reads \in Seq(Seq({"x", "n"}))
  BY DEF ReaderTypeOK
<1>3. LastRead' = SubSeq(unread, 1, n)
  BY <1>1, <1>2 DEF LastRead
<1> QED BY <1>1, <1>2, <1>3

(* What no read of the loop does: it keeps the array's rest.                  *)
LEMMA RereadStep ==
  ASSUME ReaderInv, NEW n \in 1..Size, Reread(n)
  PROVE  Held' /\ Searched'
<1> USE SizeAssumption
<1>1. ReadSome(Size, n, "scan") /\ Size \in 0..Size /\ at = "reread"
  BY DEF Reread
<1>2. /\ n \in 1..Size
      /\ Len(reads') = Len(reads) + 1 /\ Len(LastRead') = n
      /\ \A i \in 1..Len(reads) : reads'[i] = reads[i]
      /\ \A j \in 1..n : LastRead'[j] = unread[j]
  BY <1>1, ReadAppends DEF ReaderInv
<1>3. /\ reads \in Seq(Seq({"x", "n"})) /\ reads # <<>> /\ Len(First) < Size
      /\ (\A i \in 1..Len(reads) : Len(reads[i]) <= Len(First)) => buffer[Len(First) + 1] = "nul"
      /\ \A i \in 1..Len(reads) : ~HoldsBlankLine(reads[i])
  BY <1>1 DEF ReaderInv, ReaderTypeOK, Held, Searched
<1>4. First' = First /\ Len(reads) \in Nat /\ Len(First) \in Nat
  BY <1>2, <1>3 DEF First
<1>5. \A j \in 1..n : buffer'[j] = LastRead'[j]
  BY <1>2 DEF Reread
<1>6. ASSUME \A i \in 1..Len(reads') : Len(reads'[i]) <= Len(First') PROVE buffer'[Len(First) + 1] = "nul"
  <2>1. Len(reads'[Len(reads')]) = n /\ Len(reads') \in 1..Len(reads')
    BY <1>2, <1>4 DEF LastRead
  <2>2. n <= Len(First)
    BY <1>4, <1>6, <2>1
  <2>3. \A i \in 1..Len(reads) : Len(reads[i]) <= Len(First)
    BY <1>2, <1>4, <1>6
  <2>4. buffer[Len(First) + 1] = "nul" /\ Len(First) + 1 \in 1..Size /\ ~(Len(First) + 1 <= n)
    BY <1>3, <1>4, <2>2, <2>3, <1>2
  <2> QED BY <2>4 DEF Reread
<1>7. at' = "scan" /\ reads' # <<>>
  BY <1>1, <1>2, <1>4 DEF ReadSome
<1>8. Held'
  BY <1>2, <1>3, <1>4, <1>5, <1>6, <1>7 DEF Held
<1>9. \A i \in 1..Len(reads') : HoldsBlankLine(reads'[i]) => i = Len(reads')
  <2> SUFFICES ASSUME NEW i \in 1..Len(reads'), i # Len(reads') PROVE ~HoldsBlankLine(reads'[i])
    OBVIOUS
  <2>1. i \in 1..Len(reads)
    BY <1>2, <1>4
  <2> QED BY <2>1, <1>2, <1>3
<1> QED BY <1>7, <1>8, <1>9 DEF Searched, AnswerExplained

LEMMA FirstReadStep ==
  ASSUME ReaderInv, NEW n \in 1..Size, FirstRead(n)
  PROVE  Held' /\ Searched'
<1> USE SizeAssumption
<1>1. ReadSome(Size - 1, n, "scan") /\ Size - 1 \in 0..Size /\ at = "first"
  BY DEF FirstRead
<1>2. /\ n \in 1..Size /\ n <= Size - 1
      /\ Len(reads') = Len(reads) + 1 /\ Len(LastRead') = n
      /\ \A j \in 1..n : LastRead'[j] = unread[j]
  BY <1>1, ReadAppends DEF ReaderInv
<1>3. Len(reads') = 1 /\ First' = LastRead' /\ reads' # <<>> /\ at' = "scan"
  <2>1. reads = <<>>
    BY <1>1 DEF ReaderInv, Searched
  <2> QED BY <1>1, <1>2, <2>1 DEF First, LastRead, ReadSome
<1>4. (\A j \in 1..n : buffer'[j] = LastRead'[j]) /\ buffer'[n + 1] = "nul"
  BY <1>2 DEF FirstRead
<1>5. Held'
  BY <1>2, <1>3, <1>4 DEF Held
<1> QED BY <1>3, <1>5 DEF Searched, AnswerExplained

LEMMA ScanStep ==
  ASSUME ReaderInv, Scan
  PROVE  Held' /\ Searched'
<1>1. at = "scan" /\ UNCHANGED <<buffer, reads>> /\ at' \in {"reread", "gaveup", "answered"}
  BY DEF Scan
<1>2. Held'
  BY <1>1 DEF ReaderInv, Held, First, LastRead
<1>3. ReaderTypeOK /\ Held /\ \A i \in 1..Len(reads) : HoldsBlankLine(reads[i]) => i = Len(reads)
  BY <1>1 DEF ReaderInv, Searched
<1>4. CASE ~HoldsBlankLine(Text)
  <2>1. at' = "reread"
    BY <1>4 DEF Scan
  <2>2. ~HoldsBlankLine(LastRead)
    BY <1>1, <1>3, <1>4, TextBegins
  <2>3. \A i \in 1..Len(reads) : ~HoldsBlankLine(reads[i])
    BY <1>3, <2>2 DEF LastRead
  <2> QED BY <1>1, <1>2, <2>1, <2>3 DEF Searched, AnswerExplained
<1>5. CASE HoldsBlankLine(Text)
  <2>1. at' # "reread" /\ at' # "scan" /\ at' # "first"
    BY <1>5 DEF Scan
  <2>2. HoldsBlankLine(LastRead) \/ \E i \in 1..Len(reads) :
          ~(Len(reads[i]) <= Len(LastRead)) \/ ~(Len(reads[i]) <= Len(First))
    BY <1>1, <1>3, <1>5, TextEnds
  <2>3. HoldsBlankLine(LastRead) \/ \E i \in 1..Len(reads) :
          Len(reads[i]) > Len(LastRead) \/ Len(reads[i]) > Len(reads[1])
    <3>1. Len(LastRead) \in Nat /\ Len(First) \in Nat /\ \A i \in 1..Len(reads) : Len(reads[i]) \in Nat
      BY <1>1, <1>3 DEF ReaderTypeOK, Held, First, LastRead
    <3> QED BY <2>2, <3>1 DEF First
  <2>4. AnswerExplained'
    BY <1>1, <2>3 DEF AnswerExplained, LastRead, HoldsBlankLine
  <2> QED BY <1>2, <2>1, <2>4 DEF Searched
<1> QED BY <1>4, <1>5

LEMMA ReaderStep ==
  ASSUME ReaderInv, [ReaderNext]_readerVars
  PROVE  ReaderInv'
<1>1. ReaderTypeOK'
  BY ReaderTypeStep DEF ReaderInv
<1>2. ASSUME UNCHANGED <<buffer, reads>>,
             \/ at' = at
             \/ at' = "ended"
             \/ at = "reread" /\ at' = "scan"
      PROVE  Held' /\ Searched'
  BY <1>2 DEF ReaderInv, ReaderTypeOK, Held, Searched, AnswerExplained, First, LastRead, HoldsBlankLine
<1>3. ASSUME NEW n \in 1..Size, FirstRead(n) \/ Reread(n)
      PROVE  Held' /\ Searched'
  BY <1>3, FirstReadStep, RereadStep
<1>4. ASSUME FirstReadEmpty \/ RereadNothing \/ ClientLeaves \/ UNCHANGED readerVars
      PROVE  Held' /\ Searched'
  BY <1>2, <1>4 DEF FirstReadEmpty, RereadNothing, ClientLeaves, readerVars
<1>5. ASSUME Scan PROVE Held' /\ Searched'
  BY <1>5, ScanStep
<1> QED BY <1>1, <1>3, <1>4, <1>5 DEF ReaderInv, ReaderNext, ServerStep

LEMMA ReaderInvariance == ReaderSpec => []ReaderInv
<1>1. ReaderInit => ReaderInv
  <2>1. ReaderInit => ReaderTypeOK
    BY SizeAssumption, RequestsAssumption DEF ReaderInit, ReaderTypeOK, Token
  <2> QED BY <2>1 DEF ReaderInit, ReaderInv, Held, Searched, AnswerExplained
<1> QED BY <1>1, ReaderStep, PTL DEF ReaderSpec

(* The child loses the end of a header only where a read splits the blank    *)
(* line, and answers without one in the last read only because of what       *)
(* earlier reads left, or from behind an overwritten NUL (server.c:224):     *)
(* whatever the request, its pieces and the size of the buffer.              *)
THEOREM SearchIsExplained == ReaderSpec => []SearchExplained
<1>1. ReaderInv => OnlySplitIsMissed
  BY DEF ReaderInv, Searched, OnlySplitIsMissed
<1>2. ReaderInv => AnswerExplained
  BY DEF ReaderInv, Searched
<1>3. ReaderInv => SearchExplained
  BY <1>1, <1>2 DEF SearchExplained
<1> QED BY <1>3, ReaderInvariance, PTL

(* The variables keep their types, for every request and every split of it.  *)
THEOREM TypeCorrect == ReaderSpec => []ReaderTypeOK
<1>1. ReaderInv => ReaderTypeOK
  BY DEF ReaderInv
<1> QED BY <1>1, ReaderInvariance, PTL
=============================================================================
