---------------------------- MODULE HeaderReader ----------------------------
(***************************************************************************)
(* handle_connection of http_server/server.c: how a child reads one        *)
(* request.  A token stands for some bytes: "n" for a line end CR LF, "x"   *)
(* for anything else, so that two "n" in a row are the blank line that ends *)
(* the header.  The first read leaves room for a NUL; the reads of the loop *)
(* all start at the buffer's beginning again, and add no NUL.               *)
(***************************************************************************)
EXTENDS Integers, Sequences, FiniteSetsExt

CONSTANTS Size,      \* tokens that fit into buffer
          Requests,  \* what clients may send, as sequences of tokens
          Garbage    \* tokens that memory nobody wrote may hold

ASSUME SizeAssumption == Size \in Nat \ {0}
ASSUME RequestsAssumption == Requests \subseteq Seq({"x", "n"})

VARIABLES
  at,        \* where the child is: "first", "scan", "reread", "answered", "gaveup", "ended"
  buffer,    \* the array, not initialised
  bytesRead, \* bytes_read, in tokens
  reads,     \* ghost: what each read that returned something returned
  unread,    \* what the client sent and was not read yet
  client,    \* "waits" for the answer, "closed" or "reset" the connection
  beyond     \* what follows the array in memory

readerVars == <<at, buffer, bytesRead, reads, unread, client, beyond>>

HoldsBlankLine(s) == \E i \in 1..Len(s) - 1 : s[i] = "n" /\ s[i + 1] = "n"

\* What strstr searches: up to the first NUL, past the end if there is none.
Text ==
  LET nuls == {i \in 1..Size : buffer[i] = "nul"}
  IN  IF nuls = {} THEN buffer \o beyond ELSE SubSeq(buffer, 1, Min(nuls) - 1)

ReaderInit == /\ at = "first"
              /\ \E g \in Garbage : buffer = [i \in 1..Size |-> g]
              /\ bytesRead = 0
              /\ reads = <<>>
              /\ unread \in Requests
              /\ client = "waits"
              /\ beyond \in Garbage \X Garbage

ClientLeaves ==
  /\ client = "waits"
  /\ at \in {"first", "scan", "reread"}
  /\ client' \in {"closed", "reset"}
  /\ UNCHANGED <<at, buffer, bytesRead, reads, unread, beyond>>

\* read takes at least one token when some are there, as many as arrived; 0 at
\* the end of the stream; -1 after a reset; otherwise it blocks.
ReadSome(limit, n, next) ==
  /\ n \in 1..limit
  /\ n <= Len(unread)
  /\ client # "reset"
  /\ bytesRead' = n
  /\ reads' = Append(reads, SubSeq(unread, 1, n))
  /\ unread' = SubSeq(unread, n + 1, Len(unread))
  /\ at' = next
  /\ UNCHANGED <<client, beyond>>

\* Mutant of FirstRead: no NUL.
FirstReadUnterminated(n) ==
  /\ at = "first"
  /\ ReadSome(Size - 1, n, "scan")
  /\ buffer' = [i \in 1..Size |-> IF i <= n THEN unread[i] ELSE buffer[i]]

\* The only read that is followed by a NUL.
FirstRead(n) ==
  /\ at = "first"
  /\ ReadSome(Size - 1, n, "scan")
  /\ buffer' = [i \in 1..Size |-> IF i <= n THEN unread[i]
                                   ELSE IF i = n + 1 THEN "nul" ELSE buffer[i]]

\* Nothing sent: done.  read failed: system_error.
FirstReadEmpty ==
  /\ at = "first"
  /\ client = "reset" \/ (client = "closed" /\ unread = <<>>)
  /\ at' = "ended"
  /\ bytesRead' = IF client = "reset" THEN -1 ELSE 0
  /\ UNCHANGED <<buffer, reads, unread, client, beyond>>

\* while (strstr(...) == NULL); the test of bytes_read comes after the loop.
Scan ==
  /\ at = "scan"
  /\ at' = IF ~HoldsBlankLine(Text) THEN "reread"
           ELSE IF bytesRead = -1 THEN "gaveup" ELSE "answered"
  /\ UNCHANGED <<buffer, bytesRead, reads, unread, client, beyond>>

Reread(n) ==
  /\ at = "reread"
  /\ ReadSome(Size, n, "scan")
  /\ buffer' = [i \in 1..Size |-> IF i <= n THEN unread[i] ELSE buffer[i]]

\* 0 or -1: the buffer stays as it is and the loop goes on.
RereadNothing ==
  /\ at = "reread"
  /\ client = "reset" \/ (client = "closed" /\ unread = <<>>)
  /\ bytesRead' = IF client = "reset" THEN -1 ELSE 0
  /\ at' = "scan"
  /\ UNCHANGED <<buffer, reads, unread, client, beyond>>

ServerStep == \/ \E n \in 1..Size : FirstRead(n) \/ Reread(n)
              \/ FirstReadEmpty
              \/ Scan
              \/ RereadNothing

ReaderNext == ServerStep \/ ClientLeaves

ReaderSpec == ReaderInit /\ [][ReaderNext]_readerVars

-----------------------------------------------------------------------------
(* Properties *)

\* What an element of the array may hold.
Token == Garbage \union {"x", "n", "nul"}

LastRead == reads[Len(reads)]

(* The variables keep their types.                                           *)
ReaderTypeOK ==
  /\ at \in {"first", "scan", "reread", "answered", "gaveup", "ended"}
  /\ buffer \in [1..Size -> Token]
  /\ bytesRead \in -1..Size
  /\ reads \in Seq(Seq({"x", "n"}))
  /\ unread \in Seq({"x", "n"}) /\ beyond \in Garbage \X Garbage
  /\ client \in {"waits", "closed", "reset"}

(* The loop of server.c:224 reads on only while no read has returned a whole *)
(* blank line: it loses the end of a header only where a read splits it.     *)
OnlySplitIsMissed == at = "reread" => \A i \in 1..Len(reads) : ~HoldsBlankLine(reads[i])

(* The child answers after a read that ends the header.  Otherwise it found  *)
(* a blank line in the rest of a longer read, or behind the NUL of the first *)
(* read, which a longer one overwrote: strstr searches more than was read.   *)
AnswerExplained ==
  at = "answered" =>
    \/ HoldsBlankLine(LastRead)
    \/ \E i \in 1..Len(reads) : Len(reads[i]) > Len(LastRead) \/ Len(reads[i]) > Len(reads[1])

(* What the search for the blank line can get wrong in a buffer with the     *)
(* rests of earlier reads and one NUL, in both directions (server.c:224).    *)
SearchExplained == OnlySplitIsMissed /\ AnswerExplained
=============================================================================
