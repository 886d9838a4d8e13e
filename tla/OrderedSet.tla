----------------------------- MODULE OrderedSet -----------------------------
(***************************************************************************)
(* What btree.c promises: the nodes the client built in, no two of one     *)
(* value, one before the other by value in the sense of its cmp.           *)
(***************************************************************************)
EXTENDS Integers

CONSTANTS Node, NULL, data

VARIABLES members,
          before,      \* the pairs of members, the first listed before the second
          descending,
          found        \* the answer to the last search

vars == <<members, before, descending, found>>

\* The members with the value of n: none or one.
Equals(n) == {m \in members : data[m] = data[n]}

\* The order in which the nodes of S are listed.
Listed(S, down) ==
  {p \in S \X S : IF down THEN data[p[1]] > data[p[2]] ELSE data[p[1]] < data[p[2]]}

Init == members = {} /\ before = {} /\ descending = FALSE /\ found = NULL

\* A node of a value that is there already is refused: nothing happens.
Insert(n) == /\ Equals(n) = {}
             /\ members' = members \union {n}
             /\ before' = Listed(members', descending)
             /\ UNCHANGED <<descending, found>>

Delete(n) == /\ n \in members
             /\ members' = members \ {n}
             /\ before' = Listed(members', descending)
             /\ UNCHANGED <<descending, found>>

Find(n) == /\ found' \in IF Equals(n) = {} THEN {NULL} ELSE Equals(n)
           /\ UNCHANGED <<members, before, descending>>

Turn == /\ descending' = ~descending
        /\ before' = Listed(members, ~descending)
        /\ UNCHANGED <<members, found>>

Next == (\E n \in Node : Insert(n) \/ Delete(n) \/ Find(n)) \/ Turn

Spec == Init /\ [][Next]_vars
=============================================================================
