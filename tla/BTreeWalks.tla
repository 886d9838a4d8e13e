----------------------------- MODULE BTreeWalks -----------------------------
(***************************************************************************)
(* The functions of btree.c that only read the tree: the traversals, with  *)
(* recursion and with a stack or a queue, search_min and search_max, and   *)
(* is_balance.                                                             *)
(*                                                                         *)
(* The functions that call themselves are recursive functions here; of a   *)
(* traversal the value is the sequence of the nodes it gives to todo.  The *)
(* loops are steps as in BTree, one for an iteration: walk names the one   *)
(* that runs, and the client calls nothing else meanwhile.                 *)
(***************************************************************************)
EXTENDS BTree, SequencesExt

VARIABLES
  walk,   \* the loop that runs, or "none"
  at,     \* its cursor
  stack,  \* of the loops with a stack: its top is the head
  queue,  \* level_order's
  tmp,    \* post_order_norec's: the last node given to todo
  out     \* the nodes given to todo so far

walkvars == <<walk, at, stack, queue, tmp, out>>

Resting == /\ walk = "none" /\ at = NULL /\ tmp = NULL
           /\ stack = <<>> /\ queue = <<>> /\ out = <<>>

-----------------------------------------------------------------------------
(* The functions that call themselves *)

in_order[n \in NodeOrNull] ==
  IF n = NULL THEN <<>> ELSE in_order[lchild[n]] \o <<n>> \o in_order[rchild[n]]

pre_order[n \in NodeOrNull] ==
  IF n = NULL THEN <<>> ELSE <<n>> \o pre_order[lchild[n]] \o pre_order[rchild[n]]

post_order[n \in NodeOrNull] ==
  IF n = NULL THEN <<>> ELSE post_order[lchild[n]] \o post_order[rchild[n]] \o <<n>>

\* __balance: whether the tree at n is balanced, and if it is, its depth.
balance[n \in NodeOrNull] ==
  IF n = NULL THEN [ok |-> TRUE, depth |-> 0]
  ELSE LET l == balance[lchild[n]]
           r == balance[rchild[n]]
       IN IF l.ok /\ r.ok /\ l.depth - r.depth \in -1..1
          THEN [ok |-> TRUE, depth |-> IF l.depth >= r.depth THEN l.depth + 1 ELSE r.depth + 1]
          ELSE [ok |-> FALSE, depth |-> 0]

-----------------------------------------------------------------------------
(* The loops *)

Start(w, q) == /\ pc = "idle" /\ walk = "none"
               /\ walk' = w /\ at' = root /\ queue' = q
               /\ UNCHANGED <<stack, tmp, out>>

\* level_order is for a tree that is not empty; search_min and search_max of
\* an empty one return at once.
Walk == \/ \E w \in {"pre", "in", "post"} : Start(w, <<>>)
        \/ root # NULL /\ Start("level", <<root>>)
        \/ root # NULL /\ \E w \in {"min", "max"} : Start(w, <<>>)

PreVisit == /\ walk = "pre" /\ at # NULL
            /\ stack' = <<at>> \o stack
            /\ out' = Append(out, at)
            /\ at' = lchild[at]
            /\ UNCHANGED <<walk, queue, tmp>>

PreTurn == /\ walk = "pre" /\ at = NULL /\ stack # <<>>
           /\ at' = rchild[Head(stack)]
           /\ stack' = Tail(stack)
           /\ UNCHANGED <<walk, queue, tmp, out>>

Descend == /\ walk \in {"in", "post"} /\ at # NULL
           /\ stack' = <<at>> \o stack
           /\ at' = lchild[at]
           /\ UNCHANGED <<walk, queue, tmp, out>>

InVisit == /\ walk = "in" /\ at = NULL /\ stack # <<>>
           /\ out' = Append(out, Head(stack))
           /\ at' = rchild[Head(stack)]
           /\ stack' = Tail(stack)
           /\ UNCHANGED <<walk, queue, tmp>>

\* The right subtree of the top is still to be done.
PostTurn == /\ walk = "post" /\ at = NULL /\ stack # <<>>
            /\ rchild[Head(stack)] \notin {NULL, tmp}
            /\ at' = rchild[Head(stack)]
            /\ UNCHANGED <<walk, stack, queue, tmp, out>>

\* Mutant of PostVisit: it does not remember the node.
PostVisitForgets == /\ walk = "post" /\ at = NULL /\ stack # <<>>
                    /\ rchild[Head(stack)] \in {NULL, tmp}
                    /\ out' = Append(out, Head(stack))
                    /\ stack' = Tail(stack)
                    /\ UNCHANGED <<walk, at, queue, tmp>>

PostVisit == /\ walk = "post" /\ at = NULL /\ stack # <<>>
             /\ rchild[Head(stack)] \in {NULL, tmp}
             /\ out' = Append(out, Head(stack))
             /\ tmp' = Head(stack)
             /\ stack' = Tail(stack)
             /\ UNCHANGED <<walk, at, queue>>

Children(n) == (IF lchild[n] = NULL THEN <<>> ELSE <<lchild[n]>>)
                 \o (IF rchild[n] = NULL THEN <<>> ELSE <<rchild[n]>>)

LevelVisit == /\ walk = "level" /\ queue # <<>>
              /\ at' = Head(queue)
              /\ out' = Append(out, Head(queue))
              /\ queue' = Tail(queue) \o Children(Head(queue))
              /\ UNCHANGED <<walk, stack, tmp>>

MinWalk == /\ walk = "min" /\ lchild[at] # NULL
           /\ at' = lchild[at]
           /\ UNCHANGED <<walk, stack, queue, tmp, out>>

MaxWalk == /\ walk = "max" /\ rchild[at] # NULL
           /\ at' = rchild[at]
           /\ UNCHANGED <<walk, stack, queue, tmp, out>>

Ended == \/ walk \in {"pre", "in", "post"} /\ at = NULL /\ stack = <<>>
         \/ walk = "level" /\ queue = <<>>
         \/ walk = "min" /\ lchild[at] = NULL
         \/ walk = "max" /\ rchild[at] = NULL

Leave == /\ Ended
         /\ walk' = "none" /\ at' = NULL /\ tmp' = NULL
         /\ stack' = <<>> /\ queue' = <<>> /\ out' = <<>>

WalkLoop == \/ PreVisit \/ PreTurn \/ Descend \/ InVisit \/ PostTurn \/ PostVisit
            \/ LevelVisit \/ MinWalk \/ MaxWalk \/ Leave

WalkNext == \/ Next /\ walk = "none" /\ UNCHANGED walkvars
            \/ (Walk \/ WalkLoop) /\ UNCHANGED vars

WalkInit == Init /\ Resting

WalkSpec == WalkInit /\ [][WalkNext]_<<vars, walkvars>>

-----------------------------------------------------------------------------
(* Properties *)

\* How many links lead from the root to n, and the longest path down from n.
level[n \in NodeOrNull] == IF n = NULL THEN 0 ELSE 1 + level[parent[n]]
Height(n) == Max({0} \union {level[m] - level[n] + 1 : m \in below[n]})

\* A node before what is below it, or after; a level before the next; and
\* otherwise from the left to the right.
PreBefore   == {p \in Node \X Node : /\ p[1] # p[2]
                                     /\ p[2] \in below[p[1]] \/ (p \in Before /\ p[1] \notin below[p[2]])}
PostBefore  == {p \in Node \X Node : /\ p[1] # p[2]
                                     /\ p[1] \in below[p[2]] \/ (p \in Before /\ p[2] \notin below[p[1]])}
LevelBefore == {p \in Node \X Node : \/ level[p[1]] < level[p[2]]
                                     \/ level[p[1]] = level[p[2]] /\ p \in Before}

Ordered(s, order) == \A i, j \in DOMAIN s : i < j => <<s[i], s[j]>> \in order

Lists(s, order) == ToSet(s) = below[root] /\ Ordered(s, order)

(* What the functions that call themselves return: each traversal gives     *)
(* every node of the tree to todo, in its order, and is_balance compares    *)
(* the true depths at every node.                                           *)
RecursionAgrees ==
  /\ Lists(in_order[root], Before)
  /\ Lists(pre_order[root], PreBefore)
  /\ Lists(post_order[root], PostBefore)
  /\ balance[root].ok <=> \A n \in below[root] : Height(lchild[n]) - Height(rchild[n]) \in -1..1

Follows(listing) == IsPrefix(out, listing) /\ (Ended => out = listing)

(* What the loops do meanwhile and when they end: those with a stack give   *)
(* to todo what the recursive traversal gives, node by node; level_order    *)
(* goes down level by level and in one from the left to the right; and      *)
(* search_min and search_max stop at the first and the last node in order.  *)
LoopsAgree ==
  /\ walk = "pre" => Follows(pre_order[root])
  /\ walk = "in" => Follows(in_order[root])
  /\ walk = "post" => Follows(post_order[root])
  /\ walk = "level" => Ordered(out, LevelBefore) /\ (Ended => Lists(out, LevelBefore))
  /\ walk = "min" /\ Ended => at = Head(in_order[root])
  /\ walk = "max" /\ Ended => at = Last(in_order[root])

WalksAgree == RecursionAgrees /\ LoopsAgree
=============================================================================
