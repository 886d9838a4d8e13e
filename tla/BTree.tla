------------------------------- MODULE BTree -------------------------------
(***************************************************************************)
(* 01c_datastruct/c_code_1102/1220/03btree/btree.c: a sorted binary tree   *)
(* whose nodes are embedded in the client's structures.  The tree links    *)
(* and unlinks them, and the client's cmp orders them.                     *)
(*                                                                         *)
(* One step is an iteration of a loop or what follows it: between two      *)
(* calls pc is "idle".  The client is main.c, in the order it likes: it    *)
(* builds in nodes that bnode_init or del_node has left without links,     *)
(* deletes nodes that are in the tree, and after reverse passes a cmp of   *)
(* the other sense.                                                        *)
(***************************************************************************)
EXTENDS Integers

CONSTANTS Node,  \* the nodes the client allocates
          NULL,
          data   \* the value of each

ASSUME BTreeAssumption == NULL \notin Node /\ data \in [Node -> Int]

\* The client's cmp returns a difference as an int: no two of its values (6 to
\* 90 in main.c) are further apart than an int is wide.
INT_MAX == 2147483647
ASSUME CmpAssumption == \A a, b \in Node : data[a] - data[b] <= INT_MAX

VARIABLES
  root, parent, lchild, rchild,
  descending,  \* the sense of the client's cmp
  pc,          \* the loop that runs, or "idle"
  bnode, cur,  \* argument and cursor of the call
  above,       \* build_tree's parent
  found        \* what the last search returned

links == <<root, parent, lchild, rchild>>
call  == <<pc, bnode, cur, above>>
vars  == <<links, descending, call, found>>

cmp(a, b) == IF descending THEN data[b] - data[a] ELSE data[a] - data[b]

\* The root has no parent, nor has a node that is in no tree.
InTree(n) == n = root \/ parent[n] # NULL

\* bnode_init on every node, and btree_init.
Init == /\ root = NULL
        /\ parent = [n \in Node |-> NULL]
        /\ lchild = [n \in Node |-> NULL]
        /\ rchild = [n \in Node |-> NULL]
        /\ descending = FALSE
        /\ pc = "idle" /\ bnode = NULL /\ cur = NULL /\ above = NULL
        /\ found = NULL

Enter(loop, n, start) == /\ pc' = loop
                         /\ bnode' = n
                         /\ cur' = start
                         /\ above' = NULL

Return == pc' = "idle" /\ bnode' = NULL /\ cur' = NULL /\ above' = NULL

-----------------------------------------------------------------------------
(* build_tree *)

\* The first node becomes the root, and is then found equal to itself.
Build(n) == /\ pc = "idle"
            /\ ~InTree(n)
            /\ root' = IF root = NULL THEN n ELSE root
            /\ Enter("build", n, root')
            /\ UNCHANGED <<parent, lchild, rchild, descending, found>>

BuildWalk == /\ pc = "build" /\ cur # NULL
             /\ cmp(bnode, cur) # 0
             /\ cur' = IF cmp(bnode, cur) < 0 THEN lchild[cur] ELSE rchild[cur]
             /\ above' = cur
             /\ UNCHANGED <<links, descending, pc, bnode, found>>

BuildRefuse == /\ pc = "build" /\ cur # NULL
               /\ cmp(bnode, cur) = 0
               /\ Return
               /\ UNCHANGED <<links, descending, found>>

\* Mutant of BuildLink: the parent is forgotten.
BuildLinkOneWay ==
  /\ pc = "build" /\ cur = NULL
  /\ IF cmp(bnode, above) < 0
     THEN lchild' = [lchild EXCEPT ![above] = bnode] /\ UNCHANGED rchild
     ELSE rchild' = [rchild EXCEPT ![above] = bnode] /\ UNCHANGED lchild
  /\ Return
  /\ UNCHANGED <<root, parent, descending, found>>

BuildLink ==
  /\ pc = "build" /\ cur = NULL
  /\ IF cmp(bnode, above) < 0
     THEN lchild' = [lchild EXCEPT ![above] = bnode] /\ UNCHANGED rchild
     ELSE rchild' = [rchild EXCEPT ![above] = bnode] /\ UNCHANGED lchild
  /\ parent' = [parent EXCEPT ![bnode] = above]
  /\ Return
  /\ UNCHANGED <<root, descending, found>>

-----------------------------------------------------------------------------
(* search *)

Search(n) == /\ pc = "idle"
             /\ Enter("search", n, root)
             /\ UNCHANGED <<links, descending, found>>

SearchWalk == /\ pc = "search" /\ cur # NULL
              /\ cmp(bnode, cur) # 0
              /\ cur' = IF cmp(bnode, cur) < 0 THEN lchild[cur] ELSE rchild[cur]
              /\ UNCHANGED <<links, descending, pc, bnode, above, found>>

SearchReturn == /\ pc = "search"
                /\ cur # NULL => cmp(bnode, cur) = 0
                /\ found' = cur
                /\ Return
                /\ UNCHANGED <<links, descending>>

-----------------------------------------------------------------------------
(* del_node *)

\* The children (lchild or rchild) after m is given the place of n under
\* n's parent; of the root's place RootWith tells.
PlaceGiven(child, n, m) ==
  [x \in Node |-> IF x = parent[n] /\ child[x] = n THEN m ELSE child[x]]

RootWith(n, m) == IF parent[n] = NULL THEN m ELSE root

\* A node with one child or none: the child, if any, takes its place.
DelSplice(n) ==
  /\ pc = "idle"
  /\ InTree(n)
  /\ lchild[n] = NULL \/ rchild[n] = NULL
  /\ LET m == IF lchild[n] # NULL THEN lchild[n] ELSE rchild[n]
     IN /\ root' = RootWith(n, m)
        /\ lchild' = [PlaceGiven(lchild, n, m) EXCEPT ![n] = NULL]
        /\ rchild' = [PlaceGiven(rchild, n, m) EXCEPT ![n] = NULL]
        /\ parent' = [x \in Node |-> IF x = n THEN NULL
                                   ELSE IF x = m THEN parent[n] ELSE parent[x]]
  /\ UNCHANGED <<descending, call, found>>

\* A node with two children: look for the last node of the left subtree.
DelSearch(n) == /\ pc = "idle"
                /\ InTree(n)
                /\ lchild[n] # NULL /\ rchild[n] # NULL
                /\ Enter("replace", n, lchild[n])
                /\ UNCHANGED <<links, descending, found>>

\* Mutant of ReplaceWalk: it goes to the smallest node of the left subtree.
ReplaceWalkLeft == /\ pc = "replace"
                   /\ rchild[cur] # NULL
                   /\ cur' = IF lchild[cur] # NULL THEN lchild[cur] ELSE rchild[cur]
                   /\ UNCHANGED <<links, descending, pc, bnode, above, found>>

ReplaceWalk == /\ pc = "replace"
               /\ rchild[cur] # NULL
               /\ cur' = rchild[cur]
               /\ UNCHANGED <<links, descending, pc, bnode, above, found>>

\* The node found gives its place to its left child, takes the place of the
\* deleted node and receives its children: one of them may be that left child,
\* when the node found was itself the left child of the deleted one.
ReplaceTake ==
  /\ pc = "replace"
  /\ rchild[cur] = NULL
  /\ LET l == PlaceGiven(lchild, cur, lchild[cur])
         r == PlaceGiven(rchild, cur, lchild[cur])
     IN /\ root' = RootWith(bnode, cur)
        /\ lchild' = [PlaceGiven(l, bnode, cur) EXCEPT ![cur] = l[bnode], ![bnode] = NULL]
        /\ rchild' = [PlaceGiven(r, bnode, cur) EXCEPT ![cur] = r[bnode], ![bnode] = NULL]
        /\ parent' = [x \in Node |-> IF x = bnode THEN NULL
                                   ELSE IF x = cur THEN parent[bnode]
                                   ELSE IF x \in {l[bnode], r[bnode]} THEN cur
                                   ELSE IF x = lchild[cur] THEN parent[cur] ELSE parent[x]]
  /\ Return
  /\ UNCHANGED <<descending, found>>

-----------------------------------------------------------------------------
(* reverse *)

\* Every node of the tree gets its children exchanged.
ReverseTree ==
  /\ pc = "idle"
  /\ descending' = ~descending
  /\ lchild' = [n \in Node |-> IF InTree(n) THEN rchild[n] ELSE lchild[n]]
  /\ rchild' = [n \in Node |-> IF InTree(n) THEN lchild[n] ELSE rchild[n]]
  /\ UNCHANGED <<root, parent, call, found>>

-----------------------------------------------------------------------------
Loop == \/ BuildWalk \/ BuildRefuse \/ BuildLink
        \/ SearchWalk \/ SearchReturn
        \/ ReplaceWalk \/ ReplaceTake

Call == \/ \E n \in Node : Build(n) \/ Search(n) \/ DelSplice(n) \/ DelSearch(n)
        \/ ReverseTree

Next == Call \/ Loop

Spec == Init /\ [][Next]_vars

-----------------------------------------------------------------------------
(* Properties *)

NodeOrNull == Node \union {NULL}

TypeOK ==
  /\ root \in NodeOrNull
  /\ parent \in [Node -> NodeOrNull]
  /\ lchild \in [Node -> NodeOrNull]
  /\ rchild \in [Node -> NodeOrNull]
  /\ descending \in BOOLEAN
  /\ pc \in {"idle", "build", "search", "replace"}
  /\ bnode \in NodeOrNull /\ (pc # "idle" => bnode \in Node)
  /\ cur \in NodeOrNull /\ above \in NodeOrNull
  /\ pc = "replace" => cur \in Node
  /\ pc = "build" /\ cur = NULL => above \in Node
  /\ found \in NodeOrNull

(* The links agree in both directions: whoever is a child has the other as  *)
(* its parent, and the reverse; the root has no parent, and a node that is  *)
(* in no tree, refused or deleted, has no links left: the client may build  *)
(* it in again without bnode_init.                                          *)
Linked ==
  /\ \A n \in Node : /\ lchild[n] # NULL => parent[lchild[n]] = n
                     /\ rchild[n] # NULL => parent[rchild[n]] = n
                     /\ lchild[n] = rchild[n] => lchild[n] = NULL
                     /\ parent[n] # NULL => n \in {lchild[parent[n]], rchild[parent[n]]}
                     /\ ~InTree(n) => lchild[n] = NULL /\ rchild[n] = NULL
  /\ root # NULL => parent[root] = NULL

\* The nodes at and below n.
below[n \in NodeOrNull] ==
  IF n = NULL THEN {} ELSE {n} \union below[lchild[n]] \union below[rchild[n]]

\* The order the links give: the left subtree of a node, the node, the right.
Before == UNION {(below[lchild[n]] \X {n}) \union (({n} \union below[lchild[n]]) \X below[rchild[n]])
                   : n \in Node}

(* The tree is an ordered set: what can be reached from the root is what    *)
(* was built in and not deleted, no two of one value, left and right agree  *)
(* with cmp, and search finds what is there and nothing else.               *)
Set == INSTANCE OrderedSet WITH members <- below[root], before <- Before
ImplementsOrderedSet == Set!Spec
=============================================================================
