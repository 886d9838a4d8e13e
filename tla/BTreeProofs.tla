----------------------------- MODULE BTreeProofs -----------------------------
(***************************************************************************)
(* The tree implements OrderedSet, with the types and the agreement of     *)
(* its links on the way, and the functions that read it return what they   *)
(* should, for every set of nodes and any values of them.                  *)
(*                                                                         *)
(* First the links.  Linked alone is not inductive.  That the node which   *)
(* replaces a deleted one is not the deleted one itself follows from the   *)
(* tree having no cycle, and this is not a property of one node and its    *)
(* neighbours: Grown says that there is a rank which grows from every      *)
(* parent to its child, up to a bound.  Cursors adds what the loops know   *)
(* of their cursors.                                                       *)
(*                                                                         *)
(* Then the order.  OrderInv says of below, the nodes at and below a node, *)
(* what a sorted tree is, and what the loops know of where they stand in   *)
(* it.  below is a recursive function: that it satisfies its equation, and *)
(* no other function does, follows from the bounded rank (OneSolution).    *)
(*                                                                         *)
(* Last the functions that read the tree (BTreeWalks).  From a bounded     *)
(* rank that decreases down the tree follows also that the recursive       *)
(* functions satisfy their equations (Recursion), and by induction along   *)
(* the tree what they return.  WalkInv says of each loop what it has given *)
(* to todo, what its cursor and its stack or queue have left, and that the *)
(* former comes first; where nothing is left, LoopsAgree follows.          *)
(***************************************************************************)
EXTENDS BTreeWalks, WellFoundedInduction, TLAPS

USE BTreeAssumption

\* What the loops know: build_tree stands in the tree, with a node that is not
\* in it, and leaves the tree where a child is missing; del_node stands below a
\* node with two children.
Cursors ==
  /\ pc = "build" /\ cur # NULL => InTree(cur) /\ (~InTree(bnode) \/ bnode = cur)
  /\ pc = "build" /\ cur = NULL =>
       /\ InTree(above) /\ ~InTree(bnode)
       /\ cmp(bnode, above) # 0
       /\ cmp(bnode, above) < 0 => lchild[above] = NULL
       /\ cmp(bnode, above) > 0 => rchild[above] = NULL
  /\ pc = "replace" => /\ parent[cur] # NULL
                       /\ InTree(bnode)
                       /\ lchild[bnode] # NULL /\ rchild[bnode] # NULL

\* rank grows from a parent to its child, and from the deleted node to the one
\* that will replace it.
Ranked(rank) == /\ \A n \in Node : parent[n] # NULL => rank[parent[n]] < rank[n]
                /\ pc = "replace" => rank[bnode] < rank[cur]

\* The ranks are bounded: below a node the tree comes to an end.
Grown == \E rank \in [Node -> Int], top \in Int :
           Ranked(rank) /\ \A n \in Node : rank[n] <= top

Inv == TypeOK /\ Linked /\ Cursors /\ Grown

-----------------------------------------------------------------------------
(* The types hold initially and after every step that finds the invariant.  *)
LEMMA TypeStep == Inv /\ [Next]_vars => TypeOK'
<1> SUFFICES ASSUME Inv, [Next]_vars PROVE TypeOK'
  OBVIOUS
<1> USE DEF Inv, TypeOK, NodeOrNull, InTree
<1>1. ASSUME NEW n \in Node, Build(n) PROVE TypeOK'
  BY <1>1 DEF Build, Enter
<1>2. CASE BuildWalk
  BY <1>2 DEF BuildWalk, links
<1>3. CASE BuildRefuse
  BY <1>3 DEF BuildRefuse, Return, links
<1>4. CASE BuildLink
  BY <1>4 DEF BuildLink, Return
<1>5. ASSUME NEW n \in Node, Search(n) PROVE TypeOK'
  BY <1>5 DEF Search, Enter, links
<1>6. CASE SearchWalk
  BY <1>6 DEF SearchWalk, links
<1>7. CASE SearchReturn
  BY <1>7 DEF SearchReturn, Return, links
<1>8. ASSUME NEW n \in Node, DelSplice(n) PROVE TypeOK'
  BY <1>8 DEF DelSplice, PlaceGiven, RootWith, call
<1>9. ASSUME NEW n \in Node, DelSearch(n) PROVE TypeOK'
  BY <1>9 DEF DelSearch, Enter, links
<1>10. CASE ReplaceWalk
  BY <1>10 DEF ReplaceWalk, links
<1>11. CASE ReplaceTake
  BY <1>11 DEF ReplaceTake, Return, PlaceGiven, RootWith
<1>12. CASE ReverseTree
  BY <1>12 DEF ReverseTree, call
<1>13. CASE UNCHANGED vars
  BY <1>13 DEF vars, links, call
<1> QED
  BY <1>1, <1>2, <1>3, <1>4, <1>5, <1>6, <1>7, <1>8, <1>9, <1>10, <1>11, <1>12, <1>13
  DEF Next, Call, Loop

-----------------------------------------------------------------------------
(* The links after a node n without children, or with the child m, is       *)
(* spliced out.                                                             *)
LEMMA SpliceStep ==
  ASSUME Inv, TypeOK', NEW n \in Node, DelSplice(n)
  PROVE  Linked' /\ Cursors' /\ Grown'
<1> DEFINE m == IF lchild[n] # NULL THEN lchild[n] ELSE rchild[n]
           g == parent[n]
<1> USE DEF Inv, TypeOK, NodeOrNull
<1>1. PICK rank \in [Node -> Int], top \in Int : Ranked(rank) /\ \A x \in Node : rank[x] <= top
  BY DEF Grown
<1>2. /\ root' = IF g = NULL THEN m ELSE root
      /\ \A x \in Node :
           /\ lchild'[x] = IF x = n THEN NULL ELSE IF x = g /\ lchild[x] = n THEN m ELSE lchild[x]
           /\ rchild'[x] = IF x = n THEN NULL ELSE IF x = g /\ rchild[x] = n THEN m ELSE rchild[x]
           /\ parent'[x] = IF x = n THEN NULL ELSE IF x = m THEN g ELSE parent[x]
      /\ pc = "idle" /\ pc' = "idle"
      /\ g = NULL => n = root
  BY DEF DelSplice, PlaceGiven, RootWith, InTree, call
<1>3. m \in NodeOrNull /\ g \in NodeOrNull
  OBVIOUS
<1>4. m # NULL => parent[m] = n /\ rank[n] < rank[m]
  BY <1>1 DEF Linked, Ranked
<1>5. g # NULL => rank[g] < rank[n] /\ n \in {lchild[g], rchild[g]} /\ lchild[g] # rchild[g]
  BY <1>1 DEF Linked, Ranked
<1>6. \A x \in Node : x # n => (lchild[x] = n \/ rchild[x] = n => x = g)
  BY DEF Linked
<1>7. \A x \in Node : parent[x] = n => x = m
  BY DEF Linked, DelSplice
<1> HIDE DEF m, g
<1>8. Linked'
  <2>1. root' # NULL => parent'[root'] = NULL
    BY <1>2, <1>3, <1>4, <1>5 DEF Linked, InTree
  <2>2. ASSUME NEW x \in Node
        PROVE  /\ lchild'[x] # NULL => parent'[lchild'[x]] = x
               /\ rchild'[x] # NULL => parent'[rchild'[x]] = x
    BY <1>2, <1>3, <1>4, <1>5, <1>6 DEF Linked
  <2>3. ASSUME NEW x \in Node
        PROVE  lchild'[x] = rchild'[x] => lchild'[x] = NULL
    BY <1>2, <1>3, <1>4, <1>5 DEF Linked
  <2>4. ASSUME NEW x \in Node
        PROVE  parent'[x] # NULL => x \in {lchild'[parent'[x]], rchild'[parent'[x]]}
    BY <1>2, <1>3, <1>4, <1>5, <1>7 DEF Linked
  <2>5. ASSUME NEW x \in Node, ~(InTree(x)')
        PROVE  lchild'[x] = NULL /\ rchild'[x] = NULL
    <3>1. CASE x = n
      BY <1>2, <3>1
    <3>2. CASE x # n
      <4>1. x # m /\ ~InTree(x)
        BY <1>2, <2>5, <3>2 DEF InTree
      <4>2. lchild[x] = NULL /\ rchild[x] = NULL
        BY <4>1 DEF Linked
      <4> QED
        BY <1>2, <3>2, <4>2
    <3> QED
      BY <3>1, <3>2
  <2> QED
    BY <2>1, <2>2, <2>3, <2>4, <2>5 DEF Linked
<1>9. Cursors'
  BY <1>2 DEF Cursors
<1>10. Ranked(rank)'
  BY <1>1, <1>2, <1>3, <1>4, <1>5, <1>7 DEF Ranked
<1> QED
  BY <1>1, <1>8, <1>9, <1>10 DEF Grown

(* The links, node by node, after m has given its place to its left child c *)
(* and taken that of n.  The parent q of m may be n: then c becomes a child *)
(* of m again.                                                              *)
LEMMA TakeLinks ==
  ASSUME Inv, TypeOK', ReplaceTake
  PROVE  LET n == bnode
             m == cur
             c == lchild[m]
             q == parent[m]
             g == parent[n]
             l == IF lchild[n] = m THEN c ELSE lchild[n]
             r == IF rchild[n] = m THEN c ELSE rchild[n]
         IN  /\ n \in Node /\ m \in Node /\ q \in Node
             /\ m # n /\ q # m /\ c # m /\ c # n
             /\ root' = (IF g = NULL THEN m ELSE root)
             /\ pc' = "idle"
             /\ \A x \in Node :
                  /\ lchild'[x] = IF x = n THEN NULL ELSE IF x = m THEN l
                                  ELSE IF x = g /\ lchild[x] = n THEN m
                                  ELSE IF x = q /\ lchild[x] = m THEN c ELSE lchild[x]
                  /\ rchild'[x] = IF x = n THEN NULL ELSE IF x = m THEN r
                                  ELSE IF x = g /\ rchild[x] = n THEN m
                                  ELSE IF x = q /\ rchild[x] = m THEN c ELSE rchild[x]
                  /\ parent'[x] = IF x = n THEN NULL ELSE IF x = m THEN g
                                  ELSE IF x \in {l, r} THEN m
                                  ELSE IF x = c THEN q ELSE parent[x]
<1> DEFINE n == bnode
           m == cur
           c == lchild[m]
           q == parent[m]
           g == parent[n]
           l == IF lchild[n] = m THEN c ELSE lchild[n]
           r == IF rchild[n] = m THEN c ELSE rchild[n]
<1> USE DEF Inv, TypeOK, NodeOrNull
<1>1. PICK rank \in [Node -> Int], top \in Int : Ranked(rank) /\ \A x \in Node : rank[x] <= top
  BY DEF Grown
<1>2. /\ n \in Node /\ m \in Node /\ q \in Node
      /\ c \in NodeOrNull /\ g \in NodeOrNull /\ l \in NodeOrNull /\ r \in NodeOrNull
      /\ rchild[m] = NULL
      /\ pc = "replace"
      /\ g = NULL => n = root
  BY DEF ReplaceTake, Cursors, InTree
<1>3. /\ rank[q] < rank[m] /\ rank[n] < rank[m]
      /\ m \in {lchild[q], rchild[q]} /\ lchild[q] # rchild[q]
      /\ c # NULL => parent[c] = m /\ rank[m] < rank[c]
  BY <1>1, <1>2 DEF Linked, Ranked
<1>4. m # n /\ q # m /\ c # m /\ c # n
  BY <1>1, <1>2, <1>3
<1>5. lchild[n] = m \/ rchild[n] = m => n = q
  BY <1>2 DEF Linked
<1>6. /\ root' = IF g = NULL THEN m ELSE root
      /\ pc' = "idle"
  BY DEF ReplaceTake, RootWith, Return
<1>7. \A x \in Node :
         lchild'[x] = IF x = n THEN NULL ELSE IF x = m THEN l
                      ELSE IF x = g /\ lchild[x] = n THEN m
                      ELSE IF x = q /\ lchild[x] = m THEN c ELSE lchild[x]
  <2> DEFINE L == PlaceGiven(lchild, m, c)
  <2>1. \A x \in Node : L[x] = IF x = q /\ lchild[x] = m THEN c ELSE lchild[x]
    BY DEF PlaceGiven
  <2>2. L[n] = l
    BY <1>2, <1>5, <2>1
  <2>3. \A x \in Node : L[x] = n <=> lchild[x] = n
    BY <1>1, <1>2, <1>3, <2>1
  <2>4. lchild' = [PlaceGiven(L, n, m) EXCEPT ![m] = L[n], ![n] = NULL]
    BY DEF ReplaceTake
  <2> HIDE DEF L, n, m, c, q, g, l, r
  <2>5. \A x \in Node : PlaceGiven(L, n, m)[x] = IF x = parent[n] /\ L[x] = n THEN m ELSE L[x]
    BY DEF PlaceGiven
  <2> QED
    BY <1>2, <2>1, <2>2, <2>3, <2>4, <2>5 DEF g, PlaceGiven
<1>8. \A x \in Node :
         rchild'[x] = IF x = n THEN NULL ELSE IF x = m THEN r
                      ELSE IF x = g /\ rchild[x] = n THEN m
                      ELSE IF x = q /\ rchild[x] = m THEN c ELSE rchild[x]
  <2> DEFINE R == PlaceGiven(rchild, m, c)
  <2>1. \A x \in Node : R[x] = IF x = q /\ rchild[x] = m THEN c ELSE rchild[x]
    BY DEF PlaceGiven
  <2>2. R[n] = r
    BY <1>2, <1>5, <2>1
  <2>3. \A x \in Node : R[x] = n <=> rchild[x] = n
    BY <1>1, <1>2, <1>3, <2>1
  <2>4. rchild' = [PlaceGiven(R, n, m) EXCEPT ![m] = R[n], ![n] = NULL]
    BY DEF ReplaceTake
  <2> HIDE DEF R, n, m, c, q, g, l, r
  <2>5. \A x \in Node : PlaceGiven(R, n, m)[x] = IF x = parent[n] /\ R[x] = n THEN m ELSE R[x]
    BY DEF PlaceGiven
  <2> QED
    BY <1>2, <2>1, <2>2, <2>3, <2>4, <2>5 DEF g, PlaceGiven
<1>9. \A x \in Node :
         parent'[x] = IF x = n THEN NULL ELSE IF x = m THEN g
                      ELSE IF x \in {l, r} THEN m
                      ELSE IF x = c THEN q ELSE parent[x]
  <2>1. PlaceGiven(lchild, m, c)[n] = l /\ PlaceGiven(rchild, m, c)[n] = r
    BY <1>2, <1>5 DEF PlaceGiven
  <2>2. parent' = [x \in Node |-> IF x = n THEN NULL ELSE IF x = m THEN g
                      ELSE IF x \in {PlaceGiven(lchild, m, c)[n], PlaceGiven(rchild, m, c)[n]} THEN m
                      ELSE IF x = c THEN q ELSE parent[x]]
    BY DEF ReplaceTake
  <2> HIDE DEF n, m, c, q, g, l, r
  <2> QED
    BY <2>1, <2>2
<1> HIDE DEF n, m, c, q, g, l, r
<1>10. /\ n \in Node /\ m \in Node /\ q \in Node
       /\ m # n /\ q # m /\ c # m /\ c # n
  BY <1>2, <1>4
<1> QED
  BY <1>6, <1>7, <1>8, <1>9, <1>10 DEF n, m, c, q, g, l, r

(* The links agree after the node m has taken the place of n.               *)
LEMMA TakeStep ==
  ASSUME Inv, TypeOK', ReplaceTake
  PROVE  Linked' /\ Cursors' /\ Grown'
<1> DEFINE n == bnode
           m == cur
           c == lchild[m]
           q == parent[m]
           g == parent[n]
           l == IF lchild[n] = m THEN c ELSE lchild[n]
           r == IF rchild[n] = m THEN c ELSE rchild[n]
<1> USE DEF Inv, TypeOK, NodeOrNull
<1>1. PICK rank \in [Node -> Int], top \in Int : Ranked(rank) /\ \A x \in Node : rank[x] <= top
  BY DEF Grown
<1>2. /\ n \in Node /\ m \in Node /\ q \in Node
      /\ c \in NodeOrNull /\ g \in NodeOrNull /\ l \in NodeOrNull /\ r \in NodeOrNull
      /\ rchild[m] = NULL
      /\ pc = "replace"
      /\ g = NULL => n = root
  BY DEF ReplaceTake, Cursors, InTree
<1>3. /\ rank[q] < rank[m] /\ rank[n] < rank[m]
      /\ m \in {lchild[q], rchild[q]} /\ lchild[q] # rchild[q]
      /\ c # NULL => parent[c] = m /\ rank[m] < rank[c]
  BY <1>1, <1>2 DEF Linked, Ranked
<1>4. m # n /\ q # m /\ c # m /\ c # n
  BY <1>1, <1>2, <1>3
<1>5. g # NULL => rank[g] < rank[n] /\ n \in {lchild[g], rchild[g]} /\ lchild[g] # rchild[g]
  BY <1>1, <1>2 DEF Linked, Ranked
<1>6. g # NULL => g # n /\ g # m
  BY <1>1, <1>2, <1>3, <1>5
<1>7. lchild[n] = m \/ rchild[n] = m => n = q
  BY <1>2 DEF Linked
<1>8. /\ \A x \in Node : lchild[x] = m => x = q
      /\ \A x \in Node : rchild[x] = m => x = q
      /\ \A x \in Node : lchild[x] = n => x = g
      /\ \A x \in Node : rchild[x] = n => x = g
      /\ \A x \in Node : parent[x] = m => x = c
  BY <1>2 DEF Linked
<1>9. /\ l # NULL => l # m /\ l # n /\ rank[n] < rank[l] /\ (parent[l] = n \/ l = c)
      /\ r # NULL => r # m /\ r # n /\ rank[n] < rank[r] /\ (parent[r] = n \/ r = c)
      /\ l = r => l = NULL
  BY <1>1, <1>2, <1>3 DEF Linked, Ranked
<1>10. /\ root' = IF g = NULL THEN m ELSE root
      /\ pc' = "idle"
  BY DEF ReplaceTake, RootWith, Return
<1>11. \A x \in Node :
         lchild'[x] = IF x = n THEN NULL ELSE IF x = m THEN l
                      ELSE IF x = g /\ lchild[x] = n THEN m
                      ELSE IF x = q /\ lchild[x] = m THEN c ELSE lchild[x]
  BY TakeLinks
<1>12. \A x \in Node :
         rchild'[x] = IF x = n THEN NULL ELSE IF x = m THEN r
                      ELSE IF x = g /\ rchild[x] = n THEN m
                      ELSE IF x = q /\ rchild[x] = m THEN c ELSE rchild[x]
  BY TakeLinks
<1>13. \A x \in Node :
         parent'[x] = IF x = n THEN NULL ELSE IF x = m THEN g
                      ELSE IF x \in {l, r} THEN m
                      ELSE IF x = c THEN q ELSE parent[x]
  BY TakeLinks
<1>14. \A x \in Node : parent[x] = n => x \in {l, r} \/ x = m
  BY <1>2, <1>3 DEF Linked
<1>15. c \in {l, r} /\ c # NULL <=> q = n /\ c # NULL
  BY <1>2, <1>3, <1>8, <1>9 DEF Linked
<1> HIDE DEF n, m, c, q, g, l, r
<1>16. Linked'
  <2>1. root' # NULL => parent'[root'] = NULL
    BY <1>2, <1>3, <1>5, <1>9, <1>10, <1>13, <1>15 DEF Linked
  <2>2. ASSUME NEW x \in Node
        PROVE  lchild'[x] # NULL => parent'[lchild'[x]] = x
    BY <1>2, <1>3, <1>5, <1>8, <1>9, <1>11, <1>13, <1>15 DEF Linked
  <2>3. ASSUME NEW x \in Node
        PROVE  rchild'[x] # NULL => parent'[rchild'[x]] = x
    BY <1>2, <1>3, <1>5, <1>8, <1>9, <1>12, <1>13, <1>15 DEF Linked
  <2>4. ASSUME NEW x \in Node
        PROVE  lchild'[x] = rchild'[x] => lchild'[x] = NULL
    BY <1>2, <1>3, <1>5, <1>8, <1>9, <1>11, <1>12 DEF Linked
  <2>5. ASSUME NEW x \in Node
        PROVE  parent'[x] # NULL => x \in {lchild'[parent'[x]], rchild'[parent'[x]]}
    <3>1. CASE x = m
      BY <1>2, <1>5, <1>6, <1>11, <1>12, <1>13, <3>1
    <3>2. CASE x # m /\ x \in {l, r}
      <4>1. x # n /\ parent'[x] = m
        BY <1>9, <1>13, <3>2
      <4>2. lchild'[m] = l /\ rchild'[m] = r
        BY <1>2, <1>11, <1>12, <1>4
      <4> QED
        BY <3>2, <4>1, <4>2
    <3>3. CASE x = c /\ x \notin {l, r}
      BY <1>2, <1>3, <1>5, <1>8, <1>9, <1>11, <1>12, <1>13, <1>15, <3>3
    <3>4. CASE x \notin {m, c, l, r, n}
      <4>1. parent[x] # NULL => parent[x] \notin {m, n} /\ x \in {lchild[parent[x]], rchild[parent[x]]}
        <5>1. parent[x] # m
          BY <1>8, <3>4
        <5>2. parent[x] # n
          BY <1>14, <3>4
        <5> QED
          BY <5>1, <5>2 DEF Linked
      <4> QED
        BY <1>2, <1>11, <1>12, <1>13, <3>4, <4>1
    <3> QED
      BY <1>13, <3>1, <3>2, <3>3, <3>4
  <2>6. ASSUME NEW x \in Node, ~(InTree(x)')
        PROVE  lchild'[x] = NULL /\ rchild'[x] = NULL
    <3>1. CASE x = n
      BY <1>11, <1>12, <3>1
    <3>2. CASE x # n
      <4>1. x # m /\ ~InTree(x)
        BY <1>2, <1>10, <1>13, <2>6, <3>2 DEF InTree
      <4>2. lchild[x] = NULL /\ rchild[x] = NULL
        BY <4>1 DEF Linked
      <4> QED
        BY <1>2, <1>11, <1>12, <3>2, <4>1, <4>2
    <3> QED
      BY <3>1, <3>2
  <2> QED
    BY <2>1, <2>2, <2>3, <2>4, <2>5, <2>6 DEF Linked
<1>17. Cursors'
  BY <1>10 DEF Cursors
<1>18. PICK moved \in [Node -> Int] : moved = [rank EXCEPT ![m] = rank[n]]
  BY <1>2
<1>19. Ranked(moved)'
  BY <1>1, <1>2, <1>3, <1>5, <1>8, <1>9, <1>10, <1>13, <1>18 DEF Ranked
<1>20. \A x \in Node : moved[x] <= top
  BY <1>1, <1>2, <1>18
<1> QED
  BY <1>16, <1>17, <1>19, <1>20 DEF Grown

(* What build_tree changes: the child that above lacked is the new node.    *)
LEMMA LinkLinks ==
  ASSUME Inv, BuildLink
  PROVE  /\ bnode \in Node /\ above \in Node
         /\ bnode # root /\ parent[bnode] = NULL /\ lchild[bnode] = NULL /\ rchild[bnode] = NULL
         /\ InTree(above) /\ above # bnode
         /\ pc' = "idle" /\ root' = root /\ parent' = [parent EXCEPT ![bnode] = above]
         /\ \/ /\ cmp(bnode, above) < 0
               /\ lchild[above] = NULL
               /\ lchild' = [lchild EXCEPT ![above] = bnode] /\ rchild' = rchild
            \/ /\ cmp(bnode, above) > 0
               /\ rchild[above] = NULL
               /\ rchild' = [rchild EXCEPT ![above] = bnode] /\ lchild' = lchild
<1> USE DEF Inv, TypeOK, NodeOrNull
<1>1. /\ bnode \in Node /\ above \in Node
      /\ bnode # root /\ parent[bnode] = NULL /\ lchild[bnode] = NULL /\ rchild[bnode] = NULL
      /\ InTree(above) /\ above # bnode
      /\ pc' = "idle" /\ root' = root /\ parent' = [parent EXCEPT ![bnode] = above]
  BY DEF BuildLink, Return, Cursors, InTree, Linked
<1>2. \/ /\ cmp(bnode, above) < 0
         /\ lchild[above] = NULL
         /\ lchild' = [lchild EXCEPT ![above] = bnode] /\ rchild' = rchild
      \/ /\ cmp(bnode, above) > 0
         /\ rchild[above] = NULL
         /\ rchild' = [rchild EXCEPT ![above] = bnode] /\ lchild' = lchild
  <2>1. cmp(bnode, above) \in Int /\ cmp(bnode, above) # 0
    BY <1>1 DEF cmp, BuildLink, Cursors
  <2>2. cmp(bnode, above) < 0 \/ cmp(bnode, above) > 0
    BY <2>1
  <2> QED
    BY <2>2 DEF BuildLink, Cursors
<1> QED
  BY <1>1, <1>2

(* A node that was in no tree becomes the child that its parent lacked.     *)
LEMMA LinkStep ==
  ASSUME Inv, TypeOK', BuildLink
  PROVE  Linked' /\ Cursors' /\ Grown'
<1> USE DEF Inv, TypeOK, NodeOrNull
<1>1. PICK rank \in [Node -> Int], top \in Int : Ranked(rank) /\ \A x \in Node : rank[x] <= top
  BY DEF Grown
<1>2. /\ bnode \in Node /\ above \in Node
      /\ bnode # root /\ parent[bnode] = NULL /\ lchild[bnode] = NULL /\ rchild[bnode] = NULL
      /\ InTree(above) /\ above # bnode
      /\ pc' = "idle" /\ root' = root /\ parent' = [parent EXCEPT ![bnode] = above]
  BY LinkLinks
<1>3. \/ /\ lchild[above] = NULL
         /\ lchild' = [lchild EXCEPT ![above] = bnode] /\ rchild' = rchild
      \/ /\ rchild[above] = NULL
         /\ rchild' = [rchild EXCEPT ![above] = bnode] /\ lchild' = lchild
  BY LinkLinks
<1>4. Linked'
  BY <1>2, <1>3 DEF Linked, InTree
<1>5. Cursors'
  BY <1>2 DEF Cursors
<1>6. PICK grown \in [Node -> Int] : grown = [rank EXCEPT ![bnode] = rank[above] + 1]
  <2>1. [rank EXCEPT ![bnode] = rank[above] + 1] \in [Node -> Int]
    BY <1>2
  <2> QED
    BY <2>1
<1>7. Ranked(grown)'
  BY <1>1, <1>2, <1>6 DEF Ranked, Linked
<1>8. PICK high \in Int : high = top + 1
  OBVIOUS
<1>9. \A x \in Node : grown[x] <= high
  BY <1>1, <1>2, <1>6, <1>8
<1> QED
  BY <1>4, <1>5, <1>7, <1>8, <1>9 DEF Grown

(* The children of every node in the tree are exchanged.                    *)
LEMMA ReverseStep ==
  ASSUME Inv, TypeOK', ReverseTree
  PROVE  Linked' /\ Cursors' /\ Grown'
<1> USE DEF Inv, TypeOK, NodeOrNull
<1>1. PICK rank \in [Node -> Int], top \in Int : Ranked(rank) /\ \A x \in Node : rank[x] <= top
  BY DEF Grown
<1>2. pc = "idle" /\ UNCHANGED <<root, parent, pc, bnode, cur, above>>
  BY DEF ReverseTree, call
<1>3. \A x \in Node : lchild'[x] = rchild[x] /\ rchild'[x] = lchild[x]
  BY DEF ReverseTree, Linked
<1>4. Linked'
  BY <1>2, <1>3 DEF Linked, InTree
<1>5. Cursors' /\ Ranked(rank)'
  BY <1>1, <1>2 DEF Cursors, Ranked
<1> QED
  BY <1>1, <1>4, <1>5 DEF Grown

(* The other steps leave the links alone, but for the first node's, and     *)
(* move the cursors.                                                        *)
LEMMA CursorStep ==
  ASSUME Inv, TypeOK',
         \/ \E n \in Node : Build(n) \/ Search(n) \/ DelSearch(n)
         \/ BuildWalk \/ BuildRefuse \/ SearchWalk \/ SearchReturn \/ ReplaceWalk
         \/ UNCHANGED vars
  PROVE  Linked' /\ Cursors' /\ Grown'
<1> USE DEF Inv, TypeOK, NodeOrNull
<1>1. PICK rank \in [Node -> Int], top \in Int : Ranked(rank) /\ \A x \in Node : rank[x] <= top
  BY DEF Grown
<1>2. ASSUME UNCHANGED links, Cursors', pc' = "replace" => rank[bnode'] < rank[cur']
      PROVE  Linked' /\ Cursors' /\ Grown'
  <2>1. Linked'
    BY <1>2 DEF links, Linked, InTree
  <2>2. Ranked(rank)'
    BY <1>1, <1>2 DEF links, Ranked
  <2> QED
    BY <1>1, <1>2, <2>1, <2>2 DEF Grown
<1>3. ASSUME NEW n \in Node, Build(n)
      PROVE  Linked' /\ Cursors' /\ Grown'
  <2>1. CASE root # NULL
    BY <1>2, <1>3, <2>1 DEF Build, Enter, links, Cursors, InTree, Linked
  <2>2. CASE root = NULL
    <3>1. Linked'
      BY <1>3, <2>2 DEF Build, Linked, InTree
    <3>2. Cursors'
      BY <1>3, <2>2 DEF Build, Enter, Cursors, InTree
    <3>3. Ranked(rank)'
      BY <1>1, <1>3 DEF Build, Enter, Ranked
    <3> QED
      BY <1>1, <3>1, <3>2, <3>3 DEF Grown
  <2> QED
    BY <2>1, <2>2
<1>4. ASSUME NEW n \in Node, Search(n)
      PROVE  Linked' /\ Cursors' /\ Grown'
  BY <1>2, <1>4 DEF Search, Enter, Cursors
<1>5. ASSUME NEW n \in Node, DelSearch(n)
      PROVE  Linked' /\ Cursors' /\ Grown'
  <2>1. Cursors'
    BY <1>5 DEF DelSearch, Enter, Cursors, Linked, InTree, links
  <2>2. rank[n] < rank[lchild[n]]
    BY <1>1, <1>5 DEF DelSearch, Linked, Ranked
  <2> QED
    BY <1>2, <1>5, <2>1, <2>2 DEF DelSearch, Enter
<1>6. CASE BuildWalk
  <2>1. cmp(bnode, cur) \in Int
    BY <1>6 DEF BuildWalk, cmp
  <2>2. Cursors'
    BY <1>6, <2>1 DEF BuildWalk, Cursors, Linked, InTree, links, cmp
  <2> QED
    BY <1>2, <1>6, <2>2 DEF BuildWalk
<1>7. CASE BuildRefuse
  BY <1>2, <1>7 DEF BuildRefuse, Return, Cursors
<1>8. CASE SearchWalk
  BY <1>2, <1>8 DEF SearchWalk, Cursors
<1>9. CASE SearchReturn
  BY <1>2, <1>9 DEF SearchReturn, Return, Cursors
<1>10. CASE ReplaceWalk
  <2>1. Cursors'
    BY <1>10 DEF ReplaceWalk, Cursors, Linked, InTree, links
  <2>2. rank[bnode] < rank[cur] /\ rank[cur] < rank[rchild[cur]]
    BY <1>1, <1>10 DEF ReplaceWalk, Linked, Ranked
  <2> QED
    BY <1>2, <1>10, <2>1, <2>2 DEF ReplaceWalk
<1>11. CASE UNCHANGED vars
  BY <1>1, <1>2, <1>11 DEF vars, links, call, Cursors, Ranked, InTree, cmp
<1> QED
  BY <1>3, <1>4, <1>5, <1>6, <1>7, <1>8, <1>9, <1>10, <1>11

-----------------------------------------------------------------------------
(* The empty tree satisfies the invariant of the links, ...                 *)
LEMMA InvInit == Init => Inv
<1> SUFFICES ASSUME Init PROVE Inv
  OBVIOUS
<1>1. TypeOK /\ Linked /\ Cursors
  BY DEF Init, TypeOK, Linked, Cursors, NodeOrNull
<1>2. PICK flat \in [Node -> Int] : flat = [n \in Node |-> 0]
  <2>1. [n \in Node |-> 0] \in [Node -> Int]
    OBVIOUS
  <2> QED
    BY <2>1
<1>3. Ranked(flat) /\ \A x \in Node : flat[x] <= 0
  BY <1>2 DEF Init, Ranked
<1> QED
  BY <1>1, <1>2, <1>3 DEF Inv, Grown

(* ... and every call and every iteration of a loop keeps it.               *)
LEMMA InvStep == Inv /\ [Next]_vars => Inv'
<1> SUFFICES ASSUME Inv, [Next]_vars PROVE Inv'
  OBVIOUS
<1>1. TypeOK'
  BY TypeStep
<1>2. Linked' /\ Cursors' /\ Grown'
  BY <1>1, SpliceStep, TakeStep, LinkStep, ReverseStep, CursorStep DEF Next, Call, Loop
<1> QED
  BY <1>1, <1>2 DEF Inv

(* So the links satisfy it at any time.                                     *)
THEOREM Invariance == Spec => []Inv
BY InvInit, InvStep, PTL DEF Spec

(* Every cursor and every link of the tree is a node or NULL, and the loop  *)
(* that looks for a replacement never runs off the tree.                    *)
THEOREM TypeCorrect == Spec => []TypeOK
BY Invariance, PTL DEF Inv

(* For every set of nodes, whatever their values and in whatever order they *)
(* are built in and deleted: the links agree in both directions, and nodes  *)
(* outside of the tree have none.                                           *)
THEOREM LinksAgree == Spec => []Linked
BY Invariance, PTL DEF Inv

(* The tree has no cycle: along every path of parents a rank decreases.     *)
THEOREM NoCycle == Spec => []Grown
BY Invariance, PTL DEF Inv

-----------------------------------------------------------------------------
(* The order of the tree.  The definitions are about a function D that      *)
(* gives the nodes at and below a node.  The invariant says them of below;  *)
(* the proof of a step says them of the function it expects below to be     *)
(* after the step, and OneSolution tells that this is then below.           *)

Solves(D) ==
  D = [n \in NodeOrNull |->
         IF n = NULL THEN {} ELSE {n} \union D[lchild[n]] \union D[rchild[n]]]

\* What is below a node are the nodes whose parents lead to it.
Reached(D) ==
  /\ D \in [NodeOrNull -> SUBSET Node]
  /\ \A n, x \in Node : x \in D[n] <=> x = n \/ (parent[x] # NULL /\ parent[x] \in D[n])

Acyclic(D) == \A n, x \in Node : x \in D[n] /\ n \in D[x] => x = n

Whole(D) == D[root] = {n \in Node : InTree(n)}

Sorted(D) == \A n \in Node : /\ \A x \in D[lchild[n]] : cmp(x, n) < 0
                             /\ \A x \in D[rchild[n]] : cmp(x, n) > 0

\* An equal of the node looked for is not where the loop has already passed.
Looking(D) ==
  pc \in {"build", "search"} =>
    /\ cur # NULL => InTree(cur)
    /\ \A y \in Node : InTree(y) /\ data[y] = data[bnode] => y \in D[cur]

\* build_tree stands where the node it has belongs.
Place == IF cur = NULL THEN above ELSE cur

Placing(D) ==
  pc = "build" =>
    \A n \in Node : /\ Place \in D[lchild[n]] => cmp(bnode, n) < 0
                    /\ Place \in D[rchild[n]] => cmp(bnode, n) > 0

\* The last node of the left subtree is at or below the cursor.
Replacing(D) ==
  pc = "replace" =>
    /\ cur \in D[lchild[bnode]]
    /\ \A x \in D[lchild[bnode]] : x \in D[cur] \/ cmp(x, cur) < 0

TreeOf(D) == Solves(D) /\ Reached(D) /\ Acyclic(D) /\ Whole(D) /\ Sorted(D)

OrderedBy(D) == TreeOf(D) /\ Looking(D) /\ Placing(D) /\ Replacing(D)

OrderInv == OrderedBy(below)

(* Of any natural numbers one is the least: the induction that follows      *)
(* rests on the library's proof that < is well-founded.                     *)
LEMMA LeastNatural ==
  ASSUME NEW T \in SUBSET Nat, T # {}
  PROVE  \E k \in T : \A j \in T : k <= j
<1> DEFINE R == {ss \in Nat \X Nat : ss[1] < ss[2]}
<1>1. IsWellFoundedOn(R, Nat)
  BY NatLessThanWellFounded DEF OpToRel
<1> HIDE DEF R
<1>2. PICK k \in T : \A j \in T : <<j, k>> \notin R
  BY <1>1, WFMin
<1>3. \A j \in T : ~(j < k)
  BY <1>2 DEF R
<1> QED
  BY <1>2, <1>3

(* Among any nodes there is one that is the parent of none of them.         *)
LEMMA Deepest ==
  Inv => \A S \in SUBSET Node : S # {} => \E n \in S : \A c \in S : parent[c] # n
<1> SUFFICES ASSUME Inv, NEW S \in SUBSET Node, S # {}
             PROVE  \E n \in S : \A c \in S : parent[c] # n
  OBVIOUS
<1>1. PICK rank \in [Node -> Int], top \in Int : Ranked(rank) /\ \A x \in Node : rank[x] <= top
  BY DEF Inv, Grown
<1> DEFINE T == {top - rank[x] : x \in S}
<1>2. T \in SUBSET Nat /\ T # {}
  BY <1>1
<1>3. PICK k \in T : \A j \in T : k <= j
  BY <1>2, LeastNatural
<1>4. PICK n \in S : k = top - rank[n]
  BY <1>3
<1>5. ASSUME NEW c \in S, parent[c] = n PROVE FALSE
  <2>1. rank[n] < rank[c]
    BY <1>1, <1>5 DEF Ranked, Inv, TypeOK
  <2>2. k <= top - rank[c]
    BY <1>3
  <2> QED
    BY <1>1, <1>4, <2>1, <2>2
<1> QED
  BY <1>4, <1>5

OnlyBelowSolves == \A D : Solves(D) => D = below

(* A function that satisfies the equation of below is below: of the nodes   *)
(* where the two differ a deepest one has children where they agree.        *)
LEMMA OneSolution == Inv => OnlyBelowSolves
<1> SUFFICES ASSUME Inv, NEW D, Solves(D) PROVE D = below
  BY DEF OnlyBelowSolves
<1>1. below = CHOOSE f : f = [n \in NodeOrNull |->
         IF n = NULL THEN {} ELSE {n} \union f[lchild[n]] \union f[rchild[n]]]
  BY DEF below
<1>2. \E f : f = [n \in NodeOrNull |->
         IF n = NULL THEN {} ELSE {n} \union f[lchild[n]] \union f[rchild[n]]]
  BY DEF Solves
<1>3. below = [n \in NodeOrNull |->
         IF n = NULL THEN {} ELSE {n} \union below[lchild[n]] \union below[rchild[n]]]
  BY <1>1, <1>2
<1> DEFINE S == {n \in Node : D[n] # below[n]}
<1>4. CASE S # {}
  <2>1. PICK n \in S : \A c \in S : parent[c] # n
    <3>1. S \in SUBSET Node
      OBVIOUS
    <3> HIDE DEF S
    <3> QED
      BY <1>4, <3>1, Deepest
  <2>2. n \in Node /\ D[n] # below[n]
    BY <2>1
  <2>3. lchild[n] \in NodeOrNull /\ rchild[n] \in NodeOrNull
    BY <2>2 DEF Inv, TypeOK
  <2>4. /\ lchild[n] # NULL => lchild[n] \notin S
        /\ rchild[n] # NULL => rchild[n] \notin S
    BY <2>1, <2>2 DEF Inv, Linked
  <2>5. D[NULL] = {} /\ below[NULL] = {}
    BY <1>3 DEF Solves, NodeOrNull
  <2>6. D[lchild[n]] = below[lchild[n]] /\ D[rchild[n]] = below[rchild[n]]
    BY <2>3, <2>4, <2>5 DEF NodeOrNull
  <2>7. D[n] = {n} \union D[lchild[n]] \union D[rchild[n]]
    BY <2>2 DEF Solves, NodeOrNull
  <2>8. below[n] = {n} \union below[lchild[n]] \union below[rchild[n]]
    BY <1>3, <2>2 DEF NodeOrNull
  <2> QED
    BY <2>2, <2>6, <2>7, <2>8
<1>5. CASE S = {}
  <2>1. \A n \in NodeOrNull : D[n] = below[n]
    BY <1>3, <1>5 DEF Solves, NodeOrNull
  <2>2. D = [n \in NodeOrNull |-> D[n]] /\ below = [n \in NodeOrNull |-> below[n]]
    <3>1. D = [n \in NodeOrNull |-> D[n]]
      BY DEF Solves
    <3>2. below = [n \in NodeOrNull |-> below[n]]
      BY <1>3
    <3> QED
      BY <3>1, <3>2
  <2> QED
    BY <2>1, <2>2
<1> QED
  BY <1>4, <1>5

(* To show the order of the tree after a step, show it of any function.     *)
LEMMA Carried ==
  ASSUME Inv', NEW D, OrderedBy(D)'
  PROVE  OrderInv'
<1>1. (Inv => OnlyBelowSolves)'
  BY OneSolution, PTL
<1>2. Solves(D)'
  BY DEF OrderedBy, TreeOf
<1>3. D = below'
  BY <1>1, <1>2 DEF OnlyBelowSolves
<1> QED
  BY <1>3 DEF OrderInv

-----------------------------------------------------------------------------
(* cmp is the difference of two values, in either sense.                    *)
LEMMA CmpOrders ==
  \A a, b \in Node : /\ cmp(a, b) \in Int
                     /\ cmp(a, b) = 0 <=> data[a] = data[b]
                     /\ cmp(b, a) = 0 - cmp(a, b)
                     /\ \A c \in Node : cmp(a, c) = cmp(a, b) + cmp(b, c)
<1>1. \A a \in Node : data[a] \in Int
  OBVIOUS
<1>2. CASE descending
  BY <1>1, <1>2 DEF cmp
<1>3. CASE ~descending
  BY <1>1, <1>3 DEF cmp
<1> QED
  BY <1>2, <1>3

(* What a function that gives the tree says of a node and its children.     *)
LEMMA Branches ==
  ASSUME Inv, NEW D, TreeOf(D)
  PROVE  /\ D[NULL] = {}
         /\ \A n \in Node : /\ D[n] \subseteq Node
                            /\ n \in D[n]
                            /\ D[n] = {n} \union D[lchild[n]] \union D[rchild[n]]
                            /\ n \notin D[lchild[n]] /\ n \notin D[rchild[n]]
<1> USE DEF Inv, TypeOK, NodeOrNull
<1>1. D[NULL] = {}
  BY DEF TreeOf, Solves
<1>2. ASSUME NEW n \in Node
      PROVE  D[n] \subseteq Node /\ n \in D[n] /\ D[n] = {n} \union D[lchild[n]] \union D[rchild[n]]
  BY <1>2 DEF TreeOf, Solves, Reached
<1>3. ASSUME NEW n \in Node, NEW c \in {lchild[n], rchild[n]}, n \in D[c] PROVE FALSE
  <2>1. c \in Node
    BY <1>1, <1>3
  <2>2. c \in D[n] /\ parent[c] = n
    BY <1>2, <1>3, <2>1 DEF Linked
  <2>3. c = n
    BY <1>3, <2>1, <2>2 DEF TreeOf, Acyclic
  <2>4. PICK rank \in [Node -> Int] : Ranked(rank)
    BY DEF Grown
  <2> QED
    BY <2>2, <2>3, <2>4 DEF Ranked
<1> QED
  BY <1>1, <1>2, <1>3

(* The equation of below, node by node, after a step.                       *)
LEMMA NodeByNode ==
  ASSUME NEW E \in [NodeOrNull -> SUBSET Node], E[NULL] = {},
         \A k \in Node : E[k] = {k} \union E[lchild'[k]] \union E[rchild'[k]]
  PROVE  Solves(E)'
BY DEF Solves, NodeOrNull

(* The tree without n.                                                      *)
LEMMA SpliceHolds ==
  ASSUME Inv, NEW n \in Node, DelSplice(n)
  PROVE  \A x \in Node : InTree(x)' <=> InTree(x) /\ x # n
<1> USE DEF NodeOrNull
<1> DEFINE m == IF lchild[n] # NULL THEN lchild[n] ELSE rchild[n]
           g == parent[n]
<1>1. /\ root' = IF g = NULL THEN m ELSE root
      /\ \A x \in Node : parent'[x] = IF x = n THEN NULL ELSE IF x = m THEN g ELSE parent[x]
      /\ InTree(n) /\ (g = NULL => n = root)
  BY DEF DelSplice, RootWith, InTree
<1>2. /\ m # NULL => m # n /\ parent[m] = n
      /\ root # NULL => parent[root] = NULL
      /\ m \in NodeOrNull
  <2>1. PICK rank \in [Node -> Int] : Ranked(rank)
    BY DEF Inv, Grown
  <2> QED
    BY <2>1 DEF Inv, TypeOK, Linked, Ranked
<1>3. g # NULL => root # n
  BY <1>2
<1> HIDE DEF m
<1>4. ASSUME NEW x \in Node PROVE InTree(x)' <=> InTree(x) /\ x # n
  <2>1. CASE x = n
    BY <1>1, <1>2, <1>3, <2>1 DEF InTree
  <2>2. CASE x # n /\ x = m
    BY <1>1, <1>2, <2>2 DEF InTree
  <2>3. CASE x # n /\ x # m
    BY <1>1, <2>3 DEF InTree
  <2> QED
    BY <2>1, <2>2, <2>3
<1> QED
  BY <1>4

(* A node with a child m or none gives up its place: every node above it    *)
(* loses it, and nothing else.                                              *)
LEMMA SpliceOrder ==
  ASSUME Inv, Inv', OrderInv, NEW n \in Node, DelSplice(n)
  PROVE  OrderInv'
<1> DEFINE m == IF lchild[n] # NULL THEN lchild[n] ELSE rchild[n]
           g == parent[n]
<1> USE DEF NodeOrNull
<1>1. PICK D : D = below
  OBVIOUS
<1>2. TreeOf(D)
  BY <1>1 DEF OrderInv, OrderedBy
<1>3. /\ root' = IF g = NULL THEN m ELSE root
      /\ \A x \in Node :
           /\ lchild'[x] = IF x = n THEN NULL ELSE IF x = g /\ lchild[x] = n THEN m ELSE lchild[x]
           /\ rchild'[x] = IF x = n THEN NULL ELSE IF x = g /\ rchild[x] = n THEN m ELSE rchild[x]
           /\ parent'[x] = IF x = n THEN NULL ELSE IF x = m THEN g ELSE parent[x]
      /\ pc = "idle" /\ pc' = "idle" /\ descending' = descending
      /\ InTree(n)
      /\ g = NULL => n = root
      /\ lchild[n] = NULL \/ rchild[n] = NULL
  BY DEF DelSplice, PlaceGiven, RootWith, InTree, call, Inv, TypeOK
<1>4. m \in NodeOrNull /\ g \in NodeOrNull
  BY DEF Inv, TypeOK
<1>5. /\ m # NULL => m # n /\ parent[m] = n
      /\ \A x \in Node : x # n /\ (lchild[x] = n \/ rchild[x] = n) => x = g
      /\ \A x \in Node : parent[x] = n => x = m
      /\ g # NULL => g # n
  <2>1. PICK rank \in [Node -> Int] : Ranked(rank)
    BY DEF Inv, Grown
  <2> QED
    BY <1>3, <2>1 DEF Inv, TypeOK, Linked, Ranked
<1>6. /\ D[NULL] = {}
      /\ \A x \in Node : /\ D[x] \subseteq Node /\ x \in D[x]
                         /\ D[x] = {x} \union D[lchild[x]] \union D[rchild[x]]
      /\ D[n] = {n} \union D[m]
  BY <1>2, <1>3, Branches
<1>7. \A x \in Node : lchild[x] \in NodeOrNull /\ rchild[x] \in NodeOrNull
  BY DEF Inv, TypeOK
<1> HIDE DEF m, g
<1>8. PICK E : E = [x \in NodeOrNull |-> IF x = n THEN {n} ELSE D[x] \ {n}]
  OBVIOUS
<1>9. /\ E \in [NodeOrNull -> SUBSET Node]
      /\ E[NULL] = {}
      /\ \A x \in Node : E[x] = IF x = n THEN {n} ELSE D[x] \ {n}
      /\ E[m] = D[m] \ {n}
  BY <1>4, <1>5, <1>6, <1>8
<1>10. Solves(E)'
  <2>1. ASSUME NEW k \in Node
        PROVE  E[k] = {k} \union E[lchild'[k]] \union E[rchild'[k]]
    <3>1. CASE k = n
      BY <1>3, <1>9, <3>1
    <3>2. CASE k # n
      <4>1. E[k] = {k} \union (D[lchild[k]] \ {n}) \union (D[rchild[k]] \ {n})
        BY <1>6, <1>9, <3>2
      <4>2. E[lchild'[k]] = D[lchild[k]] \ {n}
        BY <1>3, <1>4, <1>5, <1>6, <1>7, <1>9, <3>2
      <4>3. E[rchild'[k]] = D[rchild[k]] \ {n}
        BY <1>3, <1>4, <1>5, <1>6, <1>7, <1>9, <3>2
      <4> QED
        BY <4>1, <4>2, <4>3
    <3> QED
      BY <3>1, <3>2
  <2> QED
    BY <1>9, <2>1, NodeByNode
<1>11. Reached(E)'
  <2>1. \A k, x \in Node : x \in D[k] <=> x = k \/ (parent[x] # NULL /\ parent[x] \in D[k])
    BY <1>2 DEF TreeOf, Reached
  <2>2. ASSUME NEW k \in Node, NEW x \in Node
        PROVE  x \in E[k] <=> x = k \/ (parent'[x] # NULL /\ parent'[x] \in E[k])
    <3>1. CASE k = n
      <4>1. x = n => parent'[x] = NULL
        BY <1>3
      <4>2. x # n => parent'[x] # n
        BY <1>3, <1>4, <1>5
      <4> QED
        BY <1>9, <3>1, <4>1, <4>2
    <3>2. CASE k # n /\ x = n
      BY <1>3, <1>9, <3>2
    <3>3. CASE k # n /\ x # n /\ x = m
      <4>1. x \in D[k] <=> x = k \/ (g # NULL /\ g \in D[k])
        BY <1>3, <1>4, <1>5, <2>1, <3>3 DEF g
      <4> QED
        BY <1>3, <1>4, <1>5, <1>9, <3>3, <4>1
    <3>4. CASE k # n /\ x # n /\ x # m
      <4>1. parent'[x] = parent[x] /\ parent[x] # n
        BY <1>3, <1>5, <3>4
      <4> QED
        BY <1>9, <2>1, <3>4, <4>1
    <3> QED
      BY <3>1, <3>2, <3>3, <3>4
  <2> QED
    BY <1>9, <2>2 DEF Reached
<1>12. Acyclic(E)'
  BY <1>2, <1>9 DEF TreeOf, Acyclic
<1>13. Whole(E)'
  <2>1. \A x \in Node : InTree(x)' <=> InTree(x) /\ x # n
    BY SpliceHolds
  <2>2. E[root'] = D[root] \ {n}
    <3>1. CASE g = NULL
      BY <1>3, <1>6, <1>9, <3>1
    <3>2. CASE g # NULL
      <4>1. root # n /\ root \in NodeOrNull
        BY <3>2 DEF g, Inv, TypeOK, Linked
      <4> QED
        BY <1>3, <1>6, <1>9, <3>2, <4>1
    <3> QED
      BY <3>1, <3>2
  <2> QED
    BY <1>2, <2>1, <2>2 DEF TreeOf, Whole
<1>14. Sorted(E)'
  <2>1. ASSUME NEW k \in Node
        PROVE  /\ E[lchild'[k]] \subseteq D[lchild[k]]
               /\ E[rchild'[k]] \subseteq D[rchild[k]]
    BY <1>3, <1>4, <1>5, <1>6, <1>7, <1>9
  <2>2. \A a, b \in Node : cmp(a, b)' = cmp(a, b)
    BY <1>3 DEF cmp
  <2>3. \A k \in Node : D[lchild[k]] \subseteq Node /\ D[rchild[k]] \subseteq Node
    BY <1>6, <1>7
  <2> QED
    BY <1>2, <2>1, <2>2, <2>3 DEF TreeOf, Sorted
<1>15. Looking(E)' /\ Placing(E)' /\ Replacing(E)'
  BY <1>3 DEF Looking, Placing, Replacing
<1> QED
  BY <1>10, <1>11, <1>12, <1>13, <1>14, <1>15, Carried DEF OrderedBy, TreeOf

(* The new node is below the nodes that above is below.                     *)
LEMMA LinkOrder ==
  ASSUME Inv, Inv', OrderInv, BuildLink
  PROVE  OrderInv'
<1> DEFINE b == bnode
           a == above
<1> USE DEF NodeOrNull
<1>1. PICK D : D = below
  OBVIOUS
<1>2. TreeOf(D) /\ Placing(D)
  BY <1>1 DEF OrderInv, OrderedBy
<1>3. /\ a \in Node /\ b \in Node /\ a # b
      /\ b # root /\ InTree(a)
      /\ parent[b] = NULL /\ lchild[b] = NULL /\ rchild[b] = NULL
      /\ root' = root /\ pc' = "idle" /\ descending' = descending
      /\ \A x \in Node : parent'[x] = IF x = b THEN a ELSE parent[x]
  BY LinkLinks DEF BuildLink, Inv, TypeOK
<1>4. \/ /\ cmp(b, a) < 0 /\ lchild[a] = NULL
         /\ \A x \in Node : lchild'[x] = IF x = a THEN b ELSE lchild[x]
         /\ rchild' = rchild
      \/ /\ cmp(b, a) > 0 /\ rchild[a] = NULL
         /\ \A x \in Node : rchild'[x] = IF x = a THEN b ELSE rchild[x]
         /\ lchild' = lchild
  BY LinkLinks DEF Inv, TypeOK
<1>5. \A k \in Node : /\ a \in D[lchild[k]] => cmp(b, k) < 0
                      /\ a \in D[rchild[k]] => cmp(b, k) > 0
  BY <1>2 DEF Placing, Place, BuildLink
<1>6. /\ D[NULL] = {}
      /\ \A x \in Node : /\ D[x] \subseteq Node /\ x \in D[x]
                         /\ D[x] = {x} \union D[lchild[x]] \union D[rchild[x]]
                         /\ x \notin D[lchild[x]] /\ x \notin D[rchild[x]]
  BY <1>2, Branches
<1>7. \A x \in Node : lchild[x] \in NodeOrNull /\ rchild[x] \in NodeOrNull
  BY DEF Inv, TypeOK
<1>8. /\ \A x \in Node : b \in D[x] => x = b
      /\ \A x \in Node : lchild[x] # b /\ rchild[x] # b /\ parent[x] # b
  BY <1>2, <1>3 DEF TreeOf, Reached, Inv, Linked
<1>9. D[root] = {x \in Node : InTree(x)} /\ root \in Node
  BY <1>2, <1>3, <1>6 DEF TreeOf, Whole, Inv, TypeOK
<1> HIDE DEF a, b
<1>10. PICK E : E = [x \in NodeOrNull |-> IF x = b THEN {b}
                                         ELSE IF a \in D[x] THEN D[x] \union {b} ELSE D[x]]
  OBVIOUS
<1>11. /\ E \in [NodeOrNull -> SUBSET Node]
       /\ E[NULL] = {}
       /\ E[b] = {b}
       /\ \A x \in NodeOrNull : x # b => E[x] = IF a \in D[x] THEN D[x] \union {b} ELSE D[x]
  BY <1>3, <1>6, <1>10
<1>12. Solves(E)'
  <2>1. ASSUME NEW k \in Node
        PROVE  E[k] = {k} \union E[lchild'[k]] \union E[rchild'[k]]
    <3>1. CASE k = b
      BY <1>3, <1>4, <1>11, <3>1
    <3>2. CASE k = a
      <4>1. E[k] = D[k] \union {b}
        BY <1>3, <1>6, <1>11, <3>2
      <4>2. E[lchild[k]] = D[lchild[k]] /\ E[rchild[k]] = D[rchild[k]]
        BY <1>6, <1>7, <1>8, <1>11, <3>2
      <4> QED
        BY <1>3, <1>4, <1>6, <1>11, <3>2, <4>1, <4>2
    <3>3. CASE k # a /\ k # b
      <4>1. lchild'[k] = lchild[k] /\ rchild'[k] = rchild[k]
        BY <1>4, <3>3
      <4>2. /\ E[lchild[k]] = IF a \in D[lchild[k]] THEN D[lchild[k]] \union {b} ELSE D[lchild[k]]
            /\ E[rchild[k]] = IF a \in D[rchild[k]] THEN D[rchild[k]] \union {b} ELSE D[rchild[k]]
        BY <1>7, <1>8, <1>11
      <4>3. E[k] = IF a \in D[k] THEN D[k] \union {b} ELSE D[k]
        BY <1>11, <3>3
      <4>4. D[k] = {k} \union D[lchild[k]] \union D[rchild[k]]
        BY <1>6
      <4> QED
        BY <3>3, <4>1, <4>2, <4>3, <4>4
    <3> QED
      BY <3>1, <3>2, <3>3
  <2> QED
    BY <1>11, <2>1, NodeByNode
<1>13. Reached(E)'
  <2>1. \A k, x \in Node : x \in D[k] <=> x = k \/ (parent[x] # NULL /\ parent[x] \in D[k])
    BY <1>2 DEF TreeOf, Reached
  <2>2. ASSUME NEW k \in Node, NEW x \in Node
        PROVE  x \in E[k] <=> x = k \/ (parent'[x] # NULL /\ parent'[x] \in E[k])
    <3>1. CASE k = b
      BY <1>3, <1>8, <1>11, <3>1
    <3>2. CASE k # b
      <4>1. E[k] = IF a \in D[k] THEN D[k] \union {b} ELSE D[k]
        BY <1>11, <3>2
      <4>2. x \in D[k] <=> x = k \/ (parent[x] # NULL /\ parent[x] \in D[k])
        BY <2>1
      <4>3. a # NULL /\ b \notin D[k] /\ parent[x] # b
        BY <1>3, <1>8, <3>2
      <4>4. CASE x = b
        BY <1>3, <3>2, <4>1, <4>3, <4>4
      <4>5. CASE x # b
        BY <1>3, <4>1, <4>2, <4>3, <4>5
      <4> QED
        BY <4>4, <4>5
    <3> QED
      BY <3>1, <3>2
  <2> QED
    BY <1>11, <2>2 DEF Reached
<1>14. Acyclic(E)'
  <2>1. \A k, x \in Node : x \in D[k] /\ k \in D[x] => x = k
    BY <1>2 DEF TreeOf, Acyclic
  <2>2. ASSUME NEW k \in Node, NEW x \in Node, x \in E[k]
        PROVE  x \in D[k] \/ x = b
    <3>1. E[k] = {b} \/ E[k] = D[k] \union {b} \/ E[k] = D[k]
      BY <1>11
    <3> QED
      BY <2>2, <3>1
  <2>3. \A k \in Node : k \in E[b] => k = b
    BY <1>11
  <2> QED
    BY <1>3, <2>1, <2>2, <2>3 DEF Acyclic
<1>15. Whole(E)'
  <2>1. \A x \in Node : InTree(x)' <=> InTree(x) \/ x = b
    BY <1>3 DEF InTree
  <2>2. E[root'] = D[root] \union {b}
    BY <1>3, <1>9, <1>11
  <2> QED
    BY <1>3, <1>9, <2>1, <2>2 DEF Whole
<1>16. Sorted(E)'
  <2>1. \A x, y \in Node : cmp(x, y)' = cmp(x, y)
    BY <1>3 DEF cmp
  <2>2. \A k \in Node : /\ \A x \in D[lchild[k]] : cmp(x, k) < 0
                        /\ \A x \in D[rchild[k]] : cmp(x, k) > 0
    BY <1>2 DEF TreeOf, Sorted
  <2>3. ASSUME NEW k \in Node, NEW x \in E[lchild'[k]]
        PROVE  cmp(x, k) < 0 /\ x \in Node
    <3>1. lchild'[k] = b \/ lchild'[k] = lchild[k]
      BY <1>4
    <3>2. CASE lchild'[k] = b
      BY <1>3, <1>4, <1>8, <1>11, <2>3, <3>2
    <3>3. CASE lchild'[k] = lchild[k]
      <4>1. x \in D[lchild[k]] \/ (x = b /\ a \in D[lchild[k]])
        BY <1>7, <1>8, <1>11, <2>3, <3>3
      <4>2. D[lchild[k]] \subseteq Node
        BY <1>6, <1>7
      <4> QED
        BY <1>3, <1>5, <2>2, <4>1, <4>2
    <3> QED
      BY <3>1, <3>2, <3>3
  <2>4. ASSUME NEW k \in Node, NEW x \in E[rchild'[k]]
        PROVE  cmp(x, k) > 0 /\ x \in Node
    <3>1. rchild'[k] = b \/ rchild'[k] = rchild[k]
      BY <1>4
    <3>2. CASE rchild'[k] = b
      BY <1>3, <1>4, <1>8, <1>11, <2>4, <3>2
    <3>3. CASE rchild'[k] = rchild[k]
      <4>1. x \in D[rchild[k]] \/ (x = b /\ a \in D[rchild[k]])
        BY <1>7, <1>8, <1>11, <2>4, <3>3
      <4>2. D[rchild[k]] \subseteq Node
        BY <1>6, <1>7
      <4> QED
        BY <1>3, <1>5, <2>2, <4>1, <4>2
    <3> QED
      BY <3>1, <3>2, <3>3
  <2> QED
    BY <2>1, <2>3, <2>4 DEF Sorted
<1>17. Looking(E)' /\ Placing(E)' /\ Replacing(E)'
  BY <1>3 DEF Looking, Placing, Replacing
<1> QED
  BY <1>12, <1>13, <1>14, <1>15, <1>16, <1>17, Carried DEF OrderedBy, TreeOf

(* With the children exchanged and cmp turned round the order is the same.  *)
LEMMA ReverseOrder ==
  ASSUME Inv, Inv', OrderInv, ReverseTree
  PROVE  OrderInv'
<1> USE DEF NodeOrNull
<1>1. PICK D : D = below
  OBVIOUS
<1>2. TreeOf(D)
  BY <1>1 DEF OrderInv, OrderedBy
<1>3. /\ root' = root /\ parent' = parent /\ pc = "idle" /\ pc' = "idle"
      /\ descending' = ~descending /\ descending \in BOOLEAN
      /\ \A x \in Node : lchild'[x] = rchild[x] /\ rchild'[x] = lchild[x]
  BY DEF ReverseTree, call, Inv, TypeOK, Linked
<1>4. /\ D[NULL] = {} /\ D \in [NodeOrNull -> SUBSET Node]
      /\ \A x \in Node : /\ D[x] \subseteq Node
                         /\ D[x] = {x} \union D[lchild[x]] \union D[rchild[x]]
  BY <1>2, Branches DEF TreeOf, Reached
<1>5. Solves(D)'
  BY <1>3, <1>4, NodeByNode
<1>6. Reached(D)' /\ Acyclic(D)' /\ Whole(D)'
  BY <1>2, <1>3 DEF TreeOf, Reached, Acyclic, Whole, InTree
<1>7. Sorted(D)'
  <2>1. \A x, y \in Node : cmp(x, y)' = 0 - cmp(x, y) /\ cmp(x, y) \in Int
    <3>1. \A x \in Node : data[x] \in Int
      OBVIOUS
    <3>2. CASE descending
      <4>1. ~descending'
        BY <1>3, <3>2
      <4> QED
        BY <3>1, <3>2, <4>1 DEF cmp
    <3>3. CASE ~descending
      <4>1. descending'
        BY <1>3, <3>3
      <4> QED
        BY <3>1, <3>3, <4>1 DEF cmp
    <3> QED
      BY <3>2, <3>3
  <2>2. \A k \in Node : D[lchild[k]] \subseteq Node /\ D[rchild[k]] \subseteq Node
    BY <1>4 DEF Inv, TypeOK
  <2> QED
    BY <1>2, <1>3, <2>1, <2>2 DEF TreeOf, Sorted
<1>8. Looking(D)' /\ Placing(D)' /\ Replacing(D)'
  BY <1>3 DEF Looking, Placing, Replacing
<1> QED
  BY <1>5, <1>6, <1>7, <1>8, Carried DEF OrderedBy, TreeOf

(* build_tree and search go to the side where an equal of their node must   *)
(* be, and del_node goes to the right.                                      *)
LEMMA WalkOrder ==
  ASSUME Inv, OrderInv, NEW D, D = below,
         BuildWalk \/ SearchWalk \/ ReplaceWalk
  PROVE  Looking(D)' /\ Placing(D)' /\ Replacing(D)'
<1> USE DEF NodeOrNull
<1>1. TreeOf(D) /\ Looking(D) /\ Placing(D) /\ Replacing(D)
  BY DEF OrderInv, OrderedBy
<1>2. /\ D[NULL] = {}
      /\ \A x \in Node : /\ D[x] \subseteq Node /\ x \in D[x]
                         /\ D[x] = {x} \union D[lchild[x]] \union D[rchild[x]]
  BY <1>1, Branches
<1>3. /\ links' = links /\ descending' = descending /\ pc' = pc /\ bnode' = bnode
      /\ cur \in Node /\ cur' \in NodeOrNull /\ bnode \in Node
  BY DEF BuildWalk, SearchWalk, ReplaceWalk, Inv, TypeOK
<1>4. \A x, y \in Node : cmp(x, y)' = cmp(x, y)
  BY <1>3 DEF cmp
<1>5. \A x \in Node : InTree(x)' = InTree(x)
  BY <1>3 DEF InTree, links
<1>6. \A k \in Node : /\ \A x \in D[lchild[k]] : cmp(x, k) < 0
                      /\ \A x \in D[rchild[k]] : cmp(x, k) > 0
  BY <1>1 DEF TreeOf, Sorted
<1>7. /\ \A x \in D[lchild[cur]] : x \in Node /\ cmp(x, cur) < 0
      /\ \A x \in D[rchild[cur]] : x \in Node /\ cmp(x, cur) > 0
  BY <1>2, <1>3, <1>6 DEF Inv, TypeOK
<1>8. CASE BuildWalk \/ SearchWalk
  <2>1. /\ pc \in {"build", "search"} /\ pc # "replace"
        /\ cmp(bnode, cur) # 0
        /\ cur' = IF cmp(bnode, cur) < 0 THEN lchild[cur] ELSE rchild[cur]
    BY <1>8 DEF BuildWalk, SearchWalk
  <2>2. cmp(bnode, cur) \in Int
    BY <1>3, CmpOrders
  <2>3. Looking(D)'
    <3>1. cur' # NULL => InTree(cur')
      BY <1>3, <2>1 DEF Inv, TypeOK, Linked, InTree
    <3>2. ASSUME NEW y \in Node, InTree(y), data[y] = data[bnode]
          PROVE  y \in D[cur']
      <4>1. y \in D[cur]
        BY <1>1, <2>1, <3>2 DEF Looking
      <4>2. cmp(bnode, cur) = cmp(y, cur)
        <5>1. cmp(y, bnode) = 0 /\ cmp(y, cur) = cmp(y, bnode) + cmp(bnode, cur)
          BY <1>3, <3>2, CmpOrders
        <5> QED
          BY <2>2, <5>1
      <4>3. y # cur
        <5>1. cmp(cur, cur) = 0
          BY <1>3, CmpOrders
        <5> QED
          BY <2>1, <4>2, <5>1
      <4>4. y \in D[lchild[cur]] \/ y \in D[rchild[cur]]
        BY <1>2, <1>3, <4>1, <4>3
      <4> QED
        BY <1>7, <2>1, <2>2, <4>2, <4>4
    <3> QED
      BY <1>3, <1>5, <3>1, <3>2 DEF Looking, InTree
  <2>4. Placing(D)'
    <3>1. CASE BuildWalk
      <4>1. /\ above' = cur /\ pc = "build"
            /\ Place = cur
            /\ Place' = IF cur' = NULL THEN cur ELSE cur'
        BY <1>3, <3>1 DEF BuildWalk, Place
      <4>2. \A k \in Node : /\ cur \in D[lchild[k]] => cmp(bnode, k) < 0
                            /\ cur \in D[rchild[k]] => cmp(bnode, k) > 0
        BY <1>1, <4>1 DEF Placing
      <4>3. ASSUME NEW k \in Node, NEW e \in Node, cur' # NULL, cur' \in D[e], parent[e] = k
            PROVE  cur \in D[e] \/ (cur' = e /\ k = cur)
        <5>1. parent[cur'] = cur
          BY <1>3, <2>1, <4>3 DEF Inv, Linked
        <5> QED
          BY <1>1, <1>3, <4>3, <5>1 DEF TreeOf, Reached
      <4>4. ASSUME NEW k \in Node, Place' \in D[lchild[k]] PROVE cmp(bnode, k) < 0
        <5>1. lchild[k] \in Node /\ parent[lchild[k]] = k
          BY <1>2, <4>4 DEF Inv, TypeOK, Linked
        <5>2. cur \in D[lchild[k]] \/ (cur' = lchild[k] /\ k = cur)
          BY <4>1, <4>3, <4>4, <5>1
        <5>3. cur' = lchild[k] /\ k = cur => cmp(bnode, cur) < 0
          BY <2>1, <5>1 DEF Inv, Linked
        <5> QED
          BY <4>2, <5>2, <5>3
      <4>5. ASSUME NEW k \in Node, Place' \in D[rchild[k]] PROVE cmp(bnode, k) > 0
        <5>1. rchild[k] \in Node /\ parent[rchild[k]] = k
          BY <1>2, <4>5 DEF Inv, TypeOK, Linked
        <5>2. cur \in D[rchild[k]] \/ (cur' = rchild[k] /\ k = cur)
          BY <4>1, <4>3, <4>5, <5>1
        <5>3. cur' = rchild[k] /\ k = cur => cmp(bnode, cur) > 0
          BY <2>1, <2>2, <5>1 DEF Inv, Linked
        <5> QED
          BY <4>2, <5>2, <5>3
      <4> QED
        BY <1>3, <1>4, <4>4, <4>5 DEF Placing, links
    <3>2. CASE SearchWalk
      BY <1>3, <3>2 DEF SearchWalk, Placing
    <3> QED
      BY <1>8, <3>1, <3>2
  <2>5. Replacing(D)'
    BY <1>3, <2>1 DEF Replacing
  <2> QED
    BY <2>3, <2>4, <2>5
<1>9. CASE ReplaceWalk
  <2>1. pc = "replace" /\ rchild[cur] \in Node /\ cur' = rchild[cur]
    BY <1>3, <1>9 DEF ReplaceWalk, Inv, TypeOK
  <2>2. /\ cur \in D[lchild[bnode]]
        /\ \A x \in D[lchild[bnode]] : x \in D[cur] \/ cmp(x, cur) < 0
    BY <1>1, <2>1 DEF Replacing
  <2>3. lchild[bnode] \in Node /\ D[lchild[bnode]] \subseteq Node
    BY <1>2, <1>3, <2>2 DEF Inv, TypeOK
  <2>4. rchild[cur] \in D[lchild[bnode]]
    BY <1>1, <1>3, <2>1, <2>2, <2>3 DEF TreeOf, Reached, Inv, Linked
  <2>5. cmp(rchild[cur], cur) > 0
    BY <1>2, <1>7, <2>1
  <2>6. ASSUME NEW x \in D[lchild[bnode]]
        PROVE  x \in D[rchild[cur]] \/ cmp(x, rchild[cur]) < 0
    <3>1. x \in Node
      BY <2>3
    <3>2. x \in D[rchild[cur]] \/ x = cur \/ cmp(x, cur) < 0
      BY <1>2, <1>3, <1>7, <2>2
    <3>3. /\ cmp(x, rchild[cur]) = cmp(x, cur) + cmp(cur, rchild[cur])
          /\ cmp(cur, rchild[cur]) = 0 - cmp(rchild[cur], cur)
          /\ cmp(x, cur) \in Int /\ cmp(rchild[cur], cur) \in Int
          /\ x = cur => cmp(x, cur) = 0
      BY <1>3, <2>1, <3>1, CmpOrders
    <3> QED
      BY <2>5, <3>2, <3>3
  <2>7. Replacing(D)'
    <3>1. \A x \in D[lchild[bnode]] : cmp(x, cur)' = cmp(x, rchild[cur])
      BY <1>3, <2>1 DEF cmp
    <3> QED
      BY <1>3, <2>1, <2>4, <2>6, <3>1 DEF Replacing, links
  <2> QED
    BY <1>3, <2>1, <2>7 DEF Looking, Placing
<1> QED
  BY <1>8, <1>9

(* The steps that leave the tree, or make the first node its root.          *)
LEMMA CursorOrder ==
  ASSUME Inv, Inv', OrderInv,
         \/ \E n \in Node : Build(n) \/ Search(n) \/ DelSearch(n)
         \/ BuildWalk \/ BuildRefuse \/ SearchWalk \/ SearchReturn \/ ReplaceWalk
         \/ UNCHANGED vars
  PROVE  OrderInv'
<1> USE DEF NodeOrNull
<1>1. PICK D : D = below
  OBVIOUS
<1>2. TreeOf(D) /\ Looking(D) /\ Placing(D) /\ Replacing(D)
  BY <1>1 DEF OrderInv, OrderedBy
<1>3. /\ D[NULL] = {} /\ D \in [NodeOrNull -> SUBSET Node]
      /\ \A x \in Node : /\ D[x] \subseteq Node /\ x \in D[x]
                         /\ D[x] = {x} \union D[lchild[x]] \union D[rchild[x]]
  BY <1>2, Branches DEF TreeOf, Reached
<1>4. ASSUME UNCHANGED <<links, descending>>, Looking(D)', Placing(D)', Replacing(D)'
      PROVE  OrderInv'
  <2>1. TreeOf(D)'
    BY <1>2, <1>4 DEF TreeOf, Solves, Reached, Acyclic, Whole, Sorted, InTree, cmp, links
  <2> QED
    BY <1>4, <2>1, Carried DEF OrderedBy
<1>5. ASSUME pc' = "idle" PROVE Looking(D)' /\ Placing(D)' /\ Replacing(D)'
  BY <1>5 DEF Looking, Placing, Replacing
<1>6. ASSUME NEW r \in Node, parent[r] = NULL, NEW k \in Node
      PROVE  r \notin D[lchild[k]] /\ r \notin D[rchild[k]]
  BY <1>2, <1>3, <1>6 DEF TreeOf, Reached, Inv, TypeOK, Linked
<1>7. D[root] = {x \in Node : InTree(x)}
  BY <1>2 DEF TreeOf, Whole
<1>8. ASSUME NEW n \in Node, Build(n), root # NULL PROVE OrderInv'
  <2>1. /\ UNCHANGED <<links, descending>>
        /\ pc' = "build" /\ bnode' = n /\ cur' = root
        /\ root \in Node /\ parent[root] = NULL
    BY <1>8 DEF Build, Enter, links, Inv, TypeOK, Linked
  <2>2. Looking(D)'
    BY <1>7, <2>1 DEF Looking, InTree, links
  <2>3. Placing(D)'
    <3>1. Place' = root
      BY <2>1 DEF Place
    <3> QED
      BY <1>6, <2>1, <3>1 DEF Placing, links
  <2>4. Replacing(D)'
    BY <2>1 DEF Replacing
  <2> QED
    BY <1>4, <2>1, <2>2, <2>3, <2>4
<1>9. ASSUME NEW n \in Node, Build(n), root = NULL PROVE OrderInv'
  <2>1. /\ root' = n /\ UNCHANGED <<parent, lchild, rchild, descending>>
        /\ pc' = "build" /\ bnode' = n /\ cur' = n
    BY <1>9 DEF Build, Enter
  <2>2. /\ \A x \in Node : parent[x] = NULL
        /\ lchild[n] = NULL /\ rchild[n] = NULL
    <3>1. \A x \in Node : ~InTree(x)
      BY <1>3, <1>7, <1>9
    <3> QED
      BY <3>1 DEF Inv, Linked, InTree
  <2>3. Solves(D)' /\ Reached(D)' /\ Acyclic(D)'
    BY <1>2, <2>1 DEF TreeOf, Solves, Reached, Acyclic
  <2>4. Whole(D)'
    <3>1. D[n] = {n}
      BY <1>3, <2>2
    <3>2. \A x \in Node : InTree(x)' <=> x = n
      BY <2>1, <2>2 DEF InTree
    <3> QED
      BY <2>1, <3>1, <3>2 DEF Whole
  <2>5. Sorted(D)'
    BY <1>2, <2>1 DEF TreeOf, Sorted, cmp
  <2>6. Looking(D)'
    BY <1>3, <2>1, <2>2 DEF Looking, InTree
  <2>7. Placing(D)'
    <3>1. Place' = n
      BY <2>1 DEF Place
    <3> QED
      BY <1>6, <2>1, <2>2, <3>1 DEF Placing
  <2>8. Replacing(D)'
    BY <2>1 DEF Replacing
  <2> QED
    BY <2>3, <2>4, <2>5, <2>6, <2>7, <2>8, Carried DEF OrderedBy, TreeOf
<1>10. ASSUME NEW n \in Node, Search(n) PROVE OrderInv'
  <2>1. /\ UNCHANGED <<links, descending>>
        /\ pc' = "search" /\ bnode' = n /\ cur' = root
    BY <1>10 DEF Search, Enter
  <2>2. Looking(D)'
    BY <1>7, <2>1 DEF Looking, InTree, links
  <2>3. Placing(D)' /\ Replacing(D)'
    BY <2>1 DEF Placing, Replacing
  <2> QED
    BY <1>4, <2>1, <2>2, <2>3
<1>11. ASSUME NEW n \in Node, DelSearch(n) PROVE OrderInv'
  <2>1. /\ UNCHANGED <<links, descending>>
        /\ pc' = "replace" /\ bnode' = n /\ cur' = lchild[n] /\ lchild[n] \in Node
    BY <1>11 DEF DelSearch, Enter, Inv, TypeOK
  <2>2. Replacing(D)'
    BY <1>3, <2>1 DEF Replacing, links
  <2>3. Looking(D)' /\ Placing(D)'
    BY <2>1 DEF Looking, Placing
  <2> QED
    BY <1>4, <2>1, <2>2, <2>3
<1>12. CASE BuildWalk \/ SearchWalk \/ ReplaceWalk
  BY <1>1, <1>4, <1>12, WalkOrder DEF BuildWalk, SearchWalk, ReplaceWalk
<1>13. CASE BuildRefuse \/ SearchReturn
  BY <1>4, <1>5, <1>13 DEF BuildRefuse, SearchReturn, Return
<1>14. CASE UNCHANGED vars
  BY <1>2, <1>4, <1>14 DEF vars, links, call, Looking, Placing, Replacing, Place, InTree, cmp
<1> QED
  BY <1>8, <1>9, <1>10, <1>11, <1>12, <1>13, <1>14

(* What is below a node that is below k is below k.                         *)
LEMMA Nested ==
  ASSUME Inv, NEW D, TreeOf(D), NEW k \in Node
  PROVE  \A n \in D[k] : D[n] \subseteq D[k]
<1> DEFINE S == {n \in D[k] : ~(D[n] \subseteq D[k])}
<1>1. /\ D[NULL] = {}
      /\ \A x \in Node : /\ D[x] \subseteq Node
                         /\ D[x] = {x} \union D[lchild[x]] \union D[rchild[x]]
  BY Branches
<1>2. CASE S # {}
  <2>1. S \in SUBSET Node
    BY <1>1
  <2>2. PICK n \in S : \A e \in S : parent[e] # n
    <3> HIDE DEF S
    <3> QED
      BY <1>2, <2>1, Deepest
  <2>3. n \in Node /\ n \in D[k] /\ ~(D[n] \subseteq D[k])
    BY <2>1, <2>2
  <2>4. ASSUME NEW e \in Node, parent[e] = n PROVE D[e] \subseteq D[k]
    <3>1. e \in D[k]
      BY <2>3, <2>4 DEF TreeOf, Reached
    <3> QED
      BY <2>2, <2>4, <3>1
  <2>5. D[lchild[n]] \subseteq D[k] /\ D[rchild[n]] \subseteq D[k]
    BY <1>1, <2>3, <2>4 DEF Inv, TypeOK, Linked, NodeOrNull
  <2> QED
    BY <1>1, <2>3, <2>5
<1> QED
  BY <1>2

(* Two nodes neither of which is below the other have nothing in common     *)
(* below them.                                                              *)
LEMMA Apart ==
  ASSUME Inv, NEW D, TreeOf(D), NEW n \in Node
  PROVE  \A k \in Node : k \in D[n] \/ n \in D[k] \/ D[k] \cap D[n] = {}
<1> DEFINE S == {k \in Node : k \notin D[n] /\ n \notin D[k] /\ D[k] \cap D[n] # {}}
<1>1. /\ D[NULL] = {}
      /\ \A x \in Node : D[x] = {x} \union D[lchild[x]] \union D[rchild[x]]
  BY Branches
<1>2. CASE S # {}
  <2>1. PICK k \in S : \A e \in S : parent[e] # k
    <3>1. S \in SUBSET Node
      OBVIOUS
    <3> HIDE DEF S
    <3> QED
      BY <1>2, <3>1, Deepest
  <2>2. k \in Node /\ k \notin D[n] /\ n \notin D[k] /\ D[k] \cap D[n] # {}
    BY <2>1
  <2>3. ASSUME NEW e \in Node, parent[e] = k PROVE D[e] \cap D[n] = {}
    <3>1. e \in D[k]
      BY <2>2, <2>3 DEF TreeOf, Reached
    <3>2. e \notin D[n]
      BY <2>2, <2>3, <3>1 DEF TreeOf, Reached
    <3>3. n \notin D[e]
      BY <2>2, <3>1, Nested
    <3> QED
      BY <2>1, <2>3, <3>2, <3>3
  <2>4. D[lchild[k]] \cap D[n] = {} /\ D[rchild[k]] \cap D[n] = {}
    BY <1>1, <2>2, <2>3 DEF Inv, TypeOK, Linked, NodeOrNull
  <2> QED
    BY <1>1, <2>2, <2>4
<1> QED
  BY <1>2

(* The tree without n: m is in it still.                                    *)
LEMMA TakeHolds ==
  ASSUME Inv, TypeOK', ReplaceTake
  PROVE  \A x \in Node : InTree(x)' <=> InTree(x) /\ x # bnode
<1> DEFINE n == bnode
           m == cur
           c == lchild[m]
           q == parent[m]
           g == parent[n]
           l == IF lchild[n] = m THEN c ELSE lchild[n]
           r == IF rchild[n] = m THEN c ELSE rchild[n]
<1> USE DEF NodeOrNull
<1>1. /\ n \in Node /\ m \in Node /\ q \in Node /\ m # n
      /\ root' = IF g = NULL THEN m ELSE root
      /\ \A x \in Node : parent'[x] = IF x = n THEN NULL ELSE IF x = m THEN g
                           ELSE IF x \in {l, r} THEN m
                           ELSE IF x = c THEN q ELSE parent[x]
  BY TakeLinks
<1>2. g = NULL <=> n = root
  BY <1>1 DEF ReplaceTake, Inv, Cursors, InTree, Linked
<1>3. root # m /\ (root # NULL => parent[root] = NULL)
  BY <1>1 DEF Inv, Linked
<1>4. \A x \in Node : x \in {l, r, c} => parent[x] \in {n, m}
  BY <1>1 DEF Inv, Linked
<1>5. q = parent[m]
  OBVIOUS
<1> HIDE DEF n, m, c, q, g, l, r
<1>6. ASSUME NEW x \in Node PROVE InTree(x)' <=> InTree(x) /\ x # n
  <2>1. CASE x = n
    <3>1. root' # n
      BY <1>1, <1>2
    <3> QED
      BY <1>1, <2>1, <3>1 DEF InTree
  <2>2. CASE x = m
    BY <1>1, <1>2, <1>5, <2>2 DEF InTree
  <2>3. CASE x \notin {n, m} /\ x \in {l, r, c}
    <3>1. parent'[x] \in {m, q}
      BY <1>1, <2>3
    <3> QED
      BY <1>1, <1>4, <2>3, <3>1 DEF InTree
  <2>4. CASE x \notin {n, m, l, r, c}
    <3>1. parent'[x] = parent[x] /\ (x = root' <=> x = root)
      BY <1>1, <1>2, <2>4
    <3> QED
      BY <2>4, <3>1 DEF InTree
  <2> QED
    BY <2>1, <2>2, <2>3, <2>4
<1> QED
  BY <1>6 DEF n

(* The node m, the last of the left subtree of n, takes the place of n: it  *)
(* is above what was below n, and no longer below what it was below.        *)
LEMMA TakeOrder ==
  ASSUME Inv, Inv', OrderInv, ReplaceTake
  PROVE  OrderInv'
<1> DEFINE n == bnode
           m == cur
           c == lchild[m]
           q == parent[m]
           g == parent[n]
           l == IF lchild[n] = m THEN c ELSE lchild[n]
           r == IF rchild[n] = m THEN c ELSE rchild[n]
<1> USE DEF NodeOrNull
<1>1. PICK D : D = below
  OBVIOUS
<1>2. TreeOf(D) /\ Replacing(D)
  BY <1>1 DEF OrderInv, OrderedBy
<1>3. /\ D[NULL] = {}
      /\ \A x \in Node : /\ D[x] \subseteq Node /\ x \in D[x]
                         /\ D[x] = {x} \union D[lchild[x]] \union D[rchild[x]]
                         /\ x \notin D[lchild[x]] /\ x \notin D[rchild[x]]
  BY <1>2, Branches
<1>4. \A x \in Node : lchild[x] \in NodeOrNull /\ rchild[x] \in NodeOrNull
  BY DEF Inv, TypeOK
<1>5. \A k, x \in Node : x \in D[k] <=> x = k \/ (parent[x] # NULL /\ parent[x] \in D[k])
  BY <1>2 DEF TreeOf, Reached
<1>6. \A k, x \in Node : x \in D[k] /\ k \in D[x] => x = k
  BY <1>2 DEF TreeOf, Acyclic
<1>7. /\ n \in Node /\ m \in Node /\ q \in Node
      /\ c \in NodeOrNull /\ g \in NodeOrNull
      /\ m # n /\ q # m /\ c # m /\ c # n
      /\ root' = IF g = NULL THEN m ELSE root
      /\ pc' = "idle"
      /\ \A x \in Node : lchild'[x] = IF x = n THEN NULL ELSE IF x = m THEN l
                           ELSE IF x = g /\ lchild[x] = n THEN m
                           ELSE IF x = q /\ lchild[x] = m THEN c ELSE lchild[x]
      /\ \A x \in Node : rchild'[x] = IF x = n THEN NULL ELSE IF x = m THEN r
                           ELSE IF x = g /\ rchild[x] = n THEN m
                           ELSE IF x = q /\ rchild[x] = m THEN c ELSE rchild[x]
      /\ \A x \in Node : parent'[x] = IF x = n THEN NULL ELSE IF x = m THEN g
                           ELSE IF x \in {l, r} THEN m
                           ELSE IF x = c THEN q ELSE parent[x]
  BY TakeLinks DEF Inv, TypeOK
<1>8. /\ m \in D[lchild[n]]
      /\ \A x \in D[lchild[n]] : x \in D[m] \/ cmp(x, m) < 0
      /\ rchild[m] = NULL /\ InTree(n) /\ descending' = descending
  BY <1>2 DEF ReplaceTake, Replacing, Inv, Cursors
<1>9. \A k \in Node : /\ \A x \in D[lchild[k]] : cmp(x, k) < 0
                      /\ \A x \in D[rchild[k]] : cmp(x, k) > 0
  BY <1>2 DEF TreeOf, Sorted
<1>10. rchild[n] # m /\ r = rchild[n]
  <2>1. cmp(m, n) < 0 /\ ~(cmp(m, n) > 0)
    <3>1. cmp(m, n) \in Int
      BY <1>7, CmpOrders
    <3>2. cmp(m, n) < 0
      BY <1>7, <1>8, <1>9
    <3> QED
      BY <3>1, <3>2
  <2> QED
    BY <1>3, <1>7, <1>9, <2>1
<1>11. /\ D[m] = {m} \union D[c] /\ m \notin D[c]
       /\ D[n] = {n} \union D[lchild[n]] \union D[rchild[n]]
       /\ m \in D[n] /\ q \in D[n]
       /\ c # NULL => c \in D[n] /\ parent[c] = m
  BY <1>3, <1>5, <1>7, <1>8 DEF Inv, Linked
<1>12. \A x \in Node : /\ parent[x] = n => x \in {lchild[n], rchild[n]}
                       /\ parent[x] = m => x = c
                       /\ lchild[x] # NULL => parent[lchild[x]] = x
                       /\ rchild[x] # NULL => parent[rchild[x]] = x
  BY <1>7, <1>8 DEF Inv, TypeOK, Linked
<1>13. /\ lchild[n] # NULL => lchild[n] \in D[n] /\ parent[lchild[n]] = n
       /\ rchild[n] # NULL => rchild[n] \in D[n] /\ parent[rchild[n]] = n
       /\ q = n => lchild[n] = m
       /\ g # NULL => g \notin D[n] /\ g # n
  <2>1. /\ lchild[n] # NULL => lchild[n] \in D[n] /\ parent[lchild[n]] = n
        /\ rchild[n] # NULL => rchild[n] \in D[n] /\ parent[rchild[n]] = n
    BY <1>3, <1>4, <1>7, <1>12
  <2>2. q = n => lchild[n] = m
    BY <1>7, <1>10, <1>12
  <2>3. g # NULL => n \in D[g] /\ g # n
    <3>1. PICK rank \in [Node -> Int] : Ranked(rank)
      BY DEF Inv, Grown
    <3> QED
      BY <1>3, <1>5, <1>7, <3>1 DEF Ranked
  <2> QED
    BY <1>6, <1>7, <2>1, <2>2, <2>3
<1>14. ASSUME NEW k \in Node, k \notin D[n], NEW x \in D[n]
       PROVE  x \in D[k] <=> n \in D[k]
  BY <1>2, <1>7, <1>14, Nested, Apart
<1>15. ASSUME NEW k \in D[n], k # n
       PROVE  n \notin D[k] /\ (g # NULL => g \notin D[k])
  BY <1>3, <1>5, <1>6, <1>7, <1>15
<1>16. \A k, x \in Node : cmp(k, x)' = cmp(k, x)
  BY <1>8 DEF cmp
<1> HIDE DEF n, m, c, q, g, l, r
<1>17. l = (IF lchild[n] = m THEN c ELSE lchild[n]) /\ l \in NodeOrNull /\ r \in NodeOrNull
  BY <1>4, <1>7, <1>10 DEF l
<1>18. PICK E : E = [x \in NodeOrNull |-> IF x = m THEN D[n] \ {n}
                                         ELSE IF x = n THEN {n}
                                         ELSE IF x \in D[n] THEN D[x] \ {m} ELSE D[x] \ {n}]
  OBVIOUS
<1>19. /\ E \in [NodeOrNull -> SUBSET Node]
       /\ E[NULL] = {}
       /\ E[m] = D[n] \ {n}
       /\ E[n] = {n}
       /\ \A x \in D[n] : x \notin {m, n} => E[x] = D[x] \ {m}
       /\ \A x \in Node : x \notin D[n] => E[x] = D[x] \ {n}
  BY <1>3, <1>7, <1>11, <1>18
<1>20. E[c] = D[c]
  <2>1. CASE c = NULL
    BY <1>3, <1>19, <2>1
  <2>2. CASE c # NULL
    <3>1. E[c] = D[c] \ {m}
      BY <1>7, <1>11, <1>19, <2>2
    <3> QED
      BY <1>11, <3>1
  <2> QED
    BY <2>1, <2>2
\* The children of a node that stays: what is below them loses n or m.
<1>21. ASSUME NEW k \in Node, k \notin {m, n}, NEW e \in NodeOrNull, NEW f \in NodeOrNull,
              e # NULL => parent[e] = k,
              f = IF k = g /\ e = n THEN m ELSE IF k = q /\ e = m THEN c ELSE e
       PROVE  E[f] = IF k \in D[n] THEN D[e] \ {m} ELSE D[e] \ {n}
  <2>1. CASE e = NULL
    <3>1. f = NULL
      BY <1>7, <1>21, <2>1
    <3>2. D[e] = {} /\ E[f] = {}
      BY <1>3, <1>19, <2>1, <3>1
    <3> QED
      BY <3>2
  <2>2. CASE e = n
    <3>1. k = g /\ k \notin D[n]
      BY <1>7, <1>13, <1>21, <2>2 DEF g
    <3> QED
      BY <1>19, <1>21, <2>2, <3>1
  <2>3. CASE e = m
    <3>1. k = q /\ k \in D[n]
      BY <1>7, <1>11, <1>21, <2>3 DEF q
    <3> QED
      BY <1>7, <1>11, <1>20, <1>21, <2>3, <3>1
  <2>4. CASE e \in Node /\ e \notin {m, n}
    <3>1. f = e
      BY <1>21, <2>4
    <3>2. e \in D[n] <=> k \in D[n]
      BY <1>5, <1>7, <1>21, <2>4
    <3> QED
      BY <1>19, <2>4, <3>1, <3>2
  <2> QED
    BY <2>1, <2>2, <2>3, <2>4
<1>22. \A k \in Node : k \notin {m, n} =>
         /\ E[lchild'[k]] = IF k \in D[n] THEN D[lchild[k]] \ {m} ELSE D[lchild[k]] \ {n}
         /\ E[rchild'[k]] = IF k \in D[n] THEN D[rchild[k]] \ {m} ELSE D[rchild[k]] \ {n}
  <2>1. ASSUME NEW k \in Node, k \notin {m, n}
        PROVE  E[lchild'[k]] = IF k \in D[n] THEN D[lchild[k]] \ {m} ELSE D[lchild[k]] \ {n}
    <3>1. lchild'[k] = IF k = g /\ lchild[k] = n THEN m
                       ELSE IF k = q /\ lchild[k] = m THEN c ELSE lchild[k]
      BY <1>7, <2>1
    <3>2. lchild'[k] \in NodeOrNull /\ lchild[k] \in NodeOrNull
      BY <1>4, <1>7, <3>1
    <3> QED
      BY <1>12, <1>21, <2>1, <3>1, <3>2
  <2>2. ASSUME NEW k \in Node, k \notin {m, n}
        PROVE  E[rchild'[k]] = IF k \in D[n] THEN D[rchild[k]] \ {m} ELSE D[rchild[k]] \ {n}
    <3>1. rchild'[k] = IF k = g /\ rchild[k] = n THEN m
                       ELSE IF k = q /\ rchild[k] = m THEN c ELSE rchild[k]
      BY <1>7, <2>2
    <3>2. rchild'[k] \in NodeOrNull /\ rchild[k] \in NodeOrNull
      BY <1>4, <1>7, <3>1
    <3> QED
      BY <1>12, <1>21, <2>2, <3>1, <3>2
  <2> QED
    BY <2>1, <2>2
<1>23. /\ lchild'[m] = l /\ rchild'[m] = r
       /\ E[l] = D[lchild[n]] \ {m}
       /\ E[r] = D[rchild[n]] \ {m}
  <2>1. lchild'[m] = l /\ rchild'[m] = r
    BY <1>7
  <2>2. E[l] = D[lchild[n]] \ {m}
    <3>1. CASE lchild[n] = m
      BY <1>11, <1>17, <1>20, <3>1
    <3>2. CASE lchild[n] # m
      <4>1. lchild[n] # NULL => lchild[n] \in D[n] /\ lchild[n] # n
        BY <1>3, <1>4, <1>7, <1>13
      <4> QED
        BY <1>3, <1>17, <1>19, <3>2, <4>1
    <3> QED
      BY <3>1, <3>2
  <2>3. E[r] = D[rchild[n]] \ {m}
    <3>1. rchild[n] # NULL => rchild[n] \in D[n] /\ rchild[n] # n
      BY <1>3, <1>4, <1>7, <1>13
    <3> QED
      BY <1>3, <1>10, <1>19, <3>1
  <2> QED
    BY <2>1, <2>2, <2>3
<1>24. Solves(E)'
  <2>1. ASSUME NEW k \in Node
        PROVE  E[k] = {k} \union E[lchild'[k]] \union E[rchild'[k]]
    <3>1. CASE k = n
      BY <1>7, <1>19, <3>1
    <3>2. CASE k = m
      BY <1>3, <1>7, <1>8, <1>11, <1>19, <1>23, <3>2
    <3>3. CASE k \notin {m, n}
      <4>1. D[k] = {k} \union D[lchild[k]] \union D[rchild[k]]
        BY <1>3
      <4>2. E[k] = IF k \in D[n] THEN D[k] \ {m} ELSE D[k] \ {n}
        BY <1>19, <3>3
      <4> QED
        BY <1>22, <3>3, <4>1, <4>2
    <3> QED
      BY <3>1, <3>2, <3>3
  <2> QED
    BY <1>19, <2>1, NodeByNode
<1>25. Reached(E)'
  <2>1. ASSUME NEW k \in Node, NEW x \in Node
        PROVE  x \in E[k] <=> x = k \/ (parent'[x] # NULL /\ parent'[x] \in E[k])
    <3>1. CASE x = n
      <4>1. parent'[x] = NULL
        BY <1>7, <3>1
      <4>2. k # n => n \notin E[k]
        BY <1>7, <1>15, <1>19
      <4> QED
        BY <1>7, <1>19, <3>1, <4>1, <4>2
    <3>2. CASE x # n /\ k = n
      <4>1. lchild'[n] = NULL /\ rchild'[n] = NULL
        BY <1>7
      <4>2. parent'[x] # n
        BY <1>7, <4>1 DEF Inv, Linked
      <4> QED
        BY <1>19, <3>2, <4>2
    <3>3. CASE x = m /\ k # n
      <4>1. parent'[x] = g
        BY <1>7, <3>3
      <4>2. CASE k = m
        BY <1>11, <1>7, <1>19, <3>3, <4>2
      <4>3. CASE k # m /\ k \in D[n]
        BY <1>15, <1>19, <3>3, <4>1, <4>3
      <4>4. CASE k # m /\ k \notin D[n]
        <5>1. m \in D[k] <=> n \in D[k]
          BY <1>11, <1>14, <4>4
        <5>2. n \in D[k] <=> g # NULL /\ g \in D[k]
          BY <1>5, <1>7, <3>3 DEF g
        <5>3. E[k] = D[k] \ {n}
          BY <1>19, <4>4
        <5> QED
          BY <1>7, <1>13, <3>3, <4>1, <4>4, <5>1, <5>2, <5>3
      <4> QED
        BY <4>2, <4>3, <4>4
    <3>4. CASE x \notin {n, m} /\ x \in {l, r, c} /\ k # n
      <4>1. x \in D[n] /\ parent[x] \in {n, m}
        BY <1>10, <1>11, <1>13, <1>17, <3>4
      <4>2. parent'[x] \in {m, q} /\ parent'[x] \in D[n] /\ parent'[x] # n
        <5>1. q = n => c = l
          BY <1>13, <1>17
        <5> QED
          BY <1>7, <1>11, <3>4, <5>1
      <4>3. CASE k = m
        BY <1>7, <1>19, <3>4, <4>1, <4>2, <4>3
      <4>4. CASE k # m /\ k \in D[n]
        <5>1. E[k] = D[k] \ {m} /\ n \notin D[k]
          BY <1>15, <1>19, <3>4, <4>4
        <5>2. x \in D[k] <=> x = k \/ (parent[x] = m /\ m \in D[k])
          BY <1>5, <1>7, <4>1, <5>1
        <5>3. m \in D[k] <=> q \in D[k]
          BY <1>5, <1>7, <4>4 DEF q
        <5>4. parent[x] = m => x = c
          BY <1>12
        <5>5. parent'[x] = IF x \in {l, r} THEN m ELSE q
          BY <1>7, <3>4
        <5>6. x \in {l, r} /\ x = c => q = n \/ parent[x] # m
          <6>1. CASE lchild[n] = m
            BY <1>7, <1>12, <6>1 DEF q
          <6>2. CASE lchild[n] # m
            BY <1>10, <1>7, <1>13, <1>17, <3>4, <6>2
          <6> QED
            BY <6>1, <6>2
        <5>7. x \notin {l, r} => x = c /\ parent[x] = m
          BY <1>11, <3>4, <1>7
        <5> QED
          BY <1>7, <3>4, <4>4, <5>1, <5>2, <5>3, <5>4, <5>5, <5>6, <5>7
      <4>5. CASE k # m /\ k \notin D[n]
        <5>1. E[k] = D[k] \ {n}
          BY <1>19, <4>5
        <5>2. (x \in D[k] <=> n \in D[k]) /\ (parent'[x] \in D[k] <=> n \in D[k])
          BY <1>14, <4>1, <4>2, <4>5
        <5>3. x # k
          BY <4>1, <4>5
        <5>4. parent'[x] # NULL
          BY <1>7, <4>2
        <5> QED
          BY <3>4, <4>2, <5>1, <5>2, <5>3, <5>4
      <4> QED
        BY <4>3, <4>4, <4>5
    <3>5. CASE x \notin {n, m, l, r, c} /\ k # n
      <4>1. parent'[x] = parent[x]
        BY <1>7, <3>5
      <4>2. parent[x] \notin {n, m}
        BY <1>7, <1>10, <1>12, <1>17, <3>5
      <4>3. x \in D[k] <=> x = k \/ (parent[x] # NULL /\ parent[x] \in D[k])
        BY <1>5
      <4>4. CASE k = m
        <5>1. x \in D[n] <=> parent[x] # NULL /\ parent[x] \in D[n]
          BY <1>5, <1>7, <3>5
        <5> QED
          BY <1>19, <3>5, <4>1, <4>2, <4>4, <5>1
      <4>5. CASE k # m
        <5>1. E[k] = D[k] \ {m} \/ E[k] = D[k] \ {n}
          BY <1>19, <3>5, <4>5
        <5> QED
          BY <3>5, <4>1, <4>2, <4>3, <5>1
      <4> QED
        BY <4>4, <4>5
    <3> QED
      BY <3>1, <3>2, <3>3, <3>4, <3>5
  <2> QED
    BY <1>19, <2>1 DEF Reached
<1>26. Acyclic(E)'
  <2>1. ASSUME NEW k \in Node, NEW x \in Node, x \in E[k], k \in E[x] PROVE x = k
    <3>1. ASSUME NEW y \in E[m], y # m PROVE m \notin E[y]
      <4>1. y \in D[n] /\ y \notin {m, n}
        BY <1>19, <3>1
      <4> QED
        BY <1>19, <4>1
    <3>2. CASE k = m \/ x = m
      BY <2>1, <3>1, <3>2
    <3>3. CASE k # m /\ x # m
      <4>1. E[k] \subseteq D[k] /\ E[x] \subseteq D[x]
        BY <1>3, <1>19, <3>3
      <4> QED
        BY <1>6, <2>1, <4>1
    <3> QED
      BY <3>2, <3>3
  <2> QED
    BY <2>1 DEF Acyclic
<1>27. Whole(E)'
  <2>1. D[root] = {x \in Node : InTree(x)} /\ root \in NodeOrNull
    BY <1>2 DEF TreeOf, Whole, Inv, TypeOK
  <2>2. g = NULL <=> n = root
    BY <1>7, <1>8 DEF g, InTree, Inv, Linked
  <2>3. root # m
    BY <1>7 DEF q, Inv, Linked
  <2>4. E[root'] = D[root] \ {n}
    <3>1. CASE g = NULL
      BY <1>7, <1>19, <2>2, <3>1
    <3>2. CASE g # NULL
      <4>1. root # NULL
        BY <1>3, <1>7, <1>8, <2>1
      <4>2. root \in Node /\ root \notin D[n]
        BY <1>5, <1>7, <2>1, <2>2, <3>2, <4>1 DEF Inv, Linked
      <4> QED
        BY <1>7, <1>19, <3>2, <4>2
    <3> QED
      BY <3>1, <3>2
  <2>5. \A x \in Node : InTree(x)' <=> InTree(x) /\ x # n
    BY TakeHolds DEF Inv, n
  <2> QED
    BY <2>1, <2>4, <2>5 DEF Whole
<1>28. Sorted(E)'
  <2>1. ASSUME NEW k \in Node, NEW x \in E[lchild'[k]]
        PROVE  x \in Node /\ cmp(x, k) < 0
    <3>1. CASE k = n
      BY <1>7, <1>19, <2>1, <3>1
    <3>2. CASE k = m
      <4>1. x \in D[lchild[n]] /\ x # m
        BY <1>23, <2>1, <3>2
      <4>2. x \in D[c] \/ cmp(x, m) < 0
        BY <1>8, <1>11, <4>1
      <4>3. \A y \in D[c] : cmp(y, m) < 0
        BY <1>7, <1>9 DEF c
      <4> QED
        BY <1>3, <1>11, <1>7, <3>2, <4>1, <4>2, <4>3
    <3>3. CASE k \notin {n, m}
      <4>1. x \in D[lchild[k]]
        BY <1>22, <2>1, <3>3
      <4> QED
        BY <1>3, <1>4, <1>9, <4>1
    <3> QED
      BY <3>1, <3>2, <3>3
  <2>2. ASSUME NEW k \in Node, NEW x \in E[rchild'[k]]
        PROVE  x \in Node /\ cmp(x, k) > 0
    <3>1. CASE k = n
      BY <1>7, <1>19, <2>2, <3>1
    <3>2. CASE k = m
      <4>1. x \in D[rchild[n]] /\ x \in Node
        BY <1>3, <1>7, <1>23, <2>2, <3>2
      <4>2. cmp(x, n) > 0 /\ cmp(m, n) < 0
        BY <1>7, <1>8, <1>9, <4>1
      <4>3. /\ cmp(x, n) \in Int /\ cmp(m, n) \in Int
            /\ cmp(n, m) = 0 - cmp(m, n)
            /\ cmp(x, m) = cmp(x, n) + cmp(n, m)
        BY <1>7, <4>1, CmpOrders
      <4> QED
        BY <3>2, <4>1, <4>2, <4>3
    <3>3. CASE k \notin {n, m}
      <4>1. x \in D[rchild[k]]
        BY <1>22, <2>2, <3>3
      <4> QED
        BY <1>3, <1>4, <1>9, <4>1
    <3> QED
      BY <3>1, <3>2, <3>3
  <2> QED
    BY <1>16, <2>1, <2>2 DEF Sorted
<1>29. Looking(E)' /\ Placing(E)' /\ Replacing(E)'
  BY <1>7 DEF Looking, Placing, Replacing
<1> QED
  BY <1>24, <1>25, <1>26, <1>27, <1>28, <1>29, Carried DEF OrderedBy, TreeOf

-----------------------------------------------------------------------------
(* The empty tree is sorted, ...                                            *)
LEMMA OrderInit == Init => OrderInv
<1> SUFFICES ASSUME Init PROVE OrderInv
  OBVIOUS
<1> USE DEF NodeOrNull
<1>1. PICK D : D = [n \in NodeOrNull |-> IF n = NULL THEN {} ELSE {n}]
  OBVIOUS
<1>2. /\ D \in [NodeOrNull -> SUBSET Node]
      /\ D[NULL] = {}
      /\ \A n \in Node : D[n] = {n} /\ lchild[n] = NULL /\ rchild[n] = NULL /\ parent[n] = NULL
      /\ root = NULL /\ pc = "idle"
  BY <1>1 DEF Init
<1>3. Solves(D)
  <2>1. \A n \in Node : D[lchild[n]] = {} /\ D[rchild[n]] = {}
    BY <1>2
  <2>2. \A n \in NodeOrNull :
          (IF n = NULL THEN {} ELSE {n}) =
            IF n = NULL THEN {} ELSE {n} \union D[lchild[n]] \union D[rchild[n]]
    BY <2>1
  <2> QED
    BY <1>1, <2>2 DEF Solves
<1>4. OrderedBy(D)
  BY <1>2, <1>3 DEF OrderedBy, TreeOf, Reached, Acyclic, Whole, Sorted, Looking, Placing,
     Replacing, InTree
<1>5. D = below
  BY <1>3, InvInit, OneSolution DEF OnlyBelowSolves
<1> QED
  BY <1>4, <1>5 DEF OrderInv

(* ... and every call and every iteration of a loop leaves it sorted.       *)
LEMMA OrderStep == Inv /\ Inv' /\ OrderInv /\ [Next]_vars => OrderInv'
BY SpliceOrder, LinkOrder, TakeOrder, ReverseOrder, CursorOrder DEF Next, Call, Loop

(* So the tree is sorted at any time, and the loops stand where they should. *)
THEOREM OrderInvariance == Spec => []OrderInv
<1>1. Init => OrderInv
  BY OrderInit
<1>2. Inv /\ Inv' /\ OrderInv /\ [Next]_vars => OrderInv'
  BY OrderStep
<1> QED
  BY <1>1, <1>2, Invariance, PTL DEF Spec

(* At every moment, also between the steps of a call, the nodes that are in *)
(* the tree are those below the root, and every node stands right of its    *)
(* left subtree and left of its right one.                                  *)
THEOREM SortedTree == Spec => [](Whole(below) /\ Sorted(below))
<1>1. OrderInv => Whole(below) /\ Sorted(below)
  BY DEF OrderInv, OrderedBy, TreeOf
<1> QED
  BY <1>1, OrderInvariance, PTL

-----------------------------------------------------------------------------
(* The order that the links give is the order of cmp.                       *)

OrderAgrees == Before = Set!Listed(below[root], descending)

(* Two nodes are split by the deepest node that both are at or below.       *)
LEMMA LinksOrder == Inv /\ OrderInv => OrderAgrees
<1> SUFFICES ASSUME Inv, OrderInv PROVE OrderAgrees
  OBVIOUS
<1> USE DEF NodeOrNull
<1>1. PICK D : D = below
  OBVIOUS
<1>2. TreeOf(D)
  BY <1>1 DEF OrderInv, OrderedBy
<1>3. /\ D[NULL] = {}
      /\ \A x \in Node : /\ D[x] \subseteq Node /\ x \in D[x]
                         /\ D[x] = {x} \union D[lchild[x]] \union D[rchild[x]]
  BY <1>2, Branches
<1>4. \A x \in Node : lchild[x] \in NodeOrNull /\ rchild[x] \in NodeOrNull
  BY DEF Inv, TypeOK
<1>5. D[root] = {x \in Node : InTree(x)} /\ root \in NodeOrNull
  BY <1>2 DEF TreeOf, Whole, Inv, TypeOK
<1>6. \A n \in Node : /\ \A x \in D[lchild[n]] : x \in Node /\ cmp(x, n) < 0
                      /\ \A x \in D[rchild[n]] : x \in Node /\ cmp(x, n) > 0
  BY <1>2, <1>3, <1>4 DEF TreeOf, Sorted
<1>7. \A a, b \in Node : <<a, b>> \in Before <=>
        \E n \in Node : \/ a \in D[lchild[n]] /\ b = n
                        \/ a \in {n} \union D[lchild[n]] /\ b \in D[rchild[n]]
  BY <1>1 DEF Before
<1>8. \A a, b \in Node :
        (IF descending THEN data[a] > data[b] ELSE data[a] < data[b]) <=> cmp(a, b) < 0
  <2>1. \A a \in Node : data[a] \in Int
    OBVIOUS
  <2>2. CASE descending
    BY <2>1, <2>2 DEF cmp
  <2>3. CASE ~descending
    BY <2>1, <2>3 DEF cmp
  <2> QED
    BY <2>2, <2>3
<1>9. ASSUME NEW a \in Node, NEW b \in Node, <<a, b>> \in Before
      PROVE  a \in D[root] /\ b \in D[root] /\ cmp(a, b) < 0
  <2>1. PICK n \in Node : \/ a \in D[lchild[n]] /\ b = n
                          \/ a \in {n} \union D[lchild[n]] /\ b \in D[rchild[n]]
    BY <1>7, <1>9
  <2>2. a \in D[n] /\ b \in D[n]
    BY <1>3, <2>1
  <2>3. InTree(n)
    BY <1>3, <2>1 DEF Inv, Linked
  <2>4. \A x \in D[n] : InTree(x)
    BY <1>2, <1>3, <2>3 DEF TreeOf, Reached, InTree
  <2>5. /\ cmp(a, b) = cmp(a, n) + cmp(n, b)
        /\ cmp(n, b) = 0 - cmp(b, n)
        /\ cmp(a, n) \in Int /\ cmp(b, n) \in Int
    BY CmpOrders
  <2>6. (a = n => cmp(a, n) = 0) /\ (b = n => cmp(b, n) = 0)
    BY CmpOrders
  <2>7. cmp(a, b) < 0
    BY <1>6, <2>1, <2>5, <2>6
  <2> QED
    BY <1>5, <2>2, <2>4, <2>7
<1>10. ASSUME NEW a \in D[root], NEW b \in D[root], cmp(a, b) < 0
       PROVE  <<a, b>> \in Before
  <2>1. a \in Node /\ b \in Node /\ root \in Node
    BY <1>3, <1>5
  <2> DEFINE S == {n \in Node : a \in D[n] /\ b \in D[n]}
  <2>2. root \in S
    BY <2>1
  <2>3. PICK n \in S : \A c \in S : parent[c] # n
    <3>1. S \in SUBSET Node /\ S # {}
      BY <2>2
    <3> HIDE DEF S
    <3> QED
      BY <3>1, Deepest
  <2>4. n \in Node /\ a \in D[n] /\ b \in D[n]
    BY <2>3
  <2>5. ~(a \in D[lchild[n]] /\ b \in D[lchild[n]])
    BY <1>3, <1>4, <2>3, <2>4 DEF Inv, Linked
  <2>6. ~(a \in D[rchild[n]] /\ b \in D[rchild[n]])
    BY <1>3, <1>4, <2>3, <2>4 DEF Inv, Linked
  <2>7. /\ cmp(a, b) = cmp(a, n) + cmp(n, b)
        /\ cmp(n, b) = 0 - cmp(b, n)
        /\ cmp(a, n) \in Int /\ cmp(b, n) \in Int
    BY <2>1, <2>4, CmpOrders
  <2>8. (a = n => cmp(a, n) = 0) /\ (b = n => cmp(b, n) = 0)
    BY <2>1, <2>4, CmpOrders
  <2>9. /\ a \in D[lchild[n]] => cmp(a, n) < 0
        /\ a \in D[rchild[n]] => cmp(a, n) > 0
        /\ b \in D[lchild[n]] => cmp(b, n) < 0
        /\ b \in D[rchild[n]] => cmp(b, n) > 0
    BY <1>6, <2>4
  <2>10. /\ a = n \/ a \in D[lchild[n]] \/ a \in D[rchild[n]]
         /\ b = n \/ b \in D[lchild[n]] \/ b \in D[rchild[n]]
    BY <1>3, <2>4
  <2>11. \/ a \in D[lchild[n]] /\ b = n
         \/ a \in {n} \union D[lchild[n]] /\ b \in D[rchild[n]]
    BY <1>10, <2>5, <2>6, <2>7, <2>8, <2>9, <2>10
  <2> QED
    BY <1>7, <2>1, <2>4, <2>11
<1>11. Before \subseteq Node \X Node
  BY <1>1, <1>6 DEF Before
<1>12. D[root] \subseteq Node
  BY <1>5
<1>13. \A p : p \in Before <=> p \in Set!Listed(D[root], descending)
  <2>1. \A a, b \in Node : <<a, b>> \in Set!Listed(D[root], descending) <=>
          a \in D[root] /\ b \in D[root] /\ cmp(a, b) < 0
    BY <1>8 DEF Set!Listed
  <2>2. Set!Listed(D[root], descending) \subseteq Node \X Node
    BY <1>12 DEF Set!Listed
  <2>3. \A a, b \in Node : <<a, b>> \in Before <=> <<a, b>> \in Set!Listed(D[root], descending)
    BY <1>9, <1>10, <2>1
  <2> QED
    BY <1>11, <2>2, <2>3
<1> QED
  BY <1>1, <1>13 DEF OrderAgrees

-----------------------------------------------------------------------------
(* The tree implements the ordered set.                                     *)

(* The first set is empty, and so is its order.                             *)
LEMMA InitMaps == Init => Set!Init
<1> SUFFICES ASSUME Init PROVE Set!Init
  OBVIOUS
<1>1. Inv /\ OrderInv
  BY InvInit, OrderInit
<1>2. OrderAgrees
  BY <1>1, LinksOrder
<1>3. below[root] = {}
  BY <1>1, Branches DEF Init, OrderInv, OrderedBy
<1>4. Set!Listed({}, descending) = {}
  BY DEF Set!Listed
<1> QED
  BY <1>2, <1>3, <1>4 DEF Init, Set!Init, OrderAgrees

\* The set is what is in the tree.
Held == below[root] = {n \in Node : InTree(n)}

(* What is below the root is what is in the tree.                           *)
LEMMA TreeHolds == OrderInv => Held
BY DEF OrderInv, OrderedBy, TreeOf, Whole, Held

(* A step that leaves links and cmp alone leaves the set and its order.     *)
LEMMA SetStays ==
  ASSUME OrderAgrees, OrderAgrees', Held, Held', UNCHANGED <<links, descending>>
  PROVE  below'[root'] = below[root] /\ Before' = Before
<1>1. below'[root'] = below[root]
  BY DEF Held, InTree, links
<1> QED
  BY <1>1 DEF OrderAgrees, Set!Listed

(* Every step of the tree is a step of the ordered set or none: a node is   *)
(* inserted when it is linked, deleted when it is spliced out or replaced,  *)
(* and found when search returns.                                           *)
LEMMA StepMaps ==
  Inv /\ Inv' /\ OrderInv /\ OrderInv' /\ [Next]_vars => [Set!Next]_(Set!vars)
<1> SUFFICES ASSUME Inv, Inv', OrderInv, OrderInv', [Next]_vars
             PROVE  [Set!Next]_(Set!vars)
  OBVIOUS
<1> USE DEF NodeOrNull
<1>1. OrderAgrees /\ OrderAgrees' /\ Held /\ Held'
  <2>1. (Inv /\ OrderInv => OrderAgrees)'
    BY LinksOrder, PTL
  <2>2. (OrderInv => Held)'
    BY TreeHolds, PTL
  <2> QED
    BY <2>1, <2>2, LinksOrder, TreeHolds
<1>2. /\ Before' = Set!Listed(below'[root'], descending')
      /\ below[root] = {n \in Node : InTree(n)}
      /\ below'[root'] = {n \in Node : InTree(n)'}
  BY <1>1 DEF OrderAgrees, Held, Set!Listed
<1>3. ASSUME UNCHANGED <<links, descending, found>> PROVE UNCHANGED Set!vars
  BY <1>1, <1>3, SetStays DEF Set!vars
<1>4. ASSUME NEW n \in Node, Build(n) PROVE [Set!Next]_(Set!vars)
  <2>1. CASE root # NULL
    BY <1>3, <1>4, <2>1 DEF Build, links
  <2>2. CASE root = NULL
    <3>1. below[root] = {}
      BY <2>2, Branches DEF OrderInv, OrderedBy
    <3>2. \A x \in Node : ~InTree(x)
      BY <1>2, <3>1
    <3>3. below'[root'] = below[root] \union {n}
      BY <1>2, <1>4, <2>2, <3>2 DEF Build, InTree
    <3>4. Set!Equals(n) = {}
      BY <3>1 DEF Set!Equals
    <3>5. Set!Insert(n)
      BY <1>2, <1>4, <3>3, <3>4 DEF Build, Set!Insert
    <3> QED
      BY <3>5 DEF Set!Next
  <2> QED
    BY <2>1, <2>2
<1>5. CASE BuildLink
  <2>1. /\ bnode \in Node /\ above \in Node /\ root' = root /\ bnode # root
        /\ \A x \in Node : parent'[x] = IF x = bnode THEN above ELSE parent[x]
        /\ descending' = descending /\ found' = found
    BY <1>5, LinkLinks DEF BuildLink, Inv, TypeOK
  <2>2. below'[root'] = below[root] \union {bnode}
    BY <1>2, <2>1 DEF InTree
  <2>3. Set!Equals(bnode) = {}
    <3>1. \A y \in Node : InTree(y) => data[y] # data[bnode]
      BY <1>5, Branches DEF BuildLink, OrderInv, OrderedBy, Looking
    <3> QED
      BY <1>2, <3>1 DEF Set!Equals
  <2>4. Set!Insert(bnode)
    BY <1>2, <2>1, <2>2, <2>3 DEF Set!Insert
  <2> QED
    BY <2>1, <2>4 DEF Set!Next
<1>6. ASSUME NEW n \in Node, DelSplice(n) PROVE [Set!Next]_(Set!vars)
  <2>1. \A x \in Node : InTree(x)' <=> InTree(x) /\ x # n
    BY <1>6, SpliceHolds
  <2>2. n \in below[root] /\ below'[root'] = below[root] \ {n}
    BY <1>2, <1>6, <2>1 DEF DelSplice
  <2>3. Set!Delete(n)
    BY <1>2, <1>6, <2>2 DEF DelSplice, Set!Delete
  <2> QED
    BY <2>3 DEF Set!Next
<1>7. CASE ReplaceTake
  <2>1. bnode \in Node /\ InTree(bnode) /\ descending' = descending /\ found' = found
    BY <1>7 DEF ReplaceTake, Inv, TypeOK, Cursors
  <2>2. \A x \in Node : InTree(x)' <=> InTree(x) /\ x # bnode
    BY <1>7, TakeHolds DEF Inv
  <2>3. bnode \in below[root] /\ below'[root'] = below[root] \ {bnode}
    BY <1>2, <2>1, <2>2
  <2>4. Set!Delete(bnode)
    BY <1>2, <2>1, <2>3 DEF Set!Delete
  <2> QED
    BY <2>1, <2>4 DEF Set!Next
<1>8. CASE SearchReturn
  <2>1. /\ bnode \in Node /\ pc = "search" /\ found' = cur /\ cur \in NodeOrNull
        /\ cur # NULL => cmp(bnode, cur) = 0
        /\ UNCHANGED <<links, descending>>
    BY <1>8 DEF SearchReturn, Inv, TypeOK
  <2>2. below'[root'] = below[root] /\ Before' = Before
    BY <1>1, <2>1, SetStays
  <2>3. /\ cur # NULL => InTree(cur)
        /\ \A y \in Node : InTree(y) /\ data[y] = data[bnode] => y \in below[cur]
    BY <2>1 DEF OrderInv, OrderedBy, Looking
  <2>4. CASE cur = NULL
    <3>1. \A y \in Node : ~(InTree(y) /\ data[y] = data[bnode])
      BY <2>3, <2>4, Branches DEF OrderInv, OrderedBy
    <3>2. Set!Equals(bnode) = {}
      BY <1>2, <3>1 DEF Set!Equals
    <3>3. Set!Find(bnode)
      BY <2>1, <2>2, <2>4, <3>2 DEF Set!Find
    <3> QED
      BY <2>1, <3>3 DEF Set!Next
  <2>5. CASE cur # NULL
    <3>1. data[bnode] = data[cur] /\ cur \in Node
      BY <2>1, <2>5, CmpOrders
    <3>2. cur \in Set!Equals(bnode)
      BY <1>2, <2>3, <2>5, <3>1 DEF Set!Equals
    <3>3. Set!Find(bnode)
      BY <2>1, <2>2, <3>2 DEF Set!Find
    <3> QED
      BY <2>1, <3>3 DEF Set!Next
  <2> QED
    BY <2>4, <2>5
<1>9. CASE ReverseTree
  <2>1. root' = root /\ parent' = parent /\ descending' = ~descending /\ found' = found
    BY <1>9 DEF ReverseTree
  <2>2. below'[root'] = below[root]
    BY <1>2, <2>1 DEF InTree
  <2>3. Set!Turn
    BY <1>2, <2>1, <2>2 DEF Set!Turn
  <2> QED
    BY <2>3 DEF Set!Next
<1>10. CASE \/ \E n \in Node : Search(n) \/ DelSearch(n)
            \/ BuildWalk \/ BuildRefuse \/ SearchWalk \/ ReplaceWalk
            \/ UNCHANGED vars
  <2>1. UNCHANGED <<links, descending, found>>
    BY <1>10 DEF Search, DelSearch, BuildWalk, BuildRefuse, SearchWalk, ReplaceWalk, vars
  <2> QED
    BY <1>3, <2>1
<1> QED
  BY <1>4, <1>5, <1>6, <1>7, <1>8, <1>9, <1>10 DEF Next, Call, Loop

(* For every set of nodes, any values and any sequence of calls the tree is *)
(* an ordered set: build_tree inserts, unless a node of the value is there, *)
(* del_node deletes, search returns the node of the value if there is one,  *)
(* and reverse turns the order round.                                       *)
THEOREM Refinement == Spec => ImplementsOrderedSet
<1>1. Init => Set!Init
  BY InitMaps
<1>2. Inv /\ Inv' /\ OrderInv /\ OrderInv' /\ [Next]_vars => [Set!Next]_(Set!vars)
  BY StepMaps
<1> QED
  BY <1>1, <1>2, Invariance, OrderInvariance, PTL DEF Spec, ImplementsOrderedSet, Set!Spec
-----------------------------------------------------------------------------
(* The tree as the functions that read it find it between two calls.        *)

(* A node and its subtrees.                                                 *)
LEMMA TreeShape ==
  ASSUME Inv, OrderInv
  PROVE  /\ below[NULL] = {}
         /\ root \in NodeOrNull
         /\ below[root] \subseteq Node
         /\ \A n \in Node :
              /\ lchild[n] \in NodeOrNull /\ rchild[n] \in NodeOrNull
              /\ below[n] \subseteq Node
              /\ n \in below[n]
              /\ below[n] = {n} \union below[lchild[n]] \union below[rchild[n]]
              /\ n \notin below[lchild[n]] /\ n \notin below[rchild[n]]
              /\ below[lchild[n]] \cap below[rchild[n]] = {}
              /\ \A x \in below[n] : /\ below[x] \subseteq below[n]
                                     /\ n \in below[x] => x = n
<1>1. PICK D : D = below
  OBVIOUS
<1>2. TreeOf(D)
  BY <1>1 DEF OrderInv, OrderedBy
<1>3. /\ D[NULL] = {}
      /\ \A n \in Node : /\ D[n] \subseteq Node
                         /\ n \in D[n]
                         /\ D[n] = {n} \union D[lchild[n]] \union D[rchild[n]]
                         /\ n \notin D[lchild[n]] /\ n \notin D[rchild[n]]
  BY <1>2, Branches
<1>4. root \in NodeOrNull /\ \A n \in Node : lchild[n] \in NodeOrNull /\ rchild[n] \in NodeOrNull
  BY DEF Inv, TypeOK
<1>5. ASSUME NEW n \in Node PROVE D[lchild[n]] \cap D[rchild[n]] = {}
  <2>1. \A x \in Node : x \in D[lchild[n]] => cmp(x, n) < 0
    BY <1>2 DEF TreeOf, Sorted
  <2>2. \A x \in Node : x \in D[rchild[n]] => cmp(x, n) > 0
    BY <1>2 DEF TreeOf, Sorted
  <2>3. D[lchild[n]] \subseteq Node
    BY <1>3, <1>4 DEF NodeOrNull
  <2>4. ASSUME NEW x \in Node PROVE ~(cmp(x, n) < 0 /\ cmp(x, n) > 0)
    <3>1. cmp(x, n) \in Int
      BY CmpOrders
    <3> QED
      BY <3>1
  <2> QED
    BY <2>1, <2>2, <2>3, <2>4
<1>6. ASSUME NEW n \in Node, NEW x \in D[n]
      PROVE  D[x] \subseteq D[n] /\ (n \in D[x] => x = n)
  <2>1. x \in Node
    BY <1>3
  <2> QED
    BY <1>2, <2>1, Nested DEF TreeOf, Acyclic
<1>7. D[root] \subseteq Node
  BY <1>3, <1>4 DEF NodeOrNull
<1> QED
  BY <1>1, <1>3, <1>4, <1>5, <1>6, <1>7

(* What is before what: the left subtree, the node, the right subtree.      *)
LEMMA LeftToRight ==
  ASSUME Inv, OrderInv
  PROVE  /\ \A n \in Node : \A x \in below[lchild[n]] :
              <<x, n>> \in Before /\ \A y \in below[rchild[n]] : <<x, y>> \in Before
         /\ \A n \in Node : \A y \in below[rchild[n]] : <<n, y>> \in Before
         /\ \A a, b \in Node : <<a, b>> \in Before =>
              \E n \in Node : \/ a \in below[lchild[n]] /\ b = n
                              \/ a \in {n} \union below[lchild[n]] /\ b \in below[rchild[n]]
BY DEF Before

Strict(order) == \A a, b : <<a, b>> \in order => a \in Node /\ b \in Node /\ <<b, a>> \notin order

(* No two nodes are before each other: their values would be.               *)
LEMMA BeforeStrict ==
  ASSUME Inv, OrderInv
  PROVE  Strict(Before)
<1>1. Before = Set!Listed(below[root], descending)
  BY LinksOrder DEF OrderAgrees
<1>2. below[root] \subseteq Node /\ \A n \in Node : data[n] \in Int
  BY TreeShape
<1>3. CASE descending
  BY <1>1, <1>2, <1>3 DEF Strict, Set!Listed
<1>4. CASE ~descending
  BY <1>1, <1>2, <1>4 DEF Strict, Set!Listed
<1> QED
  BY <1>3, <1>4

(* Of two nodes neither of which is below the other all that is below the   *)
(* first is before all that is below the second.                            *)
LEMMA SubtreesInOrder ==
  ASSUME Inv, OrderInv, NEW a \in Node, NEW b \in Node,
         <<a, b>> \in Before, a \notin below[b], b \notin below[a]
  PROVE  \A x \in below[a], y \in below[b] : <<x, y>> \in Before
<1>1. PICK n \in Node : \/ a \in below[lchild[n]] /\ b = n
                        \/ a \in {n} \union below[lchild[n]] /\ b \in below[rchild[n]]
  BY LeftToRight
<1>2. a \in below[lchild[n]] /\ b \in below[rchild[n]]
  BY <1>1, TreeShape
<1>3. lchild[n] \in Node /\ rchild[n] \in Node
  BY <1>2, TreeShape DEF NodeOrNull
<1>4. below[a] \subseteq below[lchild[n]] /\ below[b] \subseteq below[rchild[n]]
  BY <1>2, <1>3, TreeShape
<1> QED
  BY <1>4, LeftToRight

(* The subtrees of a node have no node in common, nor one below one of the  *)
(* other.                                                                   *)
LEMMA SidesApart ==
  ASSUME Inv, OrderInv, NEW n \in Node, NEW x \in below[lchild[n]], NEW y \in below[rchild[n]]
  PROVE  x \in Node /\ y \in Node /\ x # y /\ x \notin below[y] /\ y \notin below[x]
<1>1. lchild[n] \in Node /\ rchild[n] \in Node
  BY TreeShape DEF NodeOrNull
<1>2. x \in Node /\ y \in Node /\ below[x] \subseteq below[lchild[n]] /\ below[y] \subseteq below[rchild[n]]
  BY <1>1, TreeShape
<1>3. x \in below[x] /\ y \in below[y] /\ below[lchild[n]] \cap below[rchild[n]] = {}
  BY <1>2, TreeShape
<1> QED
  BY <1>2, <1>3

(* In pre-order a node comes before what is below it, left before right.    *)
LEMMA PreOrdered ==
  ASSUME Inv, OrderInv
  PROVE  /\ Strict(PreBefore)
         /\ \A n \in Node : \A x \in below[n] : x # n => <<n, x>> \in PreBefore
         /\ \A n \in Node : \A x \in below[lchild[n]], y \in below[rchild[n]] : <<x, y>> \in PreBefore
<1>1. ASSUME NEW a \in Node, NEW b \in Node
      PROVE  <<a, b>> \in PreBefore <=> a # b /\ (b \in below[a] \/ (<<a, b>> \in Before /\ a \notin below[b]))
  BY DEF PreBefore
<1>2. Strict(PreBefore)
  <2>1. ASSUME NEW a, NEW b, <<a, b>> \in PreBefore
        PROVE  a \in Node /\ b \in Node /\ <<b, a>> \notin PreBefore
    <3>1. a \in Node /\ b \in Node
      BY <2>1 DEF PreBefore
    <3>2. a # b /\ (b \in below[a] \/ (<<a, b>> \in Before /\ a \notin below[b]))
      BY <1>1, <2>1, <3>1
    <3>3. a \in below[b] => b \notin below[a]
      BY <3>1, <3>2, TreeShape
    <3>4. <<a, b>> \in Before => <<b, a>> \notin Before
      BY BeforeStrict DEF Strict
    <3> QED
      BY <1>1, <3>1, <3>2, <3>3, <3>4
  <2> QED
    BY <2>1 DEF Strict
<1>3. ASSUME NEW n \in Node, NEW x \in below[n], x # n PROVE <<n, x>> \in PreBefore
  BY <1>1, <1>3, TreeShape
<1>4. ASSUME NEW n \in Node, NEW x \in below[lchild[n]], NEW y \in below[rchild[n]]
      PROVE  <<x, y>> \in PreBefore
  <2>1. x \in Node /\ y \in Node /\ x # y /\ x \notin below[y]
    BY SidesApart
  <2>2. <<x, y>> \in Before
    BY LeftToRight
  <2> QED
    BY <1>1, <2>1, <2>2
<1> QED
  BY <1>2, <1>3, <1>4

(* In post-order it comes after.                                            *)
LEMMA PostOrdered ==
  ASSUME Inv, OrderInv
  PROVE  /\ Strict(PostBefore)
         /\ \A n \in Node : \A x \in below[n] : x # n => <<x, n>> \in PostBefore
         /\ \A n \in Node : \A x \in below[lchild[n]], y \in below[rchild[n]] : <<x, y>> \in PostBefore
<1>1. ASSUME NEW a \in Node, NEW b \in Node
      PROVE  <<a, b>> \in PostBefore <=> a # b /\ (a \in below[b] \/ (<<a, b>> \in Before /\ b \notin below[a]))
  BY DEF PostBefore
<1>2. Strict(PostBefore)
  <2>1. ASSUME NEW a, NEW b, <<a, b>> \in PostBefore
        PROVE  a \in Node /\ b \in Node /\ <<b, a>> \notin PostBefore
    <3>1. a \in Node /\ b \in Node
      BY <2>1 DEF PostBefore
    <3>2. a # b /\ (a \in below[b] \/ (<<a, b>> \in Before /\ b \notin below[a]))
      BY <1>1, <2>1, <3>1
    <3>3. a \in below[b] => b \notin below[a]
      BY <3>1, <3>2, TreeShape
    <3>4. <<a, b>> \in Before => <<b, a>> \notin Before
      BY BeforeStrict DEF Strict
    <3> QED
      BY <1>1, <3>1, <3>2, <3>3, <3>4
  <2> QED
    BY <2>1 DEF Strict
<1>3. ASSUME NEW n \in Node, NEW x \in below[n], x # n PROVE <<x, n>> \in PostBefore
  BY <1>1, <1>3, TreeShape
<1>4. ASSUME NEW n \in Node, NEW x \in below[lchild[n]], NEW y \in below[rchild[n]]
      PROVE  <<x, y>> \in PostBefore
  <2>1. x \in Node /\ y \in Node /\ x # y /\ y \notin below[x]
    BY SidesApart
  <2>2. <<x, y>> \in Before
    BY LeftToRight
  <2> QED
    BY <1>1, <2>1, <2>2
<1> QED
  BY <1>2, <1>3, <1>4

-----------------------------------------------------------------------------
(* Recursion along the tree.                                                *)

\* Along the links p and q a rank decreases, which is bounded by high.
Descends(p, q, rank, high) ==
  \A n \in Node : /\ p[n] \in NodeOrNull /\ q[n] \in NodeOrNull
                  /\ rank[n] \in 0..high
                  /\ p[n] # NULL => rank[p[n]] < rank[n]
                  /\ q[n] # NULL => rank[q[n]] < rank[n]

Into(G, V) == \A n \in Node : \A a, b \in V : G[<<n, a, b>>] \in V

\* f is v at NULL and, where the rank is below k, G of the node and of what f is
\* at its two links.
Defined(f, V, v, G, p, q, rank, k) ==
  /\ f = [n \in NodeOrNull |-> f[n]]
  /\ \A n \in NodeOrNull : f[n] \in V
  /\ f[NULL] = v
  /\ \A n \in Node : rank[n] < k => f[n] = G[<<n, f[p[n]], f[q[n]]>>]

Recursive(f, V, v, G, p, q) ==
  /\ f = [n \in NodeOrNull |-> IF n = NULL THEN v ELSE G[<<n, f[p[n]], f[q[n]]>>]]
  /\ \A n \in NodeOrNull : f[n] \in V

(* Such a function exists for every k, and for one above all ranks it       *)
(* satisfies the equation everywhere.                                       *)
LEMMA Recursion ==
  ASSUME NEW V, NEW v \in V, NEW G, Into(G, V),
         NEW p, NEW q, NEW rank, NEW high \in Nat, Descends(p, q, rank, high)
  PROVE  \E f : Recursive(f, V, v, G, p, q)
<1> DEFINE Good(k) == \E f : Defined(f, V, v, G, p, q, rank, k)
           Fails == {k \in Nat : ~Good(k)}
<1>1. Good(0)
  <2>1. PICK f : f = [n \in NodeOrNull |-> v]
    OBVIOUS
  <2>2. \A n \in NodeOrNull : f[n] = v
    BY <2>1
  <2>3. f = [n \in NodeOrNull |-> f[n]]
    BY <2>1, <2>2
  <2>4. ASSUME NEW n \in Node PROVE ~(rank[n] < 0)
    <3>1. rank[n] \in 0..high
      BY DEF Descends
    <3> QED
      BY <3>1
  <2>5. Defined(f, V, v, G, p, q, rank, 0)
    BY <2>2, <2>3, <2>4 DEF Defined, NodeOrNull
  <2> QED
    BY <2>5
<1>2. ASSUME NEW k \in Nat, Good(k) PROVE Good(k + 1)
  <2>1. PICK f : Defined(f, V, v, G, p, q, rank, k)
    BY <1>2
  <2>2. PICK g : g = [n \in NodeOrNull |-> IF n = NULL THEN v ELSE G[<<n, f[p[n]], f[q[n]]>>]]
    OBVIOUS
  <2>3. g[NULL] = v /\ \A n \in Node : g[n] = G[<<n, f[p[n]], f[q[n]]>>]
    BY <2>2 DEF NodeOrNull
  <2>4. g = [n \in NodeOrNull |-> g[n]]
    BY <2>2, Zenon
  <2>5. ASSUME NEW n \in NodeOrNull, n # NULL => rank[n] < k PROVE g[n] = f[n]
    BY <2>1, <2>3, <2>5 DEF Defined, NodeOrNull
  <2>6. ASSUME NEW n \in Node, rank[n] < k + 1 PROVE g[n] = G[<<n, g[p[n]], g[q[n]]>>]
    <3>1. ASSUME NEW c \in Node, rank[c] < rank[n] PROVE rank[c] < k
      <4>1. rank[c] \in 0..high /\ rank[n] \in 0..high
        BY DEF Descends
      <4> QED
        BY <1>2, <2>6, <3>1, <4>1
    <3>2. /\ p[n] \in NodeOrNull /\ (p[n] # NULL => rank[p[n]] < k)
          /\ q[n] \in NodeOrNull /\ (q[n] # NULL => rank[q[n]] < k)
      BY <3>1 DEF Descends, NodeOrNull
    <3>3. g[p[n]] = f[p[n]] /\ g[q[n]] = f[q[n]]
      BY <2>5, <3>2
    <3> QED
      BY <2>3, <3>3
  <2>7. \A n \in NodeOrNull : g[n] \in V
    <3>1. ASSUME NEW n \in Node PROVE g[n] \in V
      BY <2>1, <2>3 DEF Defined, Descends, Into
    <3> QED
      BY <2>3, <3>1 DEF NodeOrNull
  <2>8. Defined(g, V, v, G, p, q, rank, k + 1)
    BY <2>3, <2>4, <2>6, <2>7 DEF Defined
  <2> QED
    BY <2>8
<1> HIDE DEF Good
<1>3. ASSUME Fails # {} PROVE FALSE
  <2>1. PICK k \in Fails : \A j \in Fails : k <= j
    <3>1. Fails \in SUBSET Nat
      OBVIOUS
    <3> HIDE DEF Fails
    <3> QED
      BY <1>3, <3>1, LeastNatural
  <2>2. k \in Nat /\ k # 0 /\ ~Good(k)
    BY <1>1, <2>1
  <2>3. PICK j \in Nat : k = j + 1
    <3>1. k - 1 \in Nat
      BY <2>2
    <3> QED
      BY <2>2, <3>1
  <2>4. j \notin Fails
    BY <2>1, <2>3
  <2> QED
    BY <1>2, <2>2, <2>3, <2>4
<1>4. Good(high + 1)
  BY <1>3
<1>5. PICK f : Defined(f, V, v, G, p, q, rank, high + 1)
  BY <1>4 DEF Good
<1>6. f[NULL] = v /\ \A n \in Node : f[n] = G[<<n, f[p[n]], f[q[n]]>>]
  <2>1. ASSUME NEW n \in Node PROVE rank[n] < high + 1
    <3>1. rank[n] \in 0..high
      BY DEF Descends
    <3> QED
      BY <3>1
  <2> QED
    BY <1>5, <2>1 DEF Defined
<1>7. \A n \in NodeOrNull : f[n] = IF n = NULL THEN v ELSE G[<<n, f[p[n]], f[q[n]]>>]
  BY <1>6 DEF NodeOrNull
<1>8. f = [n \in NodeOrNull |-> f[n]] /\ \A n \in NodeOrNull : f[n] \in V
  BY <1>5 DEF Defined
<1>9. Recursive(f, V, v, G, p, q)
  BY <1>7, <1>8 DEF Recursive
<1> QED
  BY <1>9

(* A rank that grows along the links does so from a node to all below it.   *)
LEMMA RankBelow ==
  ASSUME Inv, OrderInv, NEW rank \in [Node -> Int], Ranked(rank)
  PROVE  \A n \in Node : \A x \in below[n] : rank[n] <= rank[x]
<1> DEFINE S == {n \in Node : ~\A x \in below[n] : rank[n] <= rank[x]}
<1>1. CASE S # {}
  <2>1. PICK n \in S : \A c \in S : parent[c] # n
    <3>1. S \in SUBSET Node
      OBVIOUS
    <3> HIDE DEF S
    <3> QED
      BY <1>1, <3>1, Deepest
  <2>2. PICK x \in below[n] : ~(rank[n] <= rank[x])
    BY <2>1
  <2>3. n \in Node /\ x \in Node
    BY <2>1, <2>2, TreeShape
  <2>4. x # n
    BY <2>2, <2>3
  <2>5. PICK c \in {lchild[n], rchild[n]} : x \in below[c]
    BY <2>2, <2>3, <2>4, TreeShape
  <2>6. c \in Node /\ parent[c] = n
    BY <2>3, <2>5, TreeShape DEF Inv, Linked, NodeOrNull
  <2>7. rank[c] <= rank[x]
    BY <2>1, <2>5, <2>6
  <2>8. rank[n] < rank[c]
    BY <2>3, <2>6 DEF Ranked
  <2> QED
    BY <2>2, <2>3, <2>6, <2>7, <2>8
<1>2. CASE S = {}
  BY <1>2
<1> QED
  BY <1>1, <1>2

(* The children of a node in the tree, and its parent, are in the tree; a   *)
(* node outside has neither.                                                *)
LEMMA Neighbours ==
  ASSUME Inv, NEW n \in Node
  PROVE  /\ lchild[n] # NULL => InTree(n) /\ lchild[n] \in Node /\ InTree(lchild[n]) /\ parent[lchild[n]] = n
         /\ rchild[n] # NULL => InTree(n) /\ rchild[n] \in Node /\ InTree(rchild[n]) /\ parent[rchild[n]] = n
         /\ parent[n] # NULL => InTree(n) /\ parent[n] \in Node /\ InTree(parent[n])
BY DEF Inv, TypeOK, Linked, InTree, NodeOrNull

(* There is a bounded rank that decreases down the tree, and one that       *)
(* decreases towards the root: none is above that of the root.              *)
LEMMA Ranks ==
  ASSUME Inv, OrderInv
  PROVE  \E down, up : \E high \in Nat :
           Descends(lchild, rchild, down, high) /\ Descends(parent, parent, up, high)
<1>1. PICK rank \in [Node -> Int], top \in Int : Ranked(rank) /\ \A x \in Node : rank[x] <= top
  BY DEF Inv, Grown
<1>2. \A n \in Node : lchild[n] \in NodeOrNull /\ rchild[n] \in NodeOrNull /\ parent[n] \in NodeOrNull
  BY DEF Inv, TypeOK
<1>3. below[root] = {n \in Node : InTree(n)}
  BY DEF OrderInv, OrderedBy, TreeOf, Whole
<1>4. CASE root = NULL
  <2>1. PICK flat : flat = [n \in Node |-> 0]
    OBVIOUS
  <2>2. \A n \in Node : ~InTree(n)
    BY <1>3, <1>4, TreeShape
  <2>3. \A n \in Node : lchild[n] = NULL /\ rchild[n] = NULL /\ parent[n] = NULL
    BY <2>2, Neighbours
  <2>4. 0 \in 0..0 /\ \A n \in Node : flat[n] = 0
    BY <2>1
  <2>5. Descends(lchild, rchild, flat, 0) /\ Descends(parent, parent, flat, 0)
    BY <1>2, <2>3, <2>4 DEF Descends
  <2> QED
    BY <2>5
<1>5. CASE root # NULL
  <2>1. root \in Node /\ \A n \in Node : InTree(n) => rank[root] <= rank[n]
    BY <1>1, <1>3, <1>5, RankBelow, TreeShape DEF NodeOrNull
  <2>2. PICK high : high = top - rank[root]
    OBVIOUS
  <2>3. high \in Nat
    BY <1>1, <2>1, <2>2
  <2>4. PICK down : down = [n \in Node |-> IF InTree(n) THEN top - rank[n] ELSE 0]
    OBVIOUS
  <2>5. PICK up : up = [n \in Node |-> IF InTree(n) THEN rank[n] - rank[root] ELSE 0]
    OBVIOUS
  <2>6. ASSUME NEW n \in Node PROVE down[n] \in 0..high /\ up[n] \in 0..high
    <3>1. rank[n] \in Int /\ rank[n] <= top /\ rank[root] \in Int /\ (InTree(n) => rank[root] <= rank[n])
      BY <1>1, <2>1
    <3> QED
      BY <2>2, <2>3, <2>4, <2>5, <3>1
  <2>7. ASSUME NEW n \in Node, NEW c \in Node, parent[c] = n
        PROVE  down[c] < down[n] /\ up[n] < up[c]
    <3>1. InTree(c) /\ InTree(n)
      BY <2>7, Neighbours
    <3>2. rank[n] < rank[c] /\ rank[n] \in Int /\ rank[c] \in Int /\ rank[root] \in Int
      BY <1>1, <2>1, <2>7 DEF Ranked
    <3> QED
      BY <2>4, <2>5, <3>1, <3>2
  <2>8. Descends(lchild, rchild, down, high)
    BY <1>2, <2>6, <2>7, Neighbours DEF Descends
  <2>9. Descends(parent, parent, up, high)
    BY <1>2, <2>6, <2>7, Neighbours DEF Descends
  <2> QED
    BY <2>3, <2>8, <2>9
<1> QED
  BY <1>4, <1>5

(* So a function of a node and its subtrees, and one of a node and its      *)
(* parent, is defined by its equation.                                      *)
LEMMA TreeRecursion ==
  ASSUME Inv, OrderInv, NEW V, NEW v \in V, NEW G, Into(G, V)
  PROVE  /\ \E f : Recursive(f, V, v, G, lchild, rchild)
         /\ \E f : Recursive(f, V, v, G, parent, parent)
<1>1. PICK down, up : \E high \in Nat : Descends(lchild, rchild, down, high) /\ Descends(parent, parent, up, high)
  BY Ranks
<1>2. PICK high \in Nat : Descends(lchild, rchild, down, high) /\ Descends(parent, parent, up, high)
  BY <1>1
<1>3. \E f : Recursive(f, V, v, G, lchild, rchild)
  BY <1>2, Recursion
<1>4. \E f : Recursive(f, V, v, G, parent, parent)
  BY <1>2, Recursion
<1> QED
  BY <1>3, <1>4

(* What in_order returns for a tree follows from what it returns for the    *)
(* subtrees.                                                                *)
LEMMA InOrderDefined ==
  ASSUME Inv, OrderInv
  PROVE  in_order[NULL] = <<>> /\ \A n \in Node : in_order[n] = in_order[lchild[n]] \o <<n>> \o in_order[rchild[n]]
<1>1. PICK G : G = [t \in Node \X Seq(Node) \X Seq(Node) |-> t[2] \o <<t[1]>> \o t[3]]
  OBVIOUS
<1>2. \A n \in Node : \A a, b \in Seq(Node) : G[<<n, a, b>>] = a \o <<n>> \o b
  BY <1>1
<1>3. Into(G, Seq(Node))
  <2>1. ASSUME NEW n \in Node, NEW a \in Seq(Node), NEW b \in Seq(Node)
        PROVE  a \o <<n>> \o b \in Seq(Node)
    OBVIOUS
  <2> QED
    BY <1>2, <2>1 DEF Into
<1>4. PICK f : Recursive(f, Seq(Node), <<>>, G, lchild, rchild)
  <2>1. <<>> \in Seq(Node)
    OBVIOUS
  <2> QED
    BY <1>3, <2>1, TreeRecursion
<1>5. f = [n \in NodeOrNull |-> IF n = NULL THEN <<>> ELSE f[lchild[n]] \o <<n>> \o f[rchild[n]]]
  <2>1. ASSUME NEW n \in Node
        PROVE  G[<<n, f[lchild[n]], f[rchild[n]]>>] = f[lchild[n]] \o <<n>> \o f[rchild[n]]
    <3>1. f[lchild[n]] \in Seq(Node) /\ f[rchild[n]] \in Seq(Node)
      BY <1>4, TreeShape DEF Recursive
    <3> QED
      BY <1>2, <3>1
  <2> QED
    BY <1>4, <2>1 DEF Recursive, NodeOrNull
<1>6. in_order = CHOOSE e : e = [n \in NodeOrNull |->
        IF n = NULL THEN <<>> ELSE e[lchild[n]] \o <<n>> \o e[rchild[n]]]
  BY DEF in_order
<1>7. in_order = [n \in NodeOrNull |->
        IF n = NULL THEN <<>> ELSE in_order[lchild[n]] \o <<n>> \o in_order[rchild[n]]]
  BY <1>5, <1>6
<1> QED
  BY <1>7 DEF NodeOrNull

(* The same of pre_order.                                                   *)
LEMMA PreOrderDefined ==
  ASSUME Inv, OrderInv
  PROVE  pre_order[NULL] = <<>> /\ \A n \in Node : pre_order[n] = <<n>> \o pre_order[lchild[n]] \o pre_order[rchild[n]]
<1>1. PICK G : G = [t \in Node \X Seq(Node) \X Seq(Node) |-> <<t[1]>> \o t[2] \o t[3]]
  OBVIOUS
<1>2. \A n \in Node : \A a, b \in Seq(Node) : G[<<n, a, b>>] = <<n>> \o a \o b
  BY <1>1
<1>3. Into(G, Seq(Node))
  <2>1. ASSUME NEW n \in Node, NEW a \in Seq(Node), NEW b \in Seq(Node)
        PROVE  <<n>> \o a \o b \in Seq(Node)
    OBVIOUS
  <2> QED
    BY <1>2, <2>1 DEF Into
<1>4. PICK f : Recursive(f, Seq(Node), <<>>, G, lchild, rchild)
  <2>1. <<>> \in Seq(Node)
    OBVIOUS
  <2> QED
    BY <1>3, <2>1, TreeRecursion
<1>5. f = [n \in NodeOrNull |-> IF n = NULL THEN <<>> ELSE <<n>> \o f[lchild[n]] \o f[rchild[n]]]
  <2>1. ASSUME NEW n \in Node
        PROVE  G[<<n, f[lchild[n]], f[rchild[n]]>>] = <<n>> \o f[lchild[n]] \o f[rchild[n]]
    <3>1. f[lchild[n]] \in Seq(Node) /\ f[rchild[n]] \in Seq(Node)
      BY <1>4, TreeShape DEF Recursive
    <3> QED
      BY <1>2, <3>1
  <2> QED
    BY <1>4, <2>1 DEF Recursive, NodeOrNull
<1>6. pre_order = CHOOSE e : e = [n \in NodeOrNull |->
        IF n = NULL THEN <<>> ELSE <<n>> \o e[lchild[n]] \o e[rchild[n]]]
  BY DEF pre_order
<1>7. pre_order = [n \in NodeOrNull |->
        IF n = NULL THEN <<>> ELSE <<n>> \o pre_order[lchild[n]] \o pre_order[rchild[n]]]
  BY <1>5, <1>6
<1> QED
  BY <1>7 DEF NodeOrNull

(* And of post_order.                                                       *)
LEMMA PostOrderDefined ==
  ASSUME Inv, OrderInv
  PROVE  post_order[NULL] = <<>> /\ \A n \in Node : post_order[n] = post_order[lchild[n]] \o post_order[rchild[n]] \o <<n>>
<1>1. PICK G : G = [t \in Node \X Seq(Node) \X Seq(Node) |-> t[2] \o t[3] \o <<t[1]>>]
  OBVIOUS
<1>2. \A n \in Node : \A a, b \in Seq(Node) : G[<<n, a, b>>] = a \o b \o <<n>>
  BY <1>1
<1>3. Into(G, Seq(Node))
  <2>1. ASSUME NEW n \in Node, NEW a \in Seq(Node), NEW b \in Seq(Node)
        PROVE  a \o b \o <<n>> \in Seq(Node)
    OBVIOUS
  <2> QED
    BY <1>2, <2>1 DEF Into
<1>4. PICK f : Recursive(f, Seq(Node), <<>>, G, lchild, rchild)
  <2>1. <<>> \in Seq(Node)
    OBVIOUS
  <2> QED
    BY <1>3, <2>1, TreeRecursion
<1>5. f = [n \in NodeOrNull |-> IF n = NULL THEN <<>> ELSE f[lchild[n]] \o f[rchild[n]] \o <<n>>]
  <2>1. ASSUME NEW n \in Node
        PROVE  G[<<n, f[lchild[n]], f[rchild[n]]>>] = f[lchild[n]] \o f[rchild[n]] \o <<n>>
    <3>1. f[lchild[n]] \in Seq(Node) /\ f[rchild[n]] \in Seq(Node)
      BY <1>4, TreeShape DEF Recursive
    <3> QED
      BY <1>2, <3>1
  <2> QED
    BY <1>4, <2>1 DEF Recursive, NodeOrNull
<1>6. post_order = CHOOSE e : e = [n \in NodeOrNull |->
        IF n = NULL THEN <<>> ELSE e[lchild[n]] \o e[rchild[n]] \o <<n>>]
  BY DEF post_order
<1>7. post_order = [n \in NodeOrNull |->
        IF n = NULL THEN <<>> ELSE post_order[lchild[n]] \o post_order[rchild[n]] \o <<n>>]
  BY <1>5, <1>6
<1> QED
  BY <1>7 DEF NodeOrNull

(* level grows by one from a parent to its child.                           *)
LEMMA LevelDefined ==
  ASSUME Inv, OrderInv
  PROVE  /\ level[NULL] = 0
         /\ \A n \in Node : level[n] = 1 + level[parent[n]]
         /\ \A n \in NodeOrNull : level[n] \in Nat
<1>1. PICK G : G = [t \in Node \X Nat \X Nat |-> 1 + t[2]]
  OBVIOUS
<1>2. \A n \in Node : \A a, b \in Nat : G[<<n, a, b>>] = 1 + a
  BY <1>1
<1>3. Into(G, Nat)
  <2>1. \A a \in Nat : 1 + a \in Nat
    OBVIOUS
  <2> QED
    BY <1>2, <2>1 DEF Into
<1>4. PICK f : Recursive(f, Nat, 0, G, parent, parent)
  BY <1>3, TreeRecursion
<1>5. f = [n \in NodeOrNull |-> IF n = NULL THEN 0 ELSE 1 + f[parent[n]]]
  <2>1. ASSUME NEW n \in Node PROVE G[<<n, f[parent[n]], f[parent[n]]>>] = 1 + f[parent[n]]
    <3>1. f[parent[n]] \in Nat
      BY <1>4 DEF Recursive, Inv, TypeOK
    <3> QED
      BY <1>2, <3>1
  <2> QED
    BY <1>4, <2>1 DEF Recursive, NodeOrNull
<1>6. level = CHOOSE e : e = [n \in NodeOrNull |-> IF n = NULL THEN 0 ELSE 1 + e[parent[n]]]
  BY DEF level
<1>7. level = [n \in NodeOrNull |-> IF n = NULL THEN 0 ELSE 1 + level[parent[n]]]
  BY <1>5, <1>6
<1>8. level[NULL] = 0 /\ \A n \in Node : level[n] = 1 + level[parent[n]]
  BY <1>7 DEF NodeOrNull
<1>9. PICK up : \E high \in Nat : Descends(parent, parent, up, high)
  BY Ranks
<1>10. PICK high \in Nat : Descends(parent, parent, up, high)
  BY <1>9
<1> DEFINE T == {k \in Nat : \E n \in Node : up[n] = k /\ level[n] \notin Nat}
<1>11. CASE T # {}
  <2>1. PICK k \in T : \A j \in T : k <= j
    <3>1. T \in SUBSET Nat
      OBVIOUS
    <3> HIDE DEF T
    <3> QED
      BY <1>11, <3>1, LeastNatural
  <2>2. PICK n \in Node : up[n] = k /\ level[n] \notin Nat
    BY <2>1
  <2>3. ASSUME parent[n] # NULL PROVE level[parent[n]] \in Nat
    <3>1. parent[n] \in Node /\ up[parent[n]] < up[n] /\ up[parent[n]] \in 0..high /\ up[n] \in 0..high
      BY <1>10, <2>3 DEF Descends, NodeOrNull
    <3>2. up[parent[n]] \in Nat /\ ~(k <= up[parent[n]])
      BY <2>2, <3>1
    <3>3. up[parent[n]] \notin T
      BY <2>1, <3>2
    <3> QED
      BY <3>1, <3>2, <3>3
  <2> QED
    BY <1>8, <2>2, <2>3
<1>12. CASE T = {}
  <2>1. ASSUME NEW n \in Node PROVE level[n] \in Nat
    <3>1. up[n] \in 0..high
      BY <1>10 DEF Descends
    <3>2. up[n] \in Nat /\ up[n] \notin T
      BY <1>12, <3>1
    <3> QED
      BY <3>2
  <2> QED
    BY <1>8, <2>1 DEF NodeOrNull
<1> QED
  BY <1>8, <1>11, <1>12

(* What holds of NULL, and of a node when it does of its children, holds    *)
(* of every node.                                                           *)
LEMMA TreeInduction ==
  ASSUME Inv, NEW S, NULL \in S,
         \A n \in Node : lchild[n] \in S /\ rchild[n] \in S => n \in S
  PROVE  \A n \in NodeOrNull : n \in S
<1>1. ASSUME Node \ S # {} PROVE FALSE
  <2>1. PICK n \in Node \ S : \A c \in Node \ S : parent[c] # n
    BY <1>1, Deepest
  <2>2. ASSUME NEW c \in {lchild[n], rchild[n]} PROVE c \in S
    <3>1. CASE c = NULL
      BY <3>1
    <3>2. CASE c # NULL
      <4>1. c \in Node /\ parent[c] = n
        BY <2>2, <3>2, Neighbours
      <4> QED
        BY <2>1, <4>1
    <3> QED
      BY <3>1, <3>2
  <2> QED
    BY <2>1, <2>2
<1> QED
  BY <1>1 DEF NodeOrNull

(* Two sequences in order, one before the other, make one in order.         *)
LEMMA Joined ==
  ASSUME NEW a \in Seq(Node), NEW b \in Seq(Node), NEW order,
         Ordered(a, order), Ordered(b, order),
         \A x \in ToSet(a), y \in ToSet(b) : <<x, y>> \in order
  PROVE  /\ a \o b \in Seq(Node)
         /\ ToSet(a \o b) = ToSet(a) \union ToSet(b)
         /\ Ordered(a \o b, order)
<1> PICK s : s = a \o b
  OBVIOUS
<1>1. /\ s \in Seq(Node) /\ DOMAIN s = 1..(Len(a) + Len(b))
      /\ DOMAIN a = 1..Len(a) /\ DOMAIN b = 1..Len(b) /\ Len(a) \in Nat /\ Len(b) \in Nat
  OBVIOUS
<1>2. \A i \in DOMAIN a : i \in DOMAIN s /\ s[i] = a[i]
  BY <1>1
<1>3. \A i \in DOMAIN b : i + Len(a) \in DOMAIN s /\ s[i + Len(a)] = b[i]
  BY <1>1
<1>4. ASSUME NEW i \in DOMAIN s
      PROVE  \/ i \in DOMAIN a /\ s[i] = a[i]
             \/ i > Len(a) /\ i - Len(a) \in DOMAIN b /\ s[i] = b[i - Len(a)]
  BY <1>1
<1>5. ToSet(s) = ToSet(a) \union ToSet(b)
  <2>1. ToSet(s) \subseteq ToSet(a) \union ToSet(b)
    BY <1>4 DEF ToSet
  <2>2. ToSet(a) \subseteq ToSet(s)
    BY <1>2 DEF ToSet
  <2>3. ToSet(b) \subseteq ToSet(s)
    BY <1>3 DEF ToSet
  <2> QED
    BY <2>1, <2>2, <2>3
<1>6. ASSUME NEW i \in DOMAIN s, NEW j \in DOMAIN s, i < j PROVE <<s[i], s[j]>> \in order
  <2>1. i \in Nat /\ j \in Nat
    BY <1>1
  <2>2. CASE j \in DOMAIN a /\ s[j] = a[j]
    <3>1. i \in DOMAIN a /\ s[i] = a[i]
      BY <1>1, <1>2, <1>6, <2>1, <2>2
    <3> QED
      BY <1>6, <2>2, <3>1 DEF Ordered
  <2>3. CASE j > Len(a) /\ j - Len(a) \in DOMAIN b /\ s[j] = b[j - Len(a)]
    <3>1. CASE i \in DOMAIN a /\ s[i] = a[i]
      BY <2>3, <3>1 DEF ToSet
    <3>2. CASE i > Len(a) /\ i - Len(a) \in DOMAIN b /\ s[i] = b[i - Len(a)]
      <4>1. i - Len(a) < j - Len(a)
        BY <1>1, <1>6, <2>1
      <4> QED
        BY <2>3, <3>2, <4>1 DEF Ordered
    <3> QED
      BY <1>4, <3>1, <3>2
  <2> QED
    BY <1>4, <2>2, <2>3
<1>7. Ordered(s, order)
  BY <1>6 DEF Ordered
<1> QED
  BY <1>1, <1>5, <1>7

(* One node is a sequence in order, and none are.                           *)
LEMMA Single ==
  ASSUME NEW n \in Node, NEW order
  PROVE  /\ <<n>> \in Seq(Node) /\ ToSet(<<n>>) = {n} /\ Ordered(<<n>>, order)
         /\ <<>> \in Seq(Node) /\ ToSet(<<>>) = {} /\ Ordered(<<>>, order)
BY DEF ToSet, Ordered

\* s gives the nodes at and below n in order.
Listing(s, n, order) == s \in Seq(Node) /\ ToSet(s) = below[n] /\ Ordered(s, order)

(* The empty sequence gives those of no tree.                               *)
LEMMA NoneListed ==
  ASSUME Inv, OrderInv, NEW order
  PROVE  Listing(<<>>, NULL, order)
BY TreeShape DEF Listing, ToSet, Ordered

(* in_order gives the nodes at and below each node, from the left to the    *)
(* right.                                                                   *)
LEMMA InOrderLists ==
  ASSUME Inv, OrderInv
  PROVE  \A n \in NodeOrNull : Listing(in_order[n], n, Before)
<1> DEFINE S == {n \in NodeOrNull : Listing(in_order[n], n, Before)}
<1>1. NULL \in S
  BY InOrderDefined, NoneListed DEF NodeOrNull
<1>2. ASSUME NEW n \in Node, lchild[n] \in S, rchild[n] \in S PROVE n \in S
  <2>1. PICK l, r : l = in_order[lchild[n]] /\ r = in_order[rchild[n]]
    OBVIOUS
  <2>2. /\ l \in Seq(Node) /\ ToSet(l) = below[lchild[n]] /\ Ordered(l, Before)
        /\ r \in Seq(Node) /\ ToSet(r) = below[rchild[n]] /\ Ordered(r, Before)
    BY <1>2, <2>1 DEF Listing
  <2>3. <<n>> \in Seq(Node) /\ ToSet(<<n>>) = {n} /\ Ordered(<<n>>, Before)
    BY Single
  <2>4. PICK m : m = l \o <<n>>
    OBVIOUS
  <2>5. m \in Seq(Node) /\ ToSet(m) = below[lchild[n]] \union {n} /\ Ordered(m, Before)
    BY <2>2, <2>3, <2>4, LeftToRight, Joined
  <2>6. Listing(m \o r, n, Before)
    <3>1. \A x \in ToSet(m), y \in ToSet(r) : <<x, y>> \in Before
      BY <2>2, <2>5, LeftToRight
    <3>2. below[n] = (below[lchild[n]] \union {n}) \union below[rchild[n]]
      BY TreeShape
    <3>3. m \o r \in Seq(Node) /\ ToSet(m \o r) = ToSet(m) \union ToSet(r) /\ Ordered(m \o r, Before)
      BY <2>2, <2>5, <3>1, Joined
    <3> QED
      BY <2>2, <2>5, <3>2, <3>3 DEF Listing
  <2>7. in_order[n] = m \o r
    BY <2>1, <2>4, InOrderDefined
  <2> QED
    BY <2>6, <2>7 DEF NodeOrNull
<1> HIDE DEF S
<1>3. \A n \in NodeOrNull : n \in S
  BY <1>1, <1>2, TreeInduction
<1> QED
  BY <1>3 DEF S

(* pre_order gives them with every node before its subtrees.                *)
LEMMA PreOrderLists ==
  ASSUME Inv, OrderInv
  PROVE  \A n \in NodeOrNull : Listing(pre_order[n], n, PreBefore)
<1> DEFINE S == {n \in NodeOrNull : Listing(pre_order[n], n, PreBefore)}
<1>1. NULL \in S
  BY PreOrderDefined, NoneListed DEF NodeOrNull
<1>2. ASSUME NEW n \in Node, lchild[n] \in S, rchild[n] \in S PROVE n \in S
  <2>1. PICK l, r : l = pre_order[lchild[n]] /\ r = pre_order[rchild[n]]
    OBVIOUS
  <2>2. /\ l \in Seq(Node) /\ ToSet(l) = below[lchild[n]] /\ Ordered(l, PreBefore)
        /\ r \in Seq(Node) /\ ToSet(r) = below[rchild[n]] /\ Ordered(r, PreBefore)
    BY <1>2, <2>1 DEF Listing
  <2>3. <<n>> \in Seq(Node) /\ ToSet(<<n>>) = {n} /\ Ordered(<<n>>, PreBefore)
    BY Single
  <2>4. PICK m : m = <<n>> \o l
    OBVIOUS
  <2>5. \A y \in below[lchild[n]] \union below[rchild[n]] : <<n, y>> \in PreBefore
    <3>1. \A y \in below[lchild[n]] \union below[rchild[n]] : y \in below[n] /\ y # n
      BY TreeShape
    <3> QED
      BY <3>1, PreOrdered
  <2>6. m \in Seq(Node) /\ ToSet(m) = {n} \union below[lchild[n]] /\ Ordered(m, PreBefore)
    BY <2>2, <2>3, <2>4, <2>5, Joined
  <2>7. Listing(m \o r, n, PreBefore)
    <3>1. \A x \in ToSet(m), y \in ToSet(r) : <<x, y>> \in PreBefore
      BY <2>2, <2>5, <2>6, PreOrdered
    <3>2. below[n] = ({n} \union below[lchild[n]]) \union below[rchild[n]]
      BY TreeShape
    <3>3. m \o r \in Seq(Node) /\ ToSet(m \o r) = ToSet(m) \union ToSet(r) /\ Ordered(m \o r, PreBefore)
      BY <2>2, <2>6, <3>1, Joined
    <3> QED
      BY <2>2, <2>6, <3>2, <3>3 DEF Listing
  <2>8. pre_order[n] = m \o r
    BY <2>1, <2>4, PreOrderDefined
  <2> QED
    BY <2>7, <2>8 DEF NodeOrNull
<1> HIDE DEF S
<1>3. \A n \in NodeOrNull : n \in S
  BY <1>1, <1>2, TreeInduction
<1> QED
  BY <1>3 DEF S

(* post_order gives them with every node after its subtrees.                *)
LEMMA PostOrderLists ==
  ASSUME Inv, OrderInv
  PROVE  \A n \in NodeOrNull : Listing(post_order[n], n, PostBefore)
<1> DEFINE S == {n \in NodeOrNull : Listing(post_order[n], n, PostBefore)}
<1>1. NULL \in S
  BY PostOrderDefined, NoneListed DEF NodeOrNull
<1>2. ASSUME NEW n \in Node, lchild[n] \in S, rchild[n] \in S PROVE n \in S
  <2>1. PICK l, r : l = post_order[lchild[n]] /\ r = post_order[rchild[n]]
    OBVIOUS
  <2>2. /\ l \in Seq(Node) /\ ToSet(l) = below[lchild[n]] /\ Ordered(l, PostBefore)
        /\ r \in Seq(Node) /\ ToSet(r) = below[rchild[n]] /\ Ordered(r, PostBefore)
    BY <1>2, <2>1 DEF Listing
  <2>3. <<n>> \in Seq(Node) /\ ToSet(<<n>>) = {n} /\ Ordered(<<n>>, PostBefore)
    BY Single
  <2>4. PICK m : m = l \o r
    OBVIOUS
  <2>5. m \in Seq(Node) /\ ToSet(m) = below[lchild[n]] \union below[rchild[n]] /\ Ordered(m, PostBefore)
    BY <2>2, <2>3, <2>4, TreeShape, PostOrdered, Joined
  <2>6. Listing(m \o <<n>>, n, PostBefore)
    <3>1. \A x \in ToSet(m), y \in ToSet(<<n>>) : <<x, y>> \in PostBefore
      BY <2>3, <2>5, TreeShape, PostOrdered
    <3>2. below[n] = (below[lchild[n]] \union below[rchild[n]]) \union {n}
      BY TreeShape
    <3>3. m \o <<n>> \in Seq(Node) /\ ToSet(m \o <<n>>) = ToSet(m) \union ToSet(<<n>>) /\ Ordered(m \o <<n>>, PostBefore)
      BY <2>3, <2>5, <3>1, Joined
    <3> QED
      BY <2>3, <2>5, <3>2, <3>3 DEF Listing
  <2>7. post_order[n] = m \o <<n>>
    BY <2>1, <2>4, PostOrderDefined
  <2> QED
    BY <2>6, <2>7 DEF NodeOrNull
<1> HIDE DEF S
<1>3. \A n \in NodeOrNull : n \in S
  BY <1>1, <1>2, TreeInduction
<1> QED
  BY <1>3 DEF S

\* Below n levels grow, and a rank does not decrease more than they grow.
Deepens(n, down) ==
  \A m \in below[n] : /\ level[n] <= level[m] /\ (m # n => level[n] < level[m])
                      /\ level[m] + down[m] <= level[n] + down[n]

(* Levels grow down the tree, and only so far.                              *)
LEMMA LevelsBelow ==
  ASSUME Inv, OrderInv
  PROVE  /\ \A n \in Node : \A m \in below[n] : level[n] <= level[m] /\ (m # n => level[n] < level[m])
         /\ \E high \in Nat : \A n \in Node : \A m \in below[n] : level[m] - level[n] <= high
<1>1. PICK down : \E high \in Nat : Descends(lchild, rchild, down, high)
  BY Ranks
<1>2. PICK high \in Nat : Descends(lchild, rchild, down, high)
  BY <1>1
<1>3. \A n \in Node : level[n] \in Nat /\ down[n] \in Nat /\ down[n] <= high
  <2>1. ASSUME NEW n \in Node PROVE level[n] \in Nat /\ down[n] \in Nat /\ down[n] <= high
    <3>1. down[n] \in 0..high
      BY <1>2 DEF Descends
    <3>2. level[n] \in Nat
      BY LevelDefined DEF NodeOrNull
    <3> QED
      BY <3>1, <3>2
  <2> QED
    BY <2>1
<1> DEFINE S == {n \in NodeOrNull : Deepens(n, down)}
<1>4. NULL \in S
  BY TreeShape DEF NodeOrNull, Deepens
<1>5. ASSUME NEW n \in Node, lchild[n] \in S, rchild[n] \in S PROVE n \in S
  <2>1. Deepens(lchild[n], down) /\ Deepens(rchild[n], down)
    BY <1>5
  <2>2. ASSUME NEW m \in below[n]
        PROVE  /\ level[n] <= level[m] /\ (m # n => level[n] < level[m])
               /\ level[m] + down[m] <= level[n] + down[n]
    <3>1. CASE m = n
      BY <1>3, <3>1
    <3>2. CASE m # n
      <4>1. PICK c \in {lchild[n], rchild[n]} : m \in below[c]
        BY <2>2, <3>2, TreeShape
      <4>2. c \in Node /\ parent[c] = n /\ m \in Node
        BY <4>1, Neighbours, TreeShape
      <4>3. down[c] < down[n] /\ level[c] = 1 + level[n]
        BY <1>2, <4>1, <4>2, LevelDefined DEF Descends
      <4>4. /\ level[c] <= level[m]
            /\ level[m] + down[m] <= level[c] + down[c]
        BY <2>1, <4>1, <4>2 DEF Deepens
      <4>5. /\ level[n] \in Nat /\ level[c] \in Nat /\ level[m] \in Nat
            /\ down[n] \in Nat /\ down[c] \in Nat /\ down[m] \in Nat
        BY <1>3, <4>2
      <4> QED
        BY <4>3, <4>4, <4>5
    <3> QED
      BY <3>1, <3>2
  <2>3. Deepens(n, down) /\ n \in NodeOrNull
    BY <2>2 DEF Deepens, NodeOrNull
  <2> QED
    BY <2>3
<1> HIDE DEF S
<1>6. \A n \in NodeOrNull : n \in S
  BY <1>4, <1>5, TreeInduction
<1>7. \A n \in Node : Deepens(n, down)
  BY <1>6 DEF S, NodeOrNull
<1>8. ASSUME NEW n \in Node, NEW m \in below[n] PROVE level[m] - level[n] <= high
  <2>1. level[m] + down[m] <= level[n] + down[n] /\ m \in Node
    BY <1>7, TreeShape DEF Deepens
  <2> QED
    BY <1>3, <2>1
<1> QED
  BY <1>7, <1>8 DEF Deepens

(* A bounded set of integers has a greatest.                                *)
LEMMA Greatest ==
  ASSUME NEW S \in SUBSET Int, NEW s \in S, NEW high \in Int, \A x \in S : x <= high
  PROVE  Max(S) \in S /\ \A x \in S : x <= Max(S)
<1> DEFINE T == {high - x : x \in S}
<1>1. T \in SUBSET Nat /\ T # {}
  OBVIOUS
<1>2. PICK k \in T : \A j \in T : k <= j
  <2> HIDE DEF T
  <2> QED
    BY <1>1, LeastNatural
<1>3. PICK m \in S : k = high - m
  BY <1>2
<1>4. \A x \in S : m >= x
  BY <1>2, <1>3
<1>5. Max(S) \in S /\ \A x \in S : Max(S) >= x
  BY <1>4 DEF Max
<1>6. ASSUME NEW x \in S PROVE x <= Max(S)
  <2>1. Max(S) \in Int /\ x \in Int /\ Max(S) >= x
    BY <1>5
  <2> QED
    BY <2>1
<1> QED
  BY <1>5, <1>6

(* The height of a tree is one more than that of the higher subtree.        *)
LEMMA HeightGrows ==
  ASSUME Inv, OrderInv
  PROVE  /\ Height(NULL) = 0
         /\ \A n \in NodeOrNull : Height(n) \in Nat
         /\ \A n \in Node : Height(n) = 1 + IF Height(lchild[n]) >= Height(rchild[n])
                                           THEN Height(lchild[n]) ELSE Height(rchild[n])
<1> DEFINE Down(n) == {0} \union {level[m] - level[n] + 1 : m \in below[n]}
<1>1. \A n \in NodeOrNull : level[n] \in Nat /\ below[n] \subseteq Node
  BY LevelDefined, TreeShape DEF NodeOrNull
<1>2. PICK high \in Nat : \A n \in Node : \A m \in below[n] : level[m] - level[n] <= high
  BY LevelsBelow
<1>3. ASSUME NEW n \in NodeOrNull
      PROVE  /\ Height(n) \in Down(n)
             /\ Height(n) \in Nat
             /\ \A m \in below[n] : level[m] - level[n] + 1 <= Height(n)
  <2>1. \A m \in below[n] : level[m] \in Nat /\ n \in Node /\ level[n] <= level[m]
    BY <1>1, LevelsBelow, TreeShape DEF NodeOrNull
  <2>2. Down(n) \in SUBSET Nat /\ 0 \in Down(n)
    BY <1>1, <2>1
  <2>3. \A x \in Down(n) : x <= high + 1
    <3>1. ASSUME NEW m \in below[n] PROVE level[m] - level[n] + 1 <= high + 1
      BY <1>1, <1>2, <2>1
    <3> QED
      BY <3>1
  <2>4. Height(n) = Max(Down(n))
    BY DEF Height
  <2>5. \A m \in below[n] : level[m] - level[n] + 1 \in Down(n)
    OBVIOUS
  <2> HIDE DEF Down
  <2>6. Max(Down(n)) \in Down(n) /\ \A x \in Down(n) : x <= Max(Down(n))
    BY <2>2, <2>3, Greatest
  <2> QED
    BY <2>2, <2>4, <2>5, <2>6
<1>4. Height(NULL) = 0
  BY <1>3, TreeShape DEF NodeOrNull
<1>5. ASSUME NEW n \in Node
      PROVE  Height(n) = 1 + IF Height(lchild[n]) >= Height(rchild[n])
                             THEN Height(lchild[n]) ELSE Height(rchild[n])
  <2>1. lchild[n] \in NodeOrNull /\ rchild[n] \in NodeOrNull /\ n \in NodeOrNull
    BY TreeShape DEF NodeOrNull
  <2>2. level[n] \in Nat /\ Height(n) \in Nat /\ Height(lchild[n]) \in Nat /\ Height(rchild[n]) \in Nat
    BY <1>1, <1>3, <2>1
  <2>3. 1 <= Height(n)
    <3>1. n \in below[n]
      BY TreeShape
    <3>2. level[n] - level[n] + 1 <= Height(n)
      BY <1>3, <2>1, <3>1
    <3> QED
      BY <2>2, <3>2
  <2>4. ASSUME NEW c \in {lchild[n], rchild[n]} PROVE Height(c) + 1 <= Height(n)
    <3>1. CASE Height(c) = 0
      BY <2>3, <3>1
    <3>2. CASE Height(c) # 0
      <4>1. PICK m \in below[c] : Height(c) = level[m] - level[c] + 1
        BY <1>3, <2>1, <3>2
      <4>2. c \in Node /\ level[c] = 1 + level[n] /\ m \in below[n]
        <5>1. c # NULL
          BY <4>1, TreeShape
        <5> QED
          BY <4>1, <5>1, Neighbours, LevelDefined, TreeShape
      <4>3. level[m] - level[n] + 1 <= Height(n)
        BY <1>3, <2>1, <4>2
      <4>4. level[m] \in Nat /\ level[c] \in Nat
        BY <1>1, <4>1, <4>2, TreeShape DEF NodeOrNull
      <4> QED
        BY <2>2, <4>1, <4>2, <4>3, <4>4
    <3> QED
      BY <3>1, <3>2
  <2>5. Height(n) = 1 \/ Height(n) <= Height(lchild[n]) + 1 \/ Height(n) <= Height(rchild[n]) + 1
    <3>1. PICK m \in below[n] : Height(n) = level[m] - level[n] + 1
      BY <1>3, <2>1, <2>2, <2>3
    <3>2. CASE m = n
      BY <2>2, <3>1, <3>2
    <3>3. CASE m # n
      <4>1. PICK c \in {lchild[n], rchild[n]} : m \in below[c]
        BY <3>1, <3>3, TreeShape
      <4>2. c \in Node /\ level[c] = 1 + level[n]
        <5>1. c # NULL
          BY <4>1, TreeShape
        <5> QED
          BY <4>1, <5>1, Neighbours, LevelDefined
      <4>3. level[m] - level[c] + 1 <= Height(c)
        BY <1>3, <2>1, <4>1
      <4>4. level[m] \in Nat /\ level[c] \in Nat /\ Height(c) \in Nat
        BY <1>1, <1>3, <2>1, <3>1, <4>2, TreeShape DEF NodeOrNull
      <4>5. Height(n) <= Height(c) + 1
        BY <2>2, <3>1, <4>2, <4>3, <4>4
      <4> QED
        BY <4>1, <4>5
    <3> QED
      BY <3>2, <3>3
  <2>6. Height(lchild[n]) + 1 <= Height(n) /\ Height(rchild[n]) + 1 <= Height(n)
    BY <2>4
  <2> QED
    BY <2>2, <2>5, <2>6
<1> QED
  BY <1>3, <1>4, <1>5

Verdict == [ok : BOOLEAN, depth : Nat]

\* The body of __balance, of what it returned for the subtrees.
Weigh(l, r) == IF l.ok /\ r.ok /\ l.depth - r.depth \in -1..1
               THEN [ok |-> TRUE, depth |-> IF l.depth >= r.depth THEN l.depth + 1 ELSE r.depth + 1]
               ELSE [ok |-> FALSE, depth |-> 0]

(* What __balance returns for a tree follows from what it returns for the   *)
(* subtrees.                                                                *)
LEMMA BalanceDefined ==
  ASSUME Inv, OrderInv
  PROVE  /\ balance[NULL] = [ok |-> TRUE, depth |-> 0]
         /\ \A n \in Node : balance[n] = Weigh(balance[lchild[n]], balance[rchild[n]])
<1>1. PICK G : G = [t \in Node \X Verdict \X Verdict |-> Weigh(t[2], t[3])]
  OBVIOUS
<1>2. \A n \in Node : \A a, b \in Verdict : G[<<n, a, b>>] = Weigh(a, b)
  BY <1>1
<1>3. Into(G, Verdict)
  <2>1. \A a, b \in Verdict : Weigh(a, b) \in Verdict
    BY DEF Weigh, Verdict
  <2> QED
    BY <1>2, <2>1 DEF Into
<1>4. PICK f : Recursive(f, Verdict, [ok |-> TRUE, depth |-> 0], G, lchild, rchild)
  <2>1. [ok |-> TRUE, depth |-> 0] \in Verdict
    BY DEF Verdict
  <2> QED
    BY <1>3, <2>1, TreeRecursion
<1>5. f = [n \in NodeOrNull |-> IF n = NULL THEN [ok |-> TRUE, depth |-> 0]
                                ELSE Weigh(f[lchild[n]], f[rchild[n]])]
  <2>1. ASSUME NEW n \in Node
        PROVE  G[<<n, f[lchild[n]], f[rchild[n]]>>] = Weigh(f[lchild[n]], f[rchild[n]])
    <3>1. f[lchild[n]] \in Verdict /\ f[rchild[n]] \in Verdict
      BY <1>4, TreeShape DEF Recursive
    <3> QED
      BY <1>2, <3>1
  <2> QED
    BY <1>4, <2>1 DEF Recursive, NodeOrNull
<1>6. balance = CHOOSE e : e = [n \in NodeOrNull |-> IF n = NULL THEN [ok |-> TRUE, depth |-> 0]
                                                    ELSE Weigh(e[lchild[n]], e[rchild[n]])]
  BY DEF balance, Weigh
<1>7. balance = [n \in NodeOrNull |-> IF n = NULL THEN [ok |-> TRUE, depth |-> 0]
                                      ELSE Weigh(balance[lchild[n]], balance[rchild[n]])]
  BY <1>5, <1>6
<1> QED
  BY <1>7 DEF NodeOrNull

(* __balance returns the height of a balanced tree, and a tree is balanced  *)
(* if at every node the heights of the subtrees differ by one at most.      *)
LEMMA BalanceMeasures ==
  ASSUME Inv, OrderInv
  PROVE  \A n \in NodeOrNull :
           /\ balance[n] \in Verdict
           /\ balance[n].ok => balance[n].depth = Height(n)
           /\ balance[n].ok <=> \A m \in below[n] : Height(lchild[m]) - Height(rchild[m]) \in -1..1
<1> DEFINE Even(m) == Height(lchild[m]) - Height(rchild[m]) \in -1..1
           True(n) == /\ balance[n] \in Verdict
                      /\ balance[n].ok => balance[n].depth = Height(n)
                      /\ balance[n].ok <=> \A m \in below[n] : Even(m)
           S == {n \in NodeOrNull : True(n)}
<1>1. NULL \in S
  <2>1. balance[NULL] = [ok |-> TRUE, depth |-> 0] /\ Height(NULL) = 0 /\ below[NULL] = {}
    BY BalanceDefined, HeightGrows, TreeShape
  <2>2. balance[NULL] \in Verdict /\ balance[NULL].ok /\ balance[NULL].depth = 0
    BY <2>1 DEF Verdict
  <2>3. True(NULL) /\ NULL \in NodeOrNull
    BY <2>1, <2>2 DEF NodeOrNull
  <2> HIDE DEF True
  <2> QED
    BY <2>3
<1>2. ASSUME NEW n \in Node, lchild[n] \in S, rchild[n] \in S PROVE n \in S
  <2>1. PICK l, r : l = balance[lchild[n]] /\ r = balance[rchild[n]]
    OBVIOUS
  <2>2. /\ l \in Verdict /\ (l.ok => l.depth = Height(lchild[n]))
        /\ r \in Verdict /\ (r.ok => r.depth = Height(rchild[n]))
    BY <1>2, <2>1
  <2>3. /\ l.ok <=> \A m \in below[lchild[n]] : Even(m)
        /\ r.ok <=> \A m \in below[rchild[n]] : Even(m)
    BY <1>2, <2>1
  <2>4. balance[n] = Weigh(l, r)
    BY <2>1, BalanceDefined
  <2>5. below[n] = {n} \union below[lchild[n]] \union below[rchild[n]]
    BY TreeShape
  <2>6. (\A m \in below[n] : Even(m)) <=> l.ok /\ r.ok /\ Even(n)
    <3> HIDE DEF Even
    <3> QED
      BY <2>3, <2>5
  <2>7. l.ok /\ r.ok => (Even(n) <=> l.depth - r.depth \in -1..1)
    BY <2>2
  <2>8. balance[n] \in Verdict /\ (balance[n].ok <=> l.ok /\ r.ok /\ l.depth - r.depth \in -1..1)
    BY <2>2, <2>4 DEF Weigh, Verdict
  <2>9. balance[n].ok => balance[n].depth = Height(n)
    <3>1. ASSUME balance[n].ok PROVE balance[n].depth = Height(n)
      <4>1. l.ok /\ r.ok /\ l.depth - r.depth \in -1..1
        BY <2>8, <3>1
      <4>2. balance[n].depth = IF l.depth >= r.depth THEN l.depth + 1 ELSE r.depth + 1
        BY <2>4, <4>1 DEF Weigh
      <4>3. l.depth = Height(lchild[n]) /\ r.depth = Height(rchild[n]) /\ l.depth \in Nat /\ r.depth \in Nat
        BY <2>2, <4>1 DEF Verdict
      <4>4. Height(n) = 1 + IF l.depth >= r.depth THEN l.depth ELSE r.depth
        BY <4>3, HeightGrows
      <4> QED
        BY <4>2, <4>3, <4>4
    <3> QED
      BY <3>1
  <2>10. True(n)
    <3> HIDE DEF Even
    <3> QED
      BY <2>6, <2>7, <2>8, <2>9
  <2>11. n \in NodeOrNull
    BY DEF NodeOrNull
  <2> HIDE DEF True
  <2> QED
    BY <2>10, <2>11
<1> HIDE DEF S
<1>3. \A n \in NodeOrNull : n \in S
  BY <1>1, <1>2, TreeInduction
<1> QED
  BY <1>3 DEF S

(* The functions that call themselves do what they should in every tree.    *)
LEMMA RecursionHolds == Inv /\ OrderInv => RecursionAgrees
<1> SUFFICES ASSUME Inv, OrderInv PROVE RecursionAgrees
  OBVIOUS
<1>1. root \in NodeOrNull
  BY TreeShape
<1>2. /\ Lists(in_order[root], Before)
      /\ Lists(pre_order[root], PreBefore)
      /\ Lists(post_order[root], PostBefore)
  BY <1>1, InOrderLists, PreOrderLists, PostOrderLists DEF Listing, Lists
<1>3. balance[root].ok <=> \A n \in below[root] : Height(lchild[n]) - Height(rchild[n]) \in -1..1
  BY <1>1, BalanceMeasures
<1> QED
  BY <1>2, <1>3 DEF RecursionAgrees

(* At any time, whatever was called before, the functions that call         *)
(* themselves return what they should.                                      *)
THEOREM RecursionAgreement == Spec => []RecursionAgrees
BY RecursionHolds, Invariance, OrderInvariance, PTL

-----------------------------------------------------------------------------
(* The loops between two iterations. *)

\* What a loop still has to give to todo, from its cursor c and its stack s, or
\* its queue q: the nodes at and below the cursor, and with each node of the
\* stack its right subtree and, but for pre_order_norec, the node itself.
PreTodo(c, s) == below[c] \union UNION {below[rchild[s[i]]] : i \in DOMAIN s}

InTodo(c, s) == below[c] \union UNION {{s[i]} \union below[rchild[s[i]]] : i \in DOMAIN s}

\* In post-order a right subtree is done when the loop comes from there: from d
\* to the top, from the node above it on the stack to another.
From(d, s, i) == IF i > 1 THEN s[i - 1] ELSE d

PostRest(d, s) == UNION {{s[i]} \union (IF From(d, s, i) = rchild[s[i]] THEN {} ELSE below[rchild[s[i]]])
                           : i \in DOMAIN s}

PostTodo(c, s, t) == below[c] \union PostRest(IF c # NULL THEN c ELSE t, s)

LevelTodo(q) == UNION {below[q[i]] : i \in DOMAIN q}

\* The nodes of o are given and those of T are not, and the former come first.
Handed(o, T, order) ==
  /\ o \in Seq(Node)
  /\ ToSet(o) \union T = below[root] /\ ToSet(o) \intersect T = {}
  /\ Ordered(o, order)
  /\ \A a \in ToSet(o), b \in T : <<a, b>> \in order

\* Cursor and stack go down to the left: a node of the stack is in the left
\* subtree of those under it, and so is the cursor.
LeftPath(c, s) ==
  /\ c \in NodeOrNull /\ s \in Seq(Node)
  /\ \A i, j \in DOMAIN s : i < j => s[i] \in below[lchild[s[j]]]
  /\ c # NULL => \A j \in DOMAIN s : c \in below[lchild[s[j]]]

\* Or along children of either side.
Path(c, s) ==
  /\ c \in NodeOrNull /\ s \in Seq(Node)
  /\ \A i, j \in DOMAIN s : i <= j => s[i] \in below[s[j]]
  /\ \A j \in DOMAIN s : j > 1 => s[j - 1] \in {lchild[s[j]], rchild[s[j]]}
  /\ c # NULL /\ s # <<>> => c \in {lchild[s[1]], rchild[s[1]]}

\* The queue is in order, and its nodes are children of nodes given.
Waiting(q, o) ==
  /\ q \in Seq(Node)
  /\ Ordered(q, LevelBefore)
  /\ o # <<>> => \A i \in DOMAIN q : parent[q[i]] \in ToSet(o)
  /\ o = <<>> => q = <<root>>

PreAt(c, s, o)     == LeftPath(c, s) /\ Handed(o, PreTodo(c, s), PreBefore)
InAt(c, s, o)      == LeftPath(c, s) /\ Handed(o, InTodo(c, s), Before)
PostAt(c, s, t, o) == Path(c, s) /\ t \in ToSet(o) \union {NULL} /\ Handed(o, PostTodo(c, s, t), PostBefore)
LevelAt(q, o)      == Waiting(q, o) /\ Handed(o, LevelTodo(q), LevelBefore)

\* What is elsewhere comes after what is at and below the cursor, or before.
MinAt(c) == c \in below[root] /\ \A x \in below[c], y \in below[root] \ below[c] : <<x, y>> \in Before
MaxAt(c) == c \in below[root] /\ \A x \in below[c], y \in below[root] \ below[c] : <<y, x>> \in Before

\* The invariant of the loops, of which WalksAgree is a consequence.
WalkInv ==
  /\ walk \in {"none", "pre", "in", "post", "level", "min", "max"}
  /\ walk = "none" => Resting
  /\ walk = "pre" => PreAt(at, stack, out)
  /\ walk = "in" => InAt(at, stack, out)
  /\ walk = "post" => PostAt(at, stack, tmp, out)
  /\ walk = "level" => LevelAt(queue, out)
  /\ walk = "min" => MinAt(at)
  /\ walk = "max" => MaxAt(at)

(* A node pushed on a stack becomes its first element.                      *)
LEMMA Pushed ==
  ASSUME NEW x \in Node, NEW s \in Seq(Node)
  PROVE  /\ <<x>> \o s \in Seq(Node) /\ <<x>> \o s # <<>>
         /\ 1 \in DOMAIN (<<x>> \o s) /\ (<<x>> \o s)[1] = x
         /\ \A i \in DOMAIN s : i \in Nat /\ i > 0 /\ i + 1 \in DOMAIN (<<x>> \o s) /\ (<<x>> \o s)[i + 1] = s[i]
         /\ \A i \in DOMAIN (<<x>> \o s) :
              i = 1 \/ (i - 1 \in DOMAIN s /\ i \in Nat /\ i > 1 /\ (<<x>> \o s)[i] = s[i - 1])
OBVIOUS

(* And what is popped is the first, with the rest left.                     *)
LEMMA Popped ==
  ASSUME NEW s \in Seq(Node), s # <<>>
  PROVE  Head(s) \in Node /\ Tail(s) \in Seq(Node) /\ s = <<Head(s)>> \o Tail(s)
OBVIOUS

(* The next node is given: all that is left comes after it.                 *)
LEMMA Given ==
  ASSUME Inv, OrderInv, NEW order, Strict(order),
         NEW o, NEW x \in Node, NEW U, Handed(o, {x} \union U, order), \A y \in U : <<x, y>> \in order
  PROVE  Handed(Append(o, x), U, order) /\ ToSet(Append(o, x)) = ToSet(o) \union {x}
<1>1. /\ o \in Seq(Node) /\ Ordered(o, order)
      /\ ToSet(o) \union ({x} \union U) = below[root] /\ ToSet(o) \intersect ({x} \union U) = {}
      /\ \A a \in ToSet(o), b \in {x} \union U : <<a, b>> \in order
  BY DEF Handed
<1>2. Append(o, x) = o \o <<x>>
  BY <1>1
<1>3. <<x>> \in Seq(Node) /\ ToSet(<<x>>) = {x} /\ Ordered(<<x>>, order)
  BY Single
<1>4. /\ o \o <<x>> \in Seq(Node)
      /\ ToSet(o \o <<x>>) = ToSet(o) \union {x}
      /\ Ordered(o \o <<x>>, order)
  BY <1>1, <1>3, Joined
<1>5. x \notin U
  BY DEF Strict
<1>6. \A a \in ToSet(o) \union {x}, b \in U : <<a, b>> \in order
  BY <1>1
<1>7. (ToSet(o) \union {x}) \union U = below[root] /\ (ToSet(o) \union {x}) \intersect U = {}
  BY <1>1, <1>5
<1> QED
  BY <1>2, <1>4, <1>6, <1>7 DEF Handed

(* What is given so far is the beginning of the listing, and all of it when *)
(* nothing is left.                                                         *)
LEMMA Beginning ==
  ASSUME Inv, OrderInv, NEW order, Strict(order),
         NEW o, NEW T, Handed(o, T, order), NEW s, Listing(s, root, order)
  PROVE  IsPrefix(o, s) /\ (T = {} => o = s)
<1>1. /\ o \in Seq(Node) /\ s \in Seq(Node) /\ Len(o) \in Nat /\ Len(s) \in Nat
      /\ DOMAIN o = 1..Len(o) /\ DOMAIN s = 1..Len(s)
  BY DEF Handed, Listing
<1>2. /\ \A i, j \in DOMAIN o : i < j => <<o[i], o[j]>> \in order
      /\ \A i, j \in DOMAIN s : i < j => <<s[i], s[j]>> \in order
      /\ \A i \in DOMAIN o : \A b \in T : <<o[i], b>> \in order
  BY DEF Handed, Listing, Ordered, ToSet
<1>3. /\ \A i \in DOMAIN o : \E m \in DOMAIN s : o[i] = s[m]
      /\ \A i \in DOMAIN s : s[i] \in T \/ \E k \in DOMAIN o : s[i] = o[k]
  <2>1. ToSet(o) \union T = ToSet(s)
    BY DEF Handed, Listing
  <2> QED
    BY <2>1 DEF ToSet
<1>4. \A a, b : <<a, b>> \in order => <<b, a>> \notin order
  BY DEF Strict
<1> DEFINE Wrong == {i \in DOMAIN o : ~(i \in DOMAIN s /\ s[i] = o[i])}
<1>5. ASSUME Wrong # {} PROVE FALSE
  <2>1. PICK i \in Wrong : \A k \in Wrong : i <= k
    <3>1. Wrong \in SUBSET Nat
      BY <1>1
    <3> HIDE DEF Wrong
    <3> QED
      BY <1>5, <3>1, LeastNatural
  <2>2. i \in DOMAIN o /\ i \in Nat /\ i > 0 /\ ~(i \in DOMAIN s /\ s[i] = o[i])
    BY <1>1, <2>1
  <2>3. \A k \in DOMAIN o : k < i => k \in DOMAIN s /\ s[k] = o[k]
    <3>1. \A k \in DOMAIN o : k \in Nat /\ (k < i => ~(i <= k))
      BY <1>1, <2>2
    <3> QED
      BY <2>1, <3>1
  <2>4. PICK m \in DOMAIN s : o[i] = s[m]
    BY <1>3, <2>2
  <2>5. m \in Nat /\ m > 0
    BY <1>1
  <2>6. ~(m < i)
    <3>1. ASSUME m < i PROVE FALSE
      <4>1. m \in DOMAIN o
        BY <1>1, <2>2, <2>5, <3>1
      <4>2. s[m] = o[m] /\ <<o[m], o[i]>> \in order
        BY <1>2, <2>2, <2>3, <3>1, <4>1
      <4> QED
        BY <1>4, <2>4, <4>2
    <3> QED
      BY <3>1
  <2>7. i < m /\ i \in DOMAIN s
    <3>1. i # m
      BY <2>2, <2>4
    <3> QED
      BY <1>1, <2>2, <2>4, <2>5, <2>6, <3>1
  <2>8. <<s[i], o[i]>> \in order
    BY <1>2, <2>4, <2>7
  <2>9. s[i] \notin T
    BY <1>2, <1>4, <2>2, <2>8
  <2>10. PICK k \in DOMAIN o : s[i] = o[k]
    BY <1>3, <2>7, <2>9
  <2>11. k \in Nat
    BY <1>1
  <2>12. CASE k < i
    <3>1. k \in DOMAIN s /\ s[k] = o[k] /\ <<s[k], s[i]>> \in order
      BY <1>2, <2>3, <2>7, <2>12
    <3> QED
      BY <1>4, <2>10, <3>1
  <2>13. CASE k = i
    BY <1>4, <2>8, <2>10, <2>13
  <2>14. CASE i < k
    <3>1. <<o[i], o[k]>> \in order
      BY <1>2, <2>2, <2>14
    <3> QED
      BY <1>4, <2>8, <2>10, <3>1
  <2> QED
    BY <2>2, <2>11, <2>12, <2>13, <2>14
<1>6. \A i \in DOMAIN o : i \in DOMAIN s /\ s[i] = o[i]
  BY <1>5
<1>7. Len(o) <= Len(s)
  <2>1. CASE Len(o) = 0
    BY <1>1, <2>1
  <2>2. CASE Len(o) # 0
    <3>1. Len(o) \in DOMAIN o
      BY <1>1, <2>2
    <3>2. Len(o) \in DOMAIN s
      BY <1>6, <3>1
    <3> QED
      BY <1>1, <3>2
  <2> QED
    BY <2>1, <2>2
<1>8. SubSeq(o, 1, Len(o)) = SubSeq(s, 1, Len(o))
  <2>1. SubSeq(o, 1, Len(o)) = [i \in 1..Len(o) |-> o[i]]
    BY <1>1
  <2>2. SubSeq(s, 1, Len(o)) = [i \in 1..Len(o) |-> s[i]]
    BY <1>1, <1>7
  <2> QED
    BY <1>1, <1>6, <2>1, <2>2
<1>9. ASSUME T = {} PROVE o = s
  <2>1. ~(Len(o) < Len(s))
    <3>1. ASSUME Len(o) < Len(s) PROVE FALSE
      <4>1. Len(o) + 1 \in DOMAIN s
        BY <1>1, <3>1
      <4>2. PICK k \in DOMAIN o : s[Len(o) + 1] = o[k]
        BY <1>3, <1>9, <4>1
      <4>3. k \in DOMAIN s /\ s[k] = o[k] /\ k < Len(o) + 1
        BY <1>1, <1>6
      <4>4. <<s[k], s[Len(o) + 1]>> \in order
        BY <1>2, <4>1, <4>3
      <4> QED
        BY <1>4, <4>2, <4>3, <4>4
    <3> QED
      BY <3>1
  <2>2. Len(o) \in Nat /\ Len(s) \in Nat
    BY <1>1
  <2>3. Len(o) = Len(s)
    BY <1>7, <2>1, <2>2
  <2> QED
    BY <1>1, <1>6, <2>3
<1> QED
  BY <1>7, <1>8, <1>9 DEF IsPrefix

(* Going down to the left child the cursor remains to the left of what is on *)
(* the stack, ...                                                           *)
LEMMA LeftDescends ==
  ASSUME Inv, OrderInv, NEW c \in Node, NEW s, LeftPath(c, s)
  PROVE  LeftPath(lchild[c], <<c>> \o s)
<1> PICK p : p = <<c>> \o s
  OBVIOUS
<1>1. /\ s \in Seq(Node)
      /\ \A i, j \in DOMAIN s : i < j => s[i] \in below[lchild[s[j]]]
      /\ \A j \in DOMAIN s : c \in below[lchild[s[j]]]
  BY DEF LeftPath
<1>2. /\ p \in Seq(Node) /\ p[1] = c
      /\ \A i \in DOMAIN p : i = 1 \/ (i - 1 \in DOMAIN s /\ i \in Nat /\ i > 1 /\ p[i] = s[i - 1])
  BY <1>1, Pushed
<1>3. ASSUME NEW i \in DOMAIN p, NEW j \in DOMAIN p, i < j PROVE p[i] \in below[lchild[p[j]]]
  <2>1. j # 1
    BY <1>2, <1>3
  <2>2. j - 1 \in DOMAIN s /\ j \in Nat /\ p[j] = s[j - 1]
    BY <1>2, <2>1
  <2>3. CASE i = 1
    BY <1>1, <1>2, <2>2, <2>3
  <2>4. CASE i # 1
    <3>1. i - 1 \in DOMAIN s /\ i \in Nat /\ p[i] = s[i - 1]
      BY <1>2, <2>4
    <3>2. i - 1 < j - 1
      BY <1>3, <2>2, <3>1
    <3> QED
      BY <1>1, <2>2, <3>1, <3>2
  <2> QED
    BY <2>3, <2>4
<1>4. ASSUME lchild[c] # NULL, NEW j \in DOMAIN p PROVE lchild[c] \in below[lchild[p[j]]]
  <2>1. lchild[c] \in Node /\ lchild[c] \in below[lchild[c]] /\ lchild[c] \in below[c]
    BY <1>4, TreeShape DEF NodeOrNull
  <2>2. CASE j = 1
    BY <1>2, <2>1, <2>2
  <2>3. CASE j # 1
    <3>1. j - 1 \in DOMAIN s /\ p[j] = s[j - 1]
      BY <1>2, <2>3
    <3>2. s[j - 1] \in Node /\ c \in below[lchild[s[j - 1]]]
      BY <1>1, <3>1
    <3>3. lchild[s[j - 1]] \in Node
      BY <3>2, TreeShape DEF NodeOrNull
    <3> QED
      BY <2>1, <3>1, <3>2, <3>3, TreeShape
  <2> QED
    BY <2>2, <2>3
<1>5. lchild[c] \in NodeOrNull
  BY TreeShape
<1> QED
  BY <1>2, <1>3, <1>4, <1>5 DEF LeftPath

(* ... and so it does going to the right child of the top, which is popped. *)
LEMMA RightTurns ==
  ASSUME Inv, OrderInv, NEW x \in Node, NEW s \in Seq(Node), LeftPath(NULL, <<x>> \o s)
  PROVE  /\ LeftPath(rchild[x], s)
         /\ \A j \in DOMAIN s : s[j] \in Node /\ x \in below[lchild[s[j]]]
<1> PICK p : p = <<x>> \o s
  OBVIOUS
<1>1. \A i, j \in DOMAIN p : i < j => p[i] \in below[lchild[p[j]]]
  BY DEF LeftPath
<1>2. /\ 1 \in DOMAIN p /\ p[1] = x
      /\ \A i \in DOMAIN s : i \in Nat /\ i > 0 /\ i + 1 \in DOMAIN p /\ p[i + 1] = s[i]
  BY Pushed
<1>3. ASSUME NEW j \in DOMAIN s PROVE s[j] \in Node /\ x \in below[lchild[s[j]]]
  <2>1. 1 < j + 1 /\ j + 1 \in DOMAIN p /\ p[j + 1] = s[j]
    BY <1>2
  <2>2. p[1] \in below[lchild[p[j + 1]]]
    BY <1>1, <1>2, <2>1
  <2>3. s[j] \in Node
    OBVIOUS
  <2> QED
    BY <1>2, <2>1, <2>2, <2>3
<1>4. ASSUME NEW i \in DOMAIN s, NEW j \in DOMAIN s, i < j PROVE s[i] \in below[lchild[s[j]]]
  <2>1. i + 1 \in DOMAIN p /\ j + 1 \in DOMAIN p /\ p[i + 1] = s[i] /\ p[j + 1] = s[j] /\ i + 1 < j + 1
    <3>1. i \in Nat /\ j \in Nat
      BY <1>2
    <3> QED
      BY <1>2, <1>4, <3>1
  <2>2. p[i + 1] \in below[lchild[p[j + 1]]]
    BY <1>1, <2>1
  <2> QED
    BY <2>1, <2>2
<1>5. ASSUME rchild[x] # NULL, NEW j \in DOMAIN s PROVE rchild[x] \in below[lchild[s[j]]]
  <2>1. rchild[x] \in Node /\ rchild[x] \in below[rchild[x]] /\ rchild[x] \in below[x]
    BY <1>5, TreeShape DEF NodeOrNull
  <2>2. lchild[s[j]] \in Node
    BY <1>3, TreeShape DEF NodeOrNull
  <2> QED
    BY <1>3, <2>1, <2>2, TreeShape
<1>6. rchild[x] \in NodeOrNull
  BY TreeShape
<1> QED
  BY <1>3, <1>4, <1>5, <1>6 DEF LeftPath

(* What is to be done with a node on the stack, and without it.             *)
LEMMA TodoPushed ==
  ASSUME Inv, OrderInv, NEW c \in NodeOrNull, NEW x \in Node, NEW s \in Seq(Node)
  PROVE  /\ PreTodo(c, s) = below[c] \union PreTodo(NULL, s)
         /\ PreTodo(c, <<x>> \o s) = below[c] \union (below[rchild[x]] \union PreTodo(NULL, s))
         /\ InTodo(c, s) = below[c] \union InTodo(NULL, s)
         /\ InTodo(c, <<x>> \o s) = below[c] \union ({x} \union below[rchild[x]] \union InTodo(NULL, s))
<1> PICK p : p = <<x>> \o s
  OBVIOUS
<1>1. /\ 1 \in DOMAIN p /\ p[1] = x
      /\ \A i \in DOMAIN s : i + 1 \in DOMAIN p /\ p[i + 1] = s[i]
      /\ \A i \in DOMAIN p : i = 1 \/ (i - 1 \in DOMAIN s /\ p[i] = s[i - 1])
  BY Pushed
<1>2. below[NULL] = {}
  BY TreeShape
<1>3. ASSUME NEW y
      PROVE  (\E i \in DOMAIN p : y \in below[rchild[p[i]]])
               <=> y \in below[rchild[x]] \/ \E j \in DOMAIN s : y \in below[rchild[s[j]]]
  <2>1. ASSUME NEW i \in DOMAIN p, y \in below[rchild[p[i]]]
        PROVE  y \in below[rchild[x]] \/ \E j \in DOMAIN s : y \in below[rchild[s[j]]]
    BY <1>1, <2>1
  <2>2. ASSUME NEW j \in DOMAIN s, y \in below[rchild[s[j]]]
        PROVE  \E i \in DOMAIN p : y \in below[rchild[p[i]]]
    BY <1>1, <2>2
  <2>3. ASSUME y \in below[rchild[x]] PROVE \E i \in DOMAIN p : y \in below[rchild[p[i]]]
    BY <1>1, <2>3
  <2> QED
    BY <2>1, <2>2, <2>3
<1>4. ASSUME NEW y
      PROVE  (\E i \in DOMAIN p : y \in {p[i]} \union below[rchild[p[i]]])
               <=> \/ y \in {x} \union below[rchild[x]]
                   \/ \E j \in DOMAIN s : y \in {s[j]} \union below[rchild[s[j]]]
  <2>1. ASSUME NEW i \in DOMAIN p, y \in {p[i]} \union below[rchild[p[i]]]
        PROVE  \/ y \in {x} \union below[rchild[x]]
               \/ \E j \in DOMAIN s : y \in {s[j]} \union below[rchild[s[j]]]
    BY <1>1, <2>1
  <2>2. ASSUME NEW j \in DOMAIN s, y \in {s[j]} \union below[rchild[s[j]]]
        PROVE  \E i \in DOMAIN p : y \in {p[i]} \union below[rchild[p[i]]]
    BY <1>1, <2>2
  <2>3. ASSUME y \in {x} \union below[rchild[x]]
        PROVE  \E i \in DOMAIN p : y \in {p[i]} \union below[rchild[p[i]]]
    BY <1>1, <2>3
  <2> QED
    BY <2>1, <2>2, <2>3
<1>5. PreTodo(c, p) = below[c] \union (below[rchild[x]] \union PreTodo(NULL, s))
  <2>1. ASSUME NEW y
        PROVE  y \in PreTodo(c, p) <=> y \in below[c] \/ y \in below[rchild[x]] \/ y \in PreTodo(NULL, s)
    <3>1. y \in PreTodo(c, p) <=> y \in below[c] \/ \E i \in DOMAIN p : y \in below[rchild[p[i]]]
      BY DEF PreTodo
    <3>2. y \in PreTodo(NULL, s) <=> \E i \in DOMAIN s : y \in below[rchild[s[i]]]
      BY <1>2 DEF PreTodo
    <3> QED
      BY <1>3, <3>1, <3>2, Zenon
  <2> QED
    BY <2>1
<1>6. InTodo(c, p) = below[c] \union ({x} \union below[rchild[x]] \union InTodo(NULL, s))
  <2>1. ASSUME NEW y
        PROVE  y \in InTodo(c, p) <=> y \in below[c] \/ y \in {x} \union below[rchild[x]] \/ y \in InTodo(NULL, s)
    <3>1. y \in InTodo(c, p) <=> y \in below[c] \/ \E i \in DOMAIN p : y \in {p[i]} \union below[rchild[p[i]]]
      BY DEF InTodo
    <3>2. y \in InTodo(NULL, s) <=> \E i \in DOMAIN s : y \in {s[i]} \union below[rchild[s[i]]]
      BY <1>2 DEF InTodo
    <3> QED
      BY <1>4, <3>1, <3>2, Zenon
  <2> QED
    BY <2>1
<1>7. PreTodo(c, s) = below[c] \union PreTodo(NULL, s) /\ InTodo(c, s) = below[c] \union InTodo(NULL, s)
  BY <1>2 DEF PreTodo, InTodo
<1> QED
  BY <1>5, <1>6, <1>7

(* pre_order_norec gives the node at the cursor, ...                        *)
LEMMA PreVisitKeeps ==
  ASSUME Inv, OrderInv, NEW c \in Node, NEW s, NEW o, PreAt(c, s, o)
  PROVE  PreAt(lchild[c], <<c>> \o s, Append(o, c))
<1>1. LeftPath(c, s) /\ Handed(o, PreTodo(c, s), PreBefore) /\ s \in Seq(Node)
  BY DEF PreAt, LeftPath
<1>2. LeftPath(lchild[c], <<c>> \o s)
  BY <1>1, LeftDescends
<1>3. /\ PreTodo(c, s) = below[c] \union PreTodo(NULL, s)
      /\ PreTodo(lchild[c], <<c>> \o s) = below[lchild[c]] \union (below[rchild[c]] \union PreTodo(NULL, s))
  <2>1. c \in NodeOrNull /\ lchild[c] \in NodeOrNull
    BY TreeShape DEF NodeOrNull
  <2> QED
    BY <1>1, <2>1, TodoPushed
<1>4. PreTodo(c, s) = {c} \union PreTodo(lchild[c], <<c>> \o s)
  BY <1>3, TreeShape
<1>5. ASSUME NEW y \in PreTodo(NULL, s) PROVE <<c, y>> \in PreBefore
  <2>1. PICK j \in DOMAIN s : y \in below[rchild[s[j]]]
    BY TreeShape DEF PreTodo
  <2>2. s[j] \in Node /\ c \in below[lchild[s[j]]]
    BY <1>1 DEF LeftPath
  <2> QED
    BY <2>1, <2>2, PreOrdered
<1>6. ASSUME NEW y \in below[lchild[c]] \union below[rchild[c]] PROVE <<c, y>> \in PreBefore
  <2>1. y \in below[c] /\ y # c
    BY TreeShape
  <2> QED
    BY <2>1, PreOrdered
<1>7. \A y \in PreTodo(lchild[c], <<c>> \o s) : <<c, y>> \in PreBefore
  BY <1>3, <1>5, <1>6
<1>8. Handed(Append(o, c), PreTodo(lchild[c], <<c>> \o s), PreBefore)
  BY <1>1, <1>4, <1>7, PreOrdered, Given
<1> QED
  BY <1>2, <1>8 DEF PreAt

(* ... or turns to the right subtree of the top.                            *)
LEMMA PreTurnKeeps ==
  ASSUME Inv, OrderInv, NEW x \in Node, NEW s \in Seq(Node), NEW o, PreAt(NULL, <<x>> \o s, o)
  PROVE  PreAt(rchild[x], s, o)
<1>1. LeftPath(rchild[x], s)
  BY RightTurns DEF PreAt
<1>2. PreTodo(NULL, <<x>> \o s) = PreTodo(rchild[x], s)
  <2>1. NULL \in NodeOrNull /\ rchild[x] \in NodeOrNull
    BY TreeShape DEF NodeOrNull
  <2>2. PreTodo(NULL, <<x>> \o s) = below[NULL] \union (below[rchild[x]] \union PreTodo(NULL, s))
    BY <2>1, TodoPushed
  <2>3. PreTodo(rchild[x], s) = below[rchild[x]] \union PreTodo(NULL, s)
    BY <2>1, TodoPushed
  <2> QED
    BY <2>2, <2>3, TreeShape
<1> QED
  BY <1>1, <1>2 DEF PreAt

(* in_order_norec goes down without giving anything, ...                    *)
LEMMA InDescendKeeps ==
  ASSUME Inv, OrderInv, NEW c \in Node, NEW s, NEW o, InAt(c, s, o)
  PROVE  InAt(lchild[c], <<c>> \o s, o)
<1>1. LeftPath(lchild[c], <<c>> \o s) /\ s \in Seq(Node)
  BY LeftDescends DEF InAt, LeftPath
<1>2. InTodo(c, s) = InTodo(lchild[c], <<c>> \o s)
  <2>1. c \in NodeOrNull /\ lchild[c] \in NodeOrNull
    BY TreeShape DEF NodeOrNull
  <2>2. InTodo(c, s) = below[c] \union InTodo(NULL, s)
    BY <1>1, <2>1, TodoPushed
  <2>3. InTodo(lchild[c], <<c>> \o s) = below[lchild[c]] \union ({c} \union below[rchild[c]] \union InTodo(NULL, s))
    BY <1>1, <2>1, TodoPushed
  <2> QED
    BY <2>2, <2>3, TreeShape
<1> QED
  BY <1>1, <1>2 DEF InAt

(* ... and gives the top, whose left subtree is done.                       *)
LEMMA InVisitKeeps ==
  ASSUME Inv, OrderInv, NEW x \in Node, NEW s \in Seq(Node), NEW o, InAt(NULL, <<x>> \o s, o)
  PROVE  InAt(rchild[x], s, Append(o, x))
<1>1. LeftPath(rchild[x], s) /\ \A j \in DOMAIN s : s[j] \in Node /\ x \in below[lchild[s[j]]]
  BY RightTurns DEF InAt
<1>2. /\ InTodo(NULL, <<x>> \o s) = {x} \union InTodo(rchild[x], s)
      /\ InTodo(rchild[x], s) = below[rchild[x]] \union InTodo(NULL, s)
  <2>1. NULL \in NodeOrNull /\ rchild[x] \in NodeOrNull
    BY TreeShape DEF NodeOrNull
  <2>2. InTodo(NULL, <<x>> \o s) = below[NULL] \union ({x} \union below[rchild[x]] \union InTodo(NULL, s))
    BY <2>1, TodoPushed
  <2>3. InTodo(rchild[x], s) = below[rchild[x]] \union InTodo(NULL, s)
    BY <2>1, TodoPushed
  <2> QED
    BY <2>2, <2>3, TreeShape
<1>3. ASSUME NEW y \in InTodo(NULL, s) PROVE <<x, y>> \in Before
  <2>1. PICK j \in DOMAIN s : y \in {s[j]} \union below[rchild[s[j]]]
    BY TreeShape DEF InTodo
  <2> QED
    BY <1>1, <2>1, LeftToRight
<1>4. \A y \in InTodo(rchild[x], s) : <<x, y>> \in Before
  BY <1>2, <1>3, LeftToRight
<1>5. Handed(o, {x} \union InTodo(rchild[x], s), Before)
  BY <1>2 DEF InAt
<1>6. Handed(Append(o, x), InTodo(rchild[x], s), Before)
  BY <1>4, <1>5, BeforeStrict, Given
<1> QED
  BY <1>1, <1>6 DEF InAt

(* The same of the stack of post_order_norec, with the side it comes from.  *)
LEMMA RestPushed ==
  ASSUME NEW d, NEW x \in Node, NEW s \in Seq(Node)
  PROVE  PostRest(d, <<x>> \o s)
           = ({x} \union (IF d = rchild[x] THEN {} ELSE below[rchild[x]])) \union PostRest(x, s)
<1> PICK p : p = <<x>> \o s
  OBVIOUS
<1> DEFINE W(e, n) == {n} \union (IF e = rchild[n] THEN {} ELSE below[rchild[n]])
<1>1. 1 \in DOMAIN p /\ p[1] = x /\ From(d, p, 1) = d
  BY Pushed DEF From
<1>2. ASSUME NEW i \in DOMAIN s PROVE i + 1 \in DOMAIN p /\ p[i + 1] = s[i] /\ From(d, p, i + 1) = From(x, s, i)
  <2>1. i \in Nat /\ i > 0 /\ i + 1 \in DOMAIN p /\ p[i + 1] = s[i]
    BY Pushed
  <2>2. From(d, p, i + 1) = p[i]
    <3>1. i + 1 > 1 /\ (i + 1) - 1 = i
      BY <2>1
    <3> QED
      BY <3>1 DEF From
  <2>3. CASE i = 1
    BY <1>1, <2>1, <2>2, <2>3 DEF From
  <2>4. CASE i > 1
    <3>1. i - 1 \in DOMAIN s
      BY <2>1, <2>4
    <3>2. p[(i - 1) + 1] = s[i - 1]
      BY <3>1, Pushed
    <3>3. (i - 1) + 1 = i
      BY <2>1
    <3>4. From(x, s, i) = s[i - 1]
      BY <2>4 DEF From
    <3> QED
      BY <2>1, <2>2, <3>2, <3>3, <3>4
  <2> QED
    BY <2>1, <2>3, <2>4
<1>3. ASSUME NEW i \in DOMAIN p
      PROVE  i = 1 \/ \E j \in DOMAIN s : p[i] = s[j] /\ From(d, p, i) = From(x, s, j)
  <2>1. CASE i # 1
    <3>1. i - 1 \in DOMAIN s /\ i \in Nat
      BY <2>1, Pushed
    <3>2. (i - 1) + 1 = i
      BY <3>1
    <3>3. p[(i - 1) + 1] = s[i - 1] /\ From(d, p, (i - 1) + 1) = From(x, s, i - 1)
      BY <1>2, <3>1
    <3> QED
      BY <3>1, <3>2, <3>3
  <2> QED
    BY <2>1
<1>4. \A e, t : PostRest(e, t) = UNION {W(From(e, t, i), t[i]) : i \in DOMAIN t}
  BY DEF PostRest
<1> HIDE DEF W
<1>5. ASSUME NEW y PROVE y \in PostRest(d, p) <=> y \in W(d, x) \/ y \in PostRest(x, s)
  <2>1. y \in PostRest(d, p) <=> \E i \in DOMAIN p : y \in W(From(d, p, i), p[i])
    BY <1>4
  <2>2. y \in PostRest(x, s) <=> \E i \in DOMAIN s : y \in W(From(x, s, i), s[i])
    BY <1>4
  <2>3. ASSUME NEW i \in DOMAIN p, y \in W(From(d, p, i), p[i])
        PROVE  y \in W(d, x) \/ \E j \in DOMAIN s : y \in W(From(x, s, j), s[j])
    BY <1>1, <1>3, <2>3
  <2>4. ASSUME NEW j \in DOMAIN s, y \in W(From(x, s, j), s[j])
        PROVE  \E i \in DOMAIN p : y \in W(From(d, p, i), p[i])
    BY <1>2, <2>4
  <2>5. ASSUME y \in W(d, x) PROVE \E i \in DOMAIN p : y \in W(From(d, p, i), p[i])
    BY <1>1, <2>5
  <2> QED
    BY <2>1, <2>2, <2>3, <2>4, <2>5
<1>6. PostRest(d, p) = W(d, x) \union PostRest(x, s)
  BY <1>5
<1> QED
  BY <1>6 DEF W

(* post_order_norec goes down to the left child, ...                        *)
LEMMA PostDescendKeeps ==
  ASSUME Inv, OrderInv, NEW c \in Node, NEW s, NEW t, NEW o, PostAt(c, s, t, o)
  PROVE  PostAt(lchild[c], <<c>> \o s, t, o)
<1> PICK p : p = <<c>> \o s
  OBVIOUS
<1>1. /\ s \in Seq(Node)
      /\ \A i, j \in DOMAIN s : i <= j => s[i] \in below[s[j]]
      /\ \A j \in DOMAIN s : j > 1 => s[j - 1] \in {lchild[s[j]], rchild[s[j]]}
      /\ s # <<>> => c \in {lchild[s[1]], rchild[s[1]]}
      /\ c # NULL
  BY DEF PostAt, Path
<1>2. /\ p \in Seq(Node) /\ p[1] = c
      /\ \A i \in DOMAIN p : i = 1 \/ (i - 1 \in DOMAIN s /\ i \in Nat /\ i > 1 /\ p[i] = s[i - 1])
  BY <1>1, Pushed
<1>3. ASSUME NEW j \in DOMAIN s PROVE s[j] \in Node /\ c \in below[s[j]]
  <2>1. s # <<>> /\ 1 \in DOMAIN s /\ 1 <= j /\ s[1] \in Node /\ s[j] \in Node
    BY <1>1
  <2>2. c \in {lchild[s[1]], rchild[s[1]]} /\ s[1] \in below[s[j]]
    BY <1>1, <2>1
  <2>3. c \in below[s[1]]
    BY <2>1, <2>2, TreeShape
  <2> QED
    BY <2>1, <2>2, <2>3, TreeShape
<1>4. ASSUME NEW i \in DOMAIN p, NEW j \in DOMAIN p, i <= j PROVE p[i] \in below[p[j]]
  <2>1. CASE j = 1
    <3>1. i = 1
      BY <1>2, <1>4, <2>1
    <3> QED
      BY <1>2, <2>1, <3>1, TreeShape
  <2>2. CASE j # 1
    <3>1. j - 1 \in DOMAIN s /\ j \in Nat /\ p[j] = s[j - 1]
      BY <1>2, <2>2
    <3>2. CASE i = 1
      BY <1>2, <1>3, <3>1, <3>2
    <3>3. CASE i # 1
      <4>1. i - 1 \in DOMAIN s /\ i \in Nat /\ p[i] = s[i - 1]
        BY <1>2, <3>3
      <4>2. i - 1 <= j - 1
        BY <1>4, <3>1, <4>1
      <4> QED
        BY <1>1, <3>1, <4>1, <4>2
    <3> QED
      BY <3>2, <3>3
  <2> QED
    BY <2>1, <2>2
<1>5. ASSUME NEW j \in DOMAIN p, j > 1 PROVE p[j - 1] \in {lchild[p[j]], rchild[p[j]]}
  <2>1. j - 1 \in DOMAIN s /\ j \in Nat /\ p[j] = s[j - 1]
    BY <1>2, <1>5
  <2>2. CASE j = 2
    <3>1. j - 1 = 1
      BY <2>2
    <3>2. s # <<>> /\ p[j - 1] = c /\ p[j] = s[1]
      BY <1>1, <1>2, <2>1, <3>1
    <3> QED
      BY <1>1, <3>2
  <2>3. CASE j # 2
    <3>1. (j - 1) - 1 \in DOMAIN s /\ j - 1 > 1
      BY <1>1, <1>5, <2>1, <2>3
    <3>2. p[((j - 1) - 1) + 1] = s[(j - 1) - 1]
      BY <1>1, <3>1, Pushed
    <3>3. ((j - 1) - 1) + 1 = j - 1
      BY <2>1
    <3>4. s[(j - 1) - 1] \in {lchild[s[j - 1]], rchild[s[j - 1]]}
      BY <1>1, <2>1, <3>1
    <3> QED
      BY <2>1, <3>2, <3>3, <3>4
  <2> QED
    BY <2>2, <2>3
<1>6. lchild[c] \in NodeOrNull
  BY TreeShape
<1>7. Path(lchild[c], p)
  BY <1>2, <1>4, <1>5, <1>6 DEF Path
<1>8. PostTodo(c, s, t) = PostTodo(lchild[c], p, t)
  <2>1. PICK d : d = IF lchild[c] # NULL THEN lchild[c] ELSE t
    OBVIOUS
  <2>2. d = rchild[c] => below[rchild[c]] = {}
    <3>1. ASSUME d = rchild[c], rchild[c] # NULL PROVE FALSE
      <4>1. rchild[c] \in Node /\ rchild[c] \in below[rchild[c]] /\ rchild[c] \in below[c]
        BY <3>1, TreeShape DEF NodeOrNull
      <4>2. lchild[c] # rchild[c]
        BY <4>1, <3>1, TreeShape
      <4>3. t = rchild[c]
        BY <2>1, <3>1, <4>2
      <4>4. t \in ToSet(o)
        BY <3>1, <4>3 DEF PostAt
      <4>5. rchild[c] \in PostTodo(c, s, t)
        BY <4>1 DEF PostTodo
      <4> QED
        BY <4>3, <4>4, <4>5 DEF PostAt, Handed
    <3> QED
      BY <3>1, TreeShape
  <2>3. PostRest(d, p) = ({c} \union (IF d = rchild[c] THEN {} ELSE below[rchild[c]])) \union PostRest(c, s)
    BY <1>1, RestPushed
  <2>4. PostTodo(lchild[c], p, t) = below[lchild[c]] \union PostRest(d, p)
    BY <2>1 DEF PostTodo
  <2>5. PostTodo(c, s, t) = below[c] \union PostRest(c, s)
    BY <1>1 DEF PostTodo
  <2>6. below[c] = {c} \union below[lchild[c]] \union below[rchild[c]]
    BY TreeShape
  <2> QED
    BY <2>2, <2>3, <2>4, <2>5, <2>6
<1> QED
  BY <1>7, <1>8 DEF PostAt

(* ... from the top of the stack to the right one, which is not yet done,   *)
(* ...                                                                      *)
LEMMA PostTurnKeeps ==
  ASSUME Inv, OrderInv, NEW x \in Node, NEW s \in Seq(Node), NEW t, NEW o,
         PostAt(NULL, <<x>> \o s, t, o), rchild[x] # NULL, rchild[x] # t
  PROVE  PostAt(rchild[x], <<x>> \o s, t, o)
<1> PICK p : p = <<x>> \o s
  OBVIOUS
<1>1. p[1] = x /\ rchild[x] \in NodeOrNull
  BY Pushed, TreeShape
<1>2. Path(rchild[x], p)
  BY <1>1 DEF PostAt, Path
<1>3. PostTodo(NULL, p, t) = PostTodo(rchild[x], p, t)
  <2>1. PostRest(t, p) = ({x} \union below[rchild[x]]) \union PostRest(x, s)
    BY RestPushed
  <2>2. PostRest(rchild[x], p) = {x} \union PostRest(x, s)
    BY RestPushed
  <2>3. PostTodo(NULL, p, t) = below[NULL] \union PostRest(t, p)
    BY DEF PostTodo
  <2>4. PostTodo(rchild[x], p, t) = below[rchild[x]] \union PostRest(rchild[x], p)
    BY DEF PostTodo
  <2> QED
    BY <2>1, <2>2, <2>3, <2>4, TreeShape
<1> QED
  BY <1>2, <1>3 DEF PostAt

(* ... and when it is done, or there is none, gives the top.                *)
LEMMA PostVisitKeeps ==
  ASSUME Inv, OrderInv, NEW x \in Node, NEW s \in Seq(Node), NEW t, NEW o,
         PostAt(NULL, <<x>> \o s, t, o), rchild[x] \in {NULL, t}
  PROVE  PostAt(NULL, s, x, Append(o, x))
<1> PICK p : p = <<x>> \o s
  OBVIOUS
<1>1. /\ \A i, j \in DOMAIN p : i <= j => p[i] \in below[p[j]]
      /\ \A j \in DOMAIN p : j > 1 => p[j - 1] \in {lchild[p[j]], rchild[p[j]]}
  BY DEF PostAt, Path
<1>2. /\ p \in Seq(Node) /\ 1 \in DOMAIN p /\ p[1] = x
      /\ \A i \in DOMAIN s : i \in Nat /\ i > 0 /\ i + 1 \in DOMAIN p /\ p[i + 1] = s[i]
  BY Pushed
<1>3. ASSUME NEW i \in DOMAIN s, NEW j \in DOMAIN s, i <= j PROVE s[i] \in below[s[j]]
  <2>1. i \in Nat /\ j \in Nat /\ i + 1 \in DOMAIN p /\ j + 1 \in DOMAIN p /\ p[i + 1] = s[i] /\ p[j + 1] = s[j]
    BY <1>2
  <2>2. i + 1 <= j + 1
    BY <1>3, <2>1
  <2>3. p[i + 1] \in below[p[j + 1]]
    BY <1>1, <2>1, <2>2
  <2> QED
    BY <2>1, <2>3
<1>4. ASSUME NEW j \in DOMAIN s
      PROVE  /\ s[j] \in Node
             /\ From(x, s, j) \in {lchild[s[j]], rchild[s[j]]}
             /\ x \in below[From(x, s, j)]
  <2>1. j \in Nat /\ j > 0 /\ j + 1 \in DOMAIN p /\ p[j + 1] = s[j] /\ s[j] \in Node
    BY <1>2
  <2>2. j + 1 > 1 /\ (j + 1) - 1 = j
    BY <2>1
  <2>3. p[j] \in {lchild[s[j]], rchild[s[j]]}
    BY <1>1, <2>1, <2>2
  <2>4. From(x, s, j) = p[j] /\ j \in DOMAIN p
    <3>1. CASE j = 1
      BY <1>2, <3>1 DEF From
    <3>2. CASE j > 1
      <4>1. j - 1 \in DOMAIN s /\ (j - 1) + 1 = j
        BY <2>1, <3>2
      <4>2. (j - 1) + 1 \in DOMAIN p /\ p[(j - 1) + 1] = s[j - 1]
        BY <1>2, <4>1
      <4> QED
        BY <3>2, <4>1, <4>2 DEF From
    <3> QED
      BY <2>1, <3>1, <3>2
  <2>5. p[1] \in below[p[j]]
    BY <1>1, <1>2, <2>1, <2>4
  <2> QED
    BY <1>2, <2>1, <2>3, <2>4, <2>5
<1>5. ASSUME NEW j \in DOMAIN s, j > 1 PROVE s[j - 1] \in {lchild[s[j]], rchild[s[j]]}
  BY <1>4, <1>5 DEF From
<1>6. Path(NULL, s)
  BY <1>3, <1>5 DEF Path, NodeOrNull
<1>7. PostTodo(NULL, p, t) = {x} \union PostRest(x, s)
  <2>1. PostTodo(NULL, p, t) = below[NULL] \union PostRest(t, p)
    BY DEF PostTodo
  <2>2. PostRest(t, p) = ({x} \union (IF t = rchild[x] THEN {} ELSE below[rchild[x]])) \union PostRest(x, s)
    BY RestPushed
  <2>3. (IF t = rchild[x] THEN {} ELSE below[rchild[x]]) = {}
    BY TreeShape
  <2> QED
    BY <2>1, <2>2, <2>3, TreeShape
<1>8. ASSUME NEW y \in PostRest(x, s) PROVE <<x, y>> \in PostBefore
  <2>1. PICK j \in DOMAIN s :
          y \in {s[j]} \union (IF From(x, s, j) = rchild[s[j]] THEN {} ELSE below[rchild[s[j]]])
    BY DEF PostRest
  <2>2. /\ s[j] \in Node
        /\ From(x, s, j) \in {lchild[s[j]], rchild[s[j]]}
        /\ x \in below[From(x, s, j)]
    BY <1>4
  <2>3. CASE y = s[j]
    <3>1. x \in below[s[j]] /\ x # s[j]
      BY <2>2, TreeShape
    <3> QED
      BY <2>2, <2>3, <3>1, PostOrdered
  <2>4. CASE y # s[j]
    <3>1. From(x, s, j) # rchild[s[j]] /\ y \in below[rchild[s[j]]]
      BY <2>1, <2>4
    <3>2. x \in below[lchild[s[j]]]
      BY <2>2, <3>1
    <3> QED
      BY <2>2, <3>1, <3>2, PostOrdered
  <2> QED
    BY <2>3, <2>4
<1>9. Handed(o, {x} \union PostRest(x, s), PostBefore)
  BY <1>7 DEF PostAt
<1>10. Handed(Append(o, x), PostRest(x, s), PostBefore) /\ ToSet(Append(o, x)) = ToSet(o) \union {x}
  BY <1>8, <1>9, PostOrdered, Given
<1>11. PostTodo(NULL, s, x) = PostRest(x, s)
  BY TreeShape DEF PostTodo
<1> QED
  BY <1>6, <1>10, <1>11 DEF PostAt

(* Levels order the nodes: what is below a node is on a lower level, and on *)
(* one level what is below a node is before what is below the next.         *)
LEMMA LevelOrdered ==
  ASSUME Inv, OrderInv
  PROVE  /\ Strict(LevelBefore)
         /\ \A n \in Node : \A x \in below[n] : x # n => <<n, x>> \in LevelBefore
         /\ \A m, n \in Node : <<m, n>> \in LevelBefore =>
              /\ \A y \in below[n] : <<m, y>> \in LevelBefore
              /\ \A x \in below[m], y \in below[n] :
                   level[x] = level[m] + 1 /\ level[y] = level[n] + 1 => <<x, y>> \in LevelBefore
<1>1. ASSUME NEW a \in Node, NEW b \in Node
      PROVE  /\ <<a, b>> \in LevelBefore <=> level[a] < level[b] \/ (level[a] = level[b] /\ <<a, b>> \in Before)
             /\ level[a] \in Nat /\ level[b] \in Nat
  BY LevelDefined DEF LevelBefore, NodeOrNull
<1>2. Strict(LevelBefore)
  <2>1. ASSUME NEW a, NEW b, <<a, b>> \in LevelBefore
        PROVE  a \in Node /\ b \in Node /\ <<b, a>> \notin LevelBefore
    <3>1. a \in Node /\ b \in Node
      BY <2>1 DEF LevelBefore
    <3>2. <<a, b>> \in Before => <<b, a>> \notin Before
      BY BeforeStrict DEF Strict
    <3>3. level[a] \in Nat /\ level[b] \in Nat
      BY <1>1, <3>1
    <3>4. level[a] < level[b] \/ (level[a] = level[b] /\ <<a, b>> \in Before)
      BY <1>1, <2>1, <3>1
    <3>5. ~(level[b] < level[a] \/ (level[b] = level[a] /\ <<b, a>> \in Before))
      BY <3>2, <3>3, <3>4
    <3> QED
      BY <1>1, <3>1, <3>5
  <2> QED
    BY <2>1 DEF Strict
<1>3. ASSUME NEW n \in Node, NEW x \in below[n], x # n PROVE <<n, x>> \in LevelBefore
  <2>1. x \in Node /\ level[n] < level[x]
    BY <1>3, LevelsBelow, TreeShape
  <2> QED
    BY <1>1, <2>1
<1>4. ASSUME NEW m \in Node, NEW n \in Node, <<m, n>> \in LevelBefore, NEW y \in below[n]
      PROVE  <<m, y>> \in LevelBefore
  <2>1. y \in Node /\ (y # n => level[n] < level[y])
    BY LevelsBelow, TreeShape
  <2>2. CASE y # n
    <3>1. level[m] \in Nat /\ level[n] \in Nat /\ level[y] \in Nat
      BY <1>1, <2>1
    <3>2. level[m] < level[n] \/ level[m] = level[n]
      BY <1>1, <1>4
    <3>3. level[m] < level[y]
      BY <2>1, <2>2, <3>1, <3>2
    <3> QED
      BY <1>1, <2>1, <3>3
  <2> QED
    BY <1>4, <2>2
<1>5. ASSUME NEW m \in Node, NEW n \in Node, <<m, n>> \in LevelBefore, NEW x \in below[m], NEW y \in below[n],
             level[x] = level[m] + 1, level[y] = level[n] + 1
      PROVE  <<x, y>> \in LevelBefore
  <2>1. x \in Node /\ y \in Node /\ level[m] \in Nat /\ level[n] \in Nat
    BY <1>1, TreeShape
  <2>2. CASE level[m] < level[n]
    <3>1. level[x] < level[y]
      BY <1>5, <2>1, <2>2
    <3> QED
      BY <1>1, <2>1, <3>1
  <2>3. CASE level[m] = level[n] /\ <<m, n>> \in Before
    <3>1. m # n
      BY <2>3, BeforeStrict DEF Strict
    <3>2. ~(level[m] < level[n]) /\ ~(level[n] < level[m])
      BY <2>1, <2>3
    <3>3. m \notin below[n] /\ n \notin below[m]
      BY <3>1, <3>2, LevelsBelow
    <3>4. <<x, y>> \in Before
      BY <2>3, <3>3, SubtreesInOrder
    <3>5. level[x] = level[y]
      BY <1>5, <2>3
    <3> QED
      BY <1>1, <2>1, <3>4, <3>5
  <2> QED
    BY <1>1, <1>5, <2>2, <2>3
<1> QED
  BY <1>2, <1>3, <1>4, <1>5

(* The children of a node, as level_order queues them.                      *)
LEMMA ChildrenQueued ==
  ASSUME Inv, OrderInv, NEW x \in Node
  PROVE  /\ Children(x) \in Seq(Node) /\ Ordered(Children(x), LevelBefore)
         /\ ToSet(Children(x)) = {lchild[x], rchild[x]} \ {NULL}
         /\ \A y \in ToSet(Children(x)) : y \in below[x] /\ y \in Node /\ parent[y] = x /\ level[y] = level[x] + 1
<1>1. PICK l, r : /\ l = (IF lchild[x] = NULL THEN <<>> ELSE <<lchild[x]>>)
                  /\ r = (IF rchild[x] = NULL THEN <<>> ELSE <<rchild[x]>>)
  OBVIOUS
<1>2. lchild[x] \in NodeOrNull /\ rchild[x] \in NodeOrNull
  BY TreeShape
<1>3. l \in Seq(Node) /\ ToSet(l) = {lchild[x]} \ {NULL} /\ Ordered(l, LevelBefore)
  <2>1. CASE lchild[x] = NULL
    <3>1. l = <<>> /\ {lchild[x]} \ {NULL} = {}
      BY <1>1, <2>1
    <3> QED
      BY <3>1, Single
  <2>2. CASE lchild[x] # NULL
    <3>1. l = <<lchild[x]>> /\ {lchild[x]} \ {NULL} = {lchild[x]} /\ lchild[x] \in Node
      BY <1>1, <1>2, <2>2 DEF NodeOrNull
    <3> QED
      BY <3>1, Single
  <2> QED
    BY <2>1, <2>2
<1>4. r \in Seq(Node) /\ ToSet(r) = {rchild[x]} \ {NULL} /\ Ordered(r, LevelBefore)
  <2>1. CASE rchild[x] = NULL
    <3>1. r = <<>> /\ {rchild[x]} \ {NULL} = {}
      BY <1>1, <2>1
    <3> QED
      BY <3>1, Single
  <2>2. CASE rchild[x] # NULL
    <3>1. r = <<rchild[x]>> /\ {rchild[x]} \ {NULL} = {rchild[x]} /\ rchild[x] \in Node
      BY <1>1, <1>2, <2>2 DEF NodeOrNull
    <3> QED
      BY <3>1, Single
  <2> QED
    BY <2>1, <2>2
<1>5. ASSUME NEW y \in {lchild[x], rchild[x]} \ {NULL}
      PROVE  y \in below[x] /\ y \in Node /\ parent[y] = x /\ level[y] = level[x] + 1
  <2>1. y \in Node /\ parent[y] = x
    BY Neighbours
  <2>2. y \in below[x]
    BY <2>1, TreeShape
  <2>3. level[y] = 1 + level[x] /\ level[x] \in Nat
    BY <2>1, LevelDefined DEF NodeOrNull
  <2>4. level[y] = level[x] + 1
    BY <2>3
  <2> QED
    BY <2>1, <2>2, <2>4
<1>6. \A y \in ToSet(l), z \in ToSet(r) : <<y, z>> \in LevelBefore
  <2>1. ASSUME NEW y \in ToSet(l), NEW z \in ToSet(r) PROVE <<y, z>> \in LevelBefore
    <3>1. y = lchild[x] /\ z = rchild[x] /\ y # NULL /\ z # NULL
      BY <1>3, <1>4
    <3>2. y \in Node /\ z \in Node /\ level[y] = level[z]
      BY <1>5, <3>1
    <3>3. y \in below[lchild[x]] /\ z \in below[rchild[x]]
      BY <3>1, <3>2, TreeShape
    <3>4. <<y, z>> \in Before
      BY <3>3, LeftToRight
    <3> QED
      BY <3>2, <3>4 DEF LevelBefore
  <2> QED
    BY <2>1
<1>7. l \o r \in Seq(Node) /\ ToSet(l \o r) = ToSet(l) \union ToSet(r) /\ Ordered(l \o r, LevelBefore)
  BY <1>3, <1>4, <1>6, Joined
<1>8. Children(x) = l \o r
  BY <1>1 DEF Children
<1>9. ToSet(Children(x)) = {lchild[x], rchild[x]} \ {NULL}
  BY <1>3, <1>4, <1>7, <1>8
<1> QED
  BY <1>5, <1>7, <1>8, <1>9

(* level_order takes the head of the queue, gives it and queues its         *)
(* children.                                                                *)
LEMMA LevelVisitKeeps ==
  ASSUME Inv, OrderInv, NEW x \in Node, NEW r \in Seq(Node), NEW o, LevelAt(<<x>> \o r, o)
  PROVE  LevelAt(r \o Children(x), Append(o, x))
<1> PICK q, k : q = <<x>> \o r /\ k = r \o Children(x)
  OBVIOUS
<1>1. /\ Ordered(q, LevelBefore)
      /\ o # <<>> => \A i \in DOMAIN q : parent[q[i]] \in ToSet(o)
      /\ o = <<>> => q = <<root>>
      /\ Handed(o, LevelTodo(q), LevelBefore)
  BY DEF LevelAt, Waiting
<1>2. /\ q \in Seq(Node) /\ 1 \in DOMAIN q /\ q[1] = x
      /\ \A i \in DOMAIN r : i \in Nat /\ i > 0 /\ i + 1 \in DOMAIN q /\ q[i + 1] = r[i]
      /\ \A i \in DOMAIN q : i = 1 \/ (i - 1 \in DOMAIN r /\ i \in Nat /\ i > 1 /\ q[i] = r[i - 1])
  BY Pushed
<1>3. ASSUME NEW i \in DOMAIN r PROVE r[i] \in Node /\ <<x, r[i]>> \in LevelBefore
  <2>1. 1 < i + 1 /\ i + 1 \in DOMAIN q /\ q[i + 1] = r[i]
    BY <1>2
  <2>2. <<q[1], q[i + 1]>> \in LevelBefore
    BY <1>1, <1>2, <2>1 DEF Ordered
  <2>3. r[i] \in Node
    OBVIOUS
  <2> QED
    BY <1>2, <2>1, <2>2, <2>3
<1>4. Ordered(r, LevelBefore)
  <2>1. ASSUME NEW i \in DOMAIN r, NEW j \in DOMAIN r, i < j PROVE <<r[i], r[j]>> \in LevelBefore
    <3>1. i \in Nat /\ j \in Nat /\ i + 1 \in DOMAIN q /\ j + 1 \in DOMAIN q /\ q[i + 1] = r[i] /\ q[j + 1] = r[j]
      BY <1>2
    <3>2. i + 1 < j + 1
      BY <2>1, <3>1
    <3>3. <<q[i + 1], q[j + 1]>> \in LevelBefore
      BY <1>1, <3>1, <3>2 DEF Ordered
    <3> QED
      BY <3>1, <3>3
  <2> QED
    BY <2>1 DEF Ordered
<1>5. /\ Children(x) \in Seq(Node) /\ Ordered(Children(x), LevelBefore)
      /\ ToSet(Children(x)) = {lchild[x], rchild[x]} \ {NULL}
      /\ \A y \in ToSet(Children(x)) : y \in below[x] /\ y \in Node /\ parent[y] = x /\ level[y] = level[x] + 1
  BY ChildrenQueued
<1>6. x \in LevelTodo(q) /\ ToSet(o) \subseteq Node
  <2>1. x \in below[q[1]]
    BY <1>2, TreeShape
  <2>2. x \in LevelTodo(q)
    BY <1>2, <2>1 DEF LevelTodo
  <2>3. ToSet(o) \subseteq below[root]
    BY <1>1 DEF Handed
  <2> QED
    BY <2>2, <2>3, TreeShape
<1>7. ASSUME NEW i \in DOMAIN r PROVE o # <<>> /\ parent[r[i]] \in ToSet(o)
  <2>1. i + 1 \in DOMAIN q /\ q[i + 1] = r[i] /\ i \in Nat /\ i > 0
    BY <1>2
  <2>2. o # <<>>
    <3>1. ASSUME o = <<>> PROVE FALSE
      <4>1. DOMAIN q = {1}
        BY <1>1, <3>1
      <4> QED
        BY <2>1, <4>1
    <3> QED
      BY <3>1
  <2> QED
    BY <1>1, <2>1, <2>2
<1>8. ASSUME NEW i \in DOMAIN r, NEW y \in ToSet(Children(x)) PROVE <<r[i], y>> \in LevelBefore
  <2>1. PICK p \in ToSet(o) : p = parent[r[i]]
    BY <1>7
  <2>2. p \in Node /\ p # NULL /\ <<p, x>> \in LevelBefore
    BY <1>1, <1>6 DEF Handed
  <2>3. r[i] \in Node
    OBVIOUS
  <2>4. r[i] \in {lchild[p], rchild[p]} /\ r[i] # NULL
    BY <2>1, <2>2, <2>3 DEF Inv, Linked
  <2>5. r[i] \in below[p] /\ level[r[i]] = level[p] + 1
    <3>1. r[i] \in ToSet(Children(p))
      BY <2>2, <2>4, ChildrenQueued
    <3> QED
      BY <2>2, <3>1, ChildrenQueued
  <2> QED
    BY <1>5, <2>2, <2>3, <2>5, LevelOrdered
<1>9. k \in Seq(Node) /\ ToSet(k) = ToSet(r) \union ToSet(Children(x)) /\ Ordered(k, LevelBefore)
  <2>1. \A a \in ToSet(r), b \in ToSet(Children(x)) : <<a, b>> \in LevelBefore
    BY <1>8 DEF ToSet
  <2> QED
    BY <1>4, <1>5, <2>1, Joined
<1>10. LevelTodo(q) = {x} \union LevelTodo(k)
  <2>1. \A t, z : z \in LevelTodo(t) <=> \E y \in ToSet(t) : z \in below[y]
    BY DEF LevelTodo, ToSet
  <2>2. ToSet(q) = {x} \union ToSet(r)
    <3>1. ToSet(q) \subseteq {x} \union ToSet(r)
      BY <1>2 DEF ToSet
    <3>2. ToSet(r) \subseteq ToSet(q)
      <4>1. ASSUME NEW i \in DOMAIN r PROVE \E j \in DOMAIN q : r[i] = q[j]
        BY <1>2
      <4> QED
        BY <4>1 DEF ToSet
    <3>3. x \in ToSet(q)
      BY <1>2 DEF ToSet
    <3> QED
      BY <3>1, <3>2, <3>3
  <2>3. below[x] = {x} \union below[lchild[x]] \union below[rchild[x]] /\ below[NULL] = {}
    BY TreeShape
  <2>4. ASSUME NEW z PROVE z \in below[x] <=> z = x \/ \E y \in ToSet(Children(x)) : z \in below[y]
    BY <1>5, <2>3
  <2>5. ASSUME NEW z PROVE z \in LevelTodo(q) <=> z = x \/ z \in LevelTodo(k)
    <3>1. z \in LevelTodo(q) <=> z \in below[x] \/ \E y \in ToSet(r) : z \in below[y]
      BY <2>1, <2>2
    <3>2. z \in LevelTodo(k) <=> \/ \E y \in ToSet(r) : z \in below[y]
                                 \/ \E y \in ToSet(Children(x)) : z \in below[y]
      BY <1>9, <2>1
    <3> QED
      BY <2>4, <3>1, <3>2
  <2> QED
    BY <2>5
<1>11. ASSUME NEW y \in LevelTodo(k) PROVE <<x, y>> \in LevelBefore
  <2>1. PICK i \in DOMAIN k : y \in below[k[i]]
    BY DEF LevelTodo
  <2>2. k[i] \in ToSet(k)
    BY DEF ToSet
  <2>3. k[i] \in Node /\ <<x, k[i]>> \in LevelBefore
    <3>1. CASE k[i] \in ToSet(r)
      BY <1>3, <3>1 DEF ToSet
    <3>2. CASE k[i] \in ToSet(Children(x))
      <4>1. k[i] \in below[x] /\ k[i] \in Node /\ parent[k[i]] = x /\ level[k[i]] = level[x] + 1
        BY <1>5, <3>2
      <4>2. k[i] # x
        <5>1. level[x] \in Nat
          BY LevelDefined DEF NodeOrNull
        <5>2. level[x] + 1 # level[x]
          BY <5>1
        <5> QED
          BY <4>1, <5>2
      <4> QED
        BY <4>1, <4>2, LevelOrdered
    <3> QED
      BY <1>9, <2>2, <3>1, <3>2
  <2> QED
    BY <2>1, <2>3, LevelOrdered
<1>12. Handed(Append(o, x), LevelTodo(k), LevelBefore) /\ ToSet(Append(o, x)) = ToSet(o) \union {x}
  <2>1. Strict(LevelBefore)
    BY LevelOrdered
  <2>2. Handed(o, {x} \union LevelTodo(k), LevelBefore)
    BY <1>1, <1>10
  <2> QED
    BY <1>11, <2>1, <2>2, Given
<1>13. ASSUME NEW i \in DOMAIN k PROVE parent[k[i]] \in ToSet(Append(o, x))
  <2>1. k[i] \in ToSet(r) \/ k[i] \in ToSet(Children(x))
    BY <1>9 DEF ToSet
  <2>2. CASE k[i] \in ToSet(r)
    BY <1>7, <1>12, <2>2 DEF ToSet
  <2>3. CASE k[i] \in ToSet(Children(x))
    BY <1>5, <1>12, <2>3
  <2> QED
    BY <2>1, <2>2, <2>3
<1>14. Append(o, x) # <<>>
  <2>1. x \in ToSet(Append(o, x)) /\ ToSet(<<>>) = {}
    BY <1>12, Single
  <2> QED
    BY <2>1
<1>15. Waiting(k, Append(o, x))
  BY <1>9, <1>13, <1>14 DEF Waiting
<1> QED
  BY <1>12, <1>15 DEF LevelAt

(* search_min goes down to the left, where everything else comes later, ... *)
LEMMA MinWalkKeeps ==
  ASSUME Inv, OrderInv, NEW c, MinAt(c), lchild[c] # NULL
  PROVE  MinAt(lchild[c])
<1>1. c \in Node /\ c \in below[root] /\ root \in Node
  BY TreeShape DEF MinAt, NodeOrNull
<1>2. lchild[c] \in Node /\ lchild[c] \in below[lchild[c]]
  BY <1>1, TreeShape DEF NodeOrNull
<1>3. below[c] = {c} \union below[lchild[c]] \union below[rchild[c]] /\ below[c] \subseteq below[root]
  BY <1>1, TreeShape
<1>4. ASSUME NEW x \in below[lchild[c]], NEW y \in below[root] \ below[lchild[c]] PROVE <<x, y>> \in Before
  <2>1. CASE y \in below[c]
    BY <1>1, <1>3, <2>1, LeftToRight
  <2>2. CASE y \notin below[c]
    BY <1>3, <2>2 DEF MinAt
  <2> QED
    BY <2>1, <2>2
<1>5. lchild[c] \in below[root]
  BY <1>2, <1>3
<1> QED
  BY <1>4, <1>5 DEF MinAt

(* ... and search_max to the right.                                         *)
LEMMA MaxWalkKeeps ==
  ASSUME Inv, OrderInv, NEW c, MaxAt(c), rchild[c] # NULL
  PROVE  MaxAt(rchild[c])
<1>1. c \in Node /\ c \in below[root] /\ root \in Node
  BY TreeShape DEF MaxAt, NodeOrNull
<1>2. rchild[c] \in Node /\ rchild[c] \in below[rchild[c]]
  BY <1>1, TreeShape DEF NodeOrNull
<1>3. below[c] = {c} \union below[lchild[c]] \union below[rchild[c]] /\ below[c] \subseteq below[root]
  BY <1>1, TreeShape
<1>4. ASSUME NEW x \in below[rchild[c]], NEW y \in below[root] \ below[rchild[c]] PROVE <<y, x>> \in Before
  <2>1. CASE y \in below[c]
    BY <1>1, <1>3, <2>1, LeftToRight
  <2>2. CASE y \notin below[c]
    BY <1>3, <2>2 DEF MaxAt
  <2> QED
    BY <2>1, <2>2
<1>5. rchild[c] \in below[root]
  BY <1>2, <1>3
<1> QED
  BY <1>4, <1>5 DEF MaxAt

(* A loop starts at the root, with all of the tree to do.                   *)
LEMMA Starting ==
  ASSUME Inv, OrderInv
  PROVE  /\ PreAt(root, <<>>, <<>>) /\ InAt(root, <<>>, <<>>) /\ PostAt(root, <<>>, NULL, <<>>)
         /\ root # NULL => LevelAt(<<root>>, <<>>) /\ MinAt(root) /\ MaxAt(root)
<1>1. root \in NodeOrNull /\ below[NULL] = {} /\ DOMAIN <<>> = {} /\ <<>> \in Seq(Node) /\ ToSet(<<>>) = {}
  BY TreeShape DEF ToSet
<1>2. PreTodo(root, <<>>) = below[root] /\ InTodo(root, <<>>) = below[root]
  BY <1>1 DEF PreTodo, InTodo
<1>3. PostTodo(root, <<>>, NULL) = below[root]
  BY <1>1 DEF PostTodo, PostRest
<1>4. \A order : Handed(<<>>, below[root], order)
  BY <1>1 DEF Handed, Ordered
<1>5. LeftPath(root, <<>>) /\ Path(root, <<>>)
  BY <1>1 DEF LeftPath, Path
<1>6. ASSUME root # NULL PROVE LevelAt(<<root>>, <<>>) /\ MinAt(root) /\ MaxAt(root)
  <2>1. root \in Node /\ root \in below[root]
    BY <1>1, <1>6, TreeShape DEF NodeOrNull
  <2>2. <<root>> \in Seq(Node) /\ Ordered(<<root>>, LevelBefore)
    BY <2>1, Single
  <2>3. LevelTodo(<<root>>) = below[root]
    BY <2>1 DEF LevelTodo
  <2> QED
    BY <1>4, <2>1, <2>2, <2>3 DEF LevelAt, Waiting, MinAt, MaxAt
<1> QED
  BY <1>2, <1>3, <1>4, <1>5, <1>6 DEF PreAt, InAt, PostAt

(* A step of a loop leaves the tree alone, so that the invariant means the  *)
(* same before it and after it.                                             *)
LEMMA TreeStands ==
  ASSUME UNCHANGED vars
  PROVE  /\ PreAt(at, stack, out)' <=> PreAt(at', stack', out')
         /\ InAt(at, stack, out)' <=> InAt(at', stack', out')
         /\ PostAt(at, stack, tmp, out)' <=> PostAt(at', stack', tmp', out')
         /\ LevelAt(queue, out)' <=> LevelAt(queue', out')
         /\ MinAt(at)' <=> MinAt(at')
         /\ MaxAt(at)' <=> MaxAt(at')
<1>1. root' = root /\ parent' = parent /\ lchild' = lchild /\ rchild' = rchild
  BY DEF vars, links
<1>2. below' = below /\ level' = level
  BY <1>1 DEF below, level, NodeOrNull
<1>3. Before' = Before
  BY <1>1, <1>2 DEF Before
<1>4. PreBefore' = PreBefore /\ PostBefore' = PostBefore /\ LevelBefore' = LevelBefore
  BY <1>2, <1>3 DEF PreBefore, PostBefore, LevelBefore
<1>5. LeftPath(at, stack)' <=> LeftPath(at', stack')
  BY <1>1, <1>2 DEF LeftPath, NodeOrNull
<1>6. Path(at, stack)' <=> Path(at', stack')
  BY <1>1, <1>2 DEF Path, NodeOrNull
<1>7. Waiting(queue, out)' <=> Waiting(queue', out')
  BY <1>1, <1>4 DEF Waiting
<1>8. /\ PreTodo(at, stack)' = PreTodo(at', stack')
      /\ InTodo(at, stack)' = InTodo(at', stack')
      /\ PostTodo(at, stack, tmp)' = PostTodo(at', stack', tmp')
      /\ LevelTodo(queue)' = LevelTodo(queue')
  BY <1>1, <1>2 DEF PreTodo, InTodo, PostTodo, PostRest, LevelTodo
<1>9. PreAt(at, stack, out)' <=> PreAt(at', stack', out')
  BY <1>1, <1>2, <1>4, <1>5, <1>8 DEF PreAt, Handed
<1>10. InAt(at, stack, out)' <=> InAt(at', stack', out')
  BY <1>1, <1>2, <1>3, <1>5, <1>8 DEF InAt, Handed
<1>11. PostAt(at, stack, tmp, out)' <=> PostAt(at', stack', tmp', out')
  BY <1>1, <1>2, <1>4, <1>6, <1>8 DEF PostAt, Handed
<1>12. LevelAt(queue, out)' <=> LevelAt(queue', out')
  BY <1>1, <1>2, <1>4, <1>7, <1>8 DEF LevelAt, Handed
<1>13. (MinAt(at)' <=> MinAt(at')) /\ (MaxAt(at)' <=> MaxAt(at'))
  BY <1>1, <1>2, <1>3 DEF MinAt, MaxAt
<1> QED
  BY <1>9, <1>10, <1>11, <1>12, <1>13

(* Where a loop stands after a step that leaves the tree alone follows from *)
(* its variables.                                                           *)
LEMMA LoopStands ==
  ASSUME UNCHANGED vars,
         walk' \in {"none", "pre", "in", "post", "level", "min", "max"},
         walk' = "none" => Resting',
         walk' = "pre" => PreAt(at', stack', out'),
         walk' = "in" => InAt(at', stack', out'),
         walk' = "post" => PostAt(at', stack', tmp', out'),
         walk' = "level" => LevelAt(queue', out'),
         walk' = "min" => MinAt(at'),
         walk' = "max" => MaxAt(at')
  PROVE  WalkInv'
<1>1. /\ PreAt(at, stack, out)' <=> PreAt(at', stack', out')
      /\ InAt(at, stack, out)' <=> InAt(at', stack', out')
      /\ PostAt(at, stack, tmp, out)' <=> PostAt(at', stack', tmp', out')
      /\ LevelAt(queue, out)' <=> LevelAt(queue', out')
      /\ MinAt(at)' <=> MinAt(at')
      /\ MaxAt(at)' <=> MaxAt(at')
  BY TreeStands
<1> QED
  BY <1>1 DEF WalkInv

(* Every iteration of every loop keeps the invariant.                       *)
LEMMA LoopStep == Inv /\ OrderInv /\ WalkInv /\ (Walk \/ WalkLoop) /\ UNCHANGED vars => WalkInv'
<1> SUFFICES ASSUME Inv, OrderInv, WalkInv, Walk \/ WalkLoop, UNCHANGED vars PROVE WalkInv'
  OBVIOUS
<1>1. ASSUME NEW w, NEW q, Start(w, q),
             \/ w \in {"pre", "in", "post"}
             \/ root # NULL /\ (w \in {"min", "max"} \/ (w = "level" /\ q = <<root>>))
      PROVE  WalkInv'
  <2>1. /\ walk' = w /\ at' = root /\ queue' = q
        /\ stack' = <<>> /\ tmp' = NULL /\ out' = <<>>
    BY <1>1 DEF Start, WalkInv, Resting
  <2>2. /\ PreAt(root, <<>>, <<>>) /\ InAt(root, <<>>, <<>>) /\ PostAt(root, <<>>, NULL, <<>>)
        /\ root # NULL => LevelAt(<<root>>, <<>>) /\ MinAt(root) /\ MaxAt(root)
    BY Starting
  <2> QED
    BY <1>1, <2>1, <2>2, LoopStands
<1>2. CASE PreVisit
  <2>1. PreAt(at, stack, out) /\ at # NULL
    BY <1>2 DEF PreVisit, WalkInv
  <2>2. at \in Node
    BY <2>1 DEF PreAt, LeftPath, NodeOrNull
  <2>3. PreAt(lchild[at], <<at>> \o stack, Append(out, at))
    BY <2>1, <2>2, PreVisitKeeps
  <2>4. walk' = "pre" /\ PreAt(at', stack', out')
    BY <1>2, <2>3 DEF PreVisit
  <2> QED
    BY <2>4, LoopStands
<1>3. CASE PreTurn
  <2>1. PreAt(NULL, stack, out) /\ stack \in Seq(Node) /\ stack # <<>>
    BY <1>3 DEF PreTurn, WalkInv, PreAt, LeftPath
  <2>2. Head(stack) \in Node /\ Tail(stack) \in Seq(Node) /\ stack = <<Head(stack)>> \o Tail(stack)
    BY <2>1, Popped
  <2>3. PreAt(rchild[Head(stack)], Tail(stack), out)
    BY <2>1, <2>2, PreTurnKeeps
  <2>4. walk' = "pre" /\ PreAt(at', stack', out')
    BY <1>3, <2>3 DEF PreTurn
  <2> QED
    BY <2>4, LoopStands
<1>4. CASE Descend
  <2>1. CASE walk = "in"
    <3>1. InAt(at, stack, out) /\ at \in Node
      BY <1>4, <2>1 DEF Descend, WalkInv, InAt, LeftPath, NodeOrNull
    <3>2. InAt(lchild[at], <<at>> \o stack, out)
      BY <3>1, InDescendKeeps
    <3>3. walk' = "in" /\ InAt(at', stack', out')
      BY <1>4, <2>1, <3>2 DEF Descend
    <3> QED
      BY <3>3, LoopStands
  <2>2. CASE walk = "post"
    <3>1. PostAt(at, stack, tmp, out) /\ at \in Node
      BY <1>4, <2>2 DEF Descend, WalkInv, PostAt, Path, NodeOrNull
    <3>2. PostAt(lchild[at], <<at>> \o stack, tmp, out)
      BY <3>1, PostDescendKeeps
    <3>3. walk' = "post" /\ PostAt(at', stack', tmp', out')
      BY <1>4, <2>2, <3>2 DEF Descend
    <3> QED
      BY <3>3, LoopStands
  <2> QED
    BY <1>4, <2>1, <2>2 DEF Descend
<1>5. CASE InVisit
  <2>1. InAt(NULL, stack, out) /\ stack \in Seq(Node) /\ stack # <<>>
    BY <1>5 DEF InVisit, WalkInv, InAt, LeftPath
  <2>2. Head(stack) \in Node /\ Tail(stack) \in Seq(Node) /\ stack = <<Head(stack)>> \o Tail(stack)
    BY <2>1, Popped
  <2>3. InAt(rchild[Head(stack)], Tail(stack), Append(out, Head(stack)))
    BY <2>1, <2>2, InVisitKeeps
  <2>4. walk' = "in" /\ InAt(at', stack', out')
    BY <1>5, <2>3 DEF InVisit
  <2> QED
    BY <2>4, LoopStands
<1>6. CASE PostTurn
  <2>1. PostAt(NULL, stack, tmp, out) /\ stack \in Seq(Node) /\ stack # <<>>
    BY <1>6 DEF PostTurn, WalkInv, PostAt, Path
  <2>2. Head(stack) \in Node /\ Tail(stack) \in Seq(Node) /\ stack = <<Head(stack)>> \o Tail(stack)
    BY <2>1, Popped
  <2>3. PostAt(rchild[Head(stack)], stack, tmp, out)
    BY <1>6, <2>1, <2>2, PostTurnKeeps DEF PostTurn
  <2>4. walk' = "post" /\ PostAt(at', stack', tmp', out')
    BY <1>6, <2>3 DEF PostTurn
  <2> QED
    BY <2>4, LoopStands
<1>7. CASE PostVisit
  <2>1. PostAt(NULL, stack, tmp, out) /\ stack \in Seq(Node) /\ stack # <<>>
    BY <1>7 DEF PostVisit, WalkInv, PostAt, Path
  <2>2. Head(stack) \in Node /\ Tail(stack) \in Seq(Node) /\ stack = <<Head(stack)>> \o Tail(stack)
    BY <2>1, Popped
  <2>3. PostAt(NULL, Tail(stack), Head(stack), Append(out, Head(stack)))
    BY <1>7, <2>1, <2>2, PostVisitKeeps DEF PostVisit
  <2>4. walk' = "post" /\ PostAt(at', stack', tmp', out')
    BY <1>7, <2>3 DEF PostVisit
  <2> QED
    BY <2>4, LoopStands
<1>8. CASE LevelVisit
  <2>1. LevelAt(queue, out) /\ queue \in Seq(Node) /\ queue # <<>>
    BY <1>8 DEF LevelVisit, WalkInv, LevelAt, Waiting
  <2>2. Head(queue) \in Node /\ Tail(queue) \in Seq(Node) /\ queue = <<Head(queue)>> \o Tail(queue)
    BY <2>1, Popped
  <2>3. LevelAt(Tail(queue) \o Children(Head(queue)), Append(out, Head(queue)))
    BY <2>1, <2>2, LevelVisitKeeps
  <2>4. walk' = "level" /\ LevelAt(queue', out')
    BY <1>8, <2>3 DEF LevelVisit
  <2> QED
    BY <2>4, LoopStands
<1>9. CASE MinWalk
  <2>1. walk' = "min" /\ MinAt(at')
    BY <1>9, MinWalkKeeps DEF MinWalk, WalkInv
  <2> QED
    BY <2>1, LoopStands
<1>10. CASE MaxWalk
  <2>1. walk' = "max" /\ MaxAt(at')
    BY <1>10, MaxWalkKeeps DEF MaxWalk, WalkInv
  <2> QED
    BY <2>1, LoopStands
<1>11. CASE Leave
  <2>1. walk' = "none" /\ Resting'
    BY <1>11 DEF Leave, Resting
  <2> QED
    BY <2>1, LoopStands
<1> QED
  BY <1>1, <1>2, <1>3, <1>4, <1>5, <1>6, <1>7, <1>8, <1>9, <1>10, <1>11 DEF Walk, WalkLoop

(* So does every step: a function that changes the tree runs only when no   *)
(* loop does.                                                               *)
LEMMA WalkStep == Inv /\ OrderInv /\ WalkInv /\ [WalkNext]_<<vars, walkvars>> => WalkInv'
<1> SUFFICES ASSUME Inv, OrderInv, WalkInv, [WalkNext]_<<vars, walkvars>> PROVE WalkInv'
  OBVIOUS
<1>1. CASE Next /\ walk = "none" /\ UNCHANGED walkvars
  <2>1. walk' = "none" /\ Resting'
    BY <1>1 DEF WalkInv, Resting, walkvars
  <2> QED
    BY <2>1 DEF WalkInv
<1>2. CASE (Walk \/ WalkLoop) /\ UNCHANGED vars
  BY <1>2, LoopStep
<1>3. CASE UNCHANGED <<vars, walkvars>>
  <2>1. UNCHANGED vars /\ UNCHANGED walkvars
    BY <1>3
  <2>2. walk' = walk /\ at' = at /\ stack' = stack /\ queue' = queue /\ tmp' = tmp /\ out' = out
    BY <2>1 DEF walkvars
  <2>3. Resting => Resting'
    BY <2>2 DEF Resting
  <2> QED
    BY <2>1, <2>2, <2>3, LoopStands DEF WalkInv
<1> QED
  BY <1>1, <1>2, <1>3 DEF WalkNext

(* The traversals and the other functions that read the tree change none of *)
(* it: with them it is still the tree of BTree.                             *)
THEOREM WalksOnlyRead == WalkSpec => Spec
<1>1. [WalkNext]_<<vars, walkvars>> => [Next]_vars
  BY DEF WalkNext
<1> QED
  BY <1>1, PTL DEF WalkSpec, WalkInit, Spec

(* The tree and the loops that read it satisfy their invariants at any time. *)
LEMMA WalkInvariance == WalkSpec => [](Inv /\ OrderInv /\ WalkInv)
<1>1. Resting => WalkInv
  BY DEF WalkInv, Resting
<1> QED
  BY <1>1, WalkStep, WalksOnlyRead, Invariance, OrderInvariance, PTL DEF WalkSpec, WalkInit

(* The first node in order is before every other, and the last after it.    *)
LEMMA Ends ==
  ASSUME Inv, OrderInv, NEW c \in below[root]
  PROVE  /\ (\A y \in below[root] : y # c => <<c, y>> \in Before) => c = Head(in_order[root])
         /\ (\A y \in below[root] : y # c => <<y, c>> \in Before) => c = Last(in_order[root])
<1> PICK s : s = in_order[root]
  OBVIOUS
<1>1. s \in Seq(Node) /\ ToSet(s) = below[root] /\ Ordered(s, Before)
  BY InOrderLists, TreeShape DEF Listing
<1>2. PICK k \in DOMAIN s : c = s[k]
  BY <1>1 DEF ToSet
<1>3. /\ Len(s) \in Nat /\ DOMAIN s = 1..Len(s) /\ k \in Nat /\ 1 <= k /\ k <= Len(s)
      /\ 1 \in DOMAIN s /\ Len(s) \in DOMAIN s /\ Head(s) = s[1]
  BY <1>1
<1>4. s[1] \in below[root] /\ s[Len(s)] \in below[root]
  BY <1>1, <1>3 DEF ToSet
<1>5. ASSUME \A y \in below[root] : y # c => <<c, y>> \in Before PROVE c = s[1]
  <2>1. CASE k = 1
    BY <1>2, <2>1
  <2>2. CASE k # 1
    <3>1. 1 < k
      BY <1>3, <2>2
    <3>2. <<s[1], c>> \in Before
      BY <1>1, <1>2, <1>3, <3>1 DEF Ordered
    <3> QED
      BY <1>4, <1>5, <3>2, BeforeStrict DEF Strict
  <2> QED
    BY <2>1, <2>2
<1>6. ASSUME \A y \in below[root] : y # c => <<y, c>> \in Before PROVE c = s[Len(s)]
  <2>1. CASE k = Len(s)
    BY <1>2, <2>1
  <2>2. CASE k # Len(s)
    <3>1. k < Len(s)
      BY <1>3, <2>2
    <3>2. <<c, s[Len(s)]>> \in Before
      BY <1>1, <1>2, <1>3, <3>1 DEF Ordered
    <3> QED
      BY <1>4, <1>6, <3>2, BeforeStrict DEF Strict
  <2> QED
    BY <2>1, <2>2
<1> QED
  BY <1>3, <1>5, <1>6 DEF Last

(* From the invariant of the loops follows what they give and where they    *)
(* stop.                                                                    *)
LEMMA LoopsHold == Inv /\ OrderInv /\ WalkInv => LoopsAgree
<1> SUFFICES ASSUME Inv, OrderInv, WalkInv PROVE LoopsAgree
  OBVIOUS
<1>1. root \in NodeOrNull /\ below[NULL] = {} /\ DOMAIN <<>> = {}
  BY TreeShape
<1>2. ASSUME walk = "pre" PROVE Follows(pre_order[root])
  <2>1. Handed(out, PreTodo(at, stack), PreBefore)
    BY <1>2 DEF WalkInv, PreAt
  <2>2. Ended => PreTodo(at, stack) = {}
    BY <1>1, <1>2 DEF Ended, PreTodo
  <2>3. Strict(PreBefore) /\ Listing(pre_order[root], root, PreBefore)
    BY <1>1, PreOrdered, PreOrderLists
  <2> QED
    BY <2>1, <2>2, <2>3, Beginning DEF Follows
<1>3. ASSUME walk = "in" PROVE Follows(in_order[root])
  <2>1. Handed(out, InTodo(at, stack), Before)
    BY <1>3 DEF WalkInv, InAt
  <2>2. Ended => InTodo(at, stack) = {}
    BY <1>1, <1>3 DEF Ended, InTodo
  <2>3. Strict(Before) /\ Listing(in_order[root], root, Before)
    BY <1>1, BeforeStrict, InOrderLists
  <2> QED
    BY <2>1, <2>2, <2>3, Beginning DEF Follows
<1>4. ASSUME walk = "post" PROVE Follows(post_order[root])
  <2>1. Handed(out, PostTodo(at, stack, tmp), PostBefore)
    BY <1>4 DEF WalkInv, PostAt
  <2>2. Ended => PostTodo(at, stack, tmp) = {}
    BY <1>1, <1>4 DEF Ended, PostTodo, PostRest
  <2>3. Strict(PostBefore) /\ Listing(post_order[root], root, PostBefore)
    BY <1>1, PostOrdered, PostOrderLists
  <2> QED
    BY <2>1, <2>2, <2>3, Beginning DEF Follows
<1>5. ASSUME walk = "level" PROVE Ordered(out, LevelBefore) /\ (Ended => Lists(out, LevelBefore))
  <2>1. Handed(out, LevelTodo(queue), LevelBefore)
    BY <1>5 DEF WalkInv, LevelAt
  <2>2. Ended => LevelTodo(queue) = {}
    BY <1>1, <1>5 DEF Ended, LevelTodo
  <2> QED
    BY <2>1, <2>2 DEF Handed, Lists
<1>6. ASSUME walk = "min", Ended PROVE at = Head(in_order[root])
  <2>1. MinAt(at) /\ lchild[at] = NULL
    BY <1>6 DEF WalkInv, Ended
  <2>2. at \in Node /\ at \in below[root]
    BY <2>1, TreeShape DEF MinAt
  <2>3. below[at] = {at} \union below[rchild[at]] /\ at \in below[at]
    BY <1>1, <2>1, <2>2, TreeShape
  <2>4. \A y \in below[root] : y # at => <<at, y>> \in Before
    BY <2>1, <2>2, <2>3, LeftToRight DEF MinAt
  <2> QED
    BY <2>2, <2>4, Ends
<1>7. ASSUME walk = "max", Ended PROVE at = Last(in_order[root])
  <2>1. MaxAt(at) /\ rchild[at] = NULL
    BY <1>7 DEF WalkInv, Ended
  <2>2. at \in Node /\ at \in below[root]
    BY <2>1, TreeShape DEF MaxAt
  <2>3. below[at] = {at} \union below[lchild[at]] /\ at \in below[at]
    BY <1>1, <2>1, <2>2, TreeShape
  <2>4. \A y \in below[root] : y # at => <<y, at>> \in Before
    BY <2>1, <2>2, <2>3, LeftToRight DEF MaxAt
  <2> QED
    BY <2>2, <2>4, Ends
<1> QED
  BY <1>2, <1>3, <1>4, <1>5, <1>6, <1>7 DEF LoopsAgree

(* The traversals, is_balance, search_min and search_max return what they   *)
(* should for every set of nodes, any values and any sequence of calls; the *)
(* loops give to todo what the recursive functions do, node by node.        *)
THEOREM WalksAgreement == WalkSpec => []WalksAgree
<1>1. Inv /\ OrderInv /\ WalkInv => WalksAgree
  BY RecursionHolds, LoopsHold DEF WalksAgree
<1> QED
  BY <1>1, WalkInvariance, PTL
=============================================================================
