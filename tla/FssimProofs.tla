----------------------------- MODULE FssimProofs -----------------------------
(***************************************************************************)
(* Theorems about the file system simulator, for any names and any supply  *)
(* of memory: what can be reached from the root is a tree of allocated     *)
(* nodes with the current directory in it, whatever was typed, saved,      *)
(* truncated or reloaded, and memory is lost only by rm of a file that has *)
(* entries.  What reload reads does not matter to them: the file is not    *)
(* part of the invariant.                                                  *)
(*                                                                         *)
(* What can be reached is the smallest set that is closed under the        *)
(* pointers, so a set is shown to hold all of it by showing it closed.     *)
(***************************************************************************)
EXTENDS Fssim, FiniteSetTheorems, TLAPS

\* The values pointers have.
Pointers ==
    /\ child \in [Nodes -> Addr \cup {Null}]
    /\ sibling \in [Nodes -> Addr \cup {Null}]
    /\ parent \in [Nodes -> Nodes]
    /\ alloc \subseteq Addr
    /\ cwd \in Nodes

\* Nothing that was freed, or never allocated, can be reached.
Allocated == Tree \subseteq alloc \cup {Root}

\* At most one pointer leads to a node.
SinglePointers ==
    \A m, k \in Tree :
        /\ child[m] = child[k] /\ child[m] # Null => m = k
        /\ sibling[m] = sibling[k] /\ sibling[m] # Null => m = k
        /\ child[m] = sibling[k] => child[m] = Null

\* Parent pointers: the first entry of a directory has that directory as parent,
\* and its siblings have the same.
Parents ==
    /\ parent[Root] = Root
    /\ \A m \in Tree :
          /\ child[m] # Null => parent[child[m]] = m
          /\ sibling[m] # Null => parent[sibling[m]] = parent[m]

IInv ==
    /\ Pointers
    /\ Allocated
    /\ SinglePointers
    /\ Parents
    /\ cwd \in Tree

-----------------------------------------------------------------------------
(* What can be reached. *)

Closed(S) ==
    S \subseteq Nodes /\ \A x \in S : {child[x], sibling[x]} \subseteq S \cup {Null}

\* The tree is closed and holds the root.
LEMMA TreeClosed ==
    ASSUME Pointers
    PROVE  Root \in Tree /\ Closed(Tree)
<1>1. Root # Null /\ Root \in Nodes /\ Tree \subseteq Nodes
  BY FssimAssumption DEF Tree, Reach, Nodes
<1>2. Root \in Tree
  BY <1>1 DEF Tree, Reach
<1>3. ASSUME NEW x \in Tree, NEW y \in {child[x], sibling[x]}, y # Null
      PROVE  y \in Tree
  <2>1. x \in Nodes /\ y \in Nodes
    BY <1>1, <1>3 DEF Pointers, Nodes
  <2>2. ASSUME NEW S \in SUBSET Nodes, Root \in S,
               \A z \in S : {child[z], sibling[z]} \subseteq S \cup {Null}
        PROVE  y \in S
    <3>1. x \in S
      BY <1>1, <1>3, <2>2 DEF Tree, Reach
    <3>2. QED
      BY <1>3, <2>2, <3>1
  <2>3. QED
    BY <1>1, <2>1, <2>2 DEF Tree, Reach
<1>4. QED
  BY <1>1, <1>2, <1>3 DEF Closed

\* It is the smallest such set.
LEMMA TreeSmallest ==
    ASSUME NEW S, Closed(S), Root \in S
    PROVE  Tree \subseteq S
  BY FssimAssumption DEF Closed, Tree, Reach

\* The entries of a directory of the tree are in the tree, and it is their parent.
LEMMA Entries ==
    ASSUME Pointers, Parents, NEW d \in Tree, NEW n \in After(child[d])
    PROVE  n \in Tree /\ n \in Addr /\ parent[n] = d
<1> DEFINE S == {m \in Tree : m \in Addr /\ parent[m] = d}
<1>1. d \in Nodes /\ Tree \subseteq Nodes /\ Addr \subseteq Nodes
  BY TreeClosed DEF Closed, Nodes
<1>2. child[d] # Null
  BY DEF After
<1>3. child[d] \in S
  BY <1>1, <1>2, TreeClosed DEF Closed, Pointers, Parents
<1>4. \A x \in S : sibling[x] \in S \cup {Null}
  BY <1>1, TreeClosed DEF Closed, Pointers, Parents
<1>5. S \in SUBSET Nodes
  BY <1>1
<1> HIDE DEF S
<1>6. n \in S
  BY <1>2, <1>3, <1>4, <1>5 DEF After
<1>7. QED
  BY <1>6 DEF S

\* What searchTree(root, ...) visits is in the tree.
LEMMA Visited == ASSUME Pointers PROVE Under(Root) \subseteq Tree
<1>1. Root # Null /\ Root \in Tree /\ Closed(Tree)
  BY TreeClosed, FssimAssumption
<1>2. Reach(child[Root]) \subseteq Tree
  BY <1>1 DEF Closed, Reach
<1>3. QED
  BY <1>1, <1>2 DEF Under

\* The parent of a node of the tree is in the tree.
LEMMA ParentsIn == ASSUME Pointers, Parents, NEW n \in Tree PROVE parent[n] \in Tree
<1> DEFINE S == {m \in Tree : parent[m] \in Tree}
<1>1. Root \in S
  BY TreeClosed DEF Parents
<1>2. Closed(S)
  <2>1. S \subseteq Nodes
    BY TreeClosed DEF Closed
  <2>2. ASSUME NEW x \in S
        PROVE  child[x] \in S \cup {Null} /\ sibling[x] \in S \cup {Null}
    BY TreeClosed DEF Closed, Parents
  <2>3. QED
    BY <2>1, <2>2 DEF Closed
<1>3. QED
  BY <1>1, <1>2, TreeSmallest

\* No entry is its own parent.
LEMMA NoOwnParent ==
    ASSUME Pointers, Parents, NEW n \in Tree, n \in Addr PROVE parent[n] # n
<1> SUFFICES ASSUME parent[n] = n PROVE FALSE
  OBVIOUS
<1> DEFINE S == {m \in Tree : m = Root \/ parent[m] # n}
<1>1. Root \in S /\ n # Root /\ n \notin S
  BY TreeClosed, FssimAssumption
<1>2. Closed(S)
  <2>1. S \subseteq Nodes
    BY TreeClosed DEF Closed
  <2>2. ASSUME NEW x \in S
        PROVE  child[x] \in S \cup {Null} /\ sibling[x] \in S \cup {Null}
    BY <1>1, TreeClosed DEF Closed, Parents
  <2>3. QED
    BY <2>1, <2>2 DEF Closed
<1>3. QED
  BY <1>1, <1>2, TreeSmallest

\* A node of the tree other than the root has a pointer that leads to it.
LEMMA Reached ==
    ASSUME Pointers, NEW n \in Tree, n # Root
    PROVE  \E m \in Tree : child[m] = n \/ sibling[m] = n
<1> SUFFICES ASSUME \A m \in Tree : child[m] # n /\ sibling[m] # n PROVE FALSE
  OBVIOUS
<1>1. Root \in Tree \ {n} /\ Closed(Tree \ {n})
  BY TreeClosed DEF Closed
<1>2. QED
  BY <1>1, TreeSmallest

\* So the invariant implies the property.
LEMMA IntactFollows == IInv => TreeIntact
<1> SUFFICES ASSUME IInv PROVE TreeIntact
  OBVIOUS
<1> USE DEF IInv
<1>1. Tree \subseteq Nodes
  BY TreeClosed DEF Closed
<1>2. ASSUME NEW n \in Tree \ {Root} PROVE PointersTo(n, Tree) = 1
  <2> DEFINE C == {m \in Tree : child[m] = n}
             B == {m \in Tree : sibling[m] = n}
  <2>1. n # Null
    BY <1>1, FssimAssumption DEF Nodes
  <2>2. \E m \in Tree : (C = {m} /\ B = {}) \/ (C = {} /\ B = {m})
    <3>1. PICK m \in Tree : child[m] = n \/ sibling[m] = n
      BY <1>2, Reached
    <3>2. CASE child[m] = n
      <4>1. C = {m} /\ B = {}
        BY <2>1, <3>2 DEF SinglePointers
      <4>2. QED
        BY <4>1
    <3>3. CASE sibling[m] = n
      <4>1. C = {} /\ B = {m}
        BY <2>1, <3>3 DEF SinglePointers
      <4>2. QED
        BY <4>1
    <3>4. QED
      BY <3>1, <3>2, <3>3
  <2>3. Cardinality(C) + Cardinality(B) = 1
    <3>1. Cardinality({}) = 0 /\ \A m \in Tree : Cardinality({m}) = 1
      BY FS_EmptySet, FS_Singleton
    <3> HIDE DEF C, B
    <3>2. QED
      BY <2>2, <3>1
  <2>4. QED
    BY <2>3 DEF PointersTo
<1>3. ASSUME NEW d \in Tree, NEW n \in After(child[d]) PROVE parent[n] = d
  BY <1>3, Entries
<1>4. QED
  BY <1>2, <1>3 DEF TreeIntact, Allocated

-----------------------------------------------------------------------------
(* A node is added, or taken out. *)

\* The tree after a step that changes the pointers is closed and the smallest such
\* set, by what those pointers are then.
ClosedNext(S) ==
    S \subseteq Nodes /\ \A x \in S : {child'[x], sibling'[x]} \subseteq S \cup {Null}

LEMMA NextTreeClosed ==
    ASSUME Pointers'
    PROVE  Root \in Tree' /\ ClosedNext(Tree')
<1>1. Root # Null /\ Root \in Nodes /\ Tree' \subseteq Nodes
  BY FssimAssumption DEF Tree, Reach, Nodes
<1>2. Root \in Tree'
  BY <1>1 DEF Tree, Reach
<1>3. ASSUME NEW x \in Tree', NEW y \in {child'[x], sibling'[x]}, y # Null
      PROVE  y \in Tree'
  <2>1. x \in Nodes /\ y \in Nodes
    BY <1>1, <1>3 DEF Pointers, Nodes
  <2>2. ASSUME NEW S \in SUBSET Nodes, Root \in S,
               \A z \in S : {child'[z], sibling'[z]} \subseteq S \cup {Null}
        PROVE  y \in S
    <3>1. x \in S
      BY <1>1, <1>3, <2>2 DEF Tree, Reach
    <3>2. QED
      BY <1>3, <2>2, <3>1
  <2>3. QED
    BY <1>1, <2>1, <2>2 DEF Tree, Reach
<1>4. QED
  BY <1>1, <1>2, <1>3 DEF ClosedNext

LEMMA NextTreeSmallest ==
    ASSUME NEW S, ClosedNext(S), Root \in S
    PROVE  Tree' \subseteq S
  BY FssimAssumption DEF ClosedNext, Tree, Reach

\* A new node as the first entry of d.
LEMMA AddedInFront ==
    ASSUME IInv, NEW d \in Tree, NEW n \in Addr \ alloc,
           Pointers', alloc' = alloc \cup {n}, cwd' = cwd,
           child'[d] = n, child'[n] = Null, sibling'[n] = child[d], parent'[n] = d,
           \A m \in Tree : /\ m # d => child'[m] = child[m]
                          /\ sibling'[m] = sibling[m] /\ parent'[m] = parent[m]
    PROVE  IInv' /\ Tree \cup {n} \subseteq Tree'
<1> USE DEF IInv
<1>1. /\ n \in Nodes /\ n # Root /\ n # Null /\ Tree \subseteq Nodes
      /\ n \notin Tree /\ d # n /\ Null \notin Nodes
  BY FssimAssumption, TreeClosed DEF Closed, Nodes, Allocated
<1>4. Tree' \subseteq Tree \cup {n}
  <2>1. ClosedNext(Tree \cup {n})
    BY <1>1, TreeClosed DEF Closed, ClosedNext
  <2>2. QED
    BY <2>1, NextTreeSmallest, TreeClosed
<1>5. Tree \subseteq Tree'
  <2>1. Root \in Tree' \cap Tree /\ ClosedNext(Tree')
    BY NextTreeClosed, TreeClosed
  <2>2. ASSUME NEW x \in Tree' \cap Tree
        PROVE  child[x] \in Tree' \cup {Null} /\ sibling[x] \in Tree' \cup {Null}
    <3>1. CASE x = d
      BY <1>1, <2>1, <3>1 DEF ClosedNext
    <3>2. CASE x # d
      BY <2>1, <3>2 DEF ClosedNext
    <3>3. QED
      BY <3>1, <3>2
  <2>3. Closed(Tree' \cap Tree)
    BY <2>2, TreeClosed DEF Closed
  <2>4. QED
    BY <2>1, <2>3, TreeSmallest
<1>6. n \in Tree'
  BY <1>1, <1>5, NextTreeClosed DEF ClosedNext
<1>7. Allocated'
  BY <1>4 DEF Allocated
<1>8. SinglePointers'
  <2>1. \A m \in Tree : child[m] # n /\ sibling[m] # n
    BY <1>1, TreeClosed DEF Closed
  <2>2. QED
    BY <1>4, <2>1 DEF SinglePointers
<1>9. Parents'
  <2>1. \A m \in Tree : child[m] # n /\ sibling[m] # n
    BY <1>1, TreeClosed DEF Closed
  <2>2. parent'[Root] = Root
    BY TreeClosed DEF Parents
  <2>3. child[d] # Null => child[d] \in Tree /\ parent[child[d]] = d
    BY TreeClosed DEF Closed, Parents
  <2>4. ASSUME NEW m \in Tree, m # d
        PROVE  child'[m] # Null => parent'[child'[m]] = m
    BY <2>4, TreeClosed DEF Closed, Parents
  <2>5. ASSUME NEW m \in Tree
        PROVE  sibling'[m] # Null => parent'[sibling'[m]] = parent'[m]
    BY TreeClosed DEF Closed, Parents
  <2>6. QED
    BY <1>4, <2>2, <2>3, <2>4, <2>5 DEF Parents
<1>10. QED
  BY <1>5, <1>6, <1>7, <1>8, <1>9

\* A new node behind the last entry of d.
LEMMA AddedBehind ==
    ASSUME IInv, NEW d \in Tree, NEW n \in Addr \ alloc,
           NEW last \in After(child[d]), sibling[last] = Null,
           Pointers', alloc' = alloc \cup {n}, cwd' = cwd,
           sibling'[last] = n, child'[n] = Null, sibling'[n] = Null, parent'[n] = d,
           \A m \in Tree : /\ m # last => sibling'[m] = sibling[m]
                          /\ child'[m] = child[m] /\ parent'[m] = parent[m]
    PROVE  IInv' /\ Tree \cup {n} \subseteq Tree'
<1> USE DEF IInv
<1>0. last \in Tree /\ parent[last] = d
  BY Entries
<1>1. /\ n \in Nodes /\ n # Root /\ n # Null /\ Tree \subseteq Nodes
      /\ n \notin Tree /\ last # n /\ Null \notin Nodes
  BY <1>0, FssimAssumption, TreeClosed DEF Closed, Nodes, Allocated
<1>4. Tree' \subseteq Tree \cup {n}
  <2>1. ClosedNext(Tree \cup {n})
    BY <1>1, TreeClosed DEF Closed, ClosedNext
  <2>2. QED
    BY <2>1, NextTreeSmallest, TreeClosed
<1>5. Tree \subseteq Tree'
  <2>1. Root \in Tree' \cap Tree /\ ClosedNext(Tree')
    BY NextTreeClosed, TreeClosed
  <2>2. ASSUME NEW x \in Tree' \cap Tree
        PROVE  child[x] \in Tree' \cup {Null} /\ sibling[x] \in Tree' \cup {Null}
    <3>1. CASE x = last
      BY <2>1, <3>1 DEF ClosedNext
    <3>2. CASE x # last
      BY <2>1, <3>2 DEF ClosedNext
    <3>3. QED
      BY <3>1, <3>2
  <2>3. Closed(Tree' \cap Tree)
    BY <2>2, TreeClosed DEF Closed
  <2>4. QED
    BY <2>1, <2>3, TreeSmallest
<1>6. n \in Tree'
  BY <1>0, <1>1, <1>5, NextTreeClosed DEF ClosedNext
<1>7. Allocated'
  BY <1>4 DEF Allocated
<1>8. \A m \in Tree : child[m] # n /\ sibling[m] # n
  BY <1>1, TreeClosed DEF Closed
<1>9. SinglePointers'
  BY <1>0, <1>4, <1>8 DEF SinglePointers
<1>10. Parents'
  <2>1. parent'[Root] = Root
    BY TreeClosed DEF Parents
  <2>2. ASSUME NEW m \in Tree
        PROVE  child'[m] # Null => parent'[child'[m]] = m
    BY TreeClosed DEF Closed, Parents
  <2>3. ASSUME NEW m \in Tree, m # last
        PROVE  sibling'[m] # Null => parent'[sibling'[m]] = parent'[m]
    BY <2>3, TreeClosed DEF Closed, Parents
  <2>4. QED
    BY <1>0, <1>4, <2>1, <2>2, <2>3 DEF Parents
<1>11. QED
  BY <1>5, <1>6, <1>7, <1>9, <1>10

\* No entry is its own sibling.
LEMMA NoOwnSibling ==
    ASSUME IInv, NEW n \in Tree, n \in Addr PROVE sibling[n] # n
<1> SUFFICES ASSUME sibling[n] = n PROVE FALSE
  OBVIOUS
<1>1. n # Null /\ n # Root
  BY FssimAssumption
<1>2. Root \in Tree \ {n} /\ Closed(Tree \ {n})
  BY <1>1, TreeClosed DEF IInv, Closed, SinglePointers
<1>3. QED
  BY <1>2, TreeSmallest

\* The parent of a node is in the tree after a step as well.
LEMMA NextParentsIn ==
    ASSUME Pointers', Parents', NEW n \in Tree' PROVE parent'[n] \in Tree'
<1> DEFINE S == {m \in Tree' : parent'[m] \in Tree'}
<1>1. Root \in S
  BY NextTreeClosed DEF Parents
<1>2. ClosedNext(S)
  <2>1. S \subseteq Nodes
    BY NextTreeClosed DEF ClosedNext
  <2>2. ASSUME NEW x \in S
        PROVE  child'[x] \in S \cup {Null} /\ sibling'[x] \in S \cup {Null}
    BY NextTreeClosed DEF ClosedNext, Parents
  <2>3. QED
    BY <2>1, <2>2 DEF ClosedNext
<1>3. QED
  BY <1>1, <1>2, NextTreeSmallest

\* The first entry of the current directory is taken out.
LEMMA TakenFirst ==
    ASSUME IInv, NEW n \in Addr, child[cwd] = n,
           Pointers', alloc' = alloc \ {n}, cwd' = cwd,
           child'[cwd] = sibling[n],
           \A m \in Tree \ {n} : /\ m # cwd => child'[m] = child[m]
                                 /\ sibling'[m] = sibling[m] /\ parent'[m] = parent[m]
    PROVE  /\ IInv' /\ n \notin Tree'
           /\ child[n] = Null => Tree \ {n} \subseteq Tree'
<1> USE DEF IInv
<1>1. /\ n # Root /\ n # Null /\ Tree \subseteq Nodes /\ Null \notin Nodes
      /\ n \in Tree /\ parent[n] = cwd /\ n # cwd /\ sibling[n] # n
  <2>1. n # Root /\ n # Null /\ Tree \subseteq Nodes /\ Null \notin Nodes
    BY FssimAssumption, TreeClosed DEF Closed, Nodes
  <2>2. n \in Tree /\ parent[n] = cwd
    BY <2>1, TreeClosed DEF Closed, Parents
  <2>3. QED
    BY <2>1, <2>2, NoOwnParent, NoOwnSibling
<1>2. Tree' \subseteq Tree \ {n}
  <2>1. ASSUME NEW x \in Tree \ {n}
        PROVE  child'[x] \in (Tree \ {n}) \cup {Null}
    <3>1. CASE x = cwd
      BY <1>1, <3>1, TreeClosed DEF Closed
    <3>2. CASE x # cwd
      BY <1>1, <3>2, TreeClosed DEF Closed, SinglePointers
    <3>3. QED
      BY <3>1, <3>2
  <2>2. ASSUME NEW x \in Tree \ {n}
        PROVE  sibling'[x] \in (Tree \ {n}) \cup {Null}
    BY <1>1, TreeClosed DEF Closed, SinglePointers
  <2>3. ClosedNext(Tree \ {n})
    BY <1>1, <2>1, <2>2 DEF ClosedNext
  <2>4. QED
    BY <1>1, <2>3, NextTreeSmallest, TreeClosed
<1>3. cwd \in Tree'
  <2> SUFFICES ASSUME cwd \notin Tree' PROVE FALSE
    OBVIOUS
  <2>1. Closed(Tree')
    BY <1>2, NextTreeClosed DEF ClosedNext, Closed
  <2>2. QED
    BY <2>1, TreeSmallest, NextTreeClosed
<1>4. Allocated'
  BY <1>2 DEF Allocated
<1>5. SinglePointers'
  <2>1. ASSUME NEW m \in Tree', NEW k \in Tree'
        PROVE  /\ child'[m] = child'[k] /\ child'[m] # Null => m = k
               /\ sibling'[m] = sibling'[k] /\ sibling'[m] # Null => m = k
               /\ child'[m] = sibling'[k] => child'[m] = Null
    <3>1. m \in Tree \ {n} /\ k \in Tree \ {n}
      BY <1>2
    <3>2. QED
      BY <1>1, <3>1 DEF SinglePointers
  <2>2. QED
    BY <2>1 DEF SinglePointers
<1>6. Parents'
  <2>1. parent'[Root] = Root
    BY <1>1, TreeClosed DEF Parents
  <2>2. ASSUME NEW m \in Tree', child'[m] # Null PROVE parent'[child'[m]] = m
    <3>1. m \in Tree \ {n} /\ child'[m] \in Tree \ {n}
      BY <1>2, <2>2, NextTreeClosed DEF ClosedNext
    <3>2. CASE m = cwd
      BY <1>1, <3>1, <3>2 DEF Parents
    <3>3. CASE m # cwd
      BY <3>1, <3>3, <2>2 DEF Parents
    <3>4. QED
      BY <3>2, <3>3
  <2>3. ASSUME NEW m \in Tree', sibling'[m] # Null
        PROVE  parent'[sibling'[m]] = parent'[m]
    <3>1. m \in Tree \ {n} /\ sibling'[m] \in Tree \ {n}
      BY <1>2, <2>3, NextTreeClosed DEF ClosedNext
    <3>2. QED
      BY <3>1, <2>3 DEF Parents
  <2>4. QED
    BY <2>1, <2>2, <2>3 DEF Parents
<1>7. ASSUME child[n] = Null PROVE Tree \ {n} \subseteq Tree'
  <2>1. ASSUME NEW x \in Tree' \cup {n}
        PROVE  {child[x], sibling[x]} \subseteq Tree' \cup {n} \cup {Null}
    BY <1>2, <1>3, <1>7, NextTreeClosed DEF ClosedNext
  <2>2. Closed(Tree' \cup {n})
    BY <1>1, <1>2, <2>1 DEF Closed
  <2>3. QED
    BY <2>2, TreeSmallest, NextTreeClosed
<1>8. QED
  BY <1>2, <1>3, <1>4, <1>5, <1>6, <1>7

\* An entry behind another one, p, is taken out.
LEMMA TakenBehind ==
    ASSUME IInv, NEW n \in Addr, NEW p \in After(child[cwd]), sibling[p] = n,
           Pointers', alloc' = alloc \ {n}, cwd' = cwd,
           sibling'[p] = sibling[n],
           \A m \in Tree \ {n} : /\ m # p => sibling'[m] = sibling[m]
                                 /\ child'[m] = child[m] /\ parent'[m] = parent[m]
    PROVE  /\ IInv' /\ n \notin Tree'
           /\ child[n] = Null => Tree \ {n} \subseteq Tree'
<1> USE DEF IInv
<1>1. /\ n # Root /\ n # Null /\ Tree \subseteq Nodes /\ Null \notin Nodes
      /\ p \in Tree /\ n \in Tree /\ parent[p] = cwd /\ parent[n] = cwd
      /\ n # p /\ sibling[n] # n
  <2>1. n # Root /\ n # Null /\ Tree \subseteq Nodes /\ Null \notin Nodes
    BY FssimAssumption, TreeClosed DEF Closed, Nodes
  <2>2. p \in Tree /\ parent[p] = cwd
    BY Entries
  <2>3. n \in Tree /\ parent[n] = cwd
    BY <2>1, <2>2, TreeClosed DEF Closed, Parents
  <2>4. QED
    BY <2>1, <2>2, <2>3, NoOwnSibling
<1>2. Tree' \subseteq Tree \ {n}
  <2>1. ASSUME NEW x \in Tree \ {n}
        PROVE  sibling'[x] \in (Tree \ {n}) \cup {Null}
    <3>1. CASE x = p
      BY <1>1, <3>1, TreeClosed DEF Closed
    <3>2. CASE x # p
      BY <1>1, <3>2, TreeClosed DEF Closed, SinglePointers
    <3>3. QED
      BY <3>1, <3>2
  <2>2. ASSUME NEW x \in Tree \ {n}
        PROVE  child'[x] \in (Tree \ {n}) \cup {Null}
    BY <1>1, TreeClosed DEF Closed, SinglePointers
  <2>3. ClosedNext(Tree \ {n})
    BY <1>1, <2>1, <2>2 DEF ClosedNext
  <2>4. QED
    BY <1>1, <2>3, NextTreeSmallest, TreeClosed
<1>3. p \in Tree'
  <2> SUFFICES ASSUME p \notin Tree' PROVE FALSE
    OBVIOUS
  <2>1. Closed(Tree')
    BY <1>2, NextTreeClosed DEF ClosedNext, Closed
  <2>2. QED
    BY <1>1, <2>1, TreeSmallest, NextTreeClosed
<1>4. Allocated'
  BY <1>2 DEF Allocated
<1>5. SinglePointers'
  <2>1. ASSUME NEW m \in Tree', NEW k \in Tree'
        PROVE  /\ child'[m] = child'[k] /\ child'[m] # Null => m = k
               /\ sibling'[m] = sibling'[k] /\ sibling'[m] # Null => m = k
               /\ child'[m] = sibling'[k] => child'[m] = Null
    <3>1. m \in Tree \ {n} /\ k \in Tree \ {n}
      BY <1>2
    <3>2. QED
      BY <1>1, <3>1 DEF SinglePointers
  <2>2. QED
    BY <2>1 DEF SinglePointers
<1>6. Parents'
  <2>1. parent'[Root] = Root
    BY <1>1, TreeClosed DEF Parents
  <2>2. ASSUME NEW m \in Tree', child'[m] # Null PROVE parent'[child'[m]] = m
    <3>1. m \in Tree \ {n} /\ child'[m] \in Tree \ {n}
      BY <1>2, <2>2, NextTreeClosed DEF ClosedNext
    <3>2. QED
      BY <3>1, <2>2 DEF Parents
  <2>3. ASSUME NEW m \in Tree', sibling'[m] # Null
        PROVE  parent'[sibling'[m]] = parent'[m]
    <3>1. m \in Tree \ {n} /\ sibling'[m] \in Tree \ {n}
      BY <1>2, <2>3, NextTreeClosed DEF ClosedNext
    <3>2. CASE m = p
      BY <1>1, <3>1, <3>2, <2>3 DEF Parents
    <3>3. CASE m # p
      BY <3>1, <3>3, <2>3 DEF Parents
    <3>4. QED
      BY <3>2, <3>3
  <2>4. QED
    BY <2>1, <2>2, <2>3 DEF Parents
<1>7. cwd \in Tree'
  <2>1. parent'[p] \in Tree'
    BY <1>3, <1>6, NextParentsIn
  <2>2. QED
    BY <1>1, <2>1
<1>8. ASSUME child[n] = Null PROVE Tree \ {n} \subseteq Tree'
  <2>1. ASSUME NEW x \in Tree' \cup {n}
        PROVE  {child[x], sibling[x]} \subseteq Tree' \cup {n} \cup {Null}
    BY <1>2, <1>3, <1>8, NextTreeClosed DEF ClosedNext
  <2>2. Closed(Tree' \cup {n})
    BY <1>1, <1>2, <2>1 DEF Closed
  <2>3. QED
    BY <2>2, TreeSmallest, NextTreeClosed
<1>9. QED
  BY <1>2, <1>4, <1>5, <1>6, <1>7, <1>8

-----------------------------------------------------------------------------
(* The invariant is inductive. *)

\* The initial states satisfy the invariant.
LEMMA InitIInv == Init => IInv
<1> SUFFICES ASSUME Init PROVE IInv
  OBVIOUS
<1>1. Pointers
  BY FssimAssumption DEF Init, Pointers, Nodes
<1>2. Closed({Root}) /\ Root \in {Root}
  BY DEF Init, Closed, Nodes
<1>3. Tree = {Root}
  BY <1>1, <1>2, TreeClosed, TreeSmallest
<1>4. QED
  BY <1>1, <1>3, FssimAssumption
     DEF Init, IInv, Allocated, SinglePointers, Parents, Nodes

\* The program ends: the tree is that of the next start.
LEMMA EndIInv == ASSUME NEW why, End(why) PROVE IInv' /\ Lost' = {}
<1>1. Pointers'
  BY FssimAssumption DEF End, Pointers, Nodes
<1>2. ClosedNext({Root}) /\ Root \in {Root}
  BY DEF End, ClosedNext, Nodes
<1>3. Tree' = {Root}
  BY <1>1, <1>2, NextTreeClosed, NextTreeSmallest
<1>4. QED
  BY <1>1, <1>3, FssimAssumption
     DEF End, IInv, Allocated, SinglePointers, Parents, Nodes, Lost

\* A step that leaves the nodes alone leaves the tree alone.
LEMMA SameIInv ==
    ASSUME IInv, UNCHANGED treeVars, cwd' \in Tree PROVE IInv' /\ Lost' = Lost
<1>1. Tree' = Tree
  BY DEF treeVars, Tree, Reach
<1>2. Tree \subseteq Nodes
  BY TreeClosed DEF IInv, Closed
<1>3. QED
  BY <1>1, <1>2
     DEF treeVars, IInv, Pointers, Allocated, SinglePointers, Parents, Lost

\* Nothing is lost when a node is added and the tree keeps what it had.
LEMMA NothingLost ==
    ASSUME NEW n, alloc' = alloc \cup {n}, Tree \cup {n} \subseteq Tree'
    PROVE  Lost' \subseteq Lost
  BY DEF Lost

\* mkdir and creat.
LEMMA CreateIInv ==
    ASSUME IInv, NEW nm, NEW ty, Create(nm, ty) PROVE IInv' /\ Lost' \subseteq Lost
<1>1. PICK n \in Addr :
          /\ NewNode(n, nm, ty, cwd)
          /\ sibling' = [sibling EXCEPT ![n] = child[cwd]]
          /\ child' = [child EXCEPT ![cwd] = n, ![n] = Null]
  BY DEF Create
<1>2. /\ n \in Addr \ alloc /\ alloc' = alloc \cup {n} /\ cwd' = cwd
      /\ parent' = [parent EXCEPT ![n] = cwd]
  BY <1>1 DEF NewNode, Create
<1>3. /\ cwd \in Tree /\ Tree \subseteq Nodes /\ n \in Nodes
      /\ n \notin Tree /\ child[cwd] \in Addr \cup {Null}
  BY <1>2, TreeClosed, FssimAssumption DEF IInv, Allocated, Closed, Nodes, Pointers
<1>4. Pointers'
  BY <1>1, <1>2, <1>3 DEF IInv, Pointers
<1>5. /\ child'[cwd] = n /\ child'[n] = Null
      /\ sibling'[n] = child[cwd] /\ parent'[n] = cwd
      /\ \A m \in Tree : /\ m # cwd => child'[m] = child[m]
                         /\ sibling'[m] = sibling[m] /\ parent'[m] = parent[m]
  BY <1>1, <1>2, <1>3 DEF IInv, Pointers
<1>6. IInv' /\ Tree \cup {n} \subseteq Tree'
  BY <1>2, <1>3, <1>4, <1>5, AddedInFront
<1>7. QED
  BY <1>2, <1>6, NothingLost

\* A line that reload adds.
LEMMA ReloadLineIInv == ASSUME IInv, ReloadLine PROVE IInv' /\ Lost' \subseteq Lost
<1>1. PICK d \in Nodes, n \in Addr :
          ToBeAdded(d) /\ NewNode(n, Text[1], Text[3], d) /\ AppendTo(d, n)
  BY DEF ReloadLine
<1>2. d \in Tree
  <2>1. CASE d = Root
    BY <2>1, TreeClosed DEF IInv
  <2>2. CASE SearchTree(Root, Text[2], d)
    BY <1>1, <2>2, Visited DEF IInv, SearchTree, ToBeAdded
  <2>3. QED
    BY <1>1, <2>1, <2>2 DEF ToBeAdded, ParentDir
<1>3. /\ n \in Addr \ alloc /\ alloc' = alloc \cup {n} /\ cwd' = cwd
      /\ parent' = [parent EXCEPT ![n] = d]
  BY <1>1 DEF NewNode, ReloadLine
<1>4. Tree \subseteq Nodes /\ n \in Nodes /\ n \notin Tree /\ d # n
  BY <1>2, <1>3, TreeClosed, FssimAssumption DEF IInv, Allocated, Closed, Nodes
<1>5. CASE child[d] = Null
  <2>1. /\ child' = [child EXCEPT ![d] = n, ![n] = Null]
        /\ sibling' = [sibling EXCEPT ![n] = Null]
    BY <1>1, <1>5 DEF AppendTo
  <2>2. Pointers'
    BY <1>3, <1>4, <2>1 DEF IInv, Pointers
  <2>3. /\ child'[d] = n /\ child'[n] = Null
        /\ sibling'[n] = child[d] /\ parent'[n] = d
        /\ \A m \in Tree : /\ m # d => child'[m] = child[m]
                           /\ sibling'[m] = sibling[m] /\ parent'[m] = parent[m]
    BY <1>3, <1>4, <1>5, <2>1 DEF IInv, Pointers
  <2>4. IInv' /\ Tree \cup {n} \subseteq Tree'
    BY <1>2, <1>3, <2>2, <2>3, AddedInFront
  <2>5. QED
    BY <1>3, <2>4, NothingLost
<1>6. CASE child[d] # Null
  <2>1. PICK last \in After(child[d]) :
            /\ sibling[last] = Null
            /\ sibling' = [sibling EXCEPT ![last] = n, ![n] = Null]
            /\ child' = [child EXCEPT ![n] = Null]
    BY <1>1, <1>6 DEF AppendTo
  <2>2. last \in Tree /\ last # n
    BY <1>2, <1>4, Entries DEF IInv
  <2>3. Pointers'
    BY <1>3, <1>4, <2>1, <2>2 DEF IInv, Pointers
  <2>4. /\ sibling'[last] = n /\ child'[n] = Null /\ sibling'[n] = Null
        /\ parent'[n] = d
        /\ \A m \in Tree : /\ m # last => sibling'[m] = sibling[m]
                           /\ child'[m] = child[m] /\ parent'[m] = parent[m]
    BY <1>3, <1>4, <2>1, <2>2 DEF IInv, Pointers
  <2>5. last \in After(child[d]) /\ sibling[last] = Null
    BY <2>1
  <2>6. alloc' = alloc \cup {n} /\ cwd' = cwd /\ n \in Addr \ alloc
    BY <1>3
  <2>7. IInv' /\ Tree \cup {n} \subseteq Tree'
    BY <1>2, <2>3, <2>4, <2>5, <2>6, AddedBehind
  <2>8. QED
    BY <1>3, <2>7, NothingLost
<1>7. QED
  BY <1>5, <1>6

\* rmdir and rm: only what is below the node can be lost.
LEMMA UnlinkIInv ==
    ASSUME IInv, NEW n \in Addr, n \in After(child[cwd]), Unlink(n)
    PROVE  /\ IInv' /\ n \notin alloc' /\ n \in Tree
           /\ child[n] = Null => Lost' \subseteq Lost
<1>1. /\ alloc' = alloc \ {n} /\ cwd' = cwd
      /\ parent' = [parent EXCEPT ![n] = Root]
  BY DEF Unlink
<1>2. /\ n \in Tree /\ parent[n] = cwd /\ cwd # n /\ cwd \in Tree /\ Tree \subseteq Nodes
      /\ sibling[n] # n /\ Root \in Nodes /\ n \in Nodes
  <2>1. n \in Tree /\ parent[n] = cwd /\ cwd \in Tree /\ Tree \subseteq Nodes
    BY Entries, TreeClosed DEF IInv, Closed
  <2>2. QED
    BY <2>1, NoOwnParent, NoOwnSibling DEF IInv, Nodes
<1>3. /\ IInv' /\ n \notin Tree'
      /\ child[n] = Null => Tree \ {n} \subseteq Tree'
  <2>1. CASE child[cwd] = n
    <3>1. /\ child' = [child EXCEPT ![cwd] = sibling[n], ![n] = Null]
          /\ sibling' = [sibling EXCEPT ![n] = Null]
      BY <2>1 DEF Unlink
    <3>2. Pointers'
      BY <1>1, <1>2, <3>1 DEF IInv, Pointers
    <3>3. /\ child'[cwd] = sibling[n]
          /\ \A m \in Tree \ {n} : /\ m # cwd => child'[m] = child[m]
                                   /\ sibling'[m] = sibling[m] /\ parent'[m] = parent[m]
      BY <1>1, <1>2, <3>1 DEF IInv, Pointers
    <3>4. QED
      BY <1>1, <2>1, <3>2, <3>3, TakenFirst
  <2>2. CASE child[cwd] # n
    <3>1. PICK p \in After(child[cwd]) :
              /\ sibling[p] = n
              /\ sibling' = [sibling EXCEPT ![p] = sibling[n], ![n] = Null]
              /\ child' = [child EXCEPT ![n] = Null]
      BY <2>2 DEF Unlink
    <3>2. p \in Tree /\ p # n
      BY <1>2, <3>1, Entries DEF IInv
    <3>3. Pointers'
      BY <1>1, <1>2, <3>1, <3>2 DEF IInv, Pointers
    <3>4. /\ sibling'[p] = sibling[n]
          /\ \A m \in Tree \ {n} : /\ m # p => sibling'[m] = sibling[m]
                                   /\ child'[m] = child[m] /\ parent'[m] = parent[m]
      BY <1>1, <1>2, <3>1, <3>2 DEF IInv, Pointers
    <3>5. QED
      BY <1>1, <3>1, <3>3, <3>4, TakenBehind
  <2>3. QED
    BY <2>1, <2>2
<1>4. QED
  BY <1>1, <1>2, <1>3 DEF Lost

\* A step keeps the invariant, and loses memory only as LostByRmOnly says.
LostByRm ==
    ~(Lost' \subseteq Lost) =>
        \E n \in Tree \cap Addr : n \notin alloc' /\ type[n] = "F" /\ child[n] # Null

LEMMA NextIInv == IInv /\ [Next]_vars => IInv' /\ LostByRm
<1> SUFFICES ASSUME IInv, [Next]_vars PROVE IInv' /\ LostByRm
  OBVIOUS
<1>1. cwd \in Tree /\ Root \in Tree /\ parent[cwd] \in Tree
  BY TreeClosed, ParentsIn DEF IInv
<1>2. ASSUME NEW nm \in Names, Command(nm) PROVE IInv' /\ LostByRm
  <2>1. ASSUME NEW ty \in Types, Create(nm, ty) PROVE IInv' /\ LostByRm
    BY <2>1, CreateIInv DEF LostByRm
  <2>2. CASE Rmdir(nm)
    BY <2>2, UnlinkIInv DEF Rmdir, FirstEntry, NamedDir, Named, LostByRm
  <2>3. CASE Rm(nm)
    <3>1. PICK n \in Addr : FirstEntry(Named(nm), n) /\ type[n] = "F" /\ Unlink(n)
      BY <2>3 DEF Rm
    <3>2. n \in After(child[cwd])
      BY <3>1 DEF FirstEntry, Named
    <3>3. QED
      BY <3>1, <3>2, UnlinkIInv DEF LostByRm
  <2>4. CASE Cd(nm)
    <3>1. PICK n \in Addr : FirstEntry(Named(nm), n) /\ CdTo(n)
      BY <2>4 DEF Cd
    <3>2. n \in Tree
      BY <1>1, <3>1, Entries DEF FirstEntry, Named, IInv
    <3>3. QED
      BY <3>1, <3>2, SameIInv DEF CdTo, LostByRm
  <2>5. QED
    BY <1>2, <2>1, <2>2, <2>3, <2>4 DEF Command
<1>3. CASE CdRoot \/ CdUp
  BY <1>1, <1>3, SameIInv DEF CdRoot, CdUp, CdTo, LostByRm
<1>4. CASE CreateNothing \/ RemoveNothing \/ CdInEmpty \/ Quit \/ SaveInterrupted
             \/ ReloadMissing \/ ReloadCut \/ Interrupt
  <2>1. \E why : End(why)
    BY <1>4 DEF CreateNothing, RemoveNothing, CdInEmpty, Quit, SaveInterrupted,
       ReloadMissing, ReloadCut, Interrupt, Crash
  <2>2. QED
    BY <2>1, EndIInv DEF LostByRm
<1>5. CASE Save \/ Reload \/ ReloadSkip \/ ReloadEnd \/ Start
  <2>1. UNCHANGED <<treeVars, cwd>>
    BY <1>5 DEF Save, Reload, ReloadSkip, ReloadEnd, Start
  <2>2. QED
    BY <1>1, <2>1, SameIInv DEF LostByRm
<1>6. CASE ReloadLine
  BY <1>6, ReloadLineIInv DEF LostByRm
<1>7. CASE UNCHANGED vars
  <2>1. UNCHANGED <<treeVars, cwd>>
    BY <1>7 DEF vars
  <2>2. QED
    BY <1>1, <2>1, SameIInv DEF LostByRm
<1>8. QED
  BY <1>2, <1>3, <1>4, <1>5, <1>6, <1>7 DEF Next

\* The invariant holds in every reachable state.
THEOREM Invariance == Spec => []IInv
<1>1. IInv /\ [Next]_vars => IInv'
  BY NextIInv
<1>2. QED
  BY InitIInv, <1>1, PTL DEF Spec

\* Whatever was typed, saved, truncated or reloaded: what can be reached from the
\* root is a tree of allocated nodes, its parent pointers fit its listings, and the
\* current directory is part of it.
THEOREM TreeStaysIntact == Spec => []TreeIntact
<1>1. IInv => TreeIntact
  BY IntactFollows
<1>2. QED
  BY Invariance, <1>1, PTL

\* No command loses memory but rm, of a file that has entries.
THEOREM OnlyRmLoses == Spec => LostByRmOnly
<1>1. IInv /\ [Next]_vars => LostByRm
  BY NextIInv
<1>2. QED
  BY Invariance, <1>1, PTL DEF LostByRm, LostByRmOnly, Spec
=============================================================================
