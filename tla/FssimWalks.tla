------------------------------ MODULE FssimWalks ------------------------------
(***************************************************************************)
(* Theorems about the walks of the file system simulator, for any names    *)
(* and any supply of memory.                                               *)
(*                                                                         *)
(* ls, pwd, save and the path of a node are recursive functions, defined   *)
(* along pointers that every command changes.  A recursion has a value     *)
(* because the pointers cannot be followed for ever (RecursionExists);     *)
(* that they cannot, lost nodes included, is part of the invariant FInv.   *)
(*                                                                         *)
(*   FssimTypes      the types, the lines of the file included             *)
(*   ReloadOnlyAdds  reload puts entries behind others and changes nothing *)
(*   RefinesTree     the pointers implement the listings of FsTree         *)
(*   PwdIsPath       when pwd prints the path of the current directory     *)
(*   FilesComeBack   what was saved is read back, line by line             *)
(*                                                                         *)
(* Proofs along pointers take the nodes for which a claim is wrong: one of *)
(* them is left by both of its pointers, and there the claim is one step.  *)
(***************************************************************************)
EXTENDS FssimProofs, SequenceTheorems

-----------------------------------------------------------------------------
(* Recursion along two pointers. *)

\* Following a and b ends: every set of nodes has one whose pointers leave it.
Ends(N, a, b) == \A S \in SUBSET N : S # {} => \E x \in S : a[x] \notin S /\ b[x] \notin S

\* A recursion along a and b: what it computes for Nil, and for a node from what it
\* computes for those two.
Recursion(N, Nil, a, b, V, base, G) ==
    /\ Nil \notin N /\ Ends(N, a, b)
    /\ a \in [N -> N \cup {Nil}] /\ b \in [N -> N \cup {Nil}]
    /\ base \in V /\ G \in [N -> [V -> [V -> V]]]

\* f is what it computes on the part S of the nodes.
ComputedOn(S, f, Nil, a, b, base, G) ==
    /\ \A x \in S : a[x] \in S \cup {Nil} /\ b[x] \in S \cup {Nil}
    /\ f[Nil] = base
    /\ \A x \in S : f[x] = G[x][f[a[x]]][f[b[x]]]

\* f is what it computes.
Computes(f, N, Nil, a, b, V, base, G) ==
    /\ f \in [N \cup {Nil} -> V] /\ f[Nil] = base
    /\ \A x \in N : f[x] = G[x][f[a[x]]][f[b[x]]]

\* It computes something.
LEMMA RecursionExists ==
    ASSUME NEW N, NEW Nil, NEW a, NEW b, NEW V, NEW base, NEW G,
           Recursion(N, Nil, a, b, V, base, G)
    PROVE  \E f : Computes(f, N, Nil, a, b, V, base, G)
<1> DEFINE Parts == {S \in SUBSET N : \E f \in [S \cup {Nil} -> V] :
                        ComputedOn(S, f, Nil, a, b, base, G)}
           Is(x, v) == \E S \in SUBSET N : \E f \in [S \cup {Nil} -> V] :
                          x \in S /\ ComputedOn(S, f, Nil, a, b, base, G) /\ v = f[x]
           M == UNION Parts
           F == [x \in M \cup {Nil} |-> IF x = Nil THEN base ELSE CHOOSE v : Is(x, v)]
<1>0. ASSUME NEW S, NEW T, NEW f, NEW g, S \subseteq N, T \subseteq N,
             ComputedOn(S, f, Nil, a, b, base, G), ComputedOn(T, g, Nil, a, b, base, G)
      PROVE  \A x \in S \cap T : f[x] = g[x]
  <2> DEFINE D == {x \in S \cap T : f[x] # g[x]}
  <2> SUFFICES ASSUME D # {} PROVE FALSE
    OBVIOUS
  <2>1. D \in SUBSET N
    BY <1>0
  <2>2. PICK x \in D : a[x] \notin D /\ b[x] \notin D
    BY <2>1 DEF Recursion, Ends
  <2>3. /\ a[x] \in (S \cap T) \cup {Nil} /\ b[x] \in (S \cap T) \cup {Nil}
        /\ f[x] = G[x][f[a[x]]][f[b[x]]] /\ g[x] = G[x][g[a[x]]][g[b[x]]]
        /\ f[Nil] = g[Nil]
    BY <1>0, <2>2 DEF ComputedOn
  <2>4. f[a[x]] = g[a[x]] /\ f[b[x]] = g[b[x]]
    BY <2>2, <2>3
  <2>5. QED
    BY <2>2, <2>3, <2>4
<1>1. ASSUME NEW S \in SUBSET N, NEW f, f \in [S \cup {Nil} -> V],
             ComputedOn(S, f, Nil, a, b, base, G), NEW x \in S
      PROVE  x \in M /\ F[x] = f[x] /\ F[x] \in V
  <2>1. x \in M /\ x # Nil
    BY <1>1 DEF Recursion
  <2>2. Is(x, f[x])
    BY <1>1
  <2>3. ASSUME NEW v, Is(x, v) PROVE v = f[x]
    <3>1. PICK T \in SUBSET N : \E g \in [T \cup {Nil} -> V] :
              x \in T /\ ComputedOn(T, g, Nil, a, b, base, G) /\ v = g[x]
      BY <2>3
    <3>2. PICK g : x \in T /\ ComputedOn(T, g, Nil, a, b, base, G) /\ v = g[x]
      BY <3>1
    <3> HIDE DEF F, M, Is
    <3>3. \A y \in S \cap T : f[y] = g[y]
      BY <1>0, <1>1, <3>2
    <3>4. QED
      BY <1>1, <3>2, <3>3
  <2>4. (CHOOSE v : Is(x, v)) = f[x]
    <3> HIDE DEF Is
    <3>1. QED
      BY <2>2, <2>3
  <2>5. F[x] = f[x]
    <3> HIDE DEF Is, M
    <3>1. QED
      BY <2>1, <2>4
  <2>6. QED
    BY <1>1, <2>1, <2>5
<1>2. M \subseteq N
  OBVIOUS
<1>3. F[Nil] = base
  BY DEF M
<1>4. ASSUME NEW x \in M
      PROVE  /\ F[x] \in V
             /\ a[x] \in M \cup {Nil} /\ b[x] \in M \cup {Nil}
             /\ F[x] = G[x][F[a[x]]][F[b[x]]]
  <2>0. PICK S \in Parts : x \in S
    BY <1>4
  <2>1. PICK f \in [S \cup {Nil} -> V] : ComputedOn(S, f, Nil, a, b, base, G)
    BY <2>0
  <2>2. /\ a[x] \in S \cup {Nil} /\ b[x] \in S \cup {Nil}
        /\ f[x] = G[x][f[a[x]]][f[b[x]]] /\ f[Nil] = base
    BY <2>0, <2>1 DEF ComputedOn
  <2>3. \A y \in S : y \in M /\ F[y] = f[y] /\ F[y] \in V
    BY <1>1, <2>0, <2>1
  <2> HIDE DEF F, M
  <2>4. QED
    BY <1>3, <2>0, <2>1, <2>2, <2>3
<1>5. F \in [M \cup {Nil} -> V] /\ ComputedOn(M, F, Nil, a, b, base, G)
  <2>1. F = [x \in M \cup {Nil} |-> F[x]]
    OBVIOUS
  <2> HIDE DEF F, M
  <2>2. F \in [M \cup {Nil} -> V]
    BY <1>3, <1>4, <2>1 DEF Recursion
  <2>3. QED
    BY <1>3, <1>4, <2>2 DEF ComputedOn
<1>6. M = N
  <2> SUFFICES ASSUME M # N PROVE FALSE
    OBVIOUS
  <2> HIDE DEF F, M
  <2>1. PICK x \in N \ M : a[x] \notin N \ M /\ b[x] \notin N \ M
    BY <1>2 DEF Recursion, Ends
  <2>2. a[x] \in M \cup {Nil} /\ b[x] \in M \cup {Nil}
    BY <2>1 DEF Recursion
  <2> DEFINE More == M \cup {x}
             f == [y \in More \cup {Nil} |-> IF y = x THEN G[x][F[a[x]]][F[b[x]]] ELSE F[y]]
  <2>3. F[a[x]] \in V /\ F[b[x]] \in V
    BY <1>5, <2>2
  <2>4. f \in [More \cup {Nil} -> V]
    BY <1>5, <2>1, <2>3 DEF Recursion
  <2>5. x # Nil /\ \A y \in M \cup {Nil} : f[y] = F[y]
    BY <2>1 DEF Recursion
  <2>6. ComputedOn(More, f, Nil, a, b, base, G)
    <3>1. f[Nil] = base /\ f[x] = G[x][F[a[x]]][F[b[x]]]
      BY <1>3, <2>5
    <3>2. f[x] = G[x][f[a[x]]][f[b[x]]]
      BY <2>2, <2>5, <3>1
    <3> HIDE DEF f
    <3>3. QED
      BY <1>5, <2>2, <2>5, <3>1, <3>2 DEF ComputedOn
  <2>7. More \in SUBSET N
    BY <1>2, <2>1
  <2>8. x \in M
    <3> HIDE DEF f
    <3>1. QED
      BY <2>4, <2>6, <2>7 DEF M
  <2>9. QED
    BY <2>1, <2>8
<1>7. QED
  <2> HIDE DEF F, M
  <2>1. Computes(F, N, Nil, a, b, V, base, G)
    BY <1>5, <1>6 DEF ComputedOn, Computes
  <2>2. QED
    BY <2>1
\* What is computed step by step along the two pointers is in V if no step leaves V.
NoStepLeaves(V, f, N, Nil, a, b) ==
    f[Nil] \in V /\ \A x \in N : f[a[x]] \in V /\ f[b[x]] \in V => f[x] \in V

LEMMA RecursionStays ==
    ASSUME NEW N, NEW Nil, NEW a, NEW b, NEW V, NEW base, NEW G, NEW f,
           Recursion(N, Nil, a, b, V, base, G), NoStepLeaves(V, f, N, Nil, a, b)
    PROVE  \A x \in N \cup {Nil} : f[x] \in V
<1> DEFINE D == {x \in N : f[x] \notin V}
<1>0. f[Nil] \in V
  BY DEF NoStepLeaves
<1> SUFFICES ASSUME D # {} PROVE FALSE
  BY <1>0
<1>1. D \in SUBSET N
  OBVIOUS
<1>2. PICK x \in D : a[x] \notin D /\ b[x] \notin D
  BY <1>1 DEF Recursion, Ends
<1>3. a[x] \in N \cup {Nil} /\ b[x] \in N \cup {Nil}
  BY <1>2 DEF Recursion
<1>4. QED
  BY <1>2, <1>3 DEF NoStepLeaves

-----------------------------------------------------------------------------
(* All nodes, the lost ones as well. *)

\* Pointers lead to nodes malloc has given out; the others have none.
OnlyAllocated ==
    /\ \A m \in Nodes : {child[m], sibling[m]} \subseteq alloc \cup {Null}
    /\ \A n \in Addr \ alloc : child[n] = Null /\ sibling[n] = Null

\* At most one pointer leads to a node.
OnePointer ==
    \A m, k \in Nodes :
        /\ child[m] = child[k] /\ child[m] # Null => m = k
        /\ sibling[m] = sibling[k] /\ sibling[m] # Null => m = k
        /\ child[m] = sibling[k] => child[m] = Null

\* Entries have the directory that lists them as parent.
ParentsFit ==
    /\ parent[Root] = Root /\ sibling[Root] = Null
    /\ \A m \in Nodes :
          /\ child[m] # Null => parent[child[m]] = m
          /\ sibling[m] # Null => parent[sibling[m]] = parent[m]

\* No walk goes on for ever, down or up.
WalksEnd == Ends(Nodes, child, sibling) /\ Ends(Addr, parent, parent)

Forest == OnlyAllocated /\ OnePointer /\ ParentsFit /\ WalksEnd

\* What holds of a node that is given out next.
LEMMA Fresh ==
    ASSUME IInv, Forest, NEW n \in Addr \ alloc
    PROVE  /\ n \in Nodes /\ n # Root /\ n # Null /\ n \notin Tree /\ Null \notin Nodes
           /\ \A m \in Nodes : child[m] # n /\ sibling[m] # n
           /\ Tree \subseteq Nodes /\ Addr \subseteq Nodes /\ Nodes = Addr \cup {Root}
  BY FssimAssumption, TreeClosed
     DEF IInv, Allocated, Closed, Forest, OnlyAllocated, Nodes

\* Going up from a node that is added ends, as it does from the tree it is added to.
LEMMA AddedUp ==
    ASSUME IInv, Forest, NEW d \in Tree, NEW n \in Addr \ alloc,
           parent' = [parent EXCEPT ![n] = d]
    PROVE  Ends(Addr, parent', parent')
<1>1. /\ n \in Nodes /\ n # Root /\ n \notin Tree /\ Tree \subseteq Nodes
      /\ Addr \subseteq Nodes /\ Nodes = Addr \cup {Root} /\ Root \in Tree
  BY Fresh, TreeClosed DEF IInv
<1>2. parent'[n] = d /\ \A m \in Nodes : m # n => parent'[m] = parent[m]
  BY <1>1 DEF IInv, Pointers
<1>3. ASSUME NEW S \in SUBSET Addr, S # {} PROVE \E x \in S : parent'[x] \notin S
  <2>1. CASE n \notin S
    BY <1>1, <1>2, <1>3, <2>1 DEF Forest, WalksEnd, Ends
  <2>2. CASE n \in S /\ d \notin S
    BY <1>2, <2>2
  <2>3. CASE d \in S
    <3> DEFINE T == S \cap Tree
    <3>1. T \in SUBSET Addr /\ T # {} /\ n \notin T
      BY <1>1, <2>3
    <3>2. PICK x \in T : parent[x] \notin T
      BY <3>1 DEF Forest, WalksEnd, Ends
    <3>3. parent[x] \in Tree
      BY <3>2, ParentsIn DEF IInv
    <3>4. x # n /\ parent'[x] = parent[x]
      BY <1>1, <1>2, <3>1, <3>2
    <3>5. QED
      BY <3>2, <3>3, <3>4
  <2>4. QED
    BY <2>1, <2>2, <2>3
<1>4. QED
  BY <1>3 DEF Ends

\* A node is added as the first entry of d.
LEMMA ForestInFront ==
    ASSUME IInv, Forest, NEW d \in Tree, NEW n \in Addr \ alloc,
           Pointers', alloc' = alloc \cup {n},
           child' = [child EXCEPT ![d] = n, ![n] = Null],
           sibling' = [sibling EXCEPT ![n] = child[d]],
           parent' = [parent EXCEPT ![n] = d]
    PROVE  Forest'
<1>1. /\ n \in Nodes /\ n # Root /\ n # Null /\ n # d /\ d \in Nodes /\ Null \notin Nodes
      /\ \A m \in Nodes : child[m] # n /\ sibling[m] # n
      /\ Addr \subseteq Nodes /\ Nodes = Addr \cup {Root}
  BY Fresh
<1>2. /\ child'[d] = n /\ child'[n] = Null /\ sibling'[n] = child[d] /\ parent'[n] = d
      /\ \A m \in Nodes : /\ m # d /\ m # n => child'[m] = child[m]
                          /\ m # n => sibling'[m] = sibling[m] /\ parent'[m] = parent[m]
  BY <1>1 DEF IInv, Pointers
<1>3. OnlyAllocated'
  <2>1. \A m \in Nodes : child[m] \in alloc \cup {Null} /\ sibling[m] \in alloc \cup {Null}
    BY DEF Forest, OnlyAllocated
  <2>2. ASSUME NEW m \in Nodes
        PROVE  child'[m] \in alloc' \cup {Null} /\ sibling'[m] \in alloc' \cup {Null}
    <3>1. CASE m = n
      BY <1>1, <1>2, <2>1, <3>1
    <3>2. CASE m = d
      BY <1>1, <1>2, <2>1, <3>2
    <3>3. CASE m # n /\ m # d
      <4>1. child'[m] = child[m] /\ sibling'[m] = sibling[m]
        BY <1>2, <3>3
      <4>2. QED
        BY <2>1, <4>1
    <3>4. QED
      BY <3>1, <3>2, <3>3
  <2>3. d \notin Addr \ alloc
    BY FssimAssumption DEF IInv, Allocated
  <2>4. \A m \in Addr \ alloc' : child'[m] = Null /\ sibling'[m] = Null
    BY <1>1, <1>2, <2>3 DEF Forest, OnlyAllocated
  <2>5. QED
    BY <2>2, <2>4 DEF OnlyAllocated
<1>4. OnePointer'
  <2>1. ASSUME NEW m \in Nodes, NEW k \in Nodes, child'[m] = child'[k], child'[m] # Null
        PROVE  m = k
    BY <1>1, <1>2, <2>1 DEF Forest, OnePointer
  <2>2. ASSUME NEW m \in Nodes, NEW k \in Nodes, sibling'[m] = sibling'[k], sibling'[m] # Null
        PROVE  m = k
    BY <1>1, <1>2, <2>2 DEF Forest, OnePointer
  <2>3. ASSUME NEW m \in Nodes, NEW k \in Nodes, child'[m] = sibling'[k], child'[m] # Null
        PROVE  FALSE
    BY <1>1, <1>2, <2>3 DEF Forest, OnePointer
  <2>4. QED
    BY <2>1, <2>2, <2>3 DEF OnePointer
<1>5. ParentsFit'
  <2>1. parent'[Root] = Root /\ sibling'[Root] = Null
    BY <1>1, <1>2 DEF Forest, ParentsFit
  <2>2. ASSUME NEW m \in Nodes, child'[m] # Null PROVE parent'[child'[m]] = m
    <3>1. CASE m = d
      BY <1>2, <3>1
    <3>2. CASE m # d
      <4>1. m # n /\ child'[m] = child[m] /\ child[m] \in Nodes /\ child[m] # n
        BY <1>1, <1>2, <2>2, <3>2 DEF IInv, Pointers
      <4>2. QED
        BY <1>2, <2>2, <4>1 DEF Forest, ParentsFit
    <3>3. QED
      BY <3>1, <3>2
  <2>3. ASSUME NEW m \in Nodes, sibling'[m] # Null PROVE parent'[sibling'[m]] = parent'[m]
    <3>1. CASE m = n
      <4>1. child[d] # Null /\ child[d] \in Nodes /\ child[d] # n
        BY <1>1, <1>2, <2>3, <3>1 DEF IInv, Pointers
      <4>2. QED
        BY <1>1, <1>2, <3>1, <4>1 DEF Forest, ParentsFit
    <3>2. CASE m # n
      <4>1. sibling'[m] = sibling[m] /\ sibling[m] \in Nodes /\ sibling[m] # n
        BY <1>1, <1>2, <2>3, <3>2 DEF IInv, Pointers
      <4>2. QED
        BY <1>2, <2>3, <3>2, <4>1 DEF Forest, ParentsFit
    <3>3. QED
      BY <3>1, <3>2
  <2>4. QED
    BY <2>1, <2>2, <2>3 DEF ParentsFit
<1>6. ASSUME NEW S \in SUBSET Nodes, S # {}
      PROVE  \E x \in S : child'[x] \notin S /\ sibling'[x] \notin S
  <2>1. CASE n \notin S
    <3>1. PICK x \in S : child[x] \notin S /\ sibling[x] \notin S
      BY <1>6 DEF Forest, WalksEnd, Ends
    <3>2. QED
      BY <1>2, <2>1, <3>1
  <2>2. CASE S = {n}
    BY <1>1, <1>2, <2>2
  <2>3. CASE n \in S /\ S # {n}
    <3>1. S \ {n} \in SUBSET Nodes /\ S \ {n} # {}
      BY <2>3
    <3>2. PICK x \in S \ {n} : child[x] \notin S \ {n} /\ sibling[x] \notin S \ {n}
      BY <3>1 DEF Forest, WalksEnd, Ends
    <3>3. child[x] \notin S /\ sibling[x] \notin S
      BY <1>1, <3>2
    <3>4. CASE x = d
      BY <1>1, <1>2, <2>3, <3>3, <3>4
    <3>5. CASE x # d
      BY <1>2, <3>2, <3>3, <3>5
    <3>6. QED
      BY <3>4, <3>5
  <2>4. QED
    BY <2>1, <2>2, <2>3
<1>7. WalksEnd'
  BY <1>6, AddedUp DEF WalksEnd, Ends
<1>8. QED
  BY <1>3, <1>4, <1>5, <1>7 DEF Forest

\* A node is added behind the last entry of d.
LEMMA ForestBehind ==
    ASSUME IInv, Forest, NEW d \in Tree, NEW n \in Addr \ alloc,
           NEW last \in After(child[d]), sibling[last] = Null,
           Pointers', alloc' = alloc \cup {n},
           sibling' = [sibling EXCEPT ![last] = n, ![n] = Null],
           child' = [child EXCEPT ![n] = Null],
           parent' = [parent EXCEPT ![n] = d]
    PROVE  Forest'
<1>0. last \in Tree /\ last \in Addr /\ parent[last] = d
  BY Entries DEF IInv
<1>1. /\ n \in Nodes /\ n # Root /\ n # Null /\ n # last /\ last \in Nodes /\ last # Root
      /\ \A m \in Nodes : child[m] # n /\ sibling[m] # n
      /\ Addr \subseteq Nodes /\ Nodes = Addr \cup {Root} /\ Null \notin Nodes
  BY <1>0, Fresh, FssimAssumption
<1>2. /\ sibling'[last] = n /\ child'[n] = Null /\ sibling'[n] = Null /\ parent'[n] = d
      /\ \A m \in Nodes : /\ m # last /\ m # n => sibling'[m] = sibling[m]
                          /\ m # n => child'[m] = child[m] /\ parent'[m] = parent[m]
  BY <1>1 DEF IInv, Pointers
<1>3. OnlyAllocated'
  <2>1. \A m \in Nodes : child[m] \in alloc \cup {Null} /\ sibling[m] \in alloc \cup {Null}
    BY DEF Forest, OnlyAllocated
  <2>2. ASSUME NEW m \in Nodes
        PROVE  child'[m] \in alloc' \cup {Null} /\ sibling'[m] \in alloc' \cup {Null}
    <3>1. CASE m = n
      BY <1>1, <1>2, <2>1, <3>1
    <3>2. CASE m = last
      BY <1>1, <1>2, <2>1, <3>2
    <3>3. CASE m # n /\ m # last
      <4>1. child'[m] = child[m] /\ sibling'[m] = sibling[m]
        BY <1>2, <3>3
      <4>2. QED
        BY <2>1, <4>1
    <3>4. QED
      BY <3>1, <3>2, <3>3
  <2>3. last \in alloc
    BY <1>0, FssimAssumption DEF IInv, Allocated
  <2>4. \A m \in Addr \ alloc' : child'[m] = Null /\ sibling'[m] = Null
    BY <1>1, <1>2, <2>3 DEF Forest, OnlyAllocated
  <2>5. QED
    BY <2>2, <2>4 DEF OnlyAllocated
<1>4. OnePointer'
  <2>1. ASSUME NEW m \in Nodes, NEW k \in Nodes, child'[m] = child'[k], child'[m] # Null
        PROVE  m = k
    BY <1>1, <1>2, <2>1 DEF Forest, OnePointer
  <2>2. ASSUME NEW m \in Nodes, NEW k \in Nodes, sibling'[m] = sibling'[k], sibling'[m] # Null
        PROVE  m = k
    BY <1>1, <1>2, <2>2 DEF Forest, OnePointer
  <2>3. ASSUME NEW m \in Nodes, NEW k \in Nodes, child'[m] = sibling'[k], child'[m] # Null
        PROVE  FALSE
    BY <1>1, <1>2, <2>3 DEF Forest, OnePointer
  <2>4. QED
    BY <2>1, <2>2, <2>3 DEF OnePointer
<1>5. ParentsFit'
  <2>1. parent'[Root] = Root /\ sibling'[Root] = Null
    BY <1>1, <1>2 DEF Forest, ParentsFit
  <2>2. ASSUME NEW m \in Nodes, child'[m] # Null PROVE parent'[child'[m]] = m
    <3>1. m # n /\ child'[m] = child[m] /\ child[m] \in Nodes /\ child[m] # n
      BY <1>1, <1>2, <2>2 DEF IInv, Pointers
    <3>2. QED
      BY <1>2, <2>2, <3>1 DEF Forest, ParentsFit
  <2>3. ASSUME NEW m \in Nodes, sibling'[m] # Null PROVE parent'[sibling'[m]] = parent'[m]
    <3>1. CASE m = last
      BY <1>0, <1>1, <1>2, <3>1
    <3>2. CASE m # last
      <4>1. m # n /\ sibling'[m] = sibling[m] /\ sibling[m] \in Nodes /\ sibling[m] # n
        BY <1>1, <1>2, <2>3, <3>2 DEF IInv, Pointers
      <4>2. QED
        BY <1>2, <2>3, <3>2, <4>1 DEF Forest, ParentsFit
    <3>3. QED
      BY <3>1, <3>2
  <2>4. QED
    BY <2>1, <2>2, <2>3 DEF ParentsFit
<1>6. ASSUME NEW S \in SUBSET Nodes, S # {}
      PROVE  \E x \in S : child'[x] \notin S /\ sibling'[x] \notin S
  <2>1. CASE n \notin S
    <3>1. PICK x \in S : child[x] \notin S /\ sibling[x] \notin S
      BY <1>6 DEF Forest, WalksEnd, Ends
    <3>2. QED
      BY <1>2, <2>1, <3>1
  <2>2. CASE n \in S
    BY <1>1, <1>2, <2>2
  <2>3. QED
    BY <2>1, <2>2
<1>7. WalksEnd'
  BY <1>6, AddedUp DEF WalksEnd, Ends
<1>8. QED
  BY <1>3, <1>4, <1>5, <1>7 DEF Forest

\* A node is taken out, and the pointer that led to it, the child pointer of cwd or
\* the sibling pointer of p, leads to what followed it.
TakenOut(n, q) ==
    /\ \/ child[q] = n /\ child'[q] = sibling[n] /\ sibling'[q] = sibling[q]
       \/ sibling[q] = n /\ sibling'[q] = sibling[n] /\ child'[q] = child[q]
    /\ child'[n] = Null /\ sibling'[n] = Null /\ parent'[n] = Root
    /\ \A m \in Nodes \ {n, q} : child'[m] = child[m] /\ sibling'[m] = sibling[m]
    /\ \A m \in Nodes \ {n} : parent'[m] = parent[m]
    /\ alloc' = alloc \ {n}

LEMMA ForestTaken ==
    ASSUME IInv, Forest, NEW n \in Addr, NEW q \in Nodes, Pointers',
           n # q, sibling[n] # n, TakenOut(n, q)
    PROVE  Forest'
<1> USE DEF TakenOut
<1>1. /\ n \in Nodes /\ n # Root /\ n # Null /\ Root \in Nodes /\ Null \notin Nodes
      /\ Addr \subseteq Nodes /\ Nodes = Addr \cup {Root}
  BY FssimAssumption DEF Nodes
<1>2. \A m \in Nodes : m # q \/ child[q] # n => child[m] # n
  BY <1>1 DEF Forest, OnePointer
<1>3. \A m \in Nodes : m # q \/ sibling[q] # n => sibling[m] # n
  BY <1>1 DEF Forest, OnePointer
<1>4. \A m \in Nodes : child'[m] # n /\ sibling'[m] # n
  <2>1. CASE child[q] = n
    <3>1. \A m \in Nodes : sibling[m] # n
      BY <1>1, <2>1 DEF Forest, OnePointer
    <3>2. QED
      BY <1>1, <1>2, <2>1, <3>1
  <2>2. CASE sibling[q] = n
    <3>1. \A m \in Nodes : child[m] # n
      BY <1>1, <2>2 DEF Forest, OnePointer
    <3>2. QED
      BY <1>1, <1>3, <2>2, <3>1
  <2>3. QED
    BY <2>1, <2>2
<1>5. OnlyAllocated'
  BY <1>1, <1>4 DEF Forest, OnlyAllocated
<1>6. OnePointer'
  <2>1. ASSUME NEW m \in Nodes, NEW k \in Nodes, child'[m] = child'[k], child'[m] # Null
        PROVE  m = k
    BY <1>1, <2>1 DEF Forest, OnePointer
  <2>2. ASSUME NEW m \in Nodes, NEW k \in Nodes, sibling'[m] = sibling'[k], sibling'[m] # Null
        PROVE  m = k
    BY <1>1, <2>2 DEF Forest, OnePointer
  <2>3. ASSUME NEW m \in Nodes, NEW k \in Nodes, child'[m] = sibling'[k], child'[m] # Null
        PROVE  FALSE
    BY <1>1, <2>3 DEF Forest, OnePointer
  <2>4. QED
    BY <2>1, <2>2, <2>3 DEF OnePointer
<1>7. ParentsFit'
  <2>1. parent'[Root] = Root /\ sibling'[Root] = Null
    <3>1. sibling[Root] = Null
      BY DEF Forest, ParentsFit
    <3>2. QED
      BY <1>1, <3>1 DEF Forest, ParentsFit
  <2>2. ASSUME NEW m \in Nodes, child'[m] # Null PROVE parent'[child'[m]] = m
    <3>1. m # n /\ child'[m] \in Nodes /\ child'[m] # n
      BY <1>1, <1>4, <2>2 DEF Pointers
    <3>2. parent[child'[m]] = m
      BY <1>1, <2>2, <3>1 DEF Forest, ParentsFit
    <3>3. QED
      BY <3>1, <3>2
  <2>3. ASSUME NEW m \in Nodes, sibling'[m] # Null PROVE parent'[sibling'[m]] = parent'[m]
    <3>1. m # n /\ sibling'[m] \in Nodes /\ sibling'[m] # n
      BY <1>1, <1>4, <2>3 DEF Pointers
    <3>2. parent[sibling'[m]] = parent[m]
      BY <1>1, <2>3, <3>1 DEF Forest, ParentsFit
    <3>3. QED
      BY <3>1, <3>2
  <2>4. QED
    BY <2>1, <2>2, <2>3 DEF ParentsFit
<1>8. ASSUME NEW S \in SUBSET Nodes, S # {}
      PROVE  \E x \in S : child'[x] \notin S /\ sibling'[x] \notin S
  <2>1. CASE n \in S
    BY <1>1, <2>1
  <2>2. CASE n \notin S
    <3>1. PICK y \in S : child[y] \notin S /\ sibling[y] \notin S
      BY <1>8 DEF Forest, WalksEnd, Ends
    <3>2. PICK x \in S \cup {n} : child[x] \notin S \cup {n} /\ sibling[x] \notin S \cup {n}
      <4>1. S \cup {n} \in SUBSET Nodes /\ S \cup {n} # {}
        BY <1>1
      <4>2. QED
        BY <4>1 DEF Forest, WalksEnd, Ends
    <3>3. CASE x = n
      BY <1>1, <2>2, <3>1, <3>2, <3>3
    <3>4. CASE x # n
      <4>1. x # q
        BY <3>2
      <4>2. QED
        BY <3>2, <3>4, <4>1
    <3>5. QED
      BY <3>3, <3>4
  <2>3. QED
    BY <2>1, <2>2
<1>9. ASSUME NEW S \in SUBSET Addr, S # {} PROVE \E x \in S : parent'[x] \notin S
  <2>1. CASE n \in S
    BY <1>1, <2>1, FssimAssumption
  <2>2. CASE n \notin S
    BY <1>1, <1>9, <2>2 DEF Forest, WalksEnd, Ends
  <2>3. QED
    BY <2>1, <2>2
<1>10. WalksEnd'
  BY <1>8, <1>9 DEF WalksEnd, Ends
<1>11. QED
  BY <1>5, <1>6, <1>7, <1>10 DEF Forest
-----------------------------------------------------------------------------
(* The walks satisfy the equations they are defined by. *)

LEMMA TreePointers ==
    ASSUME Pointers, Forest
    PROVE  /\ Null \notin Nodes /\ Root \in Nodes /\ Addr \subseteq Nodes
           /\ Nodes = Addr \cup {Root}
           /\ child \in [Nodes -> Nodes \cup {Null}] /\ sibling \in [Nodes -> Nodes \cup {Null}]
           /\ Ends(Nodes, child, sibling) /\ Ends(Addr, parent, parent)
  BY FssimAssumption DEF Pointers, Nodes, Forest, WalksEnd

LEMMA ChainEquations ==
    ASSUME Pointers, Forest
    PROVE  /\ Chain \in [Nodes \cup {Null} -> Seq(Nodes)]
           /\ Chain[Null] = <<>>
           /\ \A m \in Nodes : Chain[m] = <<m>> \o Chain[sibling[m]]
<1> DEFINE V == Seq(Nodes)
           G == [x \in Nodes |-> [u \in V |-> [v \in V |-> <<x>> \o v]]]
           Is(f) == f = [m \in Nodes \cup {Null} |->
                            IF m = Null THEN <<>> ELSE <<m>> \o f[sibling[m]]]
<1>1. Recursion(Nodes, Null, child, sibling, V, <<>>, G)
  <2>1. G \in [Nodes -> [V -> [V -> V]]]
    BY ConcatProperties
  <2>2. <<>> \in V
    OBVIOUS
  <2> HIDE DEF V, G
  <2>3. QED
    BY <2>1, <2>2, TreePointers DEF Recursion
<1>2. PICK f : Computes(f, Nodes, Null, child, sibling, V, <<>>, G)
  <2> HIDE DEF V, G
  <2>1. QED
    BY <1>1, RecursionExists
<1>3. /\ f \in [Nodes \cup {Null} -> V] /\ f[Null] = <<>>
      /\ \A x \in Nodes : f[x] = <<x>> \o f[sibling[x]]
  BY <1>2, TreePointers DEF Computes
<1>4. Is(f)
  <2> HIDE DEF V, G
  <2>1. QED
    BY <1>3, TreePointers
<1>5. Is(Chain)
  <2>1. Chain = CHOOSE g : Is(g)
    BY DEF Chain
  <2> HIDE DEF Is
  <2>2. QED
    BY <1>4, <2>1
<1>6. Chain[Null] = <<>> /\ \A m \in Nodes : Chain[m] = <<m>> \o Chain[sibling[m]]
  <2> HIDE DEF V, G
  <2>1. QED
    BY <1>5, TreePointers
<1>7. Chain \in [Nodes \cup {Null} -> V]
  <2>1. <<>> \in V /\ \A x \in Nodes : \A t \in V : <<x>> \o t \in V
    BY ConcatProperties
  <2> HIDE DEF V, G, Is
  <2>2. \A x \in Nodes \cup {Null} : Chain[x] \in V
    <3>0. Chain[Null] \in V /\ \A x \in Nodes : Chain[sibling[x]] \in V => Chain[x] \in V
      BY <1>6, <2>1
    <3>1. NoStepLeaves(V, Chain, Nodes, Null, child, sibling)
      BY <3>0 DEF NoStepLeaves
    <3>2. QED
      BY <1>1, <3>1, RecursionStays
  <2>3. Chain = [x \in Nodes \cup {Null} |-> Chain[x]]
    BY <1>5 DEF Is
  <2>4. QED
    BY <2>2, <2>3
<1>8. QED
  BY <1>6, <1>7

LEMMA WayEquations ==
    ASSUME Pointers, Forest
    PROVE  /\ Way \in [Nodes \cup {Null} -> Seq(Nodes)]
           /\ Way[Null] = <<>>
           /\ \A m \in Nodes :
                 Way[m] = IF m = child[cwd] THEN <<>> ELSE <<m>> \o Way[child[m]]
<1> DEFINE V == Seq(Nodes)
           G == [x \in Nodes |-> [u \in V |-> [v \in V |->
                    IF x = child[cwd] THEN <<>> ELSE <<x>> \o u]]]
           Is(f) == f = [m \in Nodes \cup {Null} |->
                            IF m = Null \/ m = child[cwd] THEN <<>> ELSE <<m>> \o f[child[m]]]
<1>1. Recursion(Nodes, Null, child, sibling, V, <<>>, G)
  <2>1. G \in [Nodes -> [V -> [V -> V]]]
    BY ConcatProperties
  <2>2. <<>> \in V
    OBVIOUS
  <2> HIDE DEF V, G
  <2>3. QED
    BY <2>1, <2>2, TreePointers DEF Recursion
<1>2. PICK f : Computes(f, Nodes, Null, child, sibling, V, <<>>, G)
  <2> HIDE DEF V, G
  <2>1. QED
    BY <1>1, RecursionExists
<1>3. /\ f \in [Nodes \cup {Null} -> V] /\ f[Null] = <<>>
      /\ \A x \in Nodes : f[x] = IF x = child[cwd] THEN <<>> ELSE <<x>> \o f[child[x]]
  BY <1>2, TreePointers DEF Computes
<1>4. Is(f)
  <2> HIDE DEF V, G
  <2>1. QED
    BY <1>3, TreePointers
<1>5. Is(Way)
  <2>1. Way = CHOOSE g : Is(g)
    BY DEF Way
  <2> HIDE DEF Is
  <2>2. QED
    BY <1>4, <2>1
<1>6. /\ Way[Null] = <<>>
      /\ \A m \in Nodes : Way[m] = IF m = child[cwd] THEN <<>> ELSE <<m>> \o Way[child[m]]
  <2> HIDE DEF V, G
  <2>1. QED
    BY <1>5, TreePointers
<1>7. Way \in [Nodes \cup {Null} -> V]
  <2>1. <<>> \in V /\ \A x \in Nodes : \A t \in V : <<x>> \o t \in V
    BY ConcatProperties
  <2> HIDE DEF V, G, Is
  <2>2. \A x \in Nodes \cup {Null} : Way[x] \in V
    <3>0. Way[Null] \in V /\ \A x \in Nodes : Way[child[x]] \in V => Way[x] \in V
      BY <1>6, <2>1
    <3>1. NoStepLeaves(V, Way, Nodes, Null, child, sibling)
      BY <3>0 DEF NoStepLeaves
    <3>2. QED
      BY <1>1, <3>1, RecursionStays
  <2>3. Way = [x \in Nodes \cup {Null} |-> Way[x]]
    BY <1>5 DEF Is
  <2>4. QED
    BY <2>2, <2>3
<1>8. QED
  BY <1>6, <1>7

LEMMA UpEquations ==
    ASSUME Pointers, Forest
    PROVE  /\ Up \in [Nodes -> Seq(Addr)]
           /\ Up[Root] = <<>>
           /\ \A m \in Addr : Up[m] = Append(Up[parent[m]], m)
<1> DEFINE V == Seq(Addr)
           G == [x \in Addr |-> [u \in V |-> [v \in V |-> Append(u, x)]]]
           Is(f) == f = [m \in Nodes |-> IF m = Root THEN <<>> ELSE Append(f[parent[m]], m)]
           up == [x \in Addr |-> parent[x]]
<1>0. /\ Root \notin Addr /\ Addr \cup {Root} = Nodes /\ up \in [Addr -> Addr \cup {Root}]
      /\ \A x \in Addr : up[x] = parent[x]
  BY TreePointers, FssimAssumption DEF Pointers
<1> HIDE DEF up
<1>1. Recursion(Addr, Root, up, up, V, <<>>, G)
  <2>1. G \in [Addr -> [V -> [V -> V]]]
    BY AppendProperties
  <2>2. <<>> \in V
    OBVIOUS
  <2>3. Ends(Addr, up, up)
    BY <1>0, TreePointers DEF Ends
  <2> HIDE DEF V, G
  <2>4. QED
    BY <1>0, <2>1, <2>2, <2>3 DEF Recursion
<1>2. PICK f : Computes(f, Addr, Root, up, up, V, <<>>, G)
  <2> HIDE DEF V, G
  <2>1. QED
    BY <1>1, RecursionExists
<1>3. /\ f \in [Nodes -> V] /\ f[Root] = <<>>
      /\ \A x \in Addr : f[x] = Append(f[parent[x]], x)
  <2>1. f \in [Nodes -> V] /\ \A x \in Addr : f[parent[x]] \in V
    BY <1>0, <1>2 DEF Computes
  <2>2. QED
    BY <1>0, <1>2, <2>1 DEF Computes
<1>4. Is(f)
  <2> HIDE DEF V, G
  <2>1. QED
    BY <1>0, <1>3
<1>5. Is(Up)
  <2>1. Up = CHOOSE g : Is(g)
    BY DEF Up
  <2> HIDE DEF Is
  <2>2. QED
    BY <1>4, <2>1
<1>6. Up[Root] = <<>> /\ \A m \in Addr : Up[m] = Append(Up[parent[m]], m)
  <2> HIDE DEF V, G
  <2>1. QED
    BY <1>0, <1>5
<1>7. Up \in [Nodes -> V]
  <2>1. <<>> \in V /\ \A x \in Addr : \A t \in V : Append(t, x) \in V
    BY AppendProperties
  <2> HIDE DEF V, G, Is
  <2>2. \A x \in Addr \cup {Root} : Up[x] \in V
    <3>0. Up[Root] \in V /\ \A x \in Addr : Up[up[x]] \in V => Up[x] \in V
      <4>1. \A x \in Addr : Up[x] = Append(Up[up[x]], x)
        BY <1>0, <1>6
      <4>2. Up[Root] \in V
        BY <1>6, <2>1
      <4>3. QED
        BY <2>1, <4>1, <4>2
    <3>1. NoStepLeaves(V, Up, Addr, Root, up, up)
      BY <3>0 DEF NoStepLeaves
    <3>2. QED
      BY <1>1, <3>1, RecursionStays
  <2>3. Up = [x \in Nodes |-> Up[x]]
    BY <1>5 DEF Is
  <2>4. QED
    BY <1>0, <2>2, <2>3
<1>8. QED
  BY <1>6, <1>7

\* Names and types that users type.
Labelled ==
    /\ name \in [Nodes -> Names \cup {Slash}]
    /\ type \in [Nodes -> Types]
    /\ name[Root] = Slash
    /\ \A n \in alloc : name[n] \in Names

FullLines == Names \X (Names \cup {Slash}) \X Types

LEMMA OwnLines ==
    ASSUME Pointers, Labelled, NEW n \in Nodes
    PROVE  /\ OwnLine(n) \in Seq(FullLines)
           /\ n \in alloc => OwnLine(n) = <<Line(n)>> /\ Line(n) \in FullLines
           /\ OwnLine(Root) = <<>>
<1>1. name[n] # Slash => Line(n) \in FullLines
  BY DEF Labelled, Line, FullLines, Pointers
<1>2. n \in alloc => name[n] # Slash
  BY FssimAssumption DEF Labelled
<1>3. QED
  BY <1>1, <1>2 DEF OwnLine, Labelled

LEMMA WrittenEquations ==
    ASSUME Pointers, Forest, Labelled
    PROVE  /\ Written \in [Nodes \cup {Null} -> Seq(FullLines)]
           /\ Written[Null] = <<>>
           /\ \A m \in Nodes :
                 Written[m] = OwnLine(m) \o Written[child[m]] \o Written[sibling[m]]
<1> DEFINE V == Seq(FullLines)
           G == [x \in Nodes |-> [u \in V |-> [v \in V |-> OwnLine(x) \o u \o v]]]
           Is(f) == f = [m \in Nodes \cup {Null} |->
                            IF m = Null THEN <<>>
                            ELSE OwnLine(m) \o f[child[m]] \o f[sibling[m]]]
<1>0. \A x \in Nodes : \A u, v \in V : OwnLine(x) \o u \o v \in V
  BY OwnLines, ConcatProperties
<1>1. Recursion(Nodes, Null, child, sibling, V, <<>>, G)
  <2>1. <<>> \in V
    OBVIOUS
  <2>2. G \in [Nodes -> [V -> [V -> V]]]
    <3> HIDE DEF V
    <3>1. QED
      BY <1>0
  <2> HIDE DEF V, G
  <2>3. QED
    BY <2>1, <2>2, TreePointers DEF Recursion
<1>2. PICK f : Computes(f, Nodes, Null, child, sibling, V, <<>>, G)
  <2> HIDE DEF V, G
  <2>1. QED
    BY <1>1, RecursionExists
<1>3. /\ f \in [Nodes \cup {Null} -> V] /\ f[Null] = <<>>
      /\ \A x \in Nodes : f[x] = OwnLine(x) \o f[child[x]] \o f[sibling[x]]
  <2>1. /\ f \in [Nodes \cup {Null} -> V] /\ f[Null] = <<>>
        /\ \A x \in Nodes : f[x] = G[x][f[child[x]]][f[sibling[x]]]
    BY <1>2 DEF Computes
  <2>2. \A x \in Nodes : f[child[x]] \in V /\ f[sibling[x]] \in V
    <3> HIDE DEF V, G
    <3>1. QED
      BY <2>1, TreePointers
  <2>3. \A x \in Nodes : \A u, v \in V : G[x][u][v] = OwnLine(x) \o u \o v
    <3> HIDE DEF V
    <3>1. QED
      OBVIOUS
  <2>4. QED
    <3> HIDE DEF V, G
    <3>1. QED
      BY <2>1, <2>2, <2>3
<1>4. Is(f)
  <2> HIDE DEF V, G
  <2>1. QED
    BY <1>3, TreePointers
<1>5. Is(Written)
  <2>1. Written = CHOOSE g : Is(g)
    BY DEF Written
  <2> HIDE DEF Is
  <2>2. QED
    BY <1>4, <2>1
<1>6. /\ Written[Null] = <<>>
      /\ \A m \in Nodes : Written[m] = OwnLine(m) \o Written[child[m]] \o Written[sibling[m]]
  <2> HIDE DEF V, G
  <2>1. QED
    BY <1>5, TreePointers
<1>7. Written \in [Nodes \cup {Null} -> V]
  <2>1. <<>> \in V
    OBVIOUS
  <2> HIDE DEF V, G, Is
  <2>2. \A x \in Nodes \cup {Null} : Written[x] \in V
    <3>1. NoStepLeaves(V, Written, Nodes, Null, child, sibling)
      BY <1>0, <1>6, <2>1 DEF NoStepLeaves
    <3>2. QED
      BY <1>1, <3>1, RecursionStays
  <2>3. Written = [x \in Nodes \cup {Null} |-> Written[x]]
    BY <1>5 DEF Is
  <2>4. QED
    BY <2>2, <2>3
<1>8. QED
  BY <1>6, <1>7

-----------------------------------------------------------------------------
(* The invariant of the nodes, their labels and the file. *)

FileOK ==
    /\ file = NoFile \/ file \in Seq(Lines)
    /\ pc \in {"prompt", "reload", "ended", "crashed"}
    /\ blank \in BOOLEAN
    /\ pos \in Nat
    /\ pc # "reload" => pos = 0
    /\ pc = "reload" => file \in Seq(Lines) /\ pos <= Len(file)

FInv == IInv /\ Forest /\ Labelled /\ FileOK

\* A line has a name, and perhaps a parent and a type.
LEMMA LineParts ==
    ASSUME NEW l \in Lines
    PROVE  /\ Len(l) \in 1 .. 3 /\ l[1] \in Names
           /\ Len(l) >= 2 => l[2] \in Names \cup {Slash}
           /\ Len(l) = 3 => l \in FullLines /\ l[3] \in Types
           /\ l \in FullLines => Len(l) = 3
<1>1. CASE l \in {<<nm>> : nm \in Names}
  <2>1. PICK nm \in Names : l = <<nm>>
    BY <1>1
  <2>2. Len(l) = 1 /\ l[1] = nm
    BY <2>1
  <2>3. \A k \in FullLines : Len(k) = 3
    BY DEF FullLines
  <2>4. QED
    BY <2>2, <2>3
<1>2. CASE l \in Names \X (Names \cup {Slash})
  <2>1. Len(l) = 2 /\ l[1] \in Names /\ l[2] \in Names \cup {Slash}
    BY <1>2
  <2>2. \A k \in FullLines : Len(k) = 3
    BY DEF FullLines
  <2>3. QED
    BY <2>1, <2>2
<1>3. CASE l \in Names \X (Names \cup {Slash}) \X Types
  <2>1. Len(l) = 3 /\ l[1] \in Names /\ l[2] \in Names \cup {Slash} /\ l[3] \in Types
    BY <1>3
  <2>2. QED
    BY <1>3, <2>1 DEF FullLines
<1>4. QED
  BY <1>1, <1>2, <1>3 DEF Lines

\* What save writes are lines, complete ones.
LEMMA SavedLines ==
    ASSUME FInv
    PROVE  Saved \in Seq(FullLines) /\ FullLines \subseteq Lines /\ Saved \in Seq(Lines)
<1>1. Saved \in Seq(FullLines)
  BY WrittenEquations, TreePointers DEF FInv, IInv, Saved
<1>2. FullLines \subseteq Lines
  BY DEF FullLines, Lines
<1>3. QED
  BY <1>1, <1>2, SeqMonotonic

LEMMA CutAt ==
    ASSUME NEW a, NEW b, NEW c
    PROVE  SubSeq(<<a, b, c>>, 1, 1) = <<a>> /\ SubSeq(<<a, b, c>>, 1, 2) = <<a, b>>
<1> DEFINE S == {a, b, c}
           s == <<a, b, c>>
           one == SubSeq(s, 1, 1)
           two == SubSeq(s, 1, 2)
<1>1. s \in Seq(S) /\ s[1] = a /\ s[2] = b /\ \A i \in 1 .. 2 : s[i] \in S
  OBVIOUS
<1>2. <<a>> \in Seq(S) /\ <<a, b>> \in Seq(S)
  OBVIOUS
<1> HIDE DEF S, s
<1>3. one \in Seq(S) /\ Len(one) = 1 /\ one[1] = a
  <2>1. \A i \in 1 .. 1 : s[i] \in S
    BY <1>1
  <2>2. one \in Seq(S) /\ Len(one) = 1 /\ \A i \in 1 .. 1 : one[i] = s[i]
    BY <2>1, SubSeqProperties
  <2> HIDE DEF one
  <2>3. QED
    BY <1>1, <2>2
<1>4. two \in Seq(S) /\ Len(two) = 2 /\ two[1] = a /\ two[2] = b
  <2>1. two \in Seq(S) /\ Len(two) = 2 /\ \A i \in 1 .. 2 : two[i] = s[i]
    BY <1>1, SubSeqProperties
  <2> HIDE DEF two
  <2>2. QED
    BY <1>1, <2>1
<1> HIDE DEF one, two
<1>5. one = <<a>>
  BY <1>2, <1>3, SeqEqual
<1>6. two = <<a, b>>
  BY <1>2, <1>4, SeqEqual
<1>7. QED
  BY <1>5, <1>6 DEF one, two, s

\* What an interrupted save writes are lines as well.
LEMMA CutLines ==
    ASSUME FInv, NEW k \in 0 .. Len(Saved)
    PROVE  /\ SubSeq(Saved, 1, k) \in Seq(Lines)
           /\ \A j \in 1 .. 2 : k < Len(Saved) =>
                 Append(SubSeq(Saved, 1, k), Cut(Saved[k + 1], j)) \in Seq(Lines)
<1>1. Saved \in Seq(FullLines) /\ FullLines \subseteq Lines /\ Saved \in Seq(Lines)
  BY SavedLines
<1>2. Len(Saved) \in Nat /\ \A i \in 1 .. Len(Saved) : Saved[i] \in FullLines
  BY <1>1, LenProperties
<1>3. SubSeq(Saved, 1, k) \in Seq(Lines)
  <2>1. k \in Int /\ \A i \in 1 .. k : Saved[i] \in Lines
    BY <1>1, <1>2
  <2>2. QED
    BY <2>1, SubSeqProperties
<1>4. ASSUME NEW j \in 1 .. 2, k < Len(Saved) PROVE Cut(Saved[k + 1], j) \in Lines
  <2>1. Saved[k + 1] \in FullLines
    BY <1>2, <1>4
  <2>2. PICK a \in Names, b \in Names \cup {Slash}, c \in Types : Saved[k + 1] = <<a, b, c>>
    BY <2>1 DEF FullLines
  <2>3. CASE j = 1
    <3>1. SubSeq(<<a, b, c>>, 1, 1) = <<a>>
      BY CutAt
    <3>2. QED
      BY <2>2, <2>3, <3>1 DEF Cut, Lines
  <2>4. CASE j = 2
    <3>1. SubSeq(<<a, b, c>>, 1, 2) = <<a, b>>
      BY CutAt
    <3>2. QED
      BY <2>2, <2>4, <3>1 DEF Cut, Lines
  <2>5. QED
    BY <2>3, <2>4
<1>5. QED
  BY <1>3, <1>4, AppendProperties

\* The line that is read.
LEMMA TextParts ==
    ASSUME FInv, Reading
    PROVE  /\ Text \in Lines /\ Len(file) \in Nat /\ pos + 1 \in 1 .. Len(file)
           /\ file \in Seq(Lines)
<1>1. file \in Seq(Lines) /\ pos \in Nat /\ pos < Len(file)
  BY DEF FInv, FileOK, Reading
<1>2. Len(file) \in Nat /\ \A i \in 1 .. Len(file) : file[i] \in Lines
  BY <1>1, LenProperties
<1>3. QED
  BY <1>1, <1>2 DEF Text

\* Initial and final states.
LEMMA BlankForest ==
    ASSUME Pointers', child' = [n \in Nodes |-> Null], sibling' = [n \in Nodes |-> Null],
           parent' = [n \in Nodes |-> Root], alloc' = {}
    PROVE  Forest'
<1>1. Root \in Nodes /\ Null \notin Nodes /\ Addr \subseteq Nodes /\ Root \notin Addr
  BY FssimAssumption DEF Nodes
<1>2. \A m \in Nodes : child'[m] = Null /\ sibling'[m] = Null /\ parent'[m] = Root
  OBVIOUS
<1>3. WalksEnd'
  BY <1>1, <1>2 DEF WalksEnd, Ends
<1>4. QED
  BY <1>1, <1>2, <1>3 DEF Forest, OnlyAllocated, OnePointer, ParentsFit

LEMMA InitFInv == Init => FInv
<1> SUFFICES ASSUME Init PROVE FInv
  OBVIOUS
<1>1. IInv
  BY InitIInv
<1>2. Root \in Nodes /\ Null \notin Nodes /\ Addr \subseteq Nodes /\ Root \notin Addr
  BY FssimAssumption DEF Nodes
<1>3. /\ \A m \in Nodes : child[m] = Null /\ sibling[m] = Null /\ parent[m] = Root
      /\ alloc = {}
  BY DEF Init
<1>4. WalksEnd
  BY <1>2, <1>3 DEF WalksEnd, Ends
<1>5. Forest
  BY <1>2, <1>3, <1>4 DEF Forest, OnlyAllocated, OnePointer, ParentsFit
<1>6. Labelled /\ FileOK
  BY <1>2 DEF Init, Labelled, FileOK, Types
<1>7. QED
  BY <1>1, <1>5, <1>6 DEF FInv

LEMMA EndFInv ==
    ASSUME NEW why \in {"ended", "crashed"}, End(why), file' = NoFile \/ file' \in Seq(Lines)
    PROVE  FInv'
<1>1. IInv'
  BY EndIInv
<1>2. Forest'
  BY <1>1, BlankForest DEF End, IInv
<1>3. Root \in Nodes
  BY DEF Nodes
<1>4. Labelled' /\ FileOK'
  BY <1>3 DEF End, Labelled, FileOK, Types
<1>5. QED
  BY <1>1, <1>2, <1>4 DEF FInv

\* A step that leaves the nodes alone.
LEMMA SameFInv ==
    ASSUME FInv, UNCHANGED treeVars, cwd' \in Tree, FileOK' PROVE FInv'
<1>1. IInv'
  BY SameIInv DEF FInv
<1>2. Forest' /\ Labelled'
  BY DEF FInv, treeVars, Forest, OnlyAllocated, OnePointer, ParentsFit, WalksEnd, Labelled
<1>3. QED
  BY <1>1, <1>2 DEF FInv

LEMMA NewNodeLabelled ==
    ASSUME FInv, NEW n, NEW nm \in Names, NEW ty \in Types, NEW d, NewNode(n, nm, ty, d)
    PROVE  Labelled'
<1>1. n \in Nodes /\ n # Root /\ Root \in Nodes /\ alloc \subseteq Nodes
  BY FssimAssumption DEF NewNode, Nodes, FInv, IInv, Pointers
<1>2. name' = [name EXCEPT ![n] = nm] /\ type' = [type EXCEPT ![n] = ty] /\ alloc' = alloc \cup {n}
  BY DEF NewNode
<1>3. QED
  BY <1>1, <1>2 DEF FInv, Labelled

LEMMA CreateFInv ==
    ASSUME FInv, NEW nm \in Names, NEW ty \in Types, Create(nm, ty) PROVE FInv'
<1>1. PICK n \in Addr :
          /\ NewNode(n, nm, ty, cwd)
          /\ sibling' = [sibling EXCEPT ![n] = child[cwd]]
          /\ child' = [child EXCEPT ![cwd] = n, ![n] = Null]
  BY DEF Create
<1>2. IInv'
  BY CreateIInv DEF FInv
<1>3. Forest'
  BY <1>1, <1>2, ForestInFront DEF FInv, IInv, NewNode
<1>4. Labelled'
  BY <1>1, NewNodeLabelled
<1>5. FileOK'
  BY DEF Create, FInv, FileOK
<1>6. QED
  BY <1>2, <1>3, <1>4, <1>5 DEF FInv

\* The directory a line goes to is in the tree.
LEMMA ParentDirInTree == ASSUME FInv, NEW d, d # Null, ParentDir(d) PROVE d \in Tree
<1>1. CASE d = Root
  BY <1>1, TreeClosed DEF FInv, IInv
<1>2. CASE SearchTree(Root, Text[2], d)
  BY <1>2, Visited DEF FInv, IInv, SearchTree
<1>3. QED
  BY <1>1, <1>2 DEF ParentDir

LEMMA ReloadLineFInv == ASSUME FInv, ReloadLine PROVE FInv'
<1>1. PICK d \in Nodes, n \in Addr :
          /\ ToBeAdded(d) /\ Len(Text) = 3
          /\ NewNode(n, Text[1], Text[3], d) /\ AppendTo(d, n)
  BY DEF ReloadLine
<1>2. IInv'
  BY ReloadLineIInv DEF FInv
<1>3. Reading /\ d \in Tree
  BY <1>1, ParentDirInTree DEF ToBeAdded
<1>4. Text[1] \in Names /\ Text[3] \in Types
  BY <1>1, <1>3, TextParts, LineParts
<1>5. Labelled'
  BY <1>1, <1>4, NewNodeLabelled
<1>6. FileOK'
  BY <1>3, TextParts DEF ReloadLine, FInv, FileOK, Reading
<1>7. Forest'
  <2>1. n \in Addr \ alloc /\ alloc' = alloc \cup {n} /\ parent' = [parent EXCEPT ![n] = d]
    BY <1>1 DEF NewNode
  <2>2. CASE child[d] = Null
    <3>1. /\ child' = [child EXCEPT ![d] = n, ![n] = Null]
          /\ sibling' = [sibling EXCEPT ![n] = child[d]]
      BY <1>1, <2>2 DEF AppendTo
    <3>2. QED
      BY <1>2, <1>3, <2>1, <3>1, ForestInFront DEF FInv, IInv
  <2>3. CASE child[d] # Null
    <3>1. PICK last \in After(child[d]) :
              /\ sibling[last] = Null
              /\ sibling' = [sibling EXCEPT ![last] = n, ![n] = Null]
              /\ child' = [child EXCEPT ![n] = Null]
      BY <1>1, <2>3 DEF AppendTo
    <3>2. QED
      BY <1>2, <1>3, <2>1, <3>1, ForestBehind DEF FInv, IInv
  <2>4. QED
    BY <2>2, <2>3
<1>8. QED
  BY <1>2, <1>5, <1>6, <1>7 DEF FInv

LEMMA UnlinkFInv ==
    ASSUME FInv, NEW n \in Addr, n \in After(child[cwd]), Unlink(n) PROVE FInv'
<1>1. IInv'
  BY UnlinkIInv DEF FInv
<1>2. /\ n \in Tree /\ parent[n] = cwd /\ cwd \in Tree /\ cwd # n /\ sibling[n] # n
      /\ Tree \subseteq Nodes /\ n \in Nodes /\ cwd \in Nodes /\ n # Root
  <2>1. n \in Tree /\ parent[n] = cwd /\ cwd \in Tree /\ Tree \subseteq Nodes
    BY Entries, TreeClosed DEF FInv, IInv, Closed
  <2>2. QED
    BY <2>1, NoOwnParent, NoOwnSibling, FssimAssumption DEF FInv, IInv, Nodes
<1>3. /\ alloc' = alloc \ {n} /\ parent' = [parent EXCEPT ![n] = Root]
      /\ name' = [name EXCEPT ![n] = Slash] /\ type' = [type EXCEPT ![n] = "D"]
  BY DEF Unlink
<1>4. Forest'
  <2>1. CASE child[cwd] = n
    <3>1. /\ child' = [child EXCEPT ![cwd] = sibling[n], ![n] = Null]
          /\ sibling' = [sibling EXCEPT ![n] = Null]
      BY <2>1 DEF Unlink
    <3>2. TakenOut(n, cwd)
      BY <1>2, <1>3, <2>1, <3>1 DEF FInv, IInv, Pointers, TakenOut
    <3>3. QED
      BY <1>1, <1>2, <3>2, ForestTaken DEF FInv, IInv
  <2>2. CASE child[cwd] # n
    <3>1. PICK p \in After(child[cwd]) :
              /\ sibling[p] = n
              /\ sibling' = [sibling EXCEPT ![p] = sibling[n], ![n] = Null]
              /\ child' = [child EXCEPT ![n] = Null]
      BY <2>2 DEF Unlink
    <3>2. p \in Tree /\ p # n /\ p \in Nodes /\ parent[p] = cwd
      BY <1>2, <3>1, Entries DEF FInv, IInv
    <3>3. TakenOut(n, p)
      BY <1>2, <1>3, <3>1, <3>2 DEF FInv, IInv, Pointers, TakenOut
    <3>4. QED
      BY <1>1, <1>2, <3>2, <3>3, ForestTaken DEF FInv, IInv
  <2>3. QED
    BY <2>1, <2>2
<1>5. Labelled'
  <2>1. Root \in Nodes /\ alloc \subseteq Nodes
    BY DEF Nodes, FInv, IInv, Pointers
  <2>2. QED
    BY <1>2, <1>3, <2>1 DEF FInv, Labelled, Types
<1>6. FileOK'
  BY DEF Unlink, FInv, FileOK
<1>7. QED
  BY <1>1, <1>4, <1>5, <1>6 DEF FInv

LEMMA NextFInv == FInv /\ [Next]_vars => FInv'
<1> SUFFICES ASSUME FInv, [Next]_vars PROVE FInv'
  OBVIOUS
<1>1. cwd \in Tree /\ Root \in Tree /\ parent[cwd] \in Tree
  BY TreeClosed, ParentsIn DEF FInv, IInv
<1>2. ASSUME NEW nm \in Names, Command(nm) PROVE FInv'
  <2>1. ASSUME NEW ty \in Types, Create(nm, ty) PROVE FInv'
    BY <2>1, CreateFInv
  <2>2. CASE Rmdir(nm)
    BY <2>2, UnlinkFInv DEF Rmdir, FirstEntry, NamedDir, Named
  <2>3. CASE Rm(nm)
    BY <2>3, UnlinkFInv DEF Rm, FirstEntry, Named
  <2>4. CASE Cd(nm)
    <3>1. PICK n \in Addr : FirstEntry(Named(nm), n) /\ CdTo(n)
      BY <2>4 DEF Cd
    <3>2. n \in Tree
      BY <1>1, <3>1, Entries DEF FirstEntry, Named, FInv, IInv
    <3>3. UNCHANGED treeVars /\ cwd' = n /\ FileOK'
      BY <3>1 DEF CdTo, FInv, FileOK
    <3>4. QED
      BY <3>2, <3>3, SameFInv
  <2>5. QED
    BY <1>2, <2>1, <2>2, <2>3, <2>4 DEF Command
<1>3. CASE CdRoot \/ CdUp
  <2>1. UNCHANGED treeVars /\ cwd' \in {Root, parent[cwd]} /\ FileOK'
    BY <1>3 DEF CdRoot, CdUp, CdTo, FInv, FileOK
  <2>2. QED
    BY <1>1, <2>1, SameFInv
<1>4. CASE CreateNothing \/ RemoveNothing \/ CdInEmpty \/ ReloadMissing \/ ReloadCut \/ Interrupt
  <2>1. \E why \in {"ended", "crashed"} : End(why)
    BY <1>4 DEF CreateNothing, RemoveNothing, CdInEmpty,
       ReloadMissing, ReloadCut, Interrupt, Crash
  <2>2. file' = file
    BY <1>4 DEF CreateNothing, RemoveNothing, CdInEmpty,
       ReloadMissing, ReloadCut, Interrupt, Crash
  <2>3. QED
    BY <2>1, <2>2, EndFInv DEF FInv, FileOK
<1>5. CASE Quit
  BY <1>5, EndFInv, SavedLines DEF Quit
<1>6. CASE SaveInterrupted
  <2>1. file' \in Seq(Lines) /\ End("ended")
    BY <1>6, CutLines DEF SaveInterrupted
  <2>2. QED
    BY <2>1, EndFInv
<1>7. CASE Save
  <2>1. FileOK' /\ UNCHANGED <<treeVars, cwd>>
    BY <1>7, SavedLines DEF Save, FInv, FileOK
  <2>2. QED
    BY <1>1, <2>1, SameFInv
<1>8. CASE Reload
  <2>1. FileOK' /\ UNCHANGED <<treeVars, cwd>>
    BY <1>8, LenProperties DEF Reload, FInv, FileOK
  <2>2. QED
    BY <1>1, <2>1, SameFInv
<1>9. CASE ReloadSkip
  <2>1. FileOK' /\ UNCHANGED <<treeVars, cwd>>
    BY <1>9, TextParts DEF ReloadSkip, Reading, FInv, FileOK
  <2>2. QED
    BY <1>1, <2>1, SameFInv
<1>10. CASE ReloadEnd \/ Start
  <2>1. CASE ReloadEnd
    <3>1. FileOK' /\ UNCHANGED <<treeVars, cwd>>
      BY <2>1 DEF ReloadEnd, FInv, FileOK
    <3>2. QED
      BY <1>1, <3>1, SameFInv
  <2>2. CASE Start
    <3>1. pos = 0 /\ pc' = "prompt" /\ UNCHANGED <<treeVars, cwd, file, pos, blank>>
      BY <2>2 DEF Start, FInv, FileOK
    <3>2. FileOK'
      BY <3>1 DEF FInv, FileOK
    <3>3. QED
      BY <1>1, <3>1, <3>2, SameFInv
  <2>3. QED
    BY <1>10, <2>1, <2>2
<1>11. CASE ReloadLine
  BY <1>11, ReloadLineFInv
<1>12. CASE UNCHANGED vars
  <2>1. FileOK' /\ UNCHANGED <<treeVars, cwd>>
    BY <1>12 DEF vars, FInv, FileOK
  <2>2. QED
    BY <1>1, <2>1, SameFInv
<1>13. QED
  BY <1>2, <1>3, <1>4, <1>5, <1>6, <1>7, <1>8, <1>9, <1>10, <1>11, <1>12 DEF Next

\* In every reachable state, lost nodes included: one pointer leads to a node at most,
\* siblings have the same parent, following pointers ends, and the file is made of lines.
THEOREM ForestInvariance == Spec => []FInv
<1>1. FInv /\ [Next]_vars => FInv'
  BY NextFInv
<1>2. QED
  BY InitFInv, <1>1, PTL DEF Spec

\* The types hold in every reachable state: whatever is saved, cut off or reloaded,
\* the file holds lines that reload can take apart.
THEOREM FssimTypes == Spec => []TypeOK
<1>1. FInv => TypeOK
  <2> SUFFICES ASSUME FInv PROVE TypeOK
    OBVIOUS
  <2>1. file = NoFile \/ (DOMAIN file = 1 .. Len(file) /\ \A k \in DOMAIN file : file[k] \in Lines)
    BY LenProperties DEF FInv, FileOK
  <2>2. QED
    BY <2>1 DEF FInv, IInv, Pointers, Labelled, FileOK, TypeOK
<1>2. QED
  BY ForestInvariance, <1>1, PTL

-----------------------------------------------------------------------------
(* Listings. *)

\* A list of siblings, and the smallest set that is closed under sibling.
LEMMA AfterClosed ==
    ASSUME FInv, NEW m \in Nodes
    PROVE  /\ m \in After(m) /\ After(m) \subseteq Nodes
           /\ \A x \in After(m) : sibling[x] \in After(m) \cup {Null}
<1>1. m # Null /\ \A x \in Nodes : sibling[x] \in Nodes \cup {Null}
  BY TreePointers DEF FInv, IInv
<1>2. m \in After(m) /\ After(m) \subseteq Nodes
  BY <1>1 DEF After
<1>3. ASSUME NEW x \in After(m), sibling[x] # Null PROVE sibling[x] \in After(m)
  <2>1. sibling[x] \in Nodes
    BY <1>1, <1>2, <1>3
  <2>2. ASSUME NEW S \in SUBSET Nodes, m \in S, \A y \in S : sibling[y] \in S \cup {Null}
        PROVE  sibling[x] \in S
    <3>1. x \in S
      BY <1>1, <2>2 DEF After
    <3>2. QED
      BY <1>3, <2>2, <3>1
  <2>3. QED
    BY <1>1, <2>1, <2>2 DEF After
<1>4. QED
  BY <1>2, <1>3

LEMMA AfterSmallest ==
    ASSUME NEW m, NEW S, S \subseteq Nodes, m \in S, \A x \in S : sibling[x] \in S \cup {Null}
    PROVE  After(m) \subseteq S
  BY DEF After

LEMMA AfterStep ==
    ASSUME FInv, NEW m \in Nodes
    PROVE  After(m) = {m} \cup After(sibling[m])
<1>1. /\ sibling[m] \in Nodes \cup {Null} /\ Null \notin Nodes
      /\ \A x \in Nodes : sibling[x] \in Nodes \cup {Null}
  BY TreePointers DEF FInv, IInv
<1>2. /\ m \in After(m) /\ After(m) \subseteq Nodes
      /\ \A x \in After(m) : sibling[x] \in After(m) \cup {Null}
  BY AfterClosed
<1>3. CASE sibling[m] = Null
  <2>1. After(sibling[m]) = {}
    BY <1>3 DEF After
  <2>2. After(m) \subseteq {m}
    BY <1>3, AfterSmallest
  <2>3. QED
    BY <1>2, <2>1, <2>2
<1>4. CASE sibling[m] # Null
  <2>1. /\ sibling[m] \in After(sibling[m]) /\ After(sibling[m]) \subseteq Nodes
        /\ \A x \in After(sibling[m]) : sibling[x] \in After(sibling[m]) \cup {Null}
    BY <1>1, <1>4, AfterClosed
  <2>2. After(m) \subseteq {m} \cup After(sibling[m])
    <3> DEFINE S == {m} \cup After(sibling[m])
    <3>1. S \subseteq Nodes /\ m \in S /\ \A x \in S : sibling[x] \in S \cup {Null}
      BY <2>1
    <3> HIDE DEF S
    <3>2. After(m) \subseteq S
      BY <3>1, AfterSmallest
    <3>3. QED
      BY <3>2 DEF S
  <2>3. sibling[m] \in After(m)
    BY <1>2, <1>4
  <2>4. After(sibling[m]) \subseteq After(m)
    BY <1>2, <2>3, AfterSmallest
  <2>5. QED
    BY <1>2, <2>2, <2>4
<1>5. QED
  BY <1>3, <1>4

\* ls shows the siblings of the first entry.
LEMMA Chains ==
    ASSUME FInv
    PROVE  /\ Chain \in [Nodes \cup {Null} -> Seq(Nodes)]
           /\ Chain[Null] = <<>>
           /\ \A m \in Nodes : Chain[m] = <<m>> \o Chain[sibling[m]]
  BY ChainEquations DEF FInv, IInv

LEMMA InFront ==
    ASSUME NEW S, NEW t \in Seq(S), NEW x \in S
    PROVE  \A n : Fs!In(n, <<x>> \o t) <=> n = x \/ Fs!In(n, t)
<1>1. /\ <<x>> \o t \in Seq(S) /\ Len(<<x>> \o t) = 1 + Len(t) /\ Len(t) \in Nat
      /\ (<<x>> \o t)[1] = x /\ \A k \in 1 .. Len(t) : (<<x>> \o t)[k + 1] = t[k]
      /\ DOMAIN (<<x>> \o t) = 1 .. 1 + Len(t) /\ DOMAIN t = 1 .. Len(t)
  BY ConcatProperties, LenProperties
<1> DEFINE s == <<x>> \o t
<1> HIDE DEF s
<1>2. /\ s[1] = x /\ \A k \in 1 .. Len(t) : s[k + 1] = t[k]
      /\ DOMAIN s = 1 .. 1 + Len(t) /\ DOMAIN t = 1 .. Len(t) /\ Len(t) \in Nat
  BY <1>1 DEF s
<1>3. ASSUME NEW n PROVE Fs!In(n, s) <=> n = x \/ Fs!In(n, t)
  <2>1. ASSUME Fs!In(n, s) PROVE n = x \/ Fs!In(n, t)
    <3>1. PICK k \in 1 .. 1 + Len(t) : s[k] = n
      BY <1>2, <2>1 DEF Fs!In
    <3>2. CASE k = 1
      BY <1>2, <3>1, <3>2
    <3>3. CASE k # 1
      <4>1. k - 1 \in 1 .. Len(t) /\ s[(k - 1) + 1] = t[k - 1] /\ (k - 1) + 1 = k
        BY <1>2, <3>1, <3>3
      <4>2. QED
        BY <1>2, <3>1, <4>1 DEF Fs!In
    <3>4. QED
      BY <3>2, <3>3
  <2>2. ASSUME n = x PROVE Fs!In(n, s)
    <3>1. 1 \in DOMAIN s
      BY <1>2
    <3>2. QED
      BY <1>2, <2>2, <3>1 DEF Fs!In
  <2>3. ASSUME Fs!In(n, t) PROVE Fs!In(n, s)
    <3>1. PICK k \in 1 .. Len(t) : t[k] = n
      BY <1>2, <2>3 DEF Fs!In
    <3>2. k + 1 \in DOMAIN s
      BY <1>2
    <3>3. QED
      BY <1>2, <3>1, <3>2 DEF Fs!In
  <2>4. QED
    BY <2>1, <2>2, <2>3
<1>4. QED
  BY <1>3 DEF s

LEMMA Listed ==
    ASSUME FInv, NEW m \in Nodes \cup {Null}
    PROVE  \A n : Fs!In(n, Chain[m]) <=> n \in After(m)
<1> DEFINE D == {x \in Nodes : ~\A n : Fs!In(n, Chain[x]) <=> n \in After(x)}
<1>1. \A n : Fs!In(n, Chain[Null]) <=> n \in After(Null)
  BY Chains DEF Fs!In, After
<1>2. D = {}
  <2> SUFFICES ASSUME D # {} PROVE FALSE
    OBVIOUS
  <2>1. PICK x \in D : sibling[x] \notin D
    <3>1. D \in SUBSET Nodes
      OBVIOUS
    <3>2. QED
      BY <3>1, TreePointers DEF Ends, FInv, IInv
  <2>2. sibling[x] \in Nodes \cup {Null} /\ x \in Nodes
    BY <2>1, TreePointers DEF FInv, IInv
  <2>3. \A n : Fs!In(n, Chain[sibling[x]]) <=> n \in After(sibling[x])
    BY <1>1, <2>1, <2>2
  <2>4. Chain[sibling[x]] \in Seq(Nodes) /\ Chain[x] = <<x>> \o Chain[sibling[x]]
    BY <2>2, Chains
  <2>5. \A n : Fs!In(n, Chain[x]) <=> n = x \/ Fs!In(n, Chain[sibling[x]])
    BY <2>2, <2>4, InFront
  <2>6. \A n : Fs!In(n, Chain[x]) <=> n \in After(x)
    BY <2>2, <2>3, <2>5, AfterStep
  <2>7. QED
    BY <2>1, <2>6
<1>3. QED
  BY <1>1, <1>2

\* The same after a step.
LEMMA ChainsNext ==
    ASSUME FInv'
    PROVE  (/\ Chain \in [Nodes \cup {Null} -> Seq(Nodes)]
            /\ Chain[Null] = <<>>
            /\ \A m \in Nodes : Chain[m] = <<m>> \o Chain[sibling[m]])'
  BY Chains, PTL

\* Lists whose pointers stay are kept.
LEMMA ChainKept ==
    ASSUME FInv, FInv', NEW T, T \subseteq Nodes,
           \A x \in T : sibling'[x] = sibling[x] /\ sibling[x] \in T \cup {Null}
    PROVE  \A m \in T \cup {Null} : Chain'[m] = Chain[m]
<1> DEFINE D == {x \in T : Chain'[x] # Chain[x]}
<1>1. /\ Chain[Null] = <<>> /\ \A m \in Nodes : Chain[m] = <<m>> \o Chain[sibling[m]]
      /\ Chain'[Null] = <<>> /\ \A m \in Nodes : Chain'[m] = <<m>> \o Chain'[sibling'[m]]
  BY Chains, ChainsNext
<1>2. D = {}
  <2> SUFFICES ASSUME D # {} PROVE FALSE
    OBVIOUS
  <2>1. PICK x \in D : sibling[x] \notin D
    <3>1. D \in SUBSET Nodes
      OBVIOUS
    <3>2. QED
      BY <3>1, TreePointers DEF Ends, FInv, IInv
  <2>2. /\ Chain[x] = <<x>> \o Chain[sibling[x]] /\ Chain'[x] = <<x>> \o Chain'[sibling[x]]
        /\ sibling[x] \in T \cup {Null}
    BY <1>1, <2>1
  <2>3. Chain'[sibling[x]] = Chain[sibling[x]]
    BY <1>1, <2>1, <2>2
  <2>4. QED
    BY <2>1, <2>2, <2>3
<1>3. QED
  BY <1>1, <1>2

\* A node that is put behind last is put at the end of the lists last is in.
LEMMA ChainAppended ==
    ASSUME FInv, FInv', NEW n \in Addr \ alloc, NEW last \in Nodes \ {n},
           sibling[last] = Null, sibling'[last] = n, sibling'[n] = Null,
           \A x \in Nodes \ {n, last} : sibling'[x] = sibling[x]
    PROVE  \A m \in Nodes \ {n} :
               Chain'[m] = IF last \in After(m) THEN Append(Chain[m], n) ELSE Chain[m]
<1> DEFINE OK(m) == Chain'[m] = IF last \in After(m) THEN Append(Chain[m], n) ELSE Chain[m]
           D == {m \in Nodes \ {n} : ~OK(m)}
<1>1. /\ Chain \in [Nodes \cup {Null} -> Seq(Nodes)]
      /\ Chain[Null] = <<>> /\ \A m \in Nodes : Chain[m] = <<m>> \o Chain[sibling[m]]
      /\ Chain'[Null] = <<>> /\ \A m \in Nodes : Chain'[m] = <<m>> \o Chain'[sibling'[m]]
  BY Chains, ChainsNext
<1>2. /\ n \in Nodes /\ \A m \in Nodes : sibling[m] # n /\ sibling[m] \in Nodes \cup {Null}
      /\ Null \notin Nodes
  BY Fresh, TreePointers DEF FInv, IInv
<1>3. \A x \in Nodes : \A s \in Seq(Nodes) :
          /\ Append(s, n) \in Seq(Nodes)
          /\ <<x>> \o Append(s, n) = Append(<<x>> \o s, n)
          /\ <<x>> \o <<>> = <<x>> /\ <<x>> \o <<n>> = Append(<<x>>, n)
  <2>1. ASSUME NEW x \in Nodes, NEW s \in Seq(Nodes)
        PROVE  /\ Append(s, n) \in Seq(Nodes)
               /\ <<x>> \o Append(s, n) = Append(<<x>> \o s, n)
    <3>1. <<x>> \in Seq(Nodes) /\ <<n>> \in Seq(Nodes) /\ <<x>> \o s \in Seq(Nodes)
      BY <1>2, ConcatProperties
    <3>2. Append(s, n) = s \o <<n>> /\ Append(<<x>> \o s, n) = (<<x>> \o s) \o <<n>>
      BY <1>2, <3>1, AppendIsConcat
    <3>3. QED
      BY <1>2, <3>1, <3>2, ConcatAssociative, AppendProperties
  <2>2. ASSUME NEW x \in Nodes
        PROVE  <<x>> \o <<>> = <<x>> /\ <<x>> \o <<n>> = Append(<<x>>, n)
    <3>1. <<x>> \in Seq(Nodes)
      OBVIOUS
    <3>2. QED
      BY <1>2, <3>1, ConcatEmptySeq, AppendIsConcat
  <2>3. <<n>> \o <<>> = <<n>>
    BY <1>2, <2>2
  <2>4. QED
    BY <2>1, <2>2
<1>4. D = {}
  <2> SUFFICES ASSUME D # {} PROVE FALSE
    OBVIOUS
  <2>1. PICK x \in D : sibling[x] \notin D
    <3>1. D \in SUBSET Nodes
      OBVIOUS
    <3>2. QED
      BY <3>1, TreePointers DEF Ends, FInv, IInv
  <2>2. x \in Nodes /\ x # n /\ sibling[x] \in (Nodes \ {n}) \cup {Null} /\ ~OK(x)
    BY <1>2, <2>1
  <2>3. CASE x = last
    <3>1. last \in After(x) /\ Chain[x] = <<x>> \o <<>>
      <4>1. After(x) = {x} \cup After(sibling[x])
        BY <2>2, AfterStep
      <4>2. Chain[x] = <<x>> \o Chain[sibling[x]] /\ sibling[x] = Null
        BY <1>1, <2>2, <2>3
      <4>3. QED
        BY <1>1, <2>3, <4>1, <4>2
    <3>2. Chain'[n] = <<n>> \o <<>> /\ Chain'[x] = <<x>> \o Chain'[n]
      <4>1. Chain'[n] = <<n>> \o Chain'[Null] /\ Chain'[Null] = <<>>
        BY <1>1, <1>2
      <4>2. Chain'[last] = <<last>> \o Chain'[n]
        BY <1>1
      <4>3. QED
        BY <2>3, <4>1, <4>2
    <3>3. Chain'[n] = <<n>> /\ Chain[x] = <<x>>
      BY <1>2, <1>3, <2>2, <3>1, <3>2
    <3>4. Chain'[x] = Append(Chain[x], n)
      BY <1>1, <1>3, <2>2, <3>2, <3>3
    <3>5. QED
      BY <2>2, <2>3, <3>1, <3>4
  <2>4. CASE x # last
    <3>1. sibling'[x] = sibling[x]
      BY <2>2, <2>4
    <3>2. Chain'[x] = <<x>> \o Chain'[sibling[x]] /\ Chain[x] = <<x>> \o Chain[sibling[x]]
      BY <1>1, <2>2, <3>1
    <3>3. last \in After(x) <=> last \in After(sibling[x])
      BY <2>2, <2>4, AfterStep
    <3>4. CASE sibling[x] = Null
      <4>1. last \notin After(x)
        BY <3>3, <3>4 DEF After
      <4>2. QED
        BY <1>1, <2>2, <3>2, <3>4, <4>1
    <3>5. CASE sibling[x] # Null
      <4>1. OK(sibling[x]) /\ Chain[sibling[x]] \in Seq(Nodes)
        BY <1>1, <2>1, <2>2, <3>5
      <4>2. CASE last \in After(x)
        <5>1. Chain'[x] = <<x>> \o Append(Chain[sibling[x]], n)
          BY <3>2, <3>3, <4>1, <4>2
        <5>2. QED
          BY <1>3, <2>2, <3>2, <4>1, <4>2, <5>1
      <4>3. CASE last \notin After(x)
        BY <2>2, <3>2, <3>3, <4>1, <4>3
      <4>4. QED
        BY <4>2, <4>3
    <3>6. QED
      BY <3>4, <3>5
  <2>5. QED
    BY <2>3, <2>4
<1>5. QED
  BY <1>4

\* Taking the k-th element out of a sequence.
LEMMA WithoutBehind ==
    ASSUME NEW S, NEW x \in S, NEW t \in Seq(S), NEW k \in DOMAIN t
    PROVE  /\ k + 1 \in DOMAIN (<<x>> \o t) /\ (<<x>> \o t)[k + 1] = t[k]
           /\ <<x>> \o Fs!Without(t, k) = Fs!Without(<<x>> \o t, k + 1)
<1> DEFINE s == <<x>> \o t
           A == SubSeq(t, 1, k - 1)
           B == SubSeq(t, k + 1, Len(t))
<1>1. Len(t) \in Nat /\ k \in 1 .. Len(t) /\ k \in Int /\ \A i \in 1 .. Len(t) : t[i] \in S
  BY LenProperties
<1>2. /\ s \in Seq(S) /\ Len(s) = 1 + Len(t) /\ s[1] = x
      /\ \A i \in 1 .. Len(t) : s[i + 1] = t[i]
      /\ DOMAIN s = 1 .. Len(s) /\ \A i \in 1 .. Len(s) : s[i] \in S
  <2>1. /\ s \in Seq(S) /\ Len(s) = 1 + Len(t)
        /\ \A i \in 1 .. 1 + Len(t) : s[i] = IF i <= 1 THEN <<x>>[i] ELSE t[i - 1]
    BY ConcatProperties
  <2>2. DOMAIN s = 1 .. Len(s) /\ \A i \in 1 .. Len(s) : s[i] \in S
    BY <2>1, LenProperties
  <2> HIDE DEF s
  <2>3. QED
    BY <1>1, <2>1, <2>2
<1> HIDE DEF s
<1>3. /\ A \in Seq(S) /\ Len(A) = k - 1
      /\ \A i \in 1 .. k - 1 : A[i] = t[i]
  <2>1. /\ 1 \in Int /\ k - 1 \in Int /\ \A i \in 1 .. k - 1 : t[i] \in S
    BY <1>1
  <2>2. /\ A \in Seq(S) /\ Len(A) = IF 1 <= k - 1 THEN (k - 1) - 1 + 1 ELSE 0
        /\ \A i \in 1 .. (k - 1) - 1 + 1 : A[i] = t[1 + i - 1]
    BY <2>1, SubSeqProperties
  <2> HIDE DEF A
  <2>3. QED
    BY <1>1, <2>2
<1>4. /\ B \in Seq(S) /\ Len(B) = Len(t) - k
      /\ \A i \in 1 .. Len(t) - k : B[i] = t[k + i]
  <2>1. /\ k + 1 \in Int /\ Len(t) \in Int /\ \A i \in k + 1 .. Len(t) : t[i] \in S
    BY <1>1
  <2>2. /\ B \in Seq(S) /\ Len(B) = IF k + 1 <= Len(t) THEN Len(t) - (k + 1) + 1 ELSE 0
        /\ \A i \in 1 .. Len(t) - (k + 1) + 1 : B[i] = t[(k + 1) + i - 1]
    BY <2>1, SubSeqProperties
  <2> HIDE DEF B
  <2>3. QED
    BY <1>1, <2>2
<1> DEFINE C == SubSeq(s, 1, k)
           E == SubSeq(s, k + 2, Len(s))
<1>5. /\ C \in Seq(S) /\ Len(C) = k
      /\ \A i \in 1 .. k : C[i] = s[i]
  <2>1. /\ 1 \in Int /\ k \in Int /\ \A i \in 1 .. k : s[i] \in S
    BY <1>1, <1>2
  <2>2. /\ C \in Seq(S) /\ Len(C) = IF 1 <= k THEN k - 1 + 1 ELSE 0
        /\ \A i \in 1 .. k - 1 + 1 : C[i] = s[1 + i - 1]
    BY <2>1, SubSeqProperties
  <2> HIDE DEF C
  <2>3. QED
    BY <1>1, <2>2
<1>6. /\ E \in Seq(S) /\ Len(E) = Len(t) - k
      /\ \A i \in 1 .. Len(t) - k : E[i] = s[k + i + 1]
  <2>1. /\ k + 2 \in Int /\ Len(s) \in Int /\ \A i \in k + 2 .. Len(s) : s[i] \in S
    BY <1>1, <1>2
  <2>2. /\ E \in Seq(S) /\ Len(E) = IF k + 2 <= Len(s) THEN Len(s) - (k + 2) + 1 ELSE 0
        /\ \A i \in 1 .. Len(s) - (k + 2) + 1 : E[i] = s[(k + 2) + i - 1]
    BY <2>1, SubSeqProperties
  <2> HIDE DEF E
  <2>3. /\ Len(s) - (k + 2) + 1 = Len(t) - k
        /\ \A i \in 1 .. Len(t) - k : (k + 2) + i - 1 = k + i + 1
    <3>1. k \in Int /\ Len(t) \in Int /\ Len(s) = 1 + Len(t)
      BY <1>1, <1>2
    <3>2. QED
      BY <3>1
  <2>4. Len(E) = Len(t) - k
    BY <1>1, <1>2, <2>2
  <2>5. QED
    BY <2>2, <2>3, <2>4
<1> HIDE DEF A, B, C, E
<1>7. B = E
  <2>1. \A i \in 1 .. Len(B) : B[i] = E[i]
    <3>1. ASSUME NEW i \in 1 .. Len(t) - k PROVE B[i] = E[i]
      <4>1. k + i \in 1 .. Len(t) /\ k + i + 1 = (k + i) + 1
        BY <1>1
      <4>2. s[(k + i) + 1] = t[k + i]
        BY <1>2, <4>1
      <4>3. QED
        BY <1>4, <1>6, <4>1, <4>2
    <3>2. QED
      BY <1>4, <3>1
  <2>2. QED
    BY <1>4, <1>6, <2>1, SeqEqual
<1>8. <<x>> \o A = C
  <2>1. /\ <<x>> \o A \in Seq(S) /\ Len(<<x>> \o A) = 1 + Len(A)
        /\ \A i \in 1 .. 1 + Len(A) : (<<x>> \o A)[i] = IF i <= 1 THEN <<x>>[i] ELSE A[i - 1]
    BY <1>3, ConcatProperties
  <2> DEFINE F == <<x>> \o A
  <2> HIDE DEF F
  <2>2. \A i \in 1 .. Len(F) : F[i] = C[i]
    <3>1. ASSUME NEW i \in 1 .. k PROVE F[i] = C[i]
      <4>1. CASE i = 1
        BY <1>1, <1>2, <1>3, <1>5, <2>1, <4>1 DEF F
      <4>2. CASE i # 1
        <5>1. i - 1 \in 1 .. k - 1 /\ i - 1 \in 1 .. Len(t) /\ (i - 1) + 1 = i
          BY <1>1, <4>2
        <5>2. F[i] = A[i - 1]
          <6>1. i \in 1 .. 1 + Len(A) /\ ~(i <= 1)
            BY <1>1, <1>3, <4>2
          <6>2. QED
            BY <2>1, <6>1 DEF F
        <5>3. A[i - 1] = t[i - 1] /\ s[(i - 1) + 1] = t[i - 1]
          BY <1>2, <1>3, <5>1
        <5>4. QED
          BY <1>5, <5>1, <5>2, <5>3
      <4>3. QED
        BY <4>1, <4>2
    <3>2. QED
      BY <1>1, <1>3, <2>1, <3>1 DEF F
  <2>3. QED
    BY <1>1, <1>3, <1>5, <2>1, <2>2, SeqEqual DEF F
<1>9. <<x>> \o (A \o B) = C \o E
  <2>1. <<x>> \in Seq(S)
    OBVIOUS
  <2>2. (<<x>> \o A) \o B = <<x>> \o (A \o B)
    BY <1>3, <1>4, <2>1, ConcatAssociative
  <2>3. QED
    BY <1>7, <1>8, <2>2
<1>10. Fs!Without(t, k) = A \o B
  BY DEF Fs!Without, A, B
<1>11. Fs!Without(s, k + 1) = C \o E
  <2>1. (k + 1) - 1 = k /\ (k + 1) + 1 = k + 2
    BY <1>1
  <2>2. QED
    BY <2>1 DEF Fs!Without, C, E
<1>12. k + 1 \in DOMAIN s /\ s[k + 1] = t[k]
  BY <1>1, <1>2
<1>13. QED
  BY <1>9, <1>10, <1>11, <1>12 DEF s

LEMMA WithoutFirst ==
    ASSUME NEW S, NEW x \in S, NEW t \in Seq(S)
    PROVE  /\ 1 \in DOMAIN (<<x>> \o t) /\ (<<x>> \o t)[1] = x
           /\ Fs!Without(<<x>> \o t, 1) = t
<1> DEFINE s == <<x>> \o t
           B == SubSeq(s, 2, Len(s))
<1>1. /\ s \in Seq(S) /\ Len(s) = 1 + Len(t) /\ s[1] = x /\ Len(t) \in Nat
      /\ \A i \in 1 .. Len(t) : s[i + 1] = t[i]
      /\ DOMAIN s = 1 .. Len(s) /\ \A i \in 1 .. Len(s) : s[i] \in S
  <2>1. /\ s \in Seq(S) /\ Len(s) = 1 + Len(t) /\ Len(t) \in Nat
        /\ \A i \in 1 .. 1 + Len(t) : s[i] = IF i <= 1 THEN <<x>>[i] ELSE t[i - 1]
    BY ConcatProperties, LenProperties
  <2>2. DOMAIN s = 1 .. Len(s) /\ \A i \in 1 .. Len(s) : s[i] \in S
    BY <2>1, LenProperties
  <2> HIDE DEF s
  <2>3. QED
    BY <2>1, <2>2
<1> HIDE DEF s
<1>2. B \in Seq(S) /\ Len(B) = Len(t) /\ \A i \in 1 .. Len(t) : B[i] = t[i]
  <2>1. 2 \in Int /\ Len(s) \in Int /\ \A i \in 2 .. Len(s) : s[i] \in S
    BY <1>1
  <2>2. /\ B \in Seq(S) /\ Len(B) = IF 2 <= Len(s) THEN Len(s) - 2 + 1 ELSE 0
        /\ \A i \in 1 .. Len(s) - 2 + 1 : B[i] = s[2 + i - 1]
    BY <2>1, SubSeqProperties
  <2> HIDE DEF B
  <2>3. Len(B) = Len(t) /\ Len(s) - 2 + 1 = Len(t)
    BY <1>1, <2>2
  <2>4. \A i \in 1 .. Len(t) : 2 + i - 1 = i + 1
    OBVIOUS
  <2>5. QED
    BY <1>1, <2>2, <2>3, <2>4
<1> HIDE DEF B
<1>3. B = t
  BY <1>2, SeqEqual
<1>4. SubSeq(s, 1, 0) = <<>>
  BY SubSeqEmpty
<1>5. Fs!Without(s, 1) = <<>> \o B
  BY <1>4 DEF Fs!Without, B
<1>6. <<>> \o B = B
  BY <1>2, ConcatEmptySeq
<1>7. 1 \in DOMAIN s
  BY <1>1
<1>8. QED
  BY <1>1, <1>3, <1>5, <1>6, <1>7 DEF s

\* No node comes after itself.
LEMMA NotAfterItself ==
    ASSUME FInv, NEW m \in Nodes PROVE m \notin After(sibling[m])
<1> SUFFICES ASSUME m \in After(sibling[m]) PROVE FALSE
  OBVIOUS
<1> DEFINE S == {y \in Nodes : m \in After(sibling[y])}
<1>1. m \in S /\ S \in SUBSET Nodes
  OBVIOUS
<1>2. PICK y \in S : sibling[y] \notin S
  BY <1>1, TreePointers DEF Ends, FInv, IInv
<1>3. sibling[y] \in Nodes
  <2>1. sibling[y] # Null
    BY <1>2 DEF After
  <2>2. QED
    BY <1>2, <2>1, TreePointers DEF FInv, IInv
<1>4. After(sibling[y]) = {sibling[y]} \cup After(sibling[sibling[y]])
  BY <1>3, AfterStep
<1>5. QED
  BY <1>1, <1>2, <1>3, <1>4

LEMMA NodesBehind ==
    \A y \in Nodes, s \in Seq(Nodes) : \A k \in DOMAIN s :
        /\ k + 1 \in DOMAIN (<<y>> \o s) /\ (<<y>> \o s)[k + 1] = s[k]
        /\ <<y>> \o Fs!Without(s, k) = Fs!Without(<<y>> \o s, k + 1)
  BY WithoutBehind

\* A node that is bypassed behind q is taken out of the lists q is in.
LEMMA ChainTaken ==
    ASSUME FInv, FInv', NEW n \in Addr, NEW q \in Nodes \ {n},
           sibling[q] = n, sibling'[q] = sibling[n],
           \A x \in Nodes \ {n, q} : sibling'[x] = sibling[x]
    PROVE  \A m \in Nodes \ {n} :
               IF q \in After(m)
                 THEN \E k \in DOMAIN Chain[m] :
                         Chain[m][k] = n /\ Chain'[m] = Fs!Without(Chain[m], k)
                 ELSE Chain'[m] = Chain[m]
<1> DEFINE OK(m) == IF q \in After(m)
                      THEN \E k \in DOMAIN Chain[m] :
                              Chain[m][k] = n /\ Chain'[m] = Fs!Without(Chain[m], k)
                      ELSE Chain'[m] = Chain[m]
           D == {m \in Nodes \ {n} : ~OK(m)}
<1>1. /\ Chain \in [Nodes \cup {Null} -> Seq(Nodes)]
      /\ Chain[Null] = <<>> /\ \A m \in Nodes : Chain[m] = <<m>> \o Chain[sibling[m]]
      /\ Chain'[Null] = <<>> /\ \A m \in Nodes : Chain'[m] = <<m>> \o Chain'[sibling'[m]]
  BY Chains, ChainsNext
<1>2. /\ n \in Nodes /\ n # Null /\ \A m \in Nodes \ {q} : sibling[m] # n
      /\ \A m \in Nodes : sibling[m] \in Nodes \cup {Null}
      /\ Null \notin Nodes
  BY TreePointers DEF FInv, IInv, Forest, OnePointer
<1>3. n \notin After(sibling[n]) /\ q \notin After(sibling[n]) /\ sibling[n] # n
  <2>1. n \notin After(sibling[n])
    BY <1>2, NotAfterItself
  <2>2. sibling[n] # n
    BY <1>2, <2>1, AfterClosed
  <2>3. ASSUME q \in After(sibling[n]) PROVE FALSE
    <3>1. sibling[n] \in Nodes
      BY <1>2, <2>3 DEF After
    <3>2. n \in After(sibling[n]) \cup {Null}
      BY <2>3, <3>1, AfterClosed
    <3>3. QED
      BY <1>2, <2>1, <3>2
  <2>4. QED
    BY <2>1, <2>2, <2>3
<1> DEFINE Behind(y, s, k) == /\ k + 1 \in DOMAIN (<<y>> \o s) /\ (<<y>> \o s)[k + 1] = s[k]
                              /\ <<y>> \o Fs!Without(s, k) = Fs!Without(<<y>> \o s, k + 1)
<1>b. \A y \in Nodes, s \in Seq(Nodes) : \A k \in DOMAIN s : Behind(y, s, k)
  BY NodesBehind
<1>4. D = {}
  <2> SUFFICES ASSUME D # {} PROVE FALSE
    OBVIOUS
  <2>1. PICK x \in D : sibling'[x] \notin D
    <3>1. D \in SUBSET Nodes
      OBVIOUS
    <3>2. Ends(Nodes, child', sibling')
      BY DEF FInv, Forest, WalksEnd
    <3>3. QED
      BY <3>1, <3>2 DEF Ends
  <2>2. x \in Nodes /\ x # n /\ ~OK(x)
    BY <2>1
  <2>3. CASE x = q
    <3>1. q \in After(q) /\ sibling[n] \in (Nodes \ {n}) \cup {Null}
      BY <1>2, <1>3, AfterClosed
    <3>2. Chain'[sibling[n]] = Chain[sibling[n]]
      <4>1. CASE sibling[n] = Null
        BY <1>1, <4>1
      <4>2. CASE sibling[n] # Null
        <5>1. OK(sibling[n])
          BY <2>1, <2>3, <3>1, <4>2
        <5>2. QED
          BY <1>3, <5>1
      <4>3. QED
        BY <4>1, <4>2
    <3> DEFINE t == Chain[sibling[n]]
               u == <<n>> \o t
    <3>3. t \in Seq(Nodes)
      <4>1. sibling[n] \in Nodes \cup {Null}
        BY <3>1
      <4>2. QED
        BY <1>1, <4>1
    <3>4. Chain[q] = <<q>> \o u /\ Chain'[q] = <<q>> \o t
      <4>1. Chain[n] = u /\ Chain[q] = <<q>> \o Chain[n]
        BY <1>1, <1>2
      <4>2. Chain'[q] = <<q>> \o Chain'[sibling[n]]
        BY <1>1
      <4>3. QED
        BY <3>2, <4>1, <4>2
    <3> HIDE DEF t
    <3>5. /\ u \in Seq(Nodes) /\ 1 \in DOMAIN u /\ u[1] = n /\ Fs!Without(u, 1) = t
      BY <1>2, <3>3, WithoutFirst, ConcatProperties
    <3> HIDE DEF u
    <3>6. /\ 1 + 1 \in DOMAIN (<<q>> \o u) /\ (<<q>> \o u)[1 + 1] = u[1]
          /\ <<q>> \o Fs!Without(u, 1) = Fs!Without(<<q>> \o u, 1 + 1)
      <4>1. q \in Nodes
        OBVIOUS
      <4> HIDE DEF OK, D
      <4>2. QED
        BY <1>b, <3>5, <4>1
    <3>7. /\ 1 + 1 \in DOMAIN Chain[q] /\ Chain[q][1 + 1] = n
          /\ Chain'[q] = Fs!Without(Chain[q], 1 + 1)
      <4> HIDE DEF OK, D
      <4>1. QED
        BY <3>4, <3>5, <3>6
    <3>8. OK(q)
      BY <3>1, <3>7
    <3>9. QED
      BY <2>2, <2>3, <3>8
  <2>4. CASE x # q
    <3>1. sibling'[x] = sibling[x] /\ sibling[x] \in (Nodes \ {n}) \cup {Null}
      BY <1>2, <2>2, <2>4
    <3>2. Chain'[x] = <<x>> \o Chain'[sibling[x]] /\ Chain[x] = <<x>> \o Chain[sibling[x]]
      BY <1>1, <2>2, <3>1
    <3>3. q \in After(x) <=> q \in After(sibling[x])
      BY <2>2, <2>4, AfterStep
    <3>4. CASE sibling[x] = Null
      <4>1. q \notin After(x)
        BY <3>3, <3>4 DEF After
      <4>2. QED
        BY <1>1, <2>2, <3>2, <3>4, <4>1
    <3>5. CASE sibling[x] # Null
      <4>1. OK(sibling[x]) /\ Chain[sibling[x]] \in Seq(Nodes)
        BY <1>1, <2>1, <3>1, <3>5
      <4>2. CASE q \in After(x)
        <5>1. PICK k \in DOMAIN Chain[sibling[x]] :
                 /\ Chain[sibling[x]][k] = n
                 /\ Chain'[sibling[x]] = Fs!Without(Chain[sibling[x]], k)
          BY <3>3, <4>1, <4>2
        <5>2. /\ k + 1 \in DOMAIN Chain[x] /\ Chain[x][k + 1] = Chain[sibling[x]][k]
              /\ Chain'[x] = Fs!Without(Chain[x], k + 1)
          <6> DEFINE t == Chain[sibling[x]]
          <6>1. t \in Seq(Nodes) /\ k \in DOMAIN t /\ x \in Nodes
            BY <2>2, <4>1
          <6>2. Chain[x] = <<x>> \o t /\ Chain'[x] = <<x>> \o Fs!Without(t, k)
            BY <3>2, <5>1
          <6> HIDE DEF t, OK, D, Behind
          <6>3. Behind(x, t, k)
            BY <1>b, <6>1
          <6>4. QED
            BY <6>2, <6>3 DEF t, Behind
        <5>3. OK(x)
          BY <4>2, <5>1, <5>2
        <5>4. QED
          BY <2>2, <5>3
      <4>3. CASE q \notin After(x)
        BY <2>2, <3>2, <3>3, <4>1, <4>3
      <4>4. QED
        BY <4>2, <4>3
    <3>6. QED
      BY <3>4, <3>5
  <2>5. QED
    BY <2>3, <2>4
<1>5. QED
  BY <1>4

\* An entry is listed by its parent and nowhere else, even of lost directories.
LEMMA ListedByParent ==
    ASSUME FInv, NEW d \in Nodes, NEW n \in After(child[d])
    PROVE  n \in Nodes /\ n # Root /\ parent[n] = d
<1> DEFINE S == {m \in Nodes : m # Root /\ parent[m] = d}
<1>1. child[d] # Null
  BY DEF After
<1>2. child[d] \in S
  BY <1>1, TreePointers, FssimAssumption DEF FInv, IInv, Forest, ParentsFit, Pointers
<1>3. \A x \in S : sibling[x] \in S \cup {Null}
  BY TreePointers, FssimAssumption DEF FInv, IInv, Forest, ParentsFit, Pointers
<1>4. S \subseteq Nodes
  OBVIOUS
<1> HIDE DEF S
<1>5. n \in S
  BY <1>2, <1>3, <1>4, AfterSmallest
<1>6. QED
  BY <1>5 DEF S

LEMMA EntryOfParent ==
    ASSUME FInv, NEW n \in Tree, n # Root PROVE n \in After(child[parent[n]])
<1> DEFINE S == {m \in Tree : m = Root \/ m \in After(child[parent[m]])}
<1>1. Root \in Tree /\ Closed(Tree) /\ Tree \subseteq Nodes
  BY TreeClosed DEF FInv, IInv, Closed
<1>2. ASSUME NEW m \in S, child[m] # Null PROVE child[m] \in S
  <2>1. child[m] \in Tree /\ child[m] \in Nodes /\ parent[child[m]] = m
    BY <1>1, <1>2 DEF Closed, FInv, Forest, ParentsFit
  <2>2. QED
    BY <2>1, AfterClosed
<1>3. ASSUME NEW m \in S, sibling[m] # Null PROVE sibling[m] \in S
  <2>1. sibling[m] \in Tree /\ parent[sibling[m]] = parent[m] /\ m # Root
    BY <1>1, <1>3 DEF Closed, FInv, Forest, ParentsFit
  <2>2. m \in After(child[parent[m]])
    BY <2>1
  <2>3. child[parent[m]] \in Nodes
    <3>1. parent[m] \in Nodes /\ child[parent[m]] # Null
      BY <1>1, <2>2 DEF FInv, IInv, Pointers, After
    <3>2. QED
      BY <3>1, TreePointers DEF FInv, IInv
  <2>4. sibling[m] \in After(child[parent[m]]) \cup {Null}
    BY <2>2, <2>3, AfterClosed
  <2>5. QED
    BY <1>3, <2>1, <2>4
<1>4. Closed(S) /\ Root \in S
  BY <1>1, <1>2, <1>3 DEF Closed
<1>5. n \in S
  <2> HIDE DEF S
  <2>1. QED
    BY <1>4, TreeSmallest
<1>6. QED
  BY <1>5

-----------------------------------------------------------------------------
(* What a step does to the listings. *)

LEMMA SameListings ==
    ASSUME FInv, FInv', UNCHANGED <<child, sibling>>
    PROVE  \A m \in Nodes : Ls(m)' = Ls(m)
<1>1. \A x \in Nodes : sibling'[x] = sibling[x] /\ sibling[x] \in Nodes \cup {Null}
  BY TreePointers DEF FInv, IInv
<1>2. \A m \in Nodes \cup {Null} : Chain'[m] = Chain[m]
  BY <1>1, ChainKept
<1>3. QED
  BY <1>2, TreePointers DEF FInv, IInv, Ls

\* A node that is not allocated lists nothing.
LEMMA FreeListsNothing ==
    ASSUME FInv, NEW n \in Addr \ alloc PROVE Ls(n) = <<>>
  BY Chains DEF FInv, Forest, OnlyAllocated, Ls

\* mkdir and creat put the new entry in front.
LEMMA ListedInFront ==
    ASSUME FInv, FInv', NEW d \in Tree, NEW n \in Addr \ alloc,
           child' = [child EXCEPT ![d] = n, ![n] = Null],
           sibling' = [sibling EXCEPT ![n] = child[d]]
    PROVE  /\ Ls(d)' = <<n>> \o Ls(d)
           /\ \A m \in Nodes \ {d} : Ls(m)' = Ls(m)
<1>1. /\ n \in Nodes /\ n # Null /\ n # d /\ d \in Nodes /\ Null \notin Nodes
      /\ \A m \in Nodes : child[m] # n /\ sibling[m] # n
      /\ \A m \in Nodes : child[m] \in Nodes \cup {Null} /\ sibling[m] \in Nodes \cup {Null}
  BY Fresh, TreePointers DEF FInv, IInv
<1>2. /\ child'[d] = n /\ child'[n] = Null /\ sibling'[n] = child[d]
      /\ \A m \in Nodes : /\ m # d /\ m # n => child'[m] = child[m]
                          /\ m # n => sibling'[m] = sibling[m]
  BY <1>1 DEF FInv, IInv, Pointers
<1> DEFINE T == Nodes \ {n}
<1>3. \A x \in T : sibling'[x] = sibling[x] /\ sibling[x] \in T \cup {Null}
  BY <1>1, <1>2
<1>4. \A m \in T \cup {Null} : Chain'[m] = Chain[m]
  <2> HIDE DEF T
  <2>1. T \subseteq Nodes
    BY DEF T
  <2>2. QED
    BY <1>3, <2>1, ChainKept
<1>5. /\ Chain'[Null] = <<>> /\ Chain'[n] = <<n>> \o Chain'[sibling'[n]]
  BY <1>1, ChainsNext
<1>6. Ls(d)' = <<n>> \o Ls(d)
  <2>1. Chain'[child[d]] = Chain[child[d]]
    BY <1>1, <1>4
  <2>2. QED
    BY <1>2, <1>5, <2>1 DEF Ls
<1>7. ASSUME NEW m \in Nodes \ {d} PROVE Ls(m)' = Ls(m)
  <2>1. CASE m = n
    <3>1. Ls(m) = <<>>
      BY <2>1, FreeListsNothing
    <3>2. QED
      BY <1>2, <1>5, <2>1, <3>1 DEF Ls
  <2>2. CASE m # n
    <3>1. child'[m] = child[m] /\ child[m] \in T \cup {Null}
      BY <1>1, <1>2, <2>2
    <3>2. QED
      BY <1>4, <3>1 DEF Ls
  <2>3. QED
    BY <2>1, <2>2
<1>8. QED
  BY <1>6, <1>7

\* reload puts it behind.
LEMMA ListedBehind ==
    ASSUME FInv, FInv', NEW d \in Tree, NEW n \in Addr \ alloc, AppendTo(d, n)
    PROVE  /\ Ls(d)' = Append(Ls(d), n)
           /\ \A m \in Nodes \ {d} : Ls(m)' = Ls(m)
<1>1. /\ n \in Nodes /\ n # Null /\ n # d /\ d \in Nodes /\ Null \notin Nodes
      /\ \A m \in Nodes : child[m] # n /\ sibling[m] # n
      /\ \A m \in Nodes : child[m] \in Nodes \cup {Null} /\ sibling[m] \in Nodes \cup {Null}
  BY Fresh, TreePointers DEF FInv, IInv
<1>2. CASE child[d] = Null
  <2>1. /\ child' = [child EXCEPT ![d] = n, ![n] = Null]
        /\ sibling' = [sibling EXCEPT ![n] = child[d]]
    BY <1>2 DEF AppendTo
  <2>2. Ls(d)' = <<n>> \o Ls(d) /\ \A m \in Nodes \ {d} : Ls(m)' = Ls(m)
    BY <2>1, ListedInFront
  <2>3. Ls(d) = <<>>
    BY <1>2, Chains DEF Ls
  <2>4. <<n>> \o <<>> = Append(<<>>, n)
    OBVIOUS
  <2>5. QED
    BY <2>2, <2>3, <2>4
<1>3. CASE child[d] # Null
  <2>1. PICK last \in After(child[d]) :
            /\ sibling[last] = Null
            /\ sibling' = [sibling EXCEPT ![last] = n, ![n] = Null]
            /\ child' = [child EXCEPT ![n] = Null]
    BY <1>3 DEF AppendTo
  <2>2. last \in Tree /\ last \in Nodes /\ last # n
    BY <1>1, <2>1, Entries, TreeClosed, Fresh DEF FInv, IInv, Closed
  <2>3. /\ sibling'[last] = n /\ sibling'[n] = Null
        /\ child'[n] = Null
        /\ \A m \in Nodes : /\ m # n => child'[m] = child[m]
                            /\ m # n /\ m # last => sibling'[m] = sibling[m]
    BY <1>1, <2>1, <2>2 DEF FInv, IInv, Pointers
  <2>4. \A m \in Nodes \ {n} :
            Chain'[m] = IF last \in After(m) THEN Append(Chain[m], n) ELSE Chain[m]
    BY <2>1, <2>2, <2>3, ChainAppended
  <2>5. Ls(d)' = Append(Ls(d), n)
    <3>1. child[d] \in Nodes \ {n} /\ child'[d] = child[d]
      BY <1>1, <1>3, <2>3
    <3>2. QED
      BY <2>1, <2>4, <3>1 DEF Ls
  <2>6. ASSUME NEW m \in Nodes \ {d} PROVE Ls(m)' = Ls(m)
    <3>1. Chain'[Null] = Chain[Null]
      BY Chains, ChainsNext
    <3>2. CASE m = n
      <4>1. child[n] = Null
        BY DEF FInv, Forest, OnlyAllocated
      <4>2. QED
        BY <2>3, <3>1, <3>2, <4>1 DEF Ls
    <3>3. CASE m # n /\ child[m] = Null
      <4>1. child'[m] = Null
        BY <2>3, <3>3
      <4>2. QED
        BY <3>1, <3>3, <4>1 DEF Ls
    <3>4. CASE m # n /\ child[m] # Null
      <4>1. child[m] \in Nodes \ {n} /\ child'[m] = child[m]
        BY <1>1, <2>3, <3>4
      <4>2. last \notin After(child[m])
        BY <1>1, <2>1, ListedByParent
      <4>3. QED
        BY <2>4, <4>1, <4>2 DEF Ls
    <3>5. QED
      BY <3>2, <3>3, <3>4
  <2>7. QED
    BY <2>5, <2>6
<1>4. QED
  BY <1>2, <1>3

\* rmdir and rm take the entry out of the listing of the current directory.
LEMMA TakenFromListing ==
    ASSUME FInv, FInv', NEW n \in Addr, n \in After(child[cwd]), Unlink(n)
    PROVE  /\ n \in alloc /\ n # cwd
           /\ \E k \in DOMAIN Ls(cwd) : Ls(cwd)[k] = n /\ Ls(cwd)' = Fs!Without(Ls(cwd), k)
           /\ Ls(n)' = <<>>
           /\ \A m \in Nodes \ {cwd, n} : Ls(m)' = Ls(m)
<1>1. /\ n \in Tree /\ parent[n] = cwd /\ cwd \in Tree /\ cwd # n
      /\ n \in Nodes /\ cwd \in Nodes /\ n # Root /\ n # Null /\ Null \notin Nodes
      /\ \A m \in Nodes : child[m] \in Nodes \cup {Null} /\ sibling[m] \in Nodes \cup {Null}
  <2>1. n \in Tree /\ parent[n] = cwd /\ cwd \in Tree /\ Tree \subseteq Nodes
    BY Entries, TreeClosed DEF FInv, IInv, Closed
  <2>2. QED
    BY <2>1, NoOwnParent, FssimAssumption, TreePointers DEF FInv, IInv
<1>2. n \in alloc /\ n \notin alloc' /\ cwd' = cwd
  BY <1>1 DEF FInv, IInv, Allocated, Unlink
<1>3. Ls(n)' = <<>>
  <2>1. child'[n] = Null
    BY <1>2 DEF FInv, Forest, OnlyAllocated
  <2>2. QED
    BY <2>1, ChainsNext DEF Ls
<1>4. Chain'[Null] = Chain[Null] /\ Chain \in [Nodes \cup {Null} -> Seq(Nodes)]
      /\ \A m \in Nodes : Chain[m] = <<m>> \o Chain[sibling[m]]
  BY Chains, ChainsNext
<1>5. CASE child[cwd] = n
  <2>1. /\ child' = [child EXCEPT ![cwd] = sibling[n], ![n] = Null]
        /\ sibling' = [sibling EXCEPT ![n] = Null]
    BY <1>5 DEF Unlink
  <2>2. /\ child'[cwd] = sibling[n]
        /\ \A m \in Nodes : /\ m # n /\ m # cwd => child'[m] = child[m]
                            /\ m # n => sibling'[m] = sibling[m]
    BY <1>1, <2>1 DEF FInv, IInv, Pointers
  <2>3. \A m \in Nodes : sibling[m] # n /\ (m # cwd => child[m] # n)
    BY <1>1, <1>5 DEF FInv, Forest, OnePointer
  <2> DEFINE T == Nodes \ {n}
  <2>4. \A x \in T : sibling'[x] = sibling[x] /\ sibling[x] \in T \cup {Null}
    BY <1>1, <2>2, <2>3
  <2>5. \A m \in T \cup {Null} : Chain'[m] = Chain[m]
    <3> HIDE DEF T
    <3>1. T \subseteq Nodes
      BY DEF T
    <3>2. QED
      BY <2>4, <3>1, ChainKept
  <2>6. Ls(cwd) = <<n>> \o Chain[sibling[n]] /\ Ls(cwd)' = Chain[sibling[n]]
    <3>1. sibling[n] \in T \cup {Null}
      BY <1>1, <2>3
    <3>2. Ls(cwd)' = Chain'[sibling[n]]
      BY <1>2, <2>2 DEF Ls
    <3>3. Ls(cwd) = <<n>> \o Chain[sibling[n]]
      BY <1>1, <1>4, <1>5 DEF Ls
    <3>4. QED
      BY <2>5, <3>1, <3>2, <3>3
  <2>7. 1 \in DOMAIN Ls(cwd) /\ Ls(cwd)[1] = n /\ Ls(cwd)' = Fs!Without(Ls(cwd), 1)
    <3>1. Chain[sibling[n]] \in Seq(Nodes)
      BY <1>1, <1>4
    <3>2. QED
      BY <1>1, <2>6, <3>1, WithoutFirst
  <2>8. ASSUME NEW m \in Nodes \ {cwd, n} PROVE Ls(m)' = Ls(m)
    <3>1. child'[m] = child[m] /\ child[m] \in T \cup {Null}
      BY <1>1, <2>2, <2>3
    <3>2. QED
      BY <2>5, <3>1 DEF Ls
  <2>9. QED
    BY <1>1, <1>2, <1>3, <2>7, <2>8
<1>6. CASE child[cwd] # n
  <2>1. PICK q \in After(child[cwd]) :
            /\ sibling[q] = n
            /\ sibling' = [sibling EXCEPT ![q] = sibling[n], ![n] = Null]
            /\ child' = [child EXCEPT ![n] = Null]
    BY <1>6 DEF Unlink
  <2>2. q \in Nodes /\ q # n
    <3>1. q \in Nodes
      BY <1>1, <2>1, ListedByParent
    <3>2. QED
      BY <1>1, <2>1, <3>1, NoOwnSibling DEF FInv
  <2>3. /\ sibling'[q] = sibling[n]
        /\ \A m \in Nodes : /\ m # n => child'[m] = child[m]
                            /\ m # n /\ m # q => sibling'[m] = sibling[m]
    BY <1>1, <2>1, <2>2 DEF FInv, IInv, Pointers
  <2>4. \A m \in Nodes \ {n} :
            IF q \in After(m)
              THEN \E k \in DOMAIN Chain[m] :
                      Chain[m][k] = n /\ Chain'[m] = Fs!Without(Chain[m], k)
              ELSE Chain'[m] = Chain[m]
    <3>1. /\ q \in Nodes \ {n} /\ sibling[q] = n /\ sibling'[q] = sibling[n]
          /\ \A x \in Nodes \ {n, q} : sibling'[x] = sibling[x]
      BY <2>1, <2>2, <2>3
    <3>2. QED
      BY <3>1, ChainTaken
  <2>5. \A m \in Nodes : child[m] # n
    BY <1>1, <2>1, <2>2 DEF FInv, Forest, OnePointer
  <2>6. \E k \in DOMAIN Ls(cwd) : Ls(cwd)[k] = n /\ Ls(cwd)' = Fs!Without(Ls(cwd), k)
    <3>1. child[cwd] # Null
      BY <2>1 DEF After
    <3>2. child[cwd] \in Nodes \ {n} /\ child'[cwd] = child[cwd]
      BY <1>1, <2>3, <2>5, <3>1
    <3>3. QED
      BY <1>2, <2>1, <2>4, <3>2 DEF Ls
  <2>7. ASSUME NEW m \in Nodes \ {cwd, n} PROVE Ls(m)' = Ls(m)
    <3>1. child'[m] = child[m]
      BY <2>3
    <3>2. CASE child[m] = Null
      BY <1>4, <3>1, <3>2 DEF Ls
    <3>3. CASE child[m] # Null
      <4>1. child[m] \in Nodes \ {n}
        BY <1>1, <2>5, <3>3
      <4>2. q \notin After(child[m])
        BY <1>1, <2>1, ListedByParent
      <4>3. QED
        BY <2>4, <3>1, <4>1, <4>2 DEF Ls
    <3>4. QED
      BY <3>2, <3>3
  <2>8. QED
    BY <1>1, <1>2, <1>3, <2>6, <2>7
<1>7. QED
  BY <1>5, <1>6

-----------------------------------------------------------------------------
(* What reload adds. *)

LEMMA PrefixOfItself == ASSUME NEW S, NEW s \in Seq(S) PROVE IsPrefixOf(s, s)
  BY SubSeqFull, LenProperties DEF IsPrefixOf

LEMMA PrefixOfLonger ==
    ASSUME NEW S, NEW s \in Seq(S), NEW x \in S PROVE IsPrefixOf(s, Append(s, x))
<1> DEFINE t == Append(s, x)
<1>1. /\ Len(s) \in Nat /\ t \in Seq(S) /\ Len(t) = Len(s) + 1
      /\ \A i \in 1 .. Len(s) : t[i] = s[i] /\ s[i] \in S
  BY AppendProperties, LenProperties
<1> HIDE DEF t
<1> DEFINE u == SubSeq(t, 1, Len(s))
<1>2. /\ u \in Seq(S) /\ Len(u) = Len(s) /\ \A i \in 1 .. Len(s) : u[i] = s[i]
  <2>1. /\ u \in Seq(S) /\ Len(u) = IF 1 <= Len(s) THEN Len(s) - 1 + 1 ELSE 0
        /\ \A i \in 1 .. Len(s) - 1 + 1 : u[i] = t[1 + i - 1]
    BY <1>1, SubSeqProperties
  <2> HIDE DEF u
  <2>2. QED
    BY <1>1, <2>1
<1> HIDE DEF u
<1>3. s = u
  BY <1>2, SeqEqual
<1>4. QED
  BY <1>1, <1>3 DEF IsPrefixOf, t, u

LEMMA ListingsAreSequences == ASSUME FInv PROVE \A m \in Nodes : Ls(m) \in Seq(Nodes)
  BY Chains, TreePointers DEF Ls, FInv, IInv

Added ==
    pc = "reload" /\ pc' \in {"reload", "prompt"}
      => /\ cwd' = cwd
         /\ \A n \in Nodes : IsPrefixOf(Ls(n), Ls(n)')
         /\ \A n \in alloc : <<name[n], type[n]>>' = <<name[n], type[n]>>

LEMMA SameAdded == ASSUME FInv, FInv', UNCHANGED <<treeVars, cwd>> PROVE Added
<1>1. \A n \in Nodes : Ls(n)' = Ls(n)
  BY SameListings DEF treeVars
<1>2. \A n \in Nodes : IsPrefixOf(Ls(n), Ls(n))
  BY ListingsAreSequences, PrefixOfItself
<1>3. \A n \in Nodes : IsPrefixOf(Ls(n), Ls(n)')
  BY <1>1, <1>2
<1>4. QED
  BY <1>3 DEF Added, treeVars

LEMMA LineAdded == ASSUME FInv, FInv', ReloadLine PROVE Added
<1>1. PICK d \in Nodes, n \in Addr :
          /\ ToBeAdded(d)
          /\ NewNode(n, Text[1], Text[3], d) /\ AppendTo(d, n)
  BY DEF ReloadLine
<1>2. d \in Tree /\ n \in Addr \ alloc /\ n \in Nodes
  BY <1>1, ParentDirInTree, Fresh DEF ToBeAdded, NewNode, FInv
<1>3. /\ Ls(d)' = Append(Ls(d), n)
      /\ \A m \in Nodes \ {d} : Ls(m)' = Ls(m)
  BY <1>1, <1>2, ListedBehind
<1>4. ASSUME NEW m \in Nodes PROVE IsPrefixOf(Ls(m), Ls(m)')
  <2>1. Ls(m) \in Seq(Nodes)
    BY ListingsAreSequences
  <2>2. CASE m = d
    BY <1>2, <1>3, <2>1, <2>2, PrefixOfLonger
  <2>3. CASE m # d
    BY <1>3, <2>1, <2>3, PrefixOfItself
  <2>4. QED
    BY <2>2, <2>3
<1>5. \A m \in alloc : name'[m] = name[m] /\ type'[m] = type[m]
  <2>1. alloc \subseteq Nodes /\ \A m \in alloc : m # n
    BY <1>2, TreePointers DEF FInv, IInv, Pointers
  <2>2. name' = [name EXCEPT ![n] = Text[1]] /\ type' = [type EXCEPT ![n] = Text[3]]
    BY <1>1 DEF NewNode
  <2>3. QED
    BY <2>1, <2>2 DEF FInv, Labelled
<1>6. cwd' = cwd
  BY DEF ReloadLine
<1>7. QED
  BY <1>4, <1>5, <1>6 DEF Added

LEMMA NextAdded == ASSUME FInv, FInv', [Next]_vars PROVE Added
<1>1. CASE pc # "reload" \/ pc' \notin {"reload", "prompt"}
  BY <1>1 DEF Added
<1>2. CASE ReloadSkip \/ ReloadEnd \/ UNCHANGED vars
  <2>1. UNCHANGED <<treeVars, cwd>>
    BY <1>2 DEF ReloadSkip, ReloadEnd, vars
  <2>2. QED
    BY <2>1, SameAdded
<1>3. CASE ReloadLine
  BY <1>3, LineAdded
<1>4. CASE \E nm \in Names : Command(nm)
  <2>1. pc = "prompt"
    BY <1>4 DEF Command, Create, Rmdir, Rm, Cd, CdTo
  <2>2. QED
    BY <2>1 DEF Added
<1>5. CASE \/ CreateNothing \/ RemoveNothing \/ CdRoot \/ CdUp \/ CdInEmpty
           \/ Save \/ Quit \/ SaveInterrupted \/ ReloadMissing \/ Reload \/ Start
  <2>1. pc # "reload"
    BY <1>5 DEF CreateNothing, RemoveNothing, CdRoot, CdUp, CdTo, CdInEmpty, Save, Quit,
       SaveInterrupted, ReloadMissing, Reload, Start
  <2>2. QED
    BY <2>1 DEF Added
<1>6. CASE ReloadCut \/ Interrupt
  <2>1. pc' \notin {"reload", "prompt"}
    BY <1>6 DEF ReloadCut, Interrupt, Crash, End
  <2>2. QED
    BY <2>1 DEF Added
<1>7. QED
  BY <1>2, <1>3, <1>4, <1>5, <1>6 DEF Next

\* Whatever is in the tree and in the file: reload moves, removes and relabels
\* nothing, every listing keeps its entries in front, in their order.
THEOREM ReloadOnlyAdds == Spec => ReloadAdds
<1>1. FInv /\ FInv' /\ [Next]_vars => Added
  BY NextAdded
<1>2. QED
  BY ForestInvariance, <1>1, PTL DEF Added, ReloadAdds, Spec

-----------------------------------------------------------------------------
(* The pointers implement the listings. *)

Listings == [n \in Nodes |-> Ls(n)]
LabelOf == [n \in Addr |-> IF n \in alloc THEN <<name[n], type[n]>> ELSE Null]
Kinds == (Names \cup {Slash}) \X Types

LEMMA NoLabelIsFree ==
    ASSUME FInv, NEW n \in Addr
    PROVE  /\ n \in alloc => LabelOf[n] \in Kinds
           /\ n \notin alloc => LabelOf[n] = Null
           /\ Null \notin Kinds
  BY FssimAssumption DEF LabelOf, Kinds, Types, FInv, Labelled, Nodes

\* A new entry gets its label, the others keep theirs.
LEMMA LabelGiven ==
    ASSUME FInv, FInv', NEW n, NEW nm, NEW ty, NEW d, NewNode(n, nm, ty, d)
    PROVE  \E l \in Kinds : LabelOf' = [LabelOf EXCEPT ![n] = l]
<1>1. /\ n \in Addr /\ n \notin alloc /\ alloc' = alloc \cup {n} /\ Addr \subseteq Nodes
      /\ name' = [name EXCEPT ![n] = nm] /\ type' = [type EXCEPT ![n] = ty]
  BY TreePointers DEF NewNode, FInv, IInv
<1>2. LabelOf'[n] \in Kinds
  BY <1>1 DEF LabelOf, Kinds, FInv, Labelled
<1>3. ASSUME NEW m \in Addr, m # n PROVE LabelOf'[m] = LabelOf[m]
  BY <1>1, <1>3 DEF LabelOf, FInv, Labelled
<1>4. ASSUME NEW l, l = LabelOf'[n] PROVE LabelOf' = [LabelOf EXCEPT ![n] = l]
  <2>1. LabelOf' = [m \in Addr |-> LabelOf'[m]] /\ LabelOf = [m \in Addr |-> LabelOf[m]]
    BY DEF LabelOf
  <2>2. QED
    BY <1>1, <1>3, <1>4, <2>1
<1>5. QED
  BY <1>2, <1>4

LEMMA LabelTaken ==
    ASSUME FInv, FInv', NEW n \in Addr, Unlink(n)
    PROVE  LabelOf' = [LabelOf EXCEPT ![n] = Null]
<1>1. /\ alloc' = alloc \ {n} /\ Addr \subseteq Nodes
      /\ name' = [name EXCEPT ![n] = Slash] /\ type' = [type EXCEPT ![n] = "D"]
  BY TreePointers DEF Unlink, FInv, IInv
<1>2. LabelOf'[n] = Null
  BY <1>1 DEF LabelOf
<1>3. ASSUME NEW m \in Addr, m # n PROVE LabelOf'[m] = LabelOf[m]
  BY <1>1, <1>3 DEF LabelOf, FInv, Labelled
<1>4. QED
  BY <1>2, <1>3 DEF LabelOf

\* The steps of the abstract specification, written with these.
TreeStep ==
    \/ \E n \in Addr : Fs!Make(n) \/ Fs!Restore(n) \/ Fs!Remove(n)
    \/ Fs!Go
    \/ Fs!Blank'
    \/ UNCHANGED <<Listings, LabelOf, cwd>>

LEMMA StepIsStep == TreeStep => [Fs!Next]_(Fs!treeVars)
<1>1. Fs!Entry = Addr
  BY FssimAssumption DEF Fs!Entry, Nodes
<1>2. QED
  BY <1>1 DEF TreeStep, Fs!Next, Fs!treeVars, Listings, LabelOf

LEMMA MakeStep ==
    ASSUME FInv, FInv', NEW nm \in Names, NEW ty \in Types, Create(nm, ty) PROVE TreeStep
<1>1. PICK n \in Addr :
          /\ NewNode(n, nm, ty, cwd)
          /\ sibling' = [sibling EXCEPT ![n] = child[cwd]]
          /\ child' = [child EXCEPT ![cwd] = n, ![n] = Null]
  BY DEF Create
<1>2. n \in Addr \ alloc /\ cwd \in Tree /\ cwd \in Nodes /\ cwd' = cwd
  BY <1>1 DEF NewNode, Create, FInv, IInv, Pointers
<1>3. Ls(cwd)' = <<n>> \o Ls(cwd) /\ \A m \in Nodes \ {cwd} : Ls(m)' = Ls(m)
  <2>1. PICK d \in Tree : d = cwd
    BY <1>2
  <2>2. Ls(d)' = <<n>> \o Ls(d) /\ \A m \in Nodes \ {d} : Ls(m)' = Ls(m)
    BY <1>1, <1>2, <2>1, ListedInFront
  <2>3. QED
    BY <1>2, <2>1, <2>2 DEF Ls
<1>4. Listings' = [Listings EXCEPT ![cwd] = <<n>> \o @]
  BY <1>2, <1>3 DEF Listings
<1>5. LabelOf[n] = Null
  BY <1>2, NoLabelIsFree
<1>6. \E l \in Kinds : LabelOf' = [LabelOf EXCEPT ![n] = l]
  BY <1>1, LabelGiven
<1>7. Fs!Make(n)
  BY <1>2, <1>4, <1>5, <1>6 DEF Fs!Make, Listings, LabelOf, Kinds
<1>8. QED
  BY <1>7 DEF TreeStep

LEMMA RestoreStep == ASSUME FInv, FInv', ReloadLine PROVE TreeStep
<1>1. PICK d \in Nodes, n \in Addr :
          /\ ToBeAdded(d)
          /\ NewNode(n, Text[1], Text[3], d) /\ AppendTo(d, n)
  BY DEF ReloadLine
<1>2. d \in Tree /\ n \in Addr \ alloc /\ cwd' = cwd
  BY <1>1, ParentDirInTree DEF ToBeAdded, NewNode, ReloadLine
<1>3. /\ Ls(d)' = Append(Ls(d), n)
      /\ \A m \in Nodes \ {d} : Ls(m)' = Ls(m)
  BY <1>1, <1>2, ListedBehind
<1>4. Listings' = [Listings EXCEPT ![d] = Append(@, n)]
  BY <1>3 DEF Listings
<1>5. d # Root => LabelOf[d] # Null
  <2>1. d # Root => d \in Addr /\ d \in alloc
    BY <1>2 DEF FInv, IInv, Allocated, Nodes
  <2>2. QED
    BY <2>1, NoLabelIsFree
<1>6. LabelOf[n] = Null
  BY <1>2, NoLabelIsFree
<1>7. \E l \in Kinds : LabelOf' = [LabelOf EXCEPT ![n] = l]
  BY <1>1, LabelGiven
<1>8. Fs!Restore(n)
  BY <1>2, <1>4, <1>5, <1>6, <1>7 DEF Fs!Restore, Listings, LabelOf, Kinds
<1>9. QED
  BY <1>8 DEF TreeStep

LEMMA RemoveStep ==
    ASSUME FInv, FInv', NEW n \in Addr, n \in After(child[cwd]), Unlink(n)
    PROVE  TreeStep
<1>1. /\ n \in alloc /\ n # cwd
      /\ \E k \in DOMAIN Ls(cwd) : Ls(cwd)[k] = n /\ Ls(cwd)' = Fs!Without(Ls(cwd), k)
      /\ Ls(n)' = <<>>
      /\ \A m \in Nodes \ {cwd, n} : Ls(m)' = Ls(m)
  BY TakenFromListing
<1>2. cwd' = cwd /\ cwd \in Nodes /\ n \in Nodes
  BY TreePointers DEF Unlink, FInv, IInv, Pointers
<1>3. PICK k \in DOMAIN Ls(cwd) :
          Ls(cwd)[k] = n /\ Ls(cwd)' = Fs!Without(Ls(cwd), k)
  BY <1>1
<1>4. Listings'[cwd] = Fs!Without(Ls(cwd), k)
  BY <1>2, <1>3 DEF Listings
<1>5. Listings' = [Listings EXCEPT ![cwd] = Fs!Without(@, k), ![n] = <<>>]
  BY <1>1, <1>2, <1>4 DEF Listings
<1>6. k \in DOMAIN Listings[cwd] /\ Listings[cwd][k] = n
  BY <1>2, <1>3 DEF Listings
<1>7. LabelOf' = [LabelOf EXCEPT ![n] = Null]
  BY LabelTaken
<1>8. Fs!Remove(n)
  BY <1>2, <1>5, <1>6, <1>7 DEF Fs!Remove, Listings, LabelOf
<1>9. QED
  BY <1>8 DEF TreeStep

\* Steps that leave the nodes alone.
LEMMA NodesStay ==
    ASSUME FInv, FInv', UNCHANGED treeVars
    PROVE  Listings' = Listings /\ LabelOf' = LabelOf
<1>1. \A n \in Nodes : Ls(n)' = Ls(n)
  BY SameListings DEF treeVars
<1>2. Listings' = Listings
  BY <1>1 DEF Listings
<1>3. LabelOf' = LabelOf
  BY DEF LabelOf, treeVars
<1>4. QED
  BY <1>2, <1>3

LEMMA GoStep ==
    ASSUME FInv, FInv', NEW n \in Nodes, CdTo(n),
           n = Root \/ n \in After(child[cwd]) \/ cwd \in After(child[n])
    PROVE  TreeStep
<1>1. Listings' = Listings /\ LabelOf' = LabelOf /\ cwd' = n
  BY NodesStay DEF CdTo
<1>2. /\ cwd \in Nodes
      /\ n \in After(child[cwd]) => Fs!In(n, Listings[cwd])
      /\ cwd \in After(child[n]) => Fs!In(cwd, Listings[n])
  <2>1. cwd \in Nodes /\ \A m \in Nodes : child[m] \in Nodes \cup {Null}
    BY TreePointers DEF FInv, IInv, Pointers
  <2>2. Listings[cwd] = Chain[child[cwd]] /\ Listings[n] = Chain[child[n]]
    BY <2>1 DEF Listings, Ls
  <2>3. QED
    BY <2>1, <2>2, Listed
<1>3. Fs!Go
  BY <1>1, <1>2 DEF Fs!Go, Listings, LabelOf
<1>4. QED
  BY <1>3 DEF TreeStep

LEMMA EndStep == ASSUME FInv', NEW why, End(why) PROVE TreeStep
<1>1. /\ \A m \in Nodes : child'[m] = Null
      /\ alloc' = {} /\ cwd' = Root
  BY DEF End
<1>2. \A m \in Nodes : Ls(m)' = <<>>
  BY <1>1, ChainsNext DEF Ls
<1>3. Listings' = [n \in Nodes |-> <<>>]
  BY <1>2 DEF Listings
<1>4. LabelOf' = [n \in Addr |-> Null]
  BY <1>1 DEF LabelOf
<1>5. Fs!Entry = Addr
  BY FssimAssumption DEF Fs!Entry, Nodes
<1>6. Fs!Blank'
  BY <1>1, <1>3, <1>4, <1>5 DEF Fs!Blank, Listings, LabelOf
<1>7. QED
  BY <1>6 DEF TreeStep

LEMMA NextRefines == ASSUME FInv, FInv', [Next]_vars PROVE TreeStep
<1>1. ASSUME NEW nm \in Names, Command(nm) PROVE TreeStep
  <2>1. ASSUME NEW ty \in Types, Create(nm, ty) PROVE TreeStep
    BY <2>1, MakeStep
  <2>2. CASE Rmdir(nm) \/ Rm(nm)
    <3>1. PICK n \in Addr : n \in After(child[cwd]) /\ Unlink(n)
      BY <2>2 DEF Rmdir, Rm, FirstEntry, NamedDir, Named
    <3>2. QED
      BY <3>1, RemoveStep
  <2>3. CASE Cd(nm)
    <3>1. PICK n \in Addr : FirstEntry(Named(nm), n) /\ CdTo(n)
      BY <2>3 DEF Cd
    <3>2. n \in After(child[cwd]) /\ n \in Nodes
      BY <3>1, TreePointers DEF FirstEntry, Named, FInv, IInv
    <3>3. QED
      BY <3>1, <3>2, GoStep
  <2>4. QED
    BY <1>1, <2>1, <2>2, <2>3 DEF Command
<1>2. CASE CdRoot
  BY <1>2, GoStep, TreePointers DEF CdRoot, FInv, IInv
<1>3. CASE CdUp
  <2>1. PICK n \in Nodes : n = parent[cwd] /\ CdTo(n)
    BY <1>3 DEF CdUp, FInv, IInv, Pointers
  <2>2. n = Root \/ cwd \in After(child[n])
    <3>1. cwd = Root => n = Root
      BY <2>1 DEF FInv, Forest, ParentsFit
    <3>2. cwd # Root => cwd \in After(child[parent[cwd]])
      <4>1. PICK m \in Tree : m = cwd
        BY DEF FInv, IInv
      <4>2. QED
        BY <4>1, EntryOfParent
    <3>3. QED
      BY <2>1, <3>1, <3>2
  <2>3. QED
    BY <2>1, <2>2, GoStep
<1>4. CASE CreateNothing \/ RemoveNothing \/ CdInEmpty \/ Quit \/ SaveInterrupted
             \/ ReloadMissing \/ ReloadCut \/ Interrupt
  <2>1. \E why : End(why)
    BY <1>4 DEF CreateNothing, RemoveNothing, CdInEmpty, Quit, SaveInterrupted,
       ReloadMissing, ReloadCut, Interrupt, Crash
  <2>2. QED
    BY <2>1, EndStep
<1>5. CASE Save \/ Reload \/ ReloadSkip \/ ReloadEnd \/ Start \/ UNCHANGED vars
  <2>1. UNCHANGED <<treeVars, cwd>>
    BY <1>5 DEF Save, Reload, ReloadSkip, ReloadEnd, Start, vars
  <2>2. UNCHANGED treeVars /\ cwd' = cwd
    BY <2>1
  <2>3. Listings' = Listings /\ LabelOf' = LabelOf
    BY <2>2, NodesStay
  <2>4. QED
    BY <2>2, <2>3 DEF TreeStep
<1>6. CASE ReloadLine
  BY <1>6, RestoreStep
<1>7. QED
  BY <1>1, <1>2, <1>3, <1>4, <1>5, <1>6 DEF Next

LEMMA InitRefines == Init => Fs!Blank
<1> SUFFICES ASSUME Init PROVE Fs!Blank
  OBVIOUS
<1>1. FInv
  BY InitFInv
<1>2. \A m \in Nodes : Ls(m) = <<>>
  BY <1>1, Chains DEF Init, Ls
<1>3. Fs!Entry = Addr
  BY FssimAssumption DEF Fs!Entry, Nodes
<1>4. QED
  BY <1>2, <1>3 DEF Init, Fs!Blank

\* The pointers implement the listings of FsTree: mkdir and creat put an entry in
\* front of one listing, reload behind one, rmdir and rm take one out of one, and
\* nothing else happens to any listing, also of directories that are lost.
THEOREM RefinesTree == Spec => FsSpec
<1>1. FInv /\ FInv' /\ [Next]_vars => [Fs!Next]_(Fs!treeVars)
  BY NextRefines, StepIsStep
<1>2. QED
  BY InitRefines, ForestInvariance, <1>1, PTL DEF Spec, FsSpec, Fs!Spec

-----------------------------------------------------------------------------
(* pwd. *)

LEMMA Behind ==
    ASSUME NEW S, NEW t \in Seq(S), NEW x \in S
    PROVE  \A n : Fs!In(n, Append(t, x)) <=> n = x \/ Fs!In(n, t)
<1> DEFINE s == Append(t, x)
<1>1. /\ s \in Seq(S) /\ Len(s) = Len(t) + 1 /\ Len(t) \in Nat
      /\ s[Len(t) + 1] = x /\ \A k \in 1 .. Len(t) : s[k] = t[k]
      /\ DOMAIN s = 1 .. Len(t) + 1 /\ DOMAIN t = 1 .. Len(t)
  BY AppendProperties, LenProperties
<1> HIDE DEF s
<1>2. ASSUME NEW n, Fs!In(n, s) PROVE n = x \/ Fs!In(n, t)
  <2>1. PICK k \in 1 .. Len(t) + 1 : s[k] = n
    BY <1>1, <1>2 DEF Fs!In
  <2>2. k = Len(t) + 1 \/ k \in 1 .. Len(t)
    BY <1>1
  <2>3. QED
    BY <1>1, <2>1, <2>2 DEF Fs!In
<1>3. ASSUME NEW n, n = x \/ Fs!In(n, t) PROVE Fs!In(n, s)
  <2>1. CASE n = x
    BY <1>1, <2>1 DEF Fs!In
  <2>2. CASE Fs!In(n, t)
    <3>1. PICK k \in 1 .. Len(t) : t[k] = n
      BY <1>1, <2>2 DEF Fs!In
    <3>2. k \in DOMAIN s /\ s[k] = n
      BY <1>1, <3>1
    <3>3. QED
      BY <3>2 DEF Fs!In
  <2>3. QED
    BY <1>3, <2>1, <2>2
<1>4. QED
  BY <1>2, <1>3 DEF s

LEMMA Ups ==
    ASSUME FInv
    PROVE  /\ Up \in [Nodes -> Seq(Addr)] /\ Up[Root] = <<>>
           /\ \A m \in Addr : Up[m] = Append(Up[parent[m]], m)
           /\ \A n : ~Fs!In(n, Up[Root])
           /\ \A m \in Addr : \A n : Fs!In(n, Up[m]) <=> n = m \/ Fs!In(n, Up[parent[m]])
           /\ \A m \in Addr : parent[m] \in Nodes
           /\ Nodes = Addr \cup {Root} /\ Root \notin Addr /\ cwd \in Nodes
           /\ Ends(Addr, parent, parent)
<1>1. /\ Up \in [Nodes -> Seq(Addr)] /\ Up[Root] = <<>>
      /\ \A m \in Addr : Up[m] = Append(Up[parent[m]], m)
  BY UpEquations DEF FInv, IInv
<1>2. /\ \A m \in Addr : parent[m] \in Nodes
      /\ Nodes = Addr \cup {Root} /\ Root \notin Addr /\ cwd \in Nodes
      /\ Ends(Addr, parent, parent)
  BY TreePointers, FssimAssumption DEF FInv, IInv, Pointers
<1>3. \A n : ~Fs!In(n, Up[Root])
  BY <1>1 DEF Fs!In
<1>4. ASSUME NEW m \in Addr
      PROVE  \A n : Fs!In(n, Up[m]) <=> n = m \/ Fs!In(n, Up[parent[m]])
  <2>1. Up[parent[m]] \in Seq(Addr)
    BY <1>1, <1>2
  <2> DEFINE t == Up[parent[m]]
  <2> HIDE DEF t
  <2>2. \A n : Fs!In(n, Append(t, m)) <=> n = m \/ Fs!In(n, t)
    BY <2>1, Behind DEF t
  <2>3. QED
    BY <1>1, <2>2 DEF t
<1>5. QED
  BY <1>1, <1>2, <1>3, <1>4

\* What is above a node on a path is on the path.
LEMMA PathsUp ==
    ASSUME FInv, NEW m \in Nodes, NEW n, Fs!In(n, Up[m])
    PROVE  n \in Addr /\ (parent[n] = Root \/ Fs!In(parent[n], Up[m]))
<1> DEFINE OK(x) == \A y : Fs!In(y, Up[x]) =>
                       y \in Addr /\ (parent[y] = Root \/ Fs!In(parent[y], Up[x]))
           D == {x \in Addr : ~OK(x)}
<1>1. OK(Root)
  BY Ups
<1>2. D = {}
  <2> SUFFICES ASSUME D # {} PROVE FALSE
    OBVIOUS
  <2>1. PICK x \in D : parent[x] \notin D
    <3>1. D \in SUBSET Addr
      OBVIOUS
    <3>2. QED
      BY <3>1, Ups DEF Ends
  <2>2. x \in Addr /\ parent[x] \in Nodes
    BY <2>1, Ups
  <2>3. OK(parent[x])
    BY <1>1, <2>1, <2>2, Ups
  <2>4. \A y : Fs!In(y, Up[x]) <=> y = x \/ Fs!In(y, Up[parent[x]])
    BY <2>2, Ups
  <2>5. parent[x] # Root => Fs!In(parent[x], Up[parent[x]])
    <3>1. ASSUME NEW p \in Addr PROVE Fs!In(p, Up[p])
      BY Ups
    <3>2. QED
      BY <2>2, <3>1, Ups
  <2>6. OK(x)
    BY <2>2, <2>3, <2>4, <2>5
  <2>7. QED
    BY <2>1, <2>6
<1>3. OK(m)
  BY <1>1, <1>2, Ups
<1>4. QED
  BY <1>3

\* The current directory is not listed above itself.
LEMMA NotBelowItself ==
    ASSUME FInv, NEW n, Fs!In(n, Path) PROVE n # child[cwd]
<1> SUFFICES ASSUME n = child[cwd] PROVE FALSE
  OBVIOUS
<1>1. cwd \in Nodes /\ n \in Addr /\ cwd # Root
  BY Ups, PathsUp DEF Path
<1>2. parent[n] = cwd
  <2>1. n # Null
    BY <1>1, FssimAssumption
  <2>2. QED
    BY <1>1, <2>1 DEF FInv, Forest, ParentsFit
<1> DEFINE B == {y \in Addr : Fs!In(n, Up[y])}
<1>3. cwd \in B /\ B \in SUBSET Addr
  BY <1>1, Ups DEF Path
<1>4. \A y \in B : parent[y] \in B
  <2>1. ASSUME NEW y \in B, y # n PROVE parent[y] \in B
    <3>1. Fs!In(n, Up[parent[y]]) /\ parent[y] \in Nodes
      BY <2>1, Ups
    <3>2. parent[y] # Root
      BY <3>1, Ups
    <3>3. QED
      BY <3>1, <3>2, Ups
  <2>2. QED
    BY <1>2, <1>3, <2>1
<1>5. QED
  BY <1>3, <1>4, Ups DEF Ends

LEMMA Ways ==
    ASSUME FInv
    PROVE  /\ Way \in [Nodes \cup {Null} -> Seq(Nodes)] /\ Way[Null] = <<>>
           /\ \A m \in Nodes : Way[m] = IF m = child[cwd] THEN <<>> ELSE <<m>> \o Way[child[m]]
           /\ \A m \in Nodes : child[m] \in Nodes \cup {Null}
           /\ Null \notin Nodes /\ Root \in Nodes /\ cwd \in Nodes
           /\ Ends(Nodes, child, sibling)
<1>1. /\ Way \in [Nodes \cup {Null} -> Seq(Nodes)] /\ Way[Null] = <<>>
      /\ \A m \in Nodes : Way[m] = IF m = child[cwd] THEN <<>> ELSE <<m>> \o Way[child[m]]
  BY WayEquations DEF FInv, IInv
<1>2. /\ \A m \in Nodes : child[m] \in Nodes \cup {Null}
      /\ Null \notin Nodes /\ Root \in Nodes /\ cwd \in Nodes
      /\ Ends(Nodes, child, sibling)
  BY TreePointers DEF FInv, IInv, Pointers
<1>3. QED
  BY <1>1, <1>2

\* The way goes along first entries only.
LEMMA WayOfFirst ==
    ASSUME FInv, NEW m \in Nodes \cup {Null}, NEW n, Fs!In(n, Way[m])
    PROVE  n = m \/ \E y \in Nodes : n = child[y]
<1> DEFINE OK(x) == \A z : Fs!In(z, Way[x]) => z = x \/ \E y \in Nodes : z = child[y]
           D == {x \in Nodes : ~OK(x)}
<1>1. OK(Null)
  BY Ways DEF Fs!In
<1>2. D = {}
  <2> SUFFICES ASSUME D # {} PROVE FALSE
    OBVIOUS
  <2>1. PICK x \in D : child[x] \notin D
    <3>1. D \in SUBSET Nodes
      OBVIOUS
    <3>2. QED
      BY <3>1, Ways DEF Ends
  <2>2. x \in Nodes /\ child[x] \in Nodes \cup {Null}
    BY <2>1, Ways
  <2>3. OK(child[x])
    BY <1>1, <2>1, <2>2
  <2>4. CASE x = child[cwd]
    <3>1. Way[x] = <<>>
      BY <2>2, <2>4, Ways
    <3>2. OK(x)
      BY <3>1 DEF Fs!In
    <3>3. QED
      BY <2>1, <3>2
  <2>5. CASE x # child[cwd]
    <3> DEFINE t == Way[child[x]]
    <3>1. Way[x] = <<x>> \o t /\ t \in Seq(Nodes)
      BY <2>2, <2>5, Ways
    <3>2. \A z : Fs!In(z, <<x>> \o t) <=> z = x \/ Fs!In(z, t)
      <4> HIDE DEF t
      <4>1. QED
        BY <2>2, <3>1, InFront
    <3>3. OK(x)
      BY <2>2, <2>3, <3>1, <3>2
    <3>4. QED
      BY <2>1, <3>3
  <2>6. QED
    BY <2>4, <2>5
<1>3. OK(m)
  BY <1>1, <1>2
<1>4. QED
  BY <1>3

FirstEntriesOnly == \A k \in DOMAIN Path : child[parent[Path[k]]] = Path[k]

\* What pwd prints is a path of first entries.
LEMMA PrintedAreFirst == ASSUME FInv, Pwd = Path PROVE FirstEntriesOnly
<1> SUFFICES ASSUME NEW k \in DOMAIN Path PROVE child[parent[Path[k]]] = Path[k]
  BY DEF FirstEntriesOnly
<1> DEFINE n == Path[k]
<1>1. Fs!In(n, Path)
  BY DEF Fs!In
<1>2. n \in Addr
  BY <1>1, Ups, PathsUp DEF Path
<1>3. PICK y \in Nodes : n = child[y]
  <2>1. Fs!In(n, Way[child[Root]])
    BY <1>1 DEF Pwd
  <2>2. child[Root] \in Nodes \cup {Null} /\ Root \in Nodes
    BY Ways
  <2> HIDE DEF n
  <2>3. QED
    BY <2>1, <2>2, WayOfFirst
<1>4. n # Null
  BY <1>2, FssimAssumption
<1>5. parent[n] = y
  BY <1>3, <1>4 DEF FInv, Forest, ParentsFit
<1>6. QED
  BY <1>3, <1>5

\* A path of first entries is printed.
LEMMA FirstArePrinted == ASSUME FInv, FirstEntriesOnly PROVE Pwd = Path
<1>1. \A n : Fs!In(n, Path) => child[parent[n]] = n
  BY DEF FirstEntriesOnly, Fs!In
<1> DEFINE Good(x) == Up[x] \o Way[child[x]] = Path
           S == {x \in Addr : Good(x) /\ Fs!In(x, Path)}
<1>2. Good(cwd)
  <2>1. Way[child[cwd]] = <<>>
    BY Ways
  <2>2. Path \in Seq(Addr)
    BY Ups DEF Path
  <2>3. QED
    BY <2>1, <2>2, ConcatEmptySeq DEF Path
<1>3. ASSUME NEW x \in S PROVE Good(parent[x])
  <2>1. /\ x \in Addr /\ parent[x] \in Nodes /\ x \in Nodes
        /\ Up[x] = Append(Up[parent[x]], x) /\ Up[parent[x]] \in Seq(Nodes)
        /\ Way[child[x]] \in Seq(Nodes)
    <3>1. x \in Addr /\ parent[x] \in Nodes /\ x \in Nodes
          /\ Up[x] = Append(Up[parent[x]], x) /\ Up[parent[x]] \in Seq(Addr)
          /\ Addr \subseteq Nodes
      BY Ups
    <3>2. Up[parent[x]] \in Seq(Nodes)
      BY <3>1, SeqMonotonic
    <3>3. Way[child[x]] \in Seq(Nodes)
      BY <3>1, Ways
    <3>4. QED
      BY <3>1, <3>2, <3>3
  <2>2. child[parent[x]] = x /\ x # child[cwd]
    BY <1>1, NotBelowItself
  <2>3. Way[x] = <<x>> \o Way[child[x]]
    BY <2>1, <2>2, Ways
  <2> DEFINE a == Up[parent[x]]
             b == Way[child[x]]
  <2>4. Append(a, x) \o b = Path
    BY <2>1
  <2>5. a \in Seq(Nodes) /\ b \in Seq(Nodes) /\ x \in Nodes /\ <<x>> \in Seq(Nodes)
    BY <2>1
  <2> HIDE DEF a, b
  <2>6. Append(a, x) = a \o <<x>>
    BY <2>5, AppendIsConcat
  <2>7. (a \o <<x>>) \o b = a \o (<<x>> \o b)
    BY <2>5, ConcatAssociative
  <2>8. a \o (<<x>> \o b) = Path
    BY <2>4, <2>6, <2>7
  <2>9. QED
    BY <2>2, <2>3, <2>8 DEF a, b
<1>4. Good(Root)
  <2>1. CASE cwd = Root
    BY <1>2, <2>1
  <2>2. CASE cwd # Root
    <3>1. cwd \in S
      BY <1>2, <2>2, Ups DEF Path
    <3>2. S \in SUBSET Addr
      OBVIOUS
    <3>3. PICK x \in S : parent[x] \notin S
      BY <3>1, <3>2, Ups DEF Ends
    <3>4. Good(parent[x])
      BY <1>3
    <3>5. parent[x] = Root \/ (parent[x] \in Addr /\ Fs!In(parent[x], Path))
      <4>1. Fs!In(x, Up[cwd]) /\ cwd \in Nodes /\ parent[x] \in Nodes
        BY Ups DEF Path
      <4>2. parent[x] = Root \/ Fs!In(parent[x], Up[cwd])
        BY <4>1, PathsUp
      <4>3. QED
        BY <4>1, <4>2, Ups DEF Path
    <3>6. QED
      BY <3>3, <3>4, <3>5
  <2>3. QED
    BY <2>1, <2>2
<1>5. Up[Root] = <<>> /\ Pwd \in Seq(Nodes)
  BY Ups, Ways DEF Pwd
<1>6. <<>> \o Pwd = Path
  BY <1>4, <1>5 DEF Pwd
<1>7. <<>> \o Pwd = Pwd
  BY <1>5, ConcatEmptySeq
<1>8. QED
  BY <1>6, <1>7

\* pwd is right about the current directory exactly when every directory on the way
\* to it is the first entry of the one before; otherwise it prints another place.
THEOREM PwdIsPath == Spec => []PwdOfFirstEntries
<1>1. FInv => PwdOfFirstEntries
  BY PrintedAreFirst, FirstArePrinted DEF PwdOfFirstEntries, FirstEntriesOnly
<1>2. QED
  BY ForestInvariance, <1>1, PTL

-----------------------------------------------------------------------------
(* The order of the lines save writes. *)

\* The lines come from a walk of a tree whose root has the name b: up gives the line of
\* the parent, 0 for the root, and what stands between a line and its parent is below
\* that parent.
WalkBy(up, s, b) ==
    \A k \in 1 .. Len(s) :
        /\ up[k] < k
        /\ Len(s[k]) >= 2 => s[k][2] = IF up[k] = 0 THEN b ELSE s[up[k]][1]
        /\ \A j \in 1 .. Len(s) : up[k] < j /\ j < k => up[k] <= up[j]

IsWalk(s, b) == \E up \in [1 .. Len(s) -> 0 .. Len(s)] : WalkBy(up, s, b)

LEMMA EmptyWalk == ASSUME NEW b PROVE IsWalk(<<>>, b)
<1> DEFINE up == [k \in 1 .. Len(<<>>) |-> 0]
<1>1. up \in [1 .. Len(<<>>) -> 0 .. Len(<<>>)]
  OBVIOUS
<1>2. \A k : k \notin 1 .. Len(<<>>)
  OBVIOUS
<1> HIDE DEF up
<1>3. WalkBy(up, <<>>, b)
  BY <1>2 DEF WalkBy
<1>4. QED
  BY <1>1, <1>3 DEF IsWalk

\* A walk of what is below a node, and that node before it.
LEMMA WalkDown ==
    ASSUME NEW t \in Seq(FullLines), NEW l \in FullLines, IsWalk(t, l[1])
    PROVE  IsWalk(<<l>> \o t, l[2])
<1> DEFINE s == <<l>> \o t
<1>1. /\ Len(t) \in Nat /\ Len(s) = Len(t) + 1 /\ s[1] = l
      /\ \A k \in 1 .. Len(t) : s[k + 1] = t[k]
  BY ConcatProperties, LenProperties
<1> HIDE DEF s
<1>2. PICK up \in [1 .. Len(t) -> 0 .. Len(t)] : WalkBy(up, t, l[1])
  BY DEF IsWalk
<1> DEFINE w == [k \in 1 .. Len(s) |-> IF k = 1 THEN 0 ELSE up[k - 1] + 1]
<1>3. /\ w \in [1 .. Len(s) -> 0 .. Len(s)] /\ w[1] = 0
      /\ \A k \in 1 .. Len(t) : w[k + 1] = up[k] + 1 /\ up[k] \in 0 .. Len(t)
  <2>1. ASSUME NEW k \in 1 .. Len(s), k # 1
        PROVE  k - 1 \in 1 .. Len(t) /\ up[k - 1] + 1 \in 0 .. Len(s)
    <3>1. k - 1 \in 1 .. Len(t)
      BY <1>1, <2>1
    <3>2. up[k - 1] \in 0 .. Len(t)
      BY <1>2, <3>1
    <3>3. QED
      BY <1>1, <3>1, <3>2
  <2>2. \A k \in 1 .. Len(s) : (IF k = 1 THEN 0 ELSE up[k - 1] + 1) \in 0 .. Len(s)
    BY <1>1, <2>1
  <2>3. w \in [1 .. Len(s) -> 0 .. Len(s)]
    BY <2>2
  <2>4. ASSUME NEW k \in 1 .. Len(t) PROVE w[k + 1] = up[k] + 1
    <3>1. k + 1 \in 1 .. Len(s) /\ k + 1 # 1 /\ (k + 1) - 1 = k
      BY <1>1
    <3>2. QED
      BY <3>1
  <2>5. w[1] = 0
    BY <1>1
  <2> HIDE DEF w
  <2>6. QED
    BY <1>2, <2>3, <2>4, <2>5
<1> HIDE DEF w
<1>4. ASSUME NEW k \in 1 .. Len(s)
      PROVE  /\ w[k] < k
             /\ Len(s[k]) >= 2 => s[k][2] = IF w[k] = 0 THEN l[2] ELSE s[w[k]][1]
             /\ \A j \in 1 .. Len(s) : w[k] < j /\ j < k => w[k] <= w[j]
  <2>1. CASE k = 1
    BY <1>1, <1>3, <2>1
  <2>2. CASE k # 1
    <3> DEFINE i == k - 1
    <3>1. i \in 1 .. Len(t) /\ k = i + 1
      BY <1>1, <2>2
    <3> HIDE DEF i
    <3>2. /\ w[k] = up[i] + 1 /\ up[i] \in 0 .. Len(t) /\ up[i] < i /\ s[k] = t[i]
          /\ Len(t[i]) >= 2 => t[i][2] = IF up[i] = 0 THEN l[1] ELSE t[up[i]][1]
          /\ \A j \in 1 .. Len(t) : up[i] < j /\ j < i => up[i] <= up[j]
      BY <1>1, <1>2, <1>3, <3>1 DEF WalkBy
    <3>3. Len(s[k]) >= 2 => s[k][2] = s[w[k]][1]
      <4>1. CASE up[i] = 0
        <5>1. w[k] = 1
          BY <3>2, <4>1
        <5>2. QED
          BY <1>1, <3>2, <4>1, <5>1
      <4>2. CASE up[i] # 0
        <5>1. up[i] \in 1 .. Len(t)
          BY <3>2, <4>2
        <5>2. s[w[k]] = t[up[i]]
          BY <1>1, <3>2, <5>1
        <5>3. QED
          BY <3>2, <4>2, <5>2
      <4>3. QED
        BY <4>1, <4>2
    <3>4. ASSUME NEW j \in 1 .. Len(s), w[k] < j, j < k PROVE w[k] <= w[j]
      <4> DEFINE h == j - 1
      <4>1. h \in 1 .. Len(t) /\ j = h + 1 /\ up[i] < h /\ h < i
        BY <1>1, <3>1, <3>2, <3>4
      <4> HIDE DEF h
      <4>2. up[i] <= up[h] /\ w[j] = up[h] + 1 /\ up[h] \in 0 .. Len(t)
        BY <1>3, <3>2, <4>1
      <4>3. QED
        BY <3>2, <4>2
    <3>5. w[k] < k /\ w[k] # 0
      BY <3>1, <3>2
    <3>6. QED
      BY <3>3, <3>4, <3>5
  <2>3. QED
    BY <2>1, <2>2
<1>5. WalkBy(w, s, l[2])
  BY <1>4 DEF WalkBy
<1>6. QED
  BY <1>3, <1>5 DEF IsWalk, s

\* Two walks below the same node, one after the other.
LEMMA WalkOn ==
    ASSUME NEW s \in Seq(FullLines), NEW t \in Seq(FullLines), NEW b,
           IsWalk(s, b), IsWalk(t, b)
    PROVE  IsWalk(s \o t, b)
<1> DEFINE c == s \o t
           p == Len(s)
           q == Len(t)
<1>1. /\ p \in Nat /\ q \in Nat /\ Len(c) = p + q
      /\ \A k \in 1 .. p : c[k] = s[k]
      /\ \A k \in 1 .. q : c[p + k] = t[k]
  <2>1. /\ Len(s) \in Nat /\ Len(t) \in Nat /\ Len(c) = Len(s) + Len(t)
        /\ \A k \in 1 .. Len(s) + Len(t) : c[k] = IF k <= Len(s) THEN s[k] ELSE t[k - Len(s)]
    BY ConcatProperties, LenProperties
  <2> HIDE DEF c
  <2>2. ASSUME NEW k \in 1 .. Len(t) PROVE c[Len(s) + k] = t[k]
    <3>1. /\ Len(s) + k \in 1 .. Len(s) + Len(t) /\ ~(Len(s) + k <= Len(s))
          /\ (Len(s) + k) - Len(s) = k
      BY <2>1
    <3>2. QED
      BY <2>1, <3>1
  <2>3. QED
    BY <2>1, <2>2
<1>2. PICK us \in [1 .. p -> 0 .. p] : WalkBy(us, s, b)
  BY DEF IsWalk
<1>3. PICK ut \in [1 .. q -> 0 .. q] : WalkBy(ut, t, b)
  BY DEF IsWalk
<1>4. \A k \in 1 .. p :
          /\ us[k] \in 0 .. p /\ us[k] < k
          /\ Len(s[k]) >= 2 => s[k][2] = IF us[k] = 0 THEN b ELSE s[us[k]][1]
          /\ \A j \in 1 .. p : us[k] < j /\ j < k => us[k] <= us[j]
  BY <1>2 DEF WalkBy
<1>5. \A k \in 1 .. q :
          /\ ut[k] \in 0 .. q /\ ut[k] < k
          /\ Len(t[k]) >= 2 => t[k][2] = IF ut[k] = 0 THEN b ELSE t[ut[k]][1]
          /\ \A j \in 1 .. q : ut[k] < j /\ j < k => ut[k] <= ut[j]
  BY <1>3 DEF WalkBy
<1> HIDE DEF c, p, q
<1> DEFINE w == [k \in 1 .. p + q |->
                    IF k <= p THEN us[k] ELSE IF ut[k - p] = 0 THEN 0 ELSE ut[k - p] + p]
<1>6. /\ w \in [1 .. p + q -> 0 .. p + q]
      /\ \A k \in 1 .. p : w[k] = us[k]
      /\ \A k \in 1 .. q : w[p + k] = IF ut[k] = 0 THEN 0 ELSE ut[k] + p
  <2>1. ASSUME NEW k \in 1 .. p + q, ~(k <= p) PROVE k - p \in 1 .. q
    BY <1>1, <2>1
  <2>2. ASSUME NEW k \in 1 .. p + q
        PROVE  (IF k <= p THEN us[k] ELSE IF ut[k - p] = 0 THEN 0 ELSE ut[k - p] + p) \in 0 .. p + q
    <3>1. CASE k <= p
      BY <1>1, <1>4, <3>1
    <3>2. CASE ~(k <= p)
      BY <1>1, <1>5, <2>1, <3>2
    <3>3. QED
      BY <3>1, <3>2
  <2>3. ASSUME NEW k \in 1 .. q PROVE w[p + k] = IF ut[k] = 0 THEN 0 ELSE ut[k] + p
    <3>1. p + k \in 1 .. p + q /\ ~(p + k <= p) /\ (p + k) - p = k
      BY <1>1
    <3>2. QED
      BY <3>1
  <2>4. \A k \in 1 .. p : k \in 1 .. p + q /\ k <= p
    BY <1>1
  <2>5. QED
    BY <2>2, <2>3, <2>4
<1> HIDE DEF w
<1>7. ASSUME NEW k \in 1 .. p + q
      PROVE  /\ w[k] < k
             /\ Len(c[k]) >= 2 => c[k][2] = IF w[k] = 0 THEN b ELSE c[w[k]][1]
             /\ \A j \in 1 .. p + q : w[k] < j /\ j < k => w[k] <= w[j]
  <2>1. CASE k <= p
    <3>1. k \in 1 .. p
      BY <1>1, <2>1
    <3>2. /\ w[k] = us[k] /\ us[k] \in 0 .. p /\ us[k] < k /\ c[k] = s[k]
          /\ Len(s[k]) >= 2 => s[k][2] = IF us[k] = 0 THEN b ELSE s[us[k]][1]
      BY <1>1, <1>4, <1>6, <3>1
    <3>3. us[k] # 0 => c[us[k]] = s[us[k]]
      <4>1. us[k] # 0 => us[k] \in 1 .. p
        BY <3>2
      <4>2. QED
        BY <1>1, <4>1
    <3>4. ASSUME NEW j \in 1 .. p + q, w[k] < j, j < k PROVE w[k] <= w[j]
      <4>1. j \in 1 .. p
        BY <1>1, <2>1, <3>4
      <4>2. QED
        BY <1>4, <1>6, <3>1, <3>2, <3>4, <4>1
    <3>5. QED
      BY <3>2, <3>3, <3>4
  <2>2. CASE ~(k <= p)
    <3> DEFINE i == k - p
    <3>1. i \in 1 .. q /\ k = p + i
      BY <1>1, <2>2
    <3> HIDE DEF i
    <3>2. /\ w[k] = IF ut[i] = 0 THEN 0 ELSE ut[i] + p
          /\ ut[i] \in 0 .. q /\ ut[i] < i /\ c[k] = t[i]
          /\ Len(t[i]) >= 2 => t[i][2] = IF ut[i] = 0 THEN b ELSE t[ut[i]][1]
      BY <1>1, <1>5, <1>6, <3>1
    <3>3. w[k] < k
      BY <1>1, <3>1, <3>2
    <3>4. Len(c[k]) >= 2 => c[k][2] = IF w[k] = 0 THEN b ELSE c[w[k]][1]
      <4>1. CASE ut[i] = 0
        BY <3>2, <4>1
      <4>2. CASE ut[i] # 0
        <5>1. ut[i] \in 1 .. q /\ w[k] = p + ut[i] /\ w[k] # 0
          BY <1>1, <3>2, <4>2
        <5>2. c[w[k]] = t[ut[i]]
          BY <1>1, <5>1
        <5>3. QED
          BY <3>2, <4>2, <5>1, <5>2
      <4>3. QED
        BY <4>1, <4>2
    <3>5. ASSUME NEW j \in 1 .. p + q, w[k] < j, j < k PROVE w[k] <= w[j]
      <4>1. CASE ut[i] = 0
        <5>1. w[k] = 0 /\ w[j] \in 0 .. p + q
          BY <1>6, <3>2, <4>1
        <5>2. QED
          BY <1>1, <5>1
      <4>2. CASE ut[i] # 0
        <5> DEFINE h == j - p
        <5>1. w[k] = ut[i] + p
          BY <3>2, <4>2
        <5>2. h \in 1 .. q /\ j = p + h /\ ut[i] < h /\ h < i
          BY <1>1, <3>1, <3>2, <3>5, <5>1
        <5> HIDE DEF h
        <5>3. ut[i] <= ut[h] /\ ut[h] \in 0 .. q
          BY <1>5, <3>1, <5>2
        <5>4. w[j] = IF ut[h] = 0 THEN 0 ELSE ut[h] + p
          BY <1>6, <5>2
        <5>5. QED
          BY <1>1, <3>2, <4>2, <5>1, <5>3, <5>4
      <4>3. QED
        BY <4>1, <4>2
    <3>6. QED
      BY <3>3, <3>4, <3>5
  <2>3. QED
    BY <2>1, <2>2
<1>8. WalkBy(w, c, b)
  <2>1. Len(c) = p + q
    BY <1>1
  <2>2. QED
    BY <1>7, <2>1 DEF WalkBy
<1>9. QED
  BY <1>1, <1>6, <1>8 DEF IsWalk, c

\* The first lines of a walk are one, also when the last is cut off.
LEMMA WalkCut ==
    ASSUME NEW s \in Seq(FullLines), NEW b, IsWalk(s, b), NEW f \in Seq(Lines), Len(f) <= Len(s),
           \A k \in 1 .. Len(f) :
               f[k][1] = s[k][1] /\ (Len(f[k]) >= 2 => f[k][2] = s[k][2])
    PROVE  IsWalk(f, b)
<1>1. Len(s) \in Nat /\ Len(f) \in Nat /\ \A k \in 1 .. Len(s) : s[k] \in FullLines
  BY LenProperties
<1>2. PICK up \in [1 .. Len(s) -> 0 .. Len(s)] : WalkBy(up, s, b)
  BY DEF IsWalk
<1> DEFINE w == [k \in 1 .. Len(f) |-> up[k]]
<1>3. ASSUME NEW k \in 1 .. Len(f)
      PROVE  /\ k \in 1 .. Len(s) /\ up[k] \in 0 .. Len(f) /\ up[k] < k
             /\ s[k][2] = IF up[k] = 0 THEN b ELSE s[up[k]][1]
             /\ \A j \in 1 .. Len(s) : up[k] < j /\ j < k => up[k] <= up[j]
  <2>1. k \in 1 .. Len(s) /\ Len(s[k]) = 3
    <3>1. k \in 1 .. Len(s)
      BY <1>1
    <3>2. \A l \in FullLines : Len(l) = 3
      BY DEF FullLines
    <3>3. QED
      BY <1>1, <3>1, <3>2
  <2>2. up[k] \in 0 .. Len(s) /\ up[k] < k
    BY <1>2, <2>1 DEF WalkBy
  <2>3. QED
    BY <1>1, <1>2, <2>1, <2>2 DEF WalkBy
<1>4. w \in [1 .. Len(f) -> 0 .. Len(f)] /\ \A k \in 1 .. Len(f) : w[k] = up[k]
  BY <1>3
<1> HIDE DEF w
<1>5. ASSUME NEW k \in 1 .. Len(f)
      PROVE  /\ w[k] < k
             /\ Len(f[k]) >= 2 => f[k][2] = IF w[k] = 0 THEN b ELSE f[w[k]][1]
             /\ \A j \in 1 .. Len(f) : w[k] < j /\ j < k => w[k] <= w[j]
  <2>1. ASSUME Len(f[k]) >= 2 PROVE f[k][2] = IF w[k] = 0 THEN b ELSE f[w[k]][1]
    <3>1. f[k][2] = IF up[k] = 0 THEN b ELSE s[up[k]][1]
      BY <1>3, <2>1
    <3>2. up[k] # 0 => up[k] \in 1 .. Len(f)
      BY <1>1, <1>3
    <3>3. QED
      BY <1>4, <3>1, <3>2
  <2>2. \A j \in 1 .. Len(f) : j \in 1 .. Len(s)
    BY <1>1
  <2>3. QED
    BY <1>3, <1>4, <2>1, <2>2
<1>6. QED
  BY <1>4, <1>5 DEF IsWalk, WalkBy

LEMMA Writings ==
    ASSUME FInv
    PROVE  /\ Written \in [Nodes \cup {Null} -> Seq(FullLines)]
           /\ Written[Null] = <<>>
           /\ \A m \in Nodes :
                 Written[m] = (OwnLine(m) \o Written[child[m]]) \o Written[sibling[m]]
           /\ \A m \in Nodes : /\ child[m] \in Nodes \cup {Null}
                               /\ sibling[m] \in Nodes \cup {Null}
           /\ Null \notin Nodes /\ Root \in Nodes
<1>1. /\ Written \in [Nodes \cup {Null} -> Seq(FullLines)]
      /\ Written[Null] = <<>>
      /\ \A m \in Nodes : Written[m] = OwnLine(m) \o Written[child[m]] \o Written[sibling[m]]
  BY WrittenEquations DEF FInv, IInv
<1>2. /\ child \in [Nodes -> Nodes \cup {Null}] /\ sibling \in [Nodes -> Nodes \cup {Null}]
      /\ Null \notin Nodes /\ Root \in Nodes
  BY TreePointers DEF FInv, IInv
<1>3. QED
  BY <1>1, <1>2

\* What is written for a node and what follows it is a walk.
LEMMA WrittenWalks ==
    ASSUME FInv, NEW m \in alloc PROVE IsWalk(Written[m], name[parent[m]])
<1> DEFINE OK(x) == IsWalk(Written[x], name[parent[x]])
           D == {x \in alloc : ~OK(x)}
<1>1. D = {}
  <2> SUFFICES ASSUME D # {} PROVE FALSE
    OBVIOUS
  <2>1. alloc \subseteq Nodes
    BY TreePointers DEF FInv, IInv, Pointers
  <2>2. PICK x \in D : child[x] \notin D /\ sibling[x] \notin D
    <3>1. D \in SUBSET Nodes
      BY <2>1
    <3>2. QED
      BY <3>1, TreePointers DEF Ends, FInv, IInv
  <2>3. /\ x \in alloc /\ x \in Nodes /\ child[x] \in alloc \cup {Null}
        /\ sibling[x] \in alloc \cup {Null}
    BY <2>1, <2>2 DEF FInv, Forest, OnlyAllocated
  <2>4. OwnLine(x) = <<Line(x)>> /\ Line(x) \in FullLines
    BY <2>3, OwnLines DEF FInv, IInv
  <2>5. Line(x)[1] = name[x] /\ Line(x)[2] = name[parent[x]]
    BY DEF Line
  <2> DEFINE t == Written[child[x]]
             u == Written[sibling[x]]
             l == Line(x)
  <2>6. t \in Seq(FullLines) /\ u \in Seq(FullLines) /\ Written[x] = (<<l>> \o t) \o u
    BY <2>3, <2>4, Writings
  <2>7. IsWalk(t, name[x])
    <3>1. CASE child[x] = Null
      BY <3>1, EmptyWalk, Writings
    <3>2. CASE child[x] # Null
      <4>1. OK(child[x]) /\ parent[child[x]] = x
        BY <2>2, <2>3, <3>2 DEF FInv, Forest, ParentsFit
      <4>2. QED
        BY <4>1
    <3>3. QED
      BY <3>1, <3>2
  <2>8. IsWalk(u, name[parent[x]])
    <3>1. CASE sibling[x] = Null
      BY <3>1, EmptyWalk, Writings
    <3>2. CASE sibling[x] # Null
      <4>1. OK(sibling[x]) /\ parent[sibling[x]] = parent[x]
        BY <2>2, <2>3, <3>2 DEF FInv, Forest, ParentsFit
      <4>2. QED
        BY <4>1
    <3>3. QED
      BY <3>1, <3>2
  <2>9. ~OK(x)
    BY <2>2
  <2> HIDE DEF t, u, l, D
  <2>10. IsWalk(<<l>> \o t, l[2])
    BY <2>4, <2>5, <2>6, <2>7, WalkDown DEF l
  <2>11. <<l>> \o t \in Seq(FullLines)
    BY <2>4, <2>6, ConcatProperties DEF l
  <2>12. l[2] = name[parent[x]]
    BY <2>5 DEF l
  <2>13. IsWalk((<<l>> \o t) \o u, name[parent[x]])
    BY <2>6, <2>8, <2>10, <2>11, <2>12, WalkOn
  <2>14. QED
    BY <2>6, <2>9, <2>13
<1>2. OK(m)
  BY <1>1
<1>3. QED
  BY <1>2

\* The root has no line.
LEMMA SavedBelowRoot == ASSUME FInv PROVE Saved = Written[child[Root]]
<1>1. Root \in Nodes /\ sibling[Root] = Null /\ OwnLine(Root) = <<>>
  BY Writings, OwnLines DEF FInv, IInv, Forest, ParentsFit
<1> DEFINE t == Written[child[Root]]
<1>2. t \in Seq(FullLines) /\ Saved = (<<>> \o t) \o <<>>
  BY <1>1, Writings DEF Saved
<1> HIDE DEF t
<1>3. <<>> \o t = t /\ t \o <<>> = t
  BY <1>2, ConcatEmptySeq
<1>4. QED
  BY <1>2, <1>3 DEF t

LEMMA SavedWalks == ASSUME FInv PROVE IsWalk(Saved, Slash)
<1>1. Root \in Nodes /\ child[Root] \in alloc \cup {Null} /\ name[Root] = Slash
  BY Writings DEF FInv, Forest, OnlyAllocated, Labelled
<1>2. CASE child[Root] = Null
  BY <1>2, SavedBelowRoot, Writings, EmptyWalk
<1>3. CASE child[Root] # Null
  <2>1. IsWalk(Written[child[Root]], name[parent[child[Root]]])
    BY <1>1, <1>3, WrittenWalks
  <2>2. parent[child[Root]] = Root
    BY <1>1, <1>3 DEF FInv, Forest, ParentsFit
  <2>3. QED
    BY <1>1, <2>1, <2>2, SavedBelowRoot
<1>4. QED
  BY <1>2, <1>3

\* The file holds a walk, whatever was interrupted.
WalkFile == file = NoFile \/ IsWalk(file, Slash)

LEMMA CutWalks ==
    ASSUME FInv, NEW k \in 0 .. Len(Saved)
    PROVE  /\ IsWalk(SubSeq(Saved, 1, k), Slash)
           /\ \A j \in 1 .. 2 : k < Len(Saved) =>
                 IsWalk(Append(SubSeq(Saved, 1, k), Cut(Saved[k + 1], j)), Slash)
<1> DEFINE s == Saved
           f == SubSeq(s, 1, k)
<1>1. s \in Seq(FullLines) /\ s \in Seq(Lines) /\ IsWalk(s, Slash) /\ f \in Seq(Lines)
  BY SavedLines, SavedWalks, CutLines
<1>2. /\ \A j \in 1 .. 2 : k < Len(s) => Append(f, Cut(s[k + 1], j)) \in Seq(Lines)
  BY CutLines
<1>3. k \in 0 .. Len(s)
  OBVIOUS
<1> HIDE DEF s
<1>4. Len(s) \in Nat /\ \A i \in 1 .. Len(s) : s[i] \in Lines /\ s[i] \in FullLines
  BY <1>1, LenProperties
<1>5. Len(f) = k /\ \A i \in 1 .. k : f[i] = s[i]
  <2>1. k \in Int /\ \A i \in 1 .. k : s[i] \in Lines
    BY <1>3, <1>4
  <2>2. /\ Len(f) = IF 1 <= k THEN k - 1 + 1 ELSE 0
        /\ \A i \in 1 .. k - 1 + 1 : f[i] = s[1 + i - 1]
    BY <2>1, SubSeqProperties
  <2> HIDE DEF f
  <2>3. QED
    BY <1>3, <1>4, <2>2
<1> HIDE DEF f
<1>6. IsWalk(f, Slash)
  <2>1. Len(f) <= Len(s) /\ \A i \in 1 .. Len(f) : f[i][1] = s[i][1] /\ f[i][2] = s[i][2]
    BY <1>3, <1>4, <1>5
  <2>2. QED
    BY <1>1, <2>1, WalkCut
<1>7. ASSUME NEW j \in 1 .. 2, k < Len(s) PROVE IsWalk(Append(f, Cut(s[k + 1], j)), Slash)
  <2> DEFINE l == Cut(s[k + 1], j)
             g == Append(f, l)
  <2>1. g \in Seq(Lines)
    BY <1>2, <1>7
  <2>2. l[1] = s[k + 1][1] /\ (Len(l) >= 2 => l[2] = s[k + 1][2])
    <3>1. k + 1 \in 1 .. Len(s)
      BY <1>3, <1>4, <1>7
    <3>2. PICK a \in Names, b \in Names \cup {Slash}, c \in Types : s[k + 1] = <<a, b, c>>
      BY <1>4, <3>1 DEF FullLines
    <3>3. CASE j = 1
      <4>1. SubSeq(<<a, b, c>>, 1, 1) = <<a>>
        BY CutAt
      <4>2. l = <<a>>
        BY <3>2, <3>3, <4>1 DEF Cut
      <4> HIDE DEF l
      <4>3. QED
        BY <3>2, <4>2
    <3>4. CASE j = 2
      <4>1. SubSeq(<<a, b, c>>, 1, 2) = <<a, b>>
        BY CutAt
      <4>2. l = <<a, b>>
        BY <3>2, <3>4, <4>1 DEF Cut
      <4> HIDE DEF l
      <4>3. QED
        BY <3>2, <4>2
    <3>5. QED
      BY <3>3, <3>4
  <2> HIDE DEF l
  <2>3. Len(g) = k + 1 /\ g[k + 1] = l /\ \A i \in 1 .. k : g[i] = s[i]
    <3>1. f \in Seq(Lines \cup {l}) /\ l \in Lines \cup {l}
      BY <1>1, SeqMonotonic
    <3>2. Len(g) = Len(f) + 1 /\ g[Len(f) + 1] = l /\ \A i \in 1 .. Len(f) : g[i] = f[i]
      BY <3>1, AppendProperties
    <3> HIDE DEF g
    <3>3. QED
      BY <1>5, <3>2
  <2> HIDE DEF g
  <2>4. Len(g) <= Len(s)
    BY <1>3, <1>4, <1>7, <2>3
  <2>5. ASSUME NEW i \in 1 .. Len(g)
        PROVE  g[i][1] = s[i][1] /\ (Len(g[i]) >= 2 => g[i][2] = s[i][2])
    <3>1. i = k + 1 \/ i \in 1 .. k
      BY <1>3, <2>3
    <3>2. QED
      BY <2>2, <2>3, <3>1
  <2>6. QED
    BY <1>1, <2>1, <2>4, <2>5, WalkCut DEF g, l
<1>8. QED
  BY <1>6, <1>7 DEF s, f

LEMMA NextWalkFile == FInv /\ WalkFile /\ [Next]_vars => WalkFile'
<1> SUFFICES ASSUME FInv, WalkFile, [Next]_vars PROVE WalkFile'
  OBVIOUS
<1>1. CASE file' = file
  BY <1>1 DEF WalkFile
<1>2. CASE file' = Saved
  BY <1>2, SavedWalks DEF WalkFile
<1>3. CASE SaveInterrupted
  <2>1. PICK k \in 0 .. Len(Saved) :
           \/ file' = SubSeq(Saved, 1, k)
           \/ \E j \in 1 .. 2 :
                 k < Len(Saved) /\ file' = Append(SubSeq(Saved, 1, k), Cut(Saved[k + 1], j))
    BY <1>3 DEF SaveInterrupted
  <2>2. IsWalk(file', Slash)
    BY <2>1, CutWalks
  <2>3. QED
    BY <2>2 DEF WalkFile
<1>4. file' = file \/ file' = Saved \/ SaveInterrupted
  <2>1. ASSUME NEW nm \in Names, Command(nm) PROVE file' = file
    BY <2>1 DEF Command, Create, Rmdir, Rm, Unlink, Cd, CdTo
  <2>2. QED
    BY <2>1 DEF Next, vars, CreateNothing, RemoveNothing, CdRoot, CdUp, CdTo, CdInEmpty, Crash,
       Save, Quit, ReloadMissing, Reload, ReloadSkip, ReloadLine, ReloadCut, ReloadEnd,
       Interrupt, Start
<1>5. QED
  BY <1>1, <1>2, <1>3, <1>4

-----------------------------------------------------------------------------
(* What is below a node, and where its lines are. *)

LEMMA ReachClosed ==
    ASSUME FInv, NEW m \in Nodes
    PROVE  /\ m \in Reach(m) /\ Reach(m) \subseteq Nodes
           /\ \A x \in Reach(m) : {child[x], sibling[x]} \subseteq Reach(m) \cup {Null}
<1>1. /\ m # Null
      /\ \A x \in Nodes : child[x] \in Nodes \cup {Null} /\ sibling[x] \in Nodes \cup {Null}
  BY TreePointers DEF FInv, IInv
<1>2. m \in Reach(m) /\ Reach(m) \subseteq Nodes
  BY <1>1 DEF Reach
<1>3. ASSUME NEW x \in Reach(m), NEW z \in {child[x], sibling[x]}, z # Null PROVE z \in Reach(m)
  <2>1. z \in Nodes
    BY <1>1, <1>2, <1>3
  <2>2. ASSUME NEW S \in SUBSET Nodes, m \in S,
               \A y \in S : {child[y], sibling[y]} \subseteq S \cup {Null}
        PROVE  z \in S
    <3>1. x \in S
      BY <1>1, <2>2 DEF Reach
    <3>2. QED
      BY <1>3, <2>2, <3>1
  <2>3. QED
    BY <1>1, <2>1, <2>2 DEF Reach
<1>4. QED
  BY <1>2, <1>3

LEMMA ReachSmallest ==
    ASSUME NEW m, NEW S, S \subseteq Nodes, m \in S,
           \A x \in S : {child[x], sibling[x]} \subseteq S \cup {Null}
    PROVE  Reach(m) \subseteq S
  BY DEF Reach

LEMMA ReachNull == Reach(Null) = {}
  BY DEF Reach

LEMMA ReachStep ==
    ASSUME FInv, NEW m \in Nodes
    PROVE  Reach(m) = {m} \cup Reach(child[m]) \cup Reach(sibling[m])
<1> DEFINE S == {m} \cup Reach(child[m]) \cup Reach(sibling[m])
<1>1. /\ Null \notin Nodes
      /\ \A x \in Nodes : child[x] \in Nodes \cup {Null} /\ sibling[x] \in Nodes \cup {Null}
  BY TreePointers DEF FInv, IInv
<1>2. ASSUME NEW z \in Nodes \cup {Null}
      PROVE  /\ Reach(z) \subseteq Nodes /\ z \in Reach(z) \cup {Null}
             /\ \A x \in Reach(z) : {child[x], sibling[x]} \subseteq Reach(z) \cup {Null}
    BY <1>2, ReachClosed, ReachNull
<1>3. S \subseteq Nodes /\ m \in S
  BY <1>1, <1>2
<1>4. ASSUME NEW x \in S PROVE {child[x], sibling[x]} \subseteq S \cup {Null}
  <2>1. CASE x = m
    BY <1>1, <1>2, <2>1
  <2>2. CASE x \in Reach(child[m])
    BY <1>1, <1>2, <2>2
  <2>3. CASE x \in Reach(sibling[m])
    BY <1>1, <1>2, <2>3
  <2>4. QED
    BY <2>1, <2>2, <2>3
<1>5. Reach(m) \subseteq S
  <2> HIDE DEF S
  <2>1. QED
    BY <1>3, <1>4, ReachSmallest
<1>6. ASSUME NEW z \in {child[m], sibling[m]} PROVE Reach(z) \subseteq Reach(m)
  <2>1. CASE z = Null
    BY <2>1, ReachNull
  <2>2. CASE z # Null
    <3>1. z \in Reach(m) /\ Reach(m) \subseteq Nodes
      BY <1>6, <2>2, ReachClosed
    <3>2. \A x \in Reach(m) : {child[x], sibling[x]} \subseteq Reach(m) \cup {Null}
      BY ReachClosed
    <3>3. QED
      BY <3>1, <3>2, ReachSmallest
  <2>3. QED
    BY <2>1, <2>2
<1>7. m \in Reach(m)
  BY ReachClosed
<1>8. QED
  BY <1>5, <1>6, <1>7

\* The root is below nothing.
LEMMA RootOnTop == ASSUME FInv, NEW x \in Nodes PROVE Reach(child[x]) \subseteq Addr
<1>1. Addr \subseteq Nodes /\ \A y \in Addr : {child[y], sibling[y]} \subseteq Addr \cup {Null}
  BY TreePointers DEF FInv, IInv, Pointers
<1>2. CASE child[x] = Null
  BY <1>2, ReachNull
<1>3. CASE child[x] # Null
  <2>1. child[x] \in Addr
    BY <1>3 DEF FInv, IInv, Pointers
  <2>2. QED
    BY <1>1, <2>1, ReachSmallest
<1>4. QED
  BY <1>2, <1>3

LEMMA BelowRoot == ASSUME FInv PROVE Tree = {Root} \cup Reach(child[Root])
<1>1. Root \in Nodes /\ sibling[Root] = Null
  BY TreePointers DEF FInv, IInv, Forest, ParentsFit
<1>2. QED
  BY <1>1, ReachStep, ReachNull DEF Tree

\* One line stands before another.
Before(l, k, s) == \E i, j \in 1 .. Len(s) : i < j /\ s[i] = l /\ s[j] = k

LEMMA InConcat ==
    ASSUME NEW S, NEW s \in Seq(S), NEW t \in Seq(S), NEW l
    PROVE  Fs!In(l, s \o t) <=> Fs!In(l, s) \/ Fs!In(l, t)
<1> DEFINE c == s \o t
<1>1. /\ Len(s) \in Nat /\ Len(t) \in Nat /\ Len(c) = Len(s) + Len(t) /\ c \in Seq(S)
      /\ \A k \in 1 .. Len(s) + Len(t) : c[k] = IF k <= Len(s) THEN s[k] ELSE t[k - Len(s)]
  BY ConcatProperties, LenProperties
<1>2. DOMAIN s = 1 .. Len(s) /\ DOMAIN t = 1 .. Len(t) /\ DOMAIN c = 1 .. Len(c)
  BY <1>1, LenProperties
<1> HIDE DEF c
<1>3. ASSUME Fs!In(l, c) PROVE Fs!In(l, s) \/ Fs!In(l, t)
  <2>1. PICK k \in 1 .. Len(s) + Len(t) : c[k] = l
    BY <1>1, <1>2, <1>3 DEF Fs!In
  <2>2. CASE k <= Len(s)
    <3>1. k \in DOMAIN s /\ s[k] = l
      BY <1>1, <1>2, <2>1, <2>2
    <3>2. QED
      BY <3>1 DEF Fs!In
  <2>3. CASE ~(k <= Len(s))
    <3>1. k - Len(s) \in DOMAIN t /\ t[k - Len(s)] = l
      BY <1>1, <1>2, <2>1, <2>3
    <3>2. QED
      BY <3>1 DEF Fs!In
  <2>4. QED
    BY <2>2, <2>3
<1>4. ASSUME Fs!In(l, s) PROVE Fs!In(l, c)
  <2>1. PICK k \in 1 .. Len(s) : s[k] = l
    BY <1>2, <1>4 DEF Fs!In
  <2>2. k \in DOMAIN c /\ c[k] = l
    BY <1>1, <1>2, <2>1
  <2>3. QED
    BY <2>2 DEF Fs!In
<1>5. ASSUME Fs!In(l, t) PROVE Fs!In(l, c)
  <2>1. PICK k \in 1 .. Len(t) : t[k] = l
    BY <1>2, <1>5 DEF Fs!In
  <2>2. /\ k + Len(s) \in 1 .. Len(s) + Len(t) /\ ~(k + Len(s) <= Len(s))
        /\ (k + Len(s)) - Len(s) = k
    BY <1>1
  <2>3. k + Len(s) \in DOMAIN c /\ c[k + Len(s)] = l
    BY <1>1, <1>2, <2>1, <2>2
  <2>4. QED
    BY <2>3 DEF Fs!In
<1>6. QED
  BY <1>3, <1>4, <1>5 DEF c

LEMMA BeforeConcat ==
    ASSUME NEW S, NEW s \in Seq(S), NEW t \in Seq(S), NEW l, NEW k
    PROVE  /\ Fs!In(l, s) /\ Fs!In(k, t) => Before(l, k, s \o t)
           /\ Before(l, k, s) => Before(l, k, s \o t)
           /\ Before(l, k, t) => Before(l, k, s \o t)
<1> DEFINE c == s \o t
           p == Len(s)
           q == Len(t)
<1>1. /\ p \in Nat /\ q \in Nat /\ Len(c) = p + q
      /\ DOMAIN s = 1 .. p /\ DOMAIN t = 1 .. q
      /\ \A i \in 1 .. p : i \in 1 .. Len(c) /\ c[i] = s[i]
      /\ \A i \in 1 .. q : p + i \in 1 .. Len(c) /\ c[p + i] = t[i]
  <2>1. /\ Len(s) \in Nat /\ Len(t) \in Nat /\ Len(c) = Len(s) + Len(t)
        /\ DOMAIN s = 1 .. Len(s) /\ DOMAIN t = 1 .. Len(t)
        /\ \A i \in 1 .. Len(s) + Len(t) : c[i] = IF i <= Len(s) THEN s[i] ELSE t[i - Len(s)]
    BY ConcatProperties, LenProperties
  <2> HIDE DEF c
  <2>2. ASSUME NEW i \in 1 .. Len(t)
        PROVE  Len(s) + i \in 1 .. Len(c) /\ c[Len(s) + i] = t[i]
    <3>1. /\ Len(s) + i \in 1 .. Len(s) + Len(t) /\ ~(Len(s) + i <= Len(s))
          /\ (Len(s) + i) - Len(s) = i
      BY <2>1
    <3>2. QED
      BY <2>1, <3>1
  <2>3. QED
    BY <2>1, <2>2
<1> HIDE DEF c, p, q
<1>2. ASSUME Fs!In(l, s), Fs!In(k, t) PROVE Before(l, k, c)
  <2>1. PICK i \in 1 .. p : s[i] = l
    BY <1>1, <1>2 DEF Fs!In
  <2>2. PICK j \in 1 .. q : t[j] = k
    BY <1>1, <1>2 DEF Fs!In
  <2>3. /\ i \in 1 .. Len(c) /\ p + j \in 1 .. Len(c) /\ i < p + j
        /\ c[i] = l /\ c[p + j] = k
    BY <1>1, <2>1, <2>2
  <2>4. QED
    BY <2>3 DEF Before
<1>3. ASSUME Before(l, k, s) PROVE Before(l, k, c)
  <2>1. \E i, j \in 1 .. p : i < j /\ s[i] = l /\ s[j] = k
    BY <1>3 DEF Before, p
  <2>2. QED
    BY <1>1, <2>1 DEF Before
<1>4. ASSUME Before(l, k, t) PROVE Before(l, k, c)
  <2>1. PICK i \in 1 .. q, j \in 1 .. q : i < j /\ t[i] = l /\ t[j] = k
    BY <1>4 DEF Before, q
  <2>2. /\ p + i \in 1 .. Len(c) /\ p + j \in 1 .. Len(c) /\ p + i < p + j
        /\ c[p + i] = l /\ c[p + j] = k
    BY <1>1, <2>1
  <2>3. QED
    BY <2>2 DEF Before
<1>5. QED
  BY <1>2, <1>3, <1>4 DEF c

\* The parts of what is written for a node.
LEMMA WritingParts ==
    ASSUME FInv, NEW m \in Nodes
    PROVE  /\ OwnLine(m) \in Seq(FullLines) /\ Written[child[m]] \in Seq(FullLines)
           /\ Written[sibling[m]] \in Seq(FullLines)
           /\ OwnLine(m) \o Written[child[m]] \in Seq(FullLines)
           /\ Written[m] = (OwnLine(m) \o Written[child[m]]) \o Written[sibling[m]]
           /\ m \in alloc => Fs!In(Line(m), OwnLine(m))
<1>1. /\ OwnLine(m) \in Seq(FullLines) /\ Written[child[m]] \in Seq(FullLines)
      /\ Written[sibling[m]] \in Seq(FullLines)
      /\ Written[m] = (OwnLine(m) \o Written[child[m]]) \o Written[sibling[m]]
      /\ m \in alloc => OwnLine(m) = <<Line(m)>>
  BY Writings, OwnLines DEF FInv, IInv
<1>2. OwnLine(m) \o Written[child[m]] \in Seq(FullLines)
  BY <1>1, ConcatProperties
<1>3. m \in alloc => Fs!In(Line(m), OwnLine(m))
  BY <1>1 DEF Fs!In
<1>4. QED
  BY <1>1, <1>2, <1>3

\* What is below a node has a line in what is written for that node.
LEMMA HasLine ==
    ASSUME FInv, NEW m \in Nodes \cup {Null}, NEW x \in Reach(m), x \in alloc
    PROVE  Fs!In(Line(x), Written[m])
<1> DEFINE OK(y) == x \in Reach(y) => Fs!In(Line(x), Written[y])
           D == {y \in Nodes : ~OK(y)}
<1>1. D = {}
  <2> SUFFICES ASSUME D # {} PROVE FALSE
    OBVIOUS
  <2>1. PICK y \in D : child[y] \notin D /\ sibling[y] \notin D
    <3>1. D \in SUBSET Nodes
      OBVIOUS
    <3>2. QED
      BY <3>1, TreePointers DEF Ends, FInv, IInv
  <2>2. y \in Nodes /\ child[y] \in Nodes \cup {Null} /\ sibling[y] \in Nodes \cup {Null} /\ ~OK(y)
    BY <2>1, Writings
  <2>3. OK(child[y]) /\ OK(sibling[y])
    BY <2>1, <2>2, ReachNull
  <2> DEFINE a == OwnLine(y)
             b == Written[child[y]]
             c == Written[sibling[y]]
  <2>4. /\ a \in Seq(FullLines) /\ b \in Seq(FullLines) /\ c \in Seq(FullLines)
        /\ a \o b \in Seq(FullLines) /\ Written[y] = (a \o b) \o c
        /\ y = x => Fs!In(Line(x), a)
    BY <2>2, WritingParts
  <2>5. x = y \/ x \in Reach(child[y]) \/ x \in Reach(sibling[y])
    BY <2>2, ReachStep
  <2>6. Fs!In(Line(x), a) \/ Fs!In(Line(x), b) \/ Fs!In(Line(x), c)
    BY <2>3, <2>4, <2>5
  <2> HIDE DEF a, b, c, OK, D
  <2>7. Fs!In(Line(x), (a \o b) \o c)
    BY <2>4, <2>6, InConcat
  <2>8. QED
    BY <2>2, <2>4, <2>7 DEF OK
<1>2. QED
  BY <1>1, ReachNull

\* What is in order there is in order in the file.
LEMMA OrderInFile ==
    ASSUME FInv, NEW m \in Tree, NEW l, NEW k, Before(l, k, Written[m])
    PROVE  Before(l, k, Saved)
<1> DEFINE S == {y \in Tree : Before(l, k, Written[y]) => Before(l, k, Saved)}
<1>1. Root \in Tree /\ Closed(Tree) /\ Tree \subseteq Nodes
  BY TreeClosed DEF FInv, IInv, Closed
<1>2. Root \in S
  BY <1>1 DEF Saved
<1>3. ASSUME NEW y \in S, NEW z \in {child[y], sibling[y]}, z # Null PROVE z \in S
  <2>1. z \in Tree /\ y \in Nodes
    BY <1>1, <1>3 DEF Closed
  <2> DEFINE a == OwnLine(y)
             b == Written[child[y]]
             c == Written[sibling[y]]
  <2>2. /\ a \in Seq(FullLines) /\ b \in Seq(FullLines) /\ c \in Seq(FullLines)
        /\ a \o b \in Seq(FullLines) /\ Written[y] = (a \o b) \o c
    BY <2>1, WritingParts
  <2>3. Before(l, k, Written[z]) => Before(l, k, b) \/ Before(l, k, c)
    BY <1>3
  <2> HIDE DEF a, b, c, S
  <2>4. Before(l, k, b) \/ Before(l, k, c) => Before(l, k, Written[y])
    BY <2>2, BeforeConcat
  <2>5. QED
    BY <2>1, <2>3, <2>4 DEF S
<1>4. Closed(S)
  BY <1>1, <1>3 DEF Closed
<1> HIDE DEF S
<1>5. m \in S
  BY <1>2, <1>4, TreeSmallest
<1>6. QED
  BY <1>5 DEF S

\* A directory comes before what is below it.
LEMMA AboveFirst ==
    ASSUME FInv, NEW z \in Tree, z \in alloc, NEW d \in Reach(child[z]), d \in alloc
    PROVE  Before(Line(z), Line(d), Saved)
<1>1. z \in Nodes /\ child[z] \in Nodes \cup {Null}
  BY TreeClosed, Writings DEF FInv, IInv, Closed
<1>2. Fs!In(Line(d), Written[child[z]])
  BY <1>1, HasLine
<1> DEFINE a == OwnLine(z)
           b == Written[child[z]]
           c == Written[sibling[z]]
<1>3. /\ a \in Seq(FullLines) /\ b \in Seq(FullLines) /\ c \in Seq(FullLines)
      /\ a \o b \in Seq(FullLines) /\ Written[z] = (a \o b) \o c /\ Fs!In(Line(z), a)
  BY <1>1, WritingParts
<1>4. Fs!In(Line(d), b)
  BY <1>2
<1> HIDE DEF a, b, c
<1>5. Before(Line(z), Line(d), a \o b)
  BY <1>3, <1>4, BeforeConcat
<1>6. Before(Line(z), Line(d), Written[z])
  BY <1>3, <1>5, BeforeConcat
<1>7. QED
  BY <1>6, OrderInFile

\* An entry and what is below it come before the next entry.
LEMMA BelowFirst ==
    ASSUME FInv, NEW x \in Tree, NEW d \in Under(x), d \in alloc, x \in alloc, sibling[x] # Null
    PROVE  Before(Line(d), Line(sibling[x]), Saved)
<1>1. /\ x \in Nodes /\ child[x] \in Nodes \cup {Null} /\ sibling[x] \in Nodes
      /\ sibling[x] \in alloc /\ x # Null
  BY TreeClosed, Writings DEF FInv, IInv, Closed, Forest, OnlyAllocated
<1> DEFINE a == OwnLine(x)
           b == Written[child[x]]
           c == Written[sibling[x]]
<1>2. /\ a \in Seq(FullLines) /\ b \in Seq(FullLines) /\ c \in Seq(FullLines)
      /\ a \o b \in Seq(FullLines) /\ Written[x] = (a \o b) \o c /\ Fs!In(Line(x), a)
  BY <1>1, WritingParts
<1>3. Fs!In(Line(d), a) \/ Fs!In(Line(d), b)
  <2>1. d = x \/ d \in Reach(child[x])
    BY <1>1 DEF Under
  <2>2. d \in Reach(child[x]) => Fs!In(Line(d), b)
    BY <1>1, HasLine
  <2>3. QED
    BY <1>2, <2>1, <2>2
<1>4. Fs!In(Line(sibling[x]), c)
  <2>1. sibling[x] \in Reach(sibling[x])
    BY <1>1, ReachClosed
  <2>2. QED
    BY <1>1, <2>1, HasLine
<1> HIDE DEF a, b, c
<1>5. Fs!In(Line(d), a \o b)
  BY <1>2, <1>3, InConcat
<1>6. Before(Line(d), Line(sibling[x]), Written[x])
  BY <1>2, <1>4, <1>5, BeforeConcat
<1>7. QED
  BY <1>6, OrderInFile

\* up gives the lines of the parents of the lines s.
ParentLines(up, s) ==
    \A j \in 1 .. Len(s) :
        /\ up[j] \in Nat /\ up[j] < j
        /\ s[j][2] = IF up[j] = 0 THEN Slash ELSE s[up[j]][1]

\* The lines behind the i-th are all below it: the next one may be one of its entries.
OpenLine(i, up, s) ==
    i \in 1 .. Len(s) /\ \A j \in 1 .. Len(s) : i < j => i <= up[j]

\* So nothing follows a directory of such a line in its listing, nor any directory above.
LEMMA OpenIsLast ==
    ASSUME FInv, Unambiguous(Saved), NEW up, ParentLines(up, Saved),
           NEW d \in Tree, NEW i,
           d # Root => OpenLine(i, up, Saved) /\ Saved[i][1] = name[d],
           NEW x \in Tree, d \in Under(x)
    PROVE  sibling[x] = Null
<1> SUFFICES ASSUME sibling[x] # Null PROVE FALSE
  OBVIOUS
<1> DEFINE s == Saved
           y == sibling[x]
           z == parent[x]
<1>1. /\ Root \in Tree /\ Tree \subseteq Nodes /\ Closed(Tree)
      /\ \A m \in Tree : m # Root => m \in alloc
  BY TreeClosed DEF FInv, IInv, Closed, Allocated
<1>2. x # Root /\ x \in alloc /\ x \in Nodes
  BY <1>1 DEF FInv, Forest, ParentsFit
<1>3. /\ y \in Tree /\ y # Root /\ y \in alloc /\ y \in Nodes /\ parent[y] = z
      /\ z \in Tree /\ x \in After(child[z])
  <2>1. y \in Tree /\ y \in Nodes
    BY <1>1 DEF Closed
  <2>2. y # Root
    BY <1>2, FssimAssumption DEF FInv, IInv, Pointers
  <2>3. parent[y] = z
    BY <1>2 DEF FInv, Forest, ParentsFit
  <2>4. z \in Tree
    BY ParentsIn DEF FInv, IInv
  <2>5. x \in After(child[z])
    BY <1>2, EntryOfParent
  <2>6. QED
    BY <1>1, <2>1, <2>2, <2>3, <2>4, <2>5
<1>4. d # Root /\ d \in alloc
  <2>1. ASSUME d = Root PROVE FALSE
    <3>1. Root \in Reach(child[x])
      BY <1>2, <2>1 DEF Under
    <3>2. QED
      BY <1>2, <3>1, RootOnTop, FssimAssumption
  <2>2. QED
    BY <1>1, <2>1
<1>5. /\ i \in 1 .. Len(s) /\ s[i][1] = name[d]
      /\ \A j \in 1 .. Len(s) : i < j => i <= up[j]
  BY <1>4 DEF OpenLine
<1>6. /\ s \in Seq(FullLines) /\ Len(s) \in Nat /\ DOMAIN s = 1 .. Len(s)
      /\ \A j \in 1 .. Len(s) : s[j][1] \in Names
      /\ \A j, k \in 1 .. Len(s) : s[j][1] = s[k][1] => j = k
  <2>1. /\ s \in Seq(FullLines) /\ Len(s) \in Nat /\ DOMAIN s = 1 .. Len(s)
        /\ \A j \in 1 .. Len(s) : s[j] \in FullLines
    BY SavedLines, LenProperties
  <2>2. \A l \in FullLines : l[1] \in Names
    BY DEF FullLines
  <2>3. \A j, k \in 1 .. Len(s) : s[j][1] = s[k][1] => j = k
    BY <2>1 DEF Unambiguous
  <2>4. QED
    BY <2>1, <2>2, <2>3
<1>7. PICK i0, j0 \in 1 .. Len(s) : i0 < j0 /\ s[i0] = Line(d) /\ s[j0] = Line(y)
  BY <1>2, <1>4, BelowFirst DEF Before
<1>8. i0 = i /\ i <= up[j0] /\ s[j0][2] = name[z] /\ s[j0][2] = s[up[j0]][1]
      /\ up[j0] \in 1 .. Len(s)
  <2>1. i0 = i
    BY <1>5, <1>6, <1>7 DEF Line
  <2>2. i <= up[j0]
    BY <1>5, <1>7, <2>1
  <2>3. s[j0][2] = name[z]
    BY <1>3, <1>7 DEF Line
  <2>4. up[j0] \in Nat /\ up[j0] < j0 /\ up[j0] # 0 /\ s[j0][2] = s[up[j0]][1]
    BY <1>5, <2>2 DEF ParentLines
  <2>5. QED
    BY <1>6, <2>1, <2>2, <2>3, <2>4
<1>9. CASE z = Root
  BY <1>6, <1>8, <1>9, FssimAssumption DEF FInv, Labelled
<1>10. CASE z # Root
  <2>1. z \in alloc /\ z \in Nodes
    BY <1>1, <1>3, <1>10
  <2>2. d \in Reach(child[z])
    <3>1. child[z] \in Nodes
      <4>1. child[z] # Null
        BY <1>3 DEF After
      <4>2. QED
        BY <2>1, <4>1, Writings
    <3>2. /\ child[z] \in Reach(child[z]) /\ Reach(child[z]) \subseteq Nodes
          /\ \A w \in Reach(child[z]) :
                {child[w], sibling[w]} \subseteq Reach(child[z]) \cup {Null}
      BY <3>1, ReachClosed
    <3>3. After(child[z]) \subseteq Reach(child[z])
      BY <3>2, AfterSmallest
    <3>4. x \in Reach(child[z])
      BY <1>3, <3>3
    <3>5. d \in Reach(x)
      <4>1. d = x \/ d \in Reach(child[x])
        BY DEF Under
      <4>2. QED
        BY <1>2, <4>1, ReachStep
    <3>6. Reach(x) \subseteq Reach(child[z])
      BY <3>2, <3>4, ReachSmallest
    <3>7. QED
      BY <3>5, <3>6
  <2>3. PICK k0, l0 \in 1 .. Len(s) : k0 < l0 /\ s[k0] = Line(z) /\ s[l0] = Line(d)
    BY <1>3, <1>4, <2>1, <2>2, AboveFirst DEF Before
  <2>4. l0 = i
    BY <1>5, <1>6, <2>3 DEF Line
  <2>5. k0 = up[j0]
    <3>1. s[k0][1] = s[up[j0]][1]
      <4>1. s[k0][1] = name[z]
        BY <2>3 DEF Line
      <4>2. QED
        BY <1>8, <4>1
    <3>2. QED
      BY <1>6, <1>8, <3>1
  <2>6. QED
    BY <1>5, <1>8, <2>3, <2>4, <2>5
<1>11. QED
  BY <1>9, <1>10

LEMMA WritingsHere ==
    ASSUME FInv
    PROVE  /\ Written \in [Nodes \cup {Null} -> Seq(FullLines)]
           /\ Written[Null] = <<>>
           /\ \A m \in Nodes :
                 Written[m] = (OwnLine(m) \o Written[child[m]]) \o Written[sibling[m]]
  BY Writings

\* The same after a step.
LEMMA WritingsNext ==
    ASSUME FInv'
    PROVE  (/\ Written \in [Nodes \cup {Null} -> Seq(FullLines)]
            /\ Written[Null] = <<>>
            /\ \A m \in Nodes :
                  Written[m] = (OwnLine(m) \o Written[child[m]]) \o Written[sibling[m]])'
  BY WritingsHere, PTL

\* No walk down leads back.
LEMMA NotBelow ==
    ASSUME FInv, NEW S, S \subseteq Nodes,
           \A x \in S : child[x] \in S \/ sibling[x] \in S
    PROVE  S = {}
<1>1. S \in SUBSET Nodes
  OBVIOUS
<1>2. Ends(Nodes, child, sibling)
  BY TreePointers DEF FInv, IInv
<1>3. QED
  BY <1>1, <1>2 DEF Ends

\* Lines of nodes that are there already are kept.
LEMMA OwnLinesKept ==
    ASSUME FInv, NEW d \in Tree, NEW n \in Addr \ alloc,
           parent' = [parent EXCEPT ![n] = d],
           \A m \in Nodes \ {n} : name'[m] = name[m] /\ type'[m] = type[m]
    PROVE  \A m \in Tree : OwnLine(m)' = OwnLine(m)
<1>1. n \notin Tree /\ Tree \subseteq Nodes
  BY Fresh DEF FInv
<1>2. ASSUME NEW m \in Tree PROVE OwnLine(m)' = OwnLine(m)
  <2>1. parent[m] \in Tree /\ m \in Nodes /\ m # n
    BY <1>1, ParentsIn DEF FInv, IInv
  <2>2. parent'[m] = parent[m]
    BY <2>1 DEF FInv, IInv, Pointers
  <2>3. /\ name'[m] = name[m] /\ type'[m] = type[m] /\ name'[parent[m]] = name[parent[m]]
    BY <1>1, <2>1
  <2>4. QED
    BY <2>2, <2>3 DEF OwnLine, Line
<1>3. QED
  BY <1>2

LEMMA AppendBehind ==
    ASSUME NEW S, NEW a \in Seq(S), NEW b \in Seq(S), NEW l \in S
    PROVE  a \o Append(b, l) = Append(a \o b, l)
<1>1. Append(b, l) = b \o <<l>> /\ <<l>> \in Seq(S)
  BY AppendIsConcat
<1>2. a \o (b \o <<l>>) = (a \o b) \o <<l>>
  BY <1>1, ConcatAssociative
<1>3. a \o b \in Seq(S)
  BY ConcatProperties
<1> DEFINE c == a \o b
<1> HIDE DEF c
<1>4. Append(c, l) = c \o <<l>>
  BY <1>3, AppendIsConcat DEF c
<1>5. QED
  BY <1>1, <1>2, <1>4 DEF c

\* A new node n is the last of what is written for the nodes in Z, and not part of what
\* is written for the others.
EndsWithNew(Z, n, m) ==
    \/ /\ m \notin Z /\ child'[m] = child[m] /\ sibling'[m] = sibling[m]
       /\ child[m] \notin Z /\ sibling[m] \notin Z
    \/ /\ m \in Z /\ sibling[m] = Null /\ sibling'[m] = Null
       /\ child'[m] = child[m] /\ child[m] \in Z
    \/ /\ m \in Z /\ sibling[m] = Null /\ sibling'[m] = Null
       /\ child'[m] = n /\ child[m] = Null
    \/ /\ m \in Z /\ child'[m] = child[m] /\ child[m] \notin Z
       /\ sibling'[m] = sibling[m] /\ sibling[m] \in Z
    \/ /\ m \in Z /\ child'[m] = child[m] /\ child[m] \notin Z
       /\ sibling'[m] = n /\ sibling[m] = Null

LEMMA WrittenAppended ==
    ASSUME FInv, FInv', NEW n \in Addr \ alloc, NEW l \in FullLines, NEW Z, Z \subseteq Nodes,
           child'[n] = Null, sibling'[n] = Null, OwnLine(n)' = <<l>>,
           \A m \in Tree : OwnLine(m)' = OwnLine(m),
           \A m \in Tree : EndsWithNew(Z, n, m)
    PROVE  \A m \in Tree :
               Written'[m] = IF m \in Z THEN Append(Written[m], l) ELSE Written[m]
<1> DEFINE OK(m) == Written'[m] = IF m \in Z THEN Append(Written[m], l) ELSE Written[m]
           D == {m \in Tree : ~OK(m)}
<1>1. Closed(Tree) /\ Tree \subseteq Nodes /\ n \in Nodes /\ Null \notin Nodes
  BY TreeClosed, TreePointers DEF FInv, IInv, Closed
<1>2. /\ Written'[Null] = <<>> /\ Written[Null] = <<>>
      /\ \A m \in Nodes :
            Written'[m] = (OwnLine(m)' \o Written'[child'[m]]) \o Written'[sibling'[m]]
  BY WritingsNext, Writings
<1>3. Written'[n] = <<l>>
  <2>1. Written'[n] = (<<l>> \o <<>>) \o <<>>
    BY <1>1, <1>2
  <2>2. QED
    BY <2>1
<1>4. D = {}
  <2> SUFFICES ASSUME D # {} PROVE FALSE
    OBVIOUS
  <2>1. PICK x \in D : child[x] \notin D /\ sibling[x] \notin D
    <3>1. D \in SUBSET Nodes
      BY <1>1
    <3>2. QED
      BY <3>1, TreePointers DEF Ends, FInv, IInv
  <2>2. /\ x \in Tree /\ x \in Nodes /\ ~OK(x)
        /\ child[x] \in Tree \cup {Null} /\ sibling[x] \in Tree \cup {Null}
    BY <1>1, <2>1 DEF Closed
  <2>3. /\ Written'[child[x]] = IF child[x] \in Z THEN Append(Written[child[x]], l)
                                                  ELSE Written[child[x]]
        /\ Written'[sibling[x]] = IF sibling[x] \in Z THEN Append(Written[sibling[x]], l)
                                                      ELSE Written[sibling[x]]
    BY <1>1, <1>2, <2>1, <2>2
  <2> DEFINE a == OwnLine(x)
             b == Written[child[x]]
             c == Written[sibling[x]]
             v == Written'[child'[x]]
             w == Written'[sibling'[x]]
  <2>4. /\ a \in Seq(FullLines) /\ b \in Seq(FullLines) /\ c \in Seq(FullLines)
        /\ a \o b \in Seq(FullLines) /\ Written[x] = (a \o b) \o c
    BY <2>2, WritingParts
  <2>5. Written'[x] = (a \o v) \o w
    BY <1>2, <2>2
  <2>6. \/ x \notin Z /\ v = b /\ w = c
        \/ x \in Z /\ c = <<>> /\ w = <<>> /\ v = Append(b, l)
        \/ x \in Z /\ c = <<>> /\ w = <<>> /\ b = <<>> /\ v = <<l>>
        \/ x \in Z /\ v = b /\ w = Append(c, l)
        \/ x \in Z /\ v = b /\ c = <<>> /\ w = <<l>>
    BY <1>2, <1>3, <2>2, <2>3 DEF EndsWithNew
  <2> HIDE DEF a, b, c, v, w, D, OK
  <2>7. Append(<<>>, l) = <<l>>
    OBVIOUS
  <2>8. CASE x \notin Z
    BY <2>2, <2>4, <2>5, <2>6, <2>8 DEF OK
  <2>9. CASE x \in Z /\ c = <<>> /\ w = <<>> /\ v = Append(b, l)
    <3>1. a \o v = Append(a \o b, l)
      BY <2>4, <2>9, AppendBehind
    <3>2. a \o v \in Seq(FullLines)
      BY <2>4, <3>1, AppendProperties
    <3>3. (a \o v) \o <<>> = a \o v /\ (a \o b) \o <<>> = a \o b
      BY <2>4, <3>2, ConcatEmptySeq
    <3>4. QED
      BY <2>2, <2>4, <2>5, <2>9, <3>1, <3>3 DEF OK
  <2>10. CASE x \in Z /\ w = Append(c, l) /\ v = b
    <3>1. (a \o b) \o Append(c, l) = Append((a \o b) \o c, l)
      BY <2>4, AppendBehind
    <3>2. QED
      BY <2>2, <2>4, <2>5, <2>10, <3>1 DEF OK
  <2>11. QED
    BY <2>6, <2>7, <2>8, <2>9, <2>10
<1>5. QED
  BY <1>4

\* The new node is the only entry of its directory.
LEMMA EndsWithFirst ==
    ASSUME FInv, NEW d \in Tree, NEW n \in Addr \ alloc, child[d] = Null,
           child' = [child EXCEPT ![d] = n, ![n] = Null],
           sibling' = [sibling EXCEPT ![n] = Null],
           \A x \in Tree : d \in Under(x) => sibling[x] = Null
    PROVE  \A m \in Tree : EndsWithNew({x \in Nodes : d \in Reach(x)}, n, m)
<1> DEFINE Z == {x \in Nodes : d \in Reach(x)}
<1>1. /\ Tree \subseteq Nodes /\ n \notin Tree /\ n \in Nodes /\ Null \notin Nodes
  BY Fresh DEF FInv
<1>2. /\ child'[d] = n
      /\ \A m \in Tree : /\ m # d => child'[m] = child[m]
                         /\ sibling'[m] = sibling[m]
  BY <1>1 DEF FInv, IInv, Pointers
<1>3. ASSUME NEW m \in Tree PROVE EndsWithNew(Z, n, m)
  <2>1. /\ m \in Nodes /\ child[m] \in Nodes \cup {Null} /\ sibling[m] \in Nodes \cup {Null}
        /\ m # Null
    BY <1>1, Writings
  <2>2. /\ m \in Z <=> m = d \/ child[m] \in Z \/ sibling[m] \in Z
        /\ d \in Under(m) <=> m = d \/ child[m] \in Z
    BY <2>1, ReachStep, ReachNull DEF Under
  <2>3. Null \notin Z
    BY <1>1
  <2> HIDE DEF Z
  <2>4. CASE m = d
    BY <1>2, <2>2, <2>4 DEF EndsWithNew
  <2>5. CASE m # d /\ child[m] \in Z
    BY <1>2, <2>2, <2>5 DEF EndsWithNew
  <2>6. CASE m # d /\ child[m] \notin Z
    BY <1>2, <2>2, <2>6 DEF EndsWithNew
  <2>7. QED
    BY <2>4, <2>5, <2>6
<1>4. QED
  BY <1>3

\* It comes behind the last entry.
LEMMA EndsWithLast ==
    ASSUME FInv, NEW d \in Tree, NEW n \in Addr \ alloc, NEW last \in After(child[d]),
           sibling[last] = Null,
           sibling' = [sibling EXCEPT ![last] = n, ![n] = Null],
           child' = [child EXCEPT ![n] = Null],
           \A x \in Tree : d \in Under(x) => sibling[x] = Null
    PROVE  \A m \in Tree : EndsWithNew({x \in Nodes : d \in Reach(x) \/ last \in After(x)}, n, m)
<1> DEFINE Z == {x \in Nodes : d \in Reach(x) \/ last \in After(x)}
<1>1. /\ Tree \subseteq Nodes /\ n \notin Tree /\ n \in Nodes /\ Null \notin Nodes
      /\ last \in Tree /\ last \in Addr /\ parent[last] = d /\ last # d
  <2>1. last \in Tree /\ last \in Addr /\ parent[last] = d
    BY Entries DEF FInv, IInv
  <2>2. QED
    BY <2>1, Fresh, NoOwnParent DEF FInv, IInv
<1>2. /\ sibling'[last] = n
      /\ \A m \in Tree : /\ child'[m] = child[m]
                         /\ m # last => sibling'[m] = sibling[m]
  BY <1>1 DEF FInv, IInv, Pointers
<1>3. ASSUME NEW m \in Nodes
      PROVE  /\ child[m] \in Nodes \cup {Null} /\ sibling[m] \in Nodes \cup {Null} /\ m # Null
             /\ d \in Reach(m) <=> m = d \/ d \in Reach(child[m]) \/ d \in Reach(sibling[m])
             /\ last \in After(m) <=> m = last \/ last \in After(sibling[m])
             /\ last \in After(child[m]) <=> m = d
             /\ d \in Under(m) <=> m = d \/ d \in Reach(child[m])
             /\ last \in After(child[m]) => child[m] \in Nodes
  <2>1. child[m] \in Nodes \cup {Null} /\ sibling[m] \in Nodes \cup {Null} /\ m # Null
    BY <1>1, Writings
  <2>2. d \in Reach(m) <=> m = d \/ d \in Reach(child[m]) \/ d \in Reach(sibling[m])
    BY ReachStep
  <2>3. last \in After(m) <=> m = last \/ last \in After(sibling[m])
    BY AfterStep
  <2>4. last \in After(child[m]) <=> m = d
    BY <1>1, ListedByParent
  <2>5. d \in Under(m) <=> m = d \/ d \in Reach(child[m])
    BY <2>1 DEF Under
  <2>6. last \in After(child[m]) => child[m] \in Nodes
    BY <2>1 DEF After
  <2>7. QED
    BY <2>1, <2>2, <2>3, <2>4, <2>5, <2>6
<1>4. Null \notin Z /\ Z \subseteq Nodes
  BY <1>1
<1>5. /\ Reach(Null) = {} /\ After(Null) = {}
  BY ReachNull DEF After
<1>6. d \notin Reach(child[last])
  <2> SUFFICES ASSUME d \in Reach(child[last]) PROVE FALSE
    OBVIOUS
  <2>1. ASSUME NEW x \in Z PROVE child[x] \in Z \/ sibling[x] \in Z
    BY <1>1, <1>3, <1>5
  <2>2. d \in Z
    BY <1>1, <1>3
  <2> HIDE DEF Z
  <2>3. QED
    BY <1>4, <2>1, <2>2, NotBelow
<1>7. ASSUME NEW m \in Tree PROVE EndsWithNew(Z, n, m)
  <2>1. m \in Nodes
    BY <1>1
  <2>2. /\ child[m] \in Z <=> m = d \/ d \in Reach(child[m])
        /\ m \in Z <=> m = d \/ m = last \/ child[m] \in Z \/ sibling[m] \in Z
        /\ m # last /\ m # d /\ child[m] \notin Z => (m \in Z <=> sibling[m] \in Z)
    BY <1>3, <1>5, <2>1
  <2>3. d \in Under(m) <=> child[m] \in Z
    BY <1>3, <2>1, <2>2
  <2>4. m = last => child[m] \notin Z
    BY <1>1, <1>6, <2>2
  <2> HIDE DEF Z
  <2>5. CASE child[m] \in Z
    <3>1. sibling[m] = Null /\ m # last /\ m \in Z
      BY <2>2, <2>3, <2>4, <2>5
    <3>2. QED
      BY <1>2, <2>5, <3>1 DEF EndsWithNew
  <2>6. CASE child[m] \notin Z /\ m = last
    BY <1>2, <2>2, <2>6 DEF EndsWithNew
  <2>7. CASE child[m] \notin Z /\ m # last
    <3>1. m # d
      BY <2>2, <2>7
    <3>2. QED
      BY <1>2, <2>2, <2>7, <3>1 DEF EndsWithNew
  <2>8. QED
    BY <2>5, <2>6, <2>7
<1>8. QED
  BY <1>7

\* An entry that reload adds below the last line is saved behind it.
LEMMA SavedAppended ==
    ASSUME FInv, FInv', NEW d \in Tree, NEW n, NEW nm \in Names, NEW ty \in Types,
           NewNode(n, nm, ty, d), AppendTo(d, n),
           \A x \in Tree : d \in Under(x) => sibling[x] = Null
    PROVE  Saved' = Append(Saved, <<nm, name[d], ty>>)
<1> DEFINE l == <<nm, name[d], ty>>
<1>1. /\ n \in Addr \ alloc /\ n \in Nodes /\ n \notin Tree /\ Tree \subseteq Nodes
      /\ Root \in Tree /\ d \in Nodes /\ n # d
  BY Fresh, TreeClosed DEF NewNode, FInv, IInv
<1>2. /\ parent' = [parent EXCEPT ![n] = d]
      /\ name'[n] = nm /\ type'[n] = ty
      /\ \A m \in Nodes \ {n} : name'[m] = name[m] /\ type'[m] = type[m]
  BY <1>1 DEF NewNode, FInv, Labelled
<1>3. parent'[n] = d /\ name'[d] = name[d] /\ name[d] \in Names \cup {Slash}
  BY <1>1, <1>2 DEF FInv, IInv, Pointers, Labelled
<1>4. l \in FullLines
  BY <1>3 DEF FullLines
<1>5. OwnLine(n)' = <<l>>
  BY <1>2, <1>3, FssimAssumption DEF OwnLine, Line
<1>6. \A m \in Tree : OwnLine(m)' = OwnLine(m)
  BY <1>1, <1>2, OwnLinesKept
<1>7. child'[n] = Null /\ sibling'[n] = Null
  <2>1. CASE child[d] = Null
    BY <1>1, <2>1 DEF AppendTo, FInv, IInv, Pointers
  <2>2. CASE child[d] # Null
    BY <1>1, <2>2 DEF AppendTo, FInv, IInv, Pointers
  <2>3. QED
    BY <2>1, <2>2
<1>8. \E Z \in SUBSET Nodes : Root \in Z /\ \A m \in Tree : EndsWithNew(Z, n, m)
  <2>1. d \in Reach(Root) /\ Root \in Nodes
    BY <1>1 DEF Tree
  <2>2. CASE child[d] = Null
    <3>1. /\ child' = [child EXCEPT ![d] = n, ![n] = Null]
          /\ sibling' = [sibling EXCEPT ![n] = Null]
      BY <2>2 DEF AppendTo
    <3> DEFINE Z == {x \in Nodes : d \in Reach(x)}
    <3>2. \A m \in Tree : EndsWithNew(Z, n, m)
      BY <1>1, <2>2, <3>1, EndsWithFirst
    <3>3. Root \in Z /\ Z \in SUBSET Nodes
      BY <2>1
    <3> HIDE DEF Z
    <3>4. QED
      BY <3>2, <3>3
  <2>3. CASE child[d] # Null
    <3>1. PICK last \in After(child[d]) :
            /\ sibling[last] = Null
            /\ sibling' = [sibling EXCEPT ![last] = n, ![n] = Null]
            /\ child' = [child EXCEPT ![n] = Null]
      BY <2>3 DEF AppendTo
    <3> DEFINE Z == {x \in Nodes : d \in Reach(x) \/ last \in After(x)}
    <3>2. \A m \in Tree : EndsWithNew(Z, n, m)
      BY <1>1, <3>1, EndsWithLast
    <3>3. Root \in Z /\ Z \in SUBSET Nodes
      BY <2>1
    <3> HIDE DEF Z
    <3>4. QED
      BY <3>2, <3>3
  <2>4. QED
    BY <2>2, <2>3
<1>9. PICK Z \in SUBSET Nodes : Root \in Z /\ \A m \in Tree : EndsWithNew(Z, n, m)
  BY <1>8
<1> HIDE DEF l
<1>10. \A m \in Tree : Written'[m] = IF m \in Z THEN Append(Written[m], l) ELSE Written[m]
  BY <1>1, <1>4, <1>5, <1>6, <1>7, <1>9, WrittenAppended
<1>11. Written'[Root] = Append(Written[Root], l)
  BY <1>1, <1>9, <1>10
<1>12. QED
  BY <1>11 DEF Saved, l

-----------------------------------------------------------------------------
(* What save writes is read back. *)

\* A line that is written for a node is that of the node or of what is below it.
LEMMA LineOfNode ==
    ASSUME FInv, NEW m \in alloc \cup {Null}, NEW l, Fs!In(l, Written[m])
    PROVE  \E x \in Reach(m) : x \in alloc /\ l = Line(x)
<1> DEFINE OK(y) == Fs!In(l, Written[y]) => \E x \in Reach(y) : x \in alloc /\ l = Line(x)
           D == {y \in alloc : ~OK(y)}
<1>1. OK(Null)
  BY Writings DEF Fs!In
<1>2. D = {}
  <2> SUFFICES ASSUME D # {} PROVE FALSE
    OBVIOUS
  <2>0. alloc \subseteq Nodes
    BY TreePointers DEF FInv, IInv, Pointers
  <2>1. PICK y \in D : child[y] \notin D /\ sibling[y] \notin D
    <3>1. D \in SUBSET Nodes
      BY <2>0
    <3>2. QED
      BY <3>1, TreePointers DEF Ends, FInv, IInv
  <2>2. /\ y \in Nodes /\ y \in alloc /\ ~OK(y)
        /\ child[y] \in alloc \cup {Null} /\ sibling[y] \in alloc \cup {Null}
    BY <2>0, <2>1 DEF FInv, Forest, OnlyAllocated
  <2>3. OK(child[y]) /\ OK(sibling[y])
    BY <1>1, <2>1, <2>2
  <2>4. Reach(y) = {y} \cup Reach(child[y]) \cup Reach(sibling[y])
    BY <2>2, ReachStep
  <2>5. Fs!In(l, OwnLine(y)) => l = Line(y)
    <3>1. OwnLine(y) = <<Line(y)>>
      BY <2>2, OwnLines DEF FInv, IInv
    <3>2. QED
      BY <3>1 DEF Fs!In
  <2> DEFINE a == OwnLine(y)
             b == Written[child[y]]
             c == Written[sibling[y]]
  <2>6. /\ a \in Seq(FullLines) /\ b \in Seq(FullLines) /\ c \in Seq(FullLines)
        /\ a \o b \in Seq(FullLines) /\ Written[y] = (a \o b) \o c
    BY <2>2, WritingParts
  <2>7. Fs!In(l, a) \/ Fs!In(l, b) \/ Fs!In(l, c) => \E x \in Reach(y) : x \in alloc /\ l = Line(x)
    BY <2>2, <2>3, <2>4, <2>5
  <2> HIDE DEF a, b, c, D, OK
  <2>8. Fs!In(l, (a \o b) \o c) => Fs!In(l, a \o b) \/ Fs!In(l, c)
    BY <2>6, InConcat
  <2>9. Fs!In(l, a \o b) => Fs!In(l, a) \/ Fs!In(l, b)
    BY <2>6, InConcat
  <2>10. QED
    BY <2>2, <2>6, <2>7, <2>8, <2>9 DEF OK
<1>3. QED
  BY <1>1, <1>2

\* The names in the file are those of the nodes below the root.
LEMMA NamesSaved ==
    ASSUME FInv, NEW nm \in Names
    PROVE  (\E m \in Tree : name[m] = nm) <=> (\E k \in 1 .. Len(Saved) : Saved[k][1] = nm)
<1>1. /\ Tree = {Root} \cup Reach(child[Root]) /\ Saved = Written[child[Root]]
      /\ child[Root] \in alloc \cup {Null} /\ child[Root] \in Nodes \cup {Null}
      /\ DOMAIN Saved = 1 .. Len(Saved)
  BY BelowRoot, SavedBelowRoot, Writings, SavedLines, LenProperties DEF FInv, Forest, OnlyAllocated
<1>2. name[Root] # nm /\ \A m \in Tree : m # Root => m \in alloc
  BY TreeClosed, FssimAssumption DEF FInv, IInv, Closed, Allocated, Labelled
<1>3. ASSUME NEW m \in Tree, name[m] = nm PROVE \E k \in 1 .. Len(Saved) : Saved[k][1] = nm
  <2>1. m \in Reach(child[Root]) /\ m \in alloc
    BY <1>1, <1>2, <1>3
  <2>2. Fs!In(Line(m), Saved)
    BY <1>1, <2>1, HasLine
  <2>3. Line(m)[1] = nm
    BY <1>3 DEF Line
  <2>4. QED
    BY <1>1, <2>2, <2>3 DEF Fs!In
<1>4. ASSUME NEW k \in 1 .. Len(Saved), Saved[k][1] = nm PROVE \E m \in Tree : name[m] = nm
  <2>1. Fs!In(Saved[k], Written[child[Root]])
    BY <1>1 DEF Fs!In
  <2>2. PICK x \in Reach(child[Root]) : x \in alloc /\ Saved[k] = Line(x)
    BY <1>1, <2>1, LineOfNode
  <2>3. QED
    BY <1>1, <1>4, <2>2 DEF Line
<1>5. QED
  BY <1>3, <1>4

\* So searchTree finds a name in the tree exactly when a line has it.
LEMMA FoundInFile ==
    ASSUME FInv, NEW nm \in Names
    PROVE  SearchTree(Root, nm, Null) <=> \A k \in 1 .. Len(Saved) : Saved[k][1] # nm
<1>1. Under(Root) = Tree /\ Null \notin Tree
  <2>1. Under(Root) = {Root} \cup Reach(child[Root]) /\ Tree \subseteq Nodes /\ Null \notin Nodes
    BY FssimAssumption, TreePointers, TreeClosed DEF FInv, IInv, Under, Closed
  <2>2. QED
    BY <2>1, BelowRoot
<1>2. SearchTree(Root, nm, Null) <=> ~ \E m \in Tree : name[m] = nm
  BY <1>1 DEF SearchTree
<1>3. QED
  BY <1>2, NamesSaved

\* The pointers and labels stay, and so does what save would write.
LEMMA SavedKept == ASSUME FInv, FInv', UNCHANGED treeVars PROVE Saved' = Saved
<1> DEFINE OK(m) == Written'[m] = Written[m]
           D == {m \in Nodes : ~OK(m)}
<1>1. OK(Null)
  BY WritingsNext, Writings
<1>2. D = {}
  <2> SUFFICES ASSUME D # {} PROVE FALSE
    OBVIOUS
  <2>1. PICK y \in D : child[y] \notin D /\ sibling[y] \notin D
    <3>1. D \in SUBSET Nodes
      OBVIOUS
    <3>2. QED
      BY <3>1, TreePointers DEF Ends, FInv, IInv
  <2>2. y \in Nodes /\ child[y] \in Nodes \cup {Null} /\ sibling[y] \in Nodes \cup {Null} /\ ~OK(y)
    BY <2>1, Writings
  <2>3. OK(child[y]) /\ OK(sibling[y])
    BY <1>1, <2>1, <2>2
  <2>4. OwnLine(y)' = OwnLine(y) /\ child' = child /\ sibling' = sibling
    BY DEF OwnLine, Line, treeVars
  <2>5. /\ Written[y] = (OwnLine(y) \o Written[child[y]]) \o Written[sibling[y]]
        /\ Written'[y] = (OwnLine(y)' \o Written'[child'[y]]) \o Written'[sibling'[y]]
    BY <2>2, Writings, WritingsNext
  <2>6. QED
    BY <2>2, <2>3, <2>4, <2>5
<1>3. QED
  BY <1>2, Writings DEF Saved

\* The first lines of a file.
LEMMA FirstLines ==
    ASSUME NEW S, NEW s \in Seq(S), NEW p \in 0 .. Len(s)
    PROVE  /\ SubSeq(s, 1, p) \in Seq(S) /\ Len(SubSeq(s, 1, p)) = p
           /\ DOMAIN SubSeq(s, 1, p) = 1 .. p
           /\ \A i \in 1 .. p : i \in 1 .. Len(s) /\ SubSeq(s, 1, p)[i] = s[i]
<1> DEFINE f == SubSeq(s, 1, p)
<1>1. Len(s) \in Nat /\ (\A i \in 1 .. Len(s) : s[i] \in S) /\ p \in Nat /\ p <= Len(s)
  BY LenProperties
<1>2. \A i \in 1 .. p : i \in 1 .. Len(s) /\ s[i] \in S
  BY <1>1
<1>3. /\ f \in Seq(S) /\ Len(f) = IF 1 <= p THEN p - 1 + 1 ELSE 0
      /\ \A i \in 1 .. p - 1 + 1 : f[i] = s[1 + i - 1]
  BY <1>1, <1>2, SubSeqProperties
<1> HIDE DEF f
<1>4. Len(f) = p /\ \A i \in 1 .. p : f[i] = s[i]
  BY <1>1, <1>3
<1>5. DOMAIN f = 1 .. p
  BY <1>3, <1>4, LenProperties
<1>6. QED
  BY <1>2, <1>3, <1>4, <1>5 DEF f

LEMMA OneMoreLine ==
    ASSUME NEW S, NEW s \in Seq(S), NEW p \in 0 .. Len(s), p + 1 \in 1 .. Len(s)
    PROVE  SubSeq(s, 1, p + 1) = Append(SubSeq(s, 1, p), s[p + 1])
<1> DEFINE f == SubSeq(s, 1, p)
           g == SubSeq(s, 1, p + 1)
           l == s[p + 1]
<1>1. l \in S /\ p \in Nat /\ Len(s) \in Nat
  BY LenProperties
<1>2. f \in Seq(S) /\ Len(f) = p /\ \A i \in 1 .. p : f[i] = s[i]
  BY FirstLines
<1>3. p + 1 \in 0 .. Len(s)
  BY <1>1
<1>4. g \in Seq(S) /\ Len(g) = p + 1 /\ \A i \in 1 .. p + 1 : g[i] = s[i]
  BY <1>3, FirstLines
<1> DEFINE h == Append(f, l)
<1> HIDE DEF f, g
<1>5. h \in Seq(S) /\ Len(h) = p + 1 /\ h[p + 1] = l /\ \A i \in 1 .. p : h[i] = f[i]
  <2>1. /\ h \in Seq(S) /\ Len(h) = Len(f) + 1 /\ h[Len(f) + 1] = l
        /\ \A i \in 1 .. Len(f) : h[i] = f[i]
    BY <1>1, <1>2, AppendProperties
  <2> HIDE DEF h
  <2>2. QED
    BY <1>2, <2>1
<1> HIDE DEF h
<1>6. ASSUME NEW i \in 1 .. p + 1 PROVE g[i] = h[i]
  <2>1. i = p + 1 \/ i \in 1 .. p
    BY <1>1
  <2>2. CASE i = p + 1
    BY <1>4, <1>5, <2>2
  <2>3. CASE i \in 1 .. p
    BY <1>2, <1>4, <1>5, <2>3
  <2>4. QED
    BY <2>1, <2>2, <2>3
<1>7. g = h
  BY <1>4, <1>5, <1>6, SeqEqual
<1>8. QED
  BY <1>7 DEF f, g, h

\* The lines that have been read.
ReadLines == SubSeq(file, 1, pos)
WithText == SubSeq(file, 1, pos + 1)

\* With the next line they are unambiguous only if they are, it is complete, and its name
\* is new.
LEMMA StillUnambiguous ==
    ASSUME FInv, Reading, Unambiguous(WithText)
    PROVE  /\ Unambiguous(ReadLines) /\ Len(Text) = 3 /\ Text \in FullLines
           /\ WithText = Append(ReadLines, Text)
           /\ Len(ReadLines) = pos
           /\ \A k \in 1 .. pos : ReadLines[k] = file[k] /\ ReadLines[k][1] # Text[1]
           /\ \A k \in 1 .. pos : Len(file[k]) = 3
<1>1. /\ Text \in Lines /\ Len(file) \in Nat /\ pos + 1 \in 1 .. Len(file) /\ file \in Seq(Lines)
      /\ pos \in 0 .. Len(file) /\ pos + 1 \in 0 .. Len(file) /\ pos \in Nat
  BY TextParts DEF FInv, FileOK, Reading
<1> DEFINE f == ReadLines
           g == WithText
<1>2. /\ f \in Seq(Lines) /\ Len(f) = pos /\ DOMAIN f = 1 .. pos
      /\ \A i \in 1 .. pos : f[i] = file[i]
  BY <1>1, FirstLines DEF ReadLines
<1>3. DOMAIN g = 1 .. pos + 1 /\ \A i \in 1 .. pos + 1 : g[i] = file[i]
  BY <1>1, FirstLines DEF WithText
<1>4. g = Append(f, Text)
  BY <1>1, OneMoreLine DEF ReadLines, WithText, Text
<1> HIDE DEF f, g
<1>5. /\ pos + 1 \in 1 .. pos + 1
      /\ \A i \in 1 .. pos : i \in 1 .. pos + 1 /\ i # pos + 1
  BY <1>1
<1>6. /\ \A i \in 1 .. pos + 1 : Len(file[i]) = 3
      /\ \A i, j \in 1 .. pos + 1 : file[i][1] = file[j][1] => i = j
  BY <1>3 DEF Unambiguous, g
<1>7. Unambiguous(f)
  BY <1>2, <1>5, <1>6 DEF Unambiguous
<1>8. Len(Text) = 3 /\ \A i \in 1 .. pos : file[i][1] # Text[1]
  BY <1>5, <1>6 DEF Text
<1>9. QED
  BY <1>1, <1>2, <1>4, <1>5, <1>6, <1>7, <1>8, LineParts DEF f, g

\* What is read was written by a walk.
ReadsWalk == pc = "reload" => IsWalk(file, Slash)

\* So the directory of the next line is the root or that of an open line.
LEMMA NextParent ==
    ASSUME FInv, ReadsWalk, Reading, Unambiguous(WithText), Saved = ReadLines
    PROVE  \E up, i : /\ ParentLines(up, Saved)
                      /\ \/ Text[2] = Slash
                         \/ OpenLine(i, up, Saved) /\ Saved[i][1] = Text[2]
<1>1. PICK up \in [1 .. Len(file) -> 0 .. Len(file)] : WalkBy(up, file, Slash)
  BY DEF ReadsWalk, Reading, IsWalk
<1>2. /\ Len(file) \in Nat /\ pos + 1 \in 1 .. Len(file) /\ pos \in Nat
      /\ \A j \in 1 .. pos : j \in 1 .. Len(file) /\ j < pos + 1
  BY TextParts DEF FInv, FileOK
<1>3. /\ Len(Saved) = pos /\ Len(Text) = 3
      /\ \A j \in 1 .. pos : Saved[j] = file[j] /\ Len(file[j]) = 3
  BY StillUnambiguous
<1>4. ASSUME NEW j \in 1 .. Len(file)
      PROVE  up[j] \in Nat /\ up[j] < j /\ (up[j] # 0 => up[j] \in 1 .. j - 1)
  <2>1. up[j] \in 0 .. Len(file) /\ up[j] < j
    BY <1>1 DEF WalkBy
  <2>2. QED
    BY <1>2, <2>1
<1>5. ASSUME NEW j \in 1 .. pos
      PROVE  /\ up[j] \in Nat /\ up[j] < j
             /\ Saved[j][2] = IF up[j] = 0 THEN Slash ELSE Saved[up[j]][1]
  <2>1. file[j][2] = IF up[j] = 0 THEN Slash ELSE file[up[j]][1]
    BY <1>1, <1>2, <1>3 DEF WalkBy
  <2>2. up[j] \in Nat /\ up[j] < j /\ (up[j] # 0 => up[j] \in 1 .. pos)
    BY <1>2, <1>4
  <2>3. QED
    BY <1>3, <2>1, <2>2
<1>6. ParentLines(up, Saved)
  BY <1>3, <1>5 DEF ParentLines
<1> DEFINE i == up[pos + 1]
<1>7. i \in Nat /\ (i # 0 => i \in 1 .. pos)
  BY <1>2, <1>4
<1>8. Text[2] = IF i = 0 THEN Slash ELSE file[i][1]
  BY <1>1, <1>2, <1>3 DEF WalkBy, Text
<1>9. \A j \in 1 .. pos : i < j => i <= up[j]
  BY <1>1, <1>2 DEF WalkBy
<1> HIDE DEF i
<1>10. i = 0 \/ (OpenLine(i, up, Saved) /\ Saved[i][1] = Text[2])
  BY <1>3, <1>7, <1>8, <1>9 DEF OpenLine
<1>11. QED
  BY <1>6, <1>8, <1>10

\* Its directory is found, and its name is not.
LEMMA NotSkipped ==
    ASSUME FInv, ReadsWalk, ReloadSkip, Unambiguous(WithText), Saved = ReadLines
    PROVE  FALSE
<1>1. /\ Reading /\ Len(Text) = 3 /\ Text \in FullLines /\ Text \in Lines
      /\ Len(Saved) = pos /\ \A k \in 1 .. pos : Saved[k][1] # Text[1]
  BY StillUnambiguous, TextParts DEF ReloadSkip
<1>2. Text[1] \in Names /\ Text[2] \in Names \cup {Slash}
  BY <1>1, LineParts
<1>3. SearchTree(Root, Text[1], Null)
  BY <1>1, <1>2, FoundInFile
<1>4. ParentDir(Null)
  BY <1>1, <1>3 DEF ReloadSkip
<1>5. Text[2] # Slash /\ SearchTree(Root, Text[2], Null)
  BY <1>4, FssimAssumption DEF ParentDir
<1>6. PICK up, i : OpenLine(i, up, Saved) /\ Saved[i][1] = Text[2]
  BY <1>1, <1>5, NextParent
<1>7. i \in 1 .. Len(Saved)
  BY <1>6 DEF OpenLine
<1>8. \A k \in 1 .. Len(Saved) : Saved[k][1] # Text[2]
  BY <1>2, <1>5, FoundInFile
<1>9. QED
  BY <1>6, <1>7, <1>8

\* The line that is added is the next one that would be saved.
LEMMA ReadIsAdded ==
    ASSUME FInv, FInv', ReadsWalk, ReloadLine, Unambiguous(WithText), Saved = ReadLines
    PROVE  Saved' = WithText
<1>1. PICK d \in Nodes, n \in Addr :
          /\ ToBeAdded(d) /\ Len(Text) = 3
          /\ NewNode(n, Text[1], Text[3], d) /\ AppendTo(d, n)
  BY DEF ReloadLine
<1>2. /\ Reading /\ d \in Tree /\ d # Null /\ ParentDir(d)
  BY <1>1, ParentDirInTree DEF ToBeAdded
<1>3. /\ Text \in FullLines /\ Text \in Lines /\ WithText = Append(Saved, Text)
      /\ Unambiguous(Saved)
  BY <1>2, StillUnambiguous, TextParts
<1>4. Text[1] \in Names /\ Text[3] \in Types /\ Text = <<Text[1], Text[2], Text[3]>>
  BY <1>3 DEF FullLines
<1>5. (Text[2] = Slash => d = Root) /\ name[d] = Text[2]
  <2>1. CASE Text[2] = Slash
    BY <1>2, <2>1 DEF ParentDir, FInv, Labelled
  <2>2. CASE Text[2] # Slash
    BY <1>2, <2>2 DEF ParentDir, SearchTree
  <2>3. QED
    BY <2>1, <2>2
<1>6. PICK up, i : /\ ParentLines(up, Saved)
                   /\ \/ Text[2] = Slash
                      \/ OpenLine(i, up, Saved) /\ Saved[i][1] = Text[2]
  BY <1>2, NextParent
<1>7. d # Root => OpenLine(i, up, Saved) /\ Saved[i][1] = name[d]
  BY <1>5, <1>6
<1>8. \A x \in Tree : d \in Under(x) => sibling[x] = Null
  BY <1>2, <1>3, <1>6, <1>7, OpenIsLast
<1>9. Saved' = Append(Saved, <<Text[1], name[d], Text[3]>>)
  BY <1>1, <1>2, <1>4, <1>8, SavedAppended
<1>10. QED
  BY <1>3, <1>4, <1>5, <1>9

\* An empty tree is saved as an empty file.
LEMMA NothingRead ==
    ASSUME FInv, child[Root] = Null, file \in Seq(Lines), pos = 0
    PROVE  Saved = ReadLines
<1>1. Saved = <<>>
  BY SavedBelowRoot, Writings
<1>2. SubSeq(file, 1, 0) = <<>>
  BY SubSeqEmpty
<1>3. QED
  BY <1>1, <1>2 DEF ReadLines

\* The invariant of a reload.
ReadBack == WalkFile /\ ReadsWalk /\ RoundTrip

LEMMA NextReadsWalk == WalkFile /\ ReadsWalk /\ [Next]_vars => ReadsWalk'
<1> SUFFICES ASSUME WalkFile, ReadsWalk, [Next]_vars, pc' = "reload" PROVE IsWalk(file', Slash)
  BY DEF ReadsWalk
<1>1. CASE Reload
  BY <1>1 DEF Reload, WalkFile
<1>2. (pc = "reload" /\ file' = file) \/ Reload
  <2>1. ASSUME NEW nm \in Names, Command(nm) PROVE pc = "reload" /\ file' = file
    BY <2>1 DEF Command, Create, Rmdir, Rm, Unlink, Cd, CdTo
  <2>2. QED
    BY <2>1 DEF Next, vars, CreateNothing, RemoveNothing, CdRoot, CdUp, CdTo, CdInEmpty, Crash, End,
       Save, Quit, SaveInterrupted, ReloadMissing, ReloadSkip, ReloadLine, ReloadCut, ReloadEnd,
       Interrupt, Start
<1>3. QED
  BY <1>1, <1>2 DEF ReadsWalk

LEMMA NextRoundTrip == FInv /\ FInv' /\ ReadsWalk /\ RoundTrip /\ [Next]_vars => RoundTrip'
<1> SUFFICES ASSUME FInv, FInv', ReadsWalk, RoundTrip, [Next]_vars,
                    pc' = "reload", blank', Unambiguous(SubSeq(file', 1, pos'))
             PROVE  Saved' = SubSeq(file', 1, pos')
  BY DEF RoundTrip
<1>1. CASE Reload
  <2>1. file \in Seq(Lines) /\ pos = 0 /\ child[Root] = Null
    BY <1>1 DEF Reload, FInv, FileOK
  <2>2. Saved' = Saved
    BY <1>1, SavedKept DEF Reload
  <2>3. QED
    BY <1>1, <2>1, <2>2, NothingRead DEF Reload, ReadLines
<1>2. CASE ReloadSkip \/ ReloadLine
  <2>1. Reading /\ file' = file /\ pos' = pos + 1 /\ blank' = blank
    BY <1>2 DEF ReloadSkip, ReloadLine, ToBeAdded
  <2>2. Unambiguous(WithText)
    BY <2>1 DEF WithText
  <2>3. Saved = ReadLines
    BY <2>1, <2>2, StillUnambiguous DEF RoundTrip, ReadLines, Reading
  <2>4. ReloadLine
    BY <1>2, <2>2, <2>3, NotSkipped
  <2>5. Saved' = WithText
    BY <2>2, <2>3, <2>4, ReadIsAdded
  <2>6. QED
    BY <2>1, <2>5 DEF WithText
<1>3. CASE UNCHANGED vars
  <2>1. Saved' = Saved
    BY <1>3, SavedKept DEF vars
  <2>2. QED
    BY <1>3, <2>1 DEF RoundTrip, vars
<1>4. Reload \/ ReloadSkip \/ ReloadLine \/ UNCHANGED vars
  <2>1. ASSUME NEW nm \in Names, Command(nm) PROVE pc' # "reload"
    BY <2>1 DEF Command, Create, Rmdir, Rm, Unlink, Cd, CdTo
  <2>2. QED
    BY <2>1 DEF Next, CreateNothing, RemoveNothing, CdRoot, CdUp, CdTo, CdInEmpty, Crash, End,
       Save, Quit, SaveInterrupted, ReloadMissing, ReloadCut, ReloadEnd, Interrupt, Start
<1>5. QED
  BY <1>1, <1>2, <1>3, <1>4

\* Whatever the program was told before, and wherever a save or a quit was interrupted:
\* reload gives an empty tree back what the file holds, in the order it is in, as long as
\* no two lines have the same name.
THEOREM FilesComeBack == Spec => []RoundTrip
<1>1. Init => ReadBack
  BY DEF Init, ReadBack, WalkFile, ReadsWalk, RoundTrip
<1>2. FInv /\ FInv' /\ ReadBack /\ [Next]_vars => ReadBack'
  BY NextWalkFile, NextReadsWalk, NextRoundTrip DEF ReadBack
<1>3. ReadBack => RoundTrip
  BY DEF ReadBack
<1>4. QED
  BY ForestInvariance, <1>1, <1>2, <1>3, PTL DEF Spec
=============================================================================
