------------------------------- MODULE Fssim -------------------------------
(***************************************************************************)
(* The file system simulator of assignment 1 (lab1_devito.c).              *)
(*                                                                         *)
(* A tree of nodes linked by child, sibling and parent pointers, a current *)
(* directory, and a text file that save writes and reload reads.  One      *)
(* action is one command; reload takes one line per step.  ls and pwd      *)
(* change nothing: they are operators.  A dereference of NULL, a missing   *)
(* argument and a signal end the program; it can be started again, and     *)
(* only the file is there still.                                           *)
(*                                                                         *)
(* Functions that walk along pointers are stated by what they find.  The   *)
(* fields of a node that is not allocated are those of a blank one: no     *)
(* command reads them.                                                     *)
(***************************************************************************)
EXTENDS Integers, Sequences, FiniteSets

CONSTANTS Addr,    (* addresses malloc can give to a node                  *)
          Root,    (* the address of the root                              *)
          Null,    (* NULL                                                 *)
          Names,   (* names a user types, without "/", ".." and commas     *)
          Slash,   (* "/", the name of the root                            *)
          NoFile   (* fssim_devito.txt does not exist                      *)

ASSUME FssimAssumption ==
    /\ Root \notin Addr /\ Null \notin Addr /\ Root # Null
    /\ Slash \notin Names
    /\ Null \notin (Names \cup {Slash}) \X {"D", "F"}

Nodes == Addr \cup {Root}
Types == {"D", "F"}

VARIABLES
    name, type,              \* the fields of each node
    child, sibling, parent,
    alloc,                   \* the nodes malloc has given out
    cwd,                     \* the current directory
    file,                    \* the lines of fssim_devito.txt, or NoFile
    pc,                      \* "prompt", "reload", "ended", "crashed"
    pos,                     \* how many lines reload has read
    blank                    \* history: the tree was empty when reload began

treeVars == <<name, type, child, sibling, parent, alloc>>
vars == <<treeVars, cwd, file, pc, pos, blank>>

-----------------------------------------------------------------------------
(* Walks. *)

\* n and what follows it in a list of siblings: the smallest set with n that is
\* closed under sibling, which is what no such set leaves out.
After(n) ==
    LET closed == {S \in SUBSET Nodes :
                      n \in S /\ \A x \in S : sibling[x] \in S \cup {Null}}
    IN  IF n = Null THEN {} ELSE Nodes \ UNION {Nodes \ S : S \in closed}

\* n, what follows it, and all that is below any of them.
Reach(n) ==
    LET closed == {S \in SUBSET Nodes :
                      n \in S /\ \A x \in S : {child[x], sibling[x]} \subseteq S \cup {Null}}
    IN  IF n = Null THEN {} ELSE Nodes \ UNION {Nodes \ S : S \in closed}

Tree == Reach(Root)

\* What searchTree visits, and in which order.
Under(n) == IF n = Null THEN {} ELSE {n} \cup Reach(child[n])

VisitedBefore(m, k) ==
    \/ k \in Reach(child[m])
    \/ \E x \in Nodes : m \in Under(x) /\ k \in Reach(sibling[x])

\* searchTree(n, nm) returns f: the first node of that name, or NULL.
SearchTree(n, nm, f) ==
    LET hits == {m \in Under(n) : name[m] = nm}
    IN  \/ hits = {} /\ f = Null
        \/ f \in hits /\ \A k \in hits \ {f} : VisitedBefore(f, k)

\* The first of the entries es of the current directory.
FirstEntry(es, n) == n \in es /\ es \subseteq After(n)

\* The entries of that name, all or those of one type.
Named(nm)       == {m \in After(child[cwd]) : name[m] = nm}
NamedDir(nm)    == {m \in Named(nm) : type[m] = "D"}

\* ls(n): the entries of n in order.
Chain[m \in Nodes \cup {Null}] ==
    IF m = Null THEN <<>> ELSE <<m>> \o Chain[sibling[m]]

Ls(n) == Chain[child[n]]

\* Fault: the walk stops at the current directory instead of its first entry.
FaultWay[m \in Nodes \cup {Null}] ==
    IF m = Null \/ m = cwd THEN <<>> ELSE <<m>> \o FaultWay[child[m]]

FaultPwd == FaultWay[child[Root]]

\* pwd: the nodes whose names are printed.
Way[m \in Nodes \cup {Null}] ==
    IF m = Null \/ m = child[cwd] THEN <<>> ELSE <<m>> \o Way[child[m]]

Pwd == Way[child[Root]]

\* The lines save writes: a node, then its children; a node named "/" is left out.
\* Written[n] goes on with what follows n, as the loop that called save for n does.
Line(n) == <<name[n], name[parent[n]], type[n]>>

OwnLine(n) == IF name[n] = Slash THEN <<>> ELSE <<Line(n)>>

Written[n \in Nodes \cup {Null}] ==
    IF n = Null THEN <<>> ELSE OwnLine(n) \o Written[child[n]] \o Written[sibling[n]]

Saved == Written[Root]

-----------------------------------------------------------------------------
\* initialize, and the memory of a program that does not run.
Init ==
    /\ name = [n \in Nodes |-> Slash]
    /\ type = [n \in Nodes |-> "D"]
    /\ child = [n \in Nodes |-> Null]
    /\ sibling = [n \in Nodes |-> Null]
    /\ parent = [n \in Nodes |-> Root]
    /\ alloc = {}
    /\ cwd = Root
    /\ file = NoFile
    /\ pc = "prompt"
    /\ pos = 0
    /\ blank = FALSE

\* The program is gone, and with it the tree.
End(why) ==
    /\ name' = [n \in Nodes |-> Slash]
    /\ type' = [n \in Nodes |-> "D"]
    /\ child' = [n \in Nodes |-> Null]
    /\ sibling' = [n \in Nodes |-> Null]
    /\ parent' = [n \in Nodes |-> Root]
    /\ alloc' = {}
    /\ cwd' = Root
    /\ pc' = why
    /\ pos' = 0
    /\ blank' = FALSE

Crash == End("crashed") /\ UNCHANGED file

Start ==
    /\ pc \in {"ended", "crashed"}
    /\ pc' = "prompt"
    /\ UNCHANGED <<treeVars, cwd, file, pos, blank>>

\* The user interrupts the program.
Interrupt ==
    /\ pc \in {"prompt", "reload"}
    /\ End("ended")
    /\ UNCHANGED file

(* mkdir and creat *)

\* Fault: parent is left at what malloc returned.
FaultNewNode(n, nm, ty, d) ==
    /\ n \in Addr \ alloc
    /\ alloc' = alloc \cup {n}
    /\ name' = [name EXCEPT ![n] = nm]
    /\ type' = [type EXCEPT ![n] = ty]
    /\ parent' = [parent EXCEPT ![n] = Null]

\* malloc, and the fields of the new node.
NewNode(n, nm, ty, d) ==
    /\ n \in Addr \ alloc
    /\ alloc' = alloc \cup {n}
    /\ name' = [name EXCEPT ![n] = nm]
    /\ type' = [type EXCEPT ![n] = ty]
    /\ parent' = [parent EXCEPT ![n] = d]

\* Only the first entry and what is below it is searched for the name.
Create(nm, ty) ==
    /\ pc = "prompt"
    /\ SearchTree(child[cwd], nm, Null)
    /\ \E n \in Addr :
          /\ NewNode(n, nm, ty, cwd)
          /\ sibling' = [sibling EXCEPT ![n] = child[cwd]]
          /\ child' = [child EXCEPT ![cwd] = n, ![n] = Null]
    /\ UNCHANGED <<cwd, file, pc, pos, blank>>

\* strcmp or strcpy is given NULL.
CreateNothing == pc = "prompt" /\ Crash

(* rmdir and rm *)

\* Fault: pPrev stays NULL, so that what is before n is cut off as well.
FaultUnlink(n) ==
    /\ child' = [child EXCEPT ![cwd] = sibling[n], ![n] = Null]
    /\ sibling' = [sibling EXCEPT ![n] = Null]
    /\ alloc' = alloc \ {n}
    /\ name' = [name EXCEPT ![n] = Slash]
    /\ type' = [type EXCEPT ![n] = "D"]
    /\ parent' = [parent EXCEPT ![n] = Root]
    /\ UNCHANGED <<cwd, file, pc, pos, blank>>

\* n is taken out of the listing of the current directory and freed; what is
\* below it is not.
Unlink(n) ==
    /\ IF child[cwd] = n
         THEN child' = [child EXCEPT ![cwd] = sibling[n], ![n] = Null]
              /\ sibling' = [sibling EXCEPT ![n] = Null]
         ELSE \E p \in After(child[cwd]) :
                 /\ sibling[p] = n
                 /\ sibling' = [sibling EXCEPT ![p] = sibling[n], ![n] = Null]
                 /\ child' = [child EXCEPT ![n] = Null]
    /\ alloc' = alloc \ {n}
    /\ name' = [name EXCEPT ![n] = Slash]
    /\ type' = [type EXCEPT ![n] = "D"]
    /\ parent' = [parent EXCEPT ![n] = Root]
    /\ UNCHANGED <<cwd, file, pc, pos, blank>>

\* Fault: rmdir without its test for entries.
FaultRmdir(nm) ==
    /\ pc = "prompt"
    /\ \E n \in Addr : FirstEntry(NamedDir(nm), n) /\ Unlink(n)

Rmdir(nm) ==
    /\ pc = "prompt"
    /\ \E n \in Addr :
          /\ FirstEntry(NamedDir(nm), n)
          /\ child[n] = Null
          /\ Unlink(n)

Rm(nm) ==
    /\ pc = "prompt"
    /\ \E n \in Addr :
          /\ FirstEntry(Named(nm), n)
          /\ type[n] = "F"
          /\ Unlink(n)

\* A name that is missing is compared with that of the first entry.
RemoveNothing == pc = "prompt" /\ child[cwd] # Null /\ Crash

(* cd *)

CdTo(d) ==
    /\ pc = "prompt"
    /\ cwd' = d
    /\ UNCHANGED <<treeVars, file, pc, pos, blank>>

CdRoot == CdTo(Root)
CdUp   == CdTo(parent[cwd])

\* The type tested is that of the first entry, not that of the one named.
Cd(nm) ==
    /\ child[cwd] # Null /\ type[child[cwd]] = "D"
    /\ \E n \in Addr : FirstEntry(Named(nm), n) /\ CdTo(n)

\* In an empty directory the test dereferences NULL.
CdInEmpty == pc = "prompt" /\ child[cwd] = Null /\ Crash

(* save, quit and reload *)

Save ==
    /\ pc = "prompt"
    /\ file' = Saved
    /\ UNCHANGED <<treeVars, cwd, pc, pos, blank>>

Quit ==
    /\ pc = "prompt"
    /\ file' = Saved
    /\ End("ended")

\* A line that is cut off behind its first k parts.
Cut(l, k) == SubSeq(l, 1, k)

\* The program is interrupted while it saves: the file was truncated, and holds
\* what was written by then.
SaveInterrupted ==
    /\ pc = "prompt"
    /\ \E k \in 0 .. Len(Saved) :
          \/ file' = SubSeq(Saved, 1, k)
          \/ \E j \in 1 .. 2 :
                k < Len(Saved) /\ file' = Append(SubSeq(Saved, 1, k), Cut(Saved[k + 1], j))
    /\ End("ended")

\* fgets is given NULL.
ReloadMissing == pc = "prompt" /\ file = NoFile /\ Crash

Reload ==
    /\ pc = "prompt" /\ file # NoFile
    /\ pc' = "reload"
    /\ blank' = (child[Root] = Null)
    /\ UNCHANGED <<treeVars, cwd, file, pos>>

\* The line to be read: its parts and the directory it goes to.
Reading == pc = "reload" /\ pos < Len(file)
Text == file[pos + 1]

ParentDir(d) ==
    IF Text[2] = Slash THEN d = Root ELSE SearchTree(Root, Text[2], d)

\* The line is not complete, its directory is not there, or its name is in the
\* tree already, wherever that is.
ReloadSkip ==
    /\ Reading
    /\ Len(Text) >= 2 => ParentDir(Null) \/ ~SearchTree(Root, Text[1], Null)
    /\ pos' = pos + 1
    /\ UNCHANGED <<treeVars, cwd, file, pc, blank>>

\* Fault: the new node is put in front, as mkdir does it.
FaultInFront(d, n) ==
    /\ child' = [child EXCEPT ![d] = n, ![n] = Null]
    /\ sibling' = [sibling EXCEPT ![n] = child[d]]

\* Fault: the new node takes the place of the first entry.
FaultOverwrite(d, n) ==
    /\ child' = [child EXCEPT ![d] = n, ![n] = Null]
    /\ sibling' = [sibling EXCEPT ![n] = Null]

\* A new node, at the end of the listing of d.
AppendTo(d, n) ==
    IF child[d] = Null
      THEN /\ child' = [child EXCEPT ![d] = n, ![n] = Null]
           /\ sibling' = [sibling EXCEPT ![n] = Null]
      ELSE \E last \in After(child[d]) :
              /\ sibling[last] = Null
              /\ sibling' = [sibling EXCEPT ![last] = n, ![n] = Null]
              /\ child' = [child EXCEPT ![n] = Null]

ToBeAdded(d) ==
    /\ Reading /\ Len(Text) >= 2
    /\ SearchTree(Root, Text[1], Null)
    /\ d # Null /\ ParentDir(d)

\* Fault: the parent pointer is that of a node made by mkdir.
FaultReloadLine ==
    /\ \E d \in Nodes :
          /\ ToBeAdded(d)
          /\ Len(Text) = 3
          /\ \E n \in Addr : NewNode(n, Text[1], Text[3], cwd) /\ AppendTo(d, n)
    /\ pos' = pos + 1
    /\ UNCHANGED <<cwd, file, pc, blank>>

ReloadLine ==
    /\ \E d \in Nodes :
          /\ ToBeAdded(d)
          /\ Len(Text) = 3
          /\ \E n \in Addr : NewNode(n, Text[1], Text[3], d) /\ AppendTo(d, n)
    /\ pos' = pos + 1
    /\ UNCHANGED <<cwd, file, pc, blank>>

\* The type is missing: type2 is NULL.
ReloadCut == (\E d \in Nodes : ToBeAdded(d)) /\ Len(Text) = 2 /\ Crash

ReloadEnd ==
    /\ pc = "reload" /\ pos = Len(file)
    /\ pc' = "prompt"
    /\ pos' = 0
    /\ blank' = FALSE
    /\ UNCHANGED <<treeVars, cwd, file>>

-----------------------------------------------------------------------------
\* The commands that change something; another message changes nothing.
Command(nm) ==
    \/ \E ty \in Types : Create(nm, ty)
    \/ Rmdir(nm)
    \/ Rm(nm)
    \/ Cd(nm)

Next ==
    \/ \E nm \in Names : Command(nm)
    \/ CreateNothing \/ RemoveNothing \/ CdRoot \/ CdUp \/ CdInEmpty
    \/ Save \/ Quit \/ SaveInterrupted
    \/ ReloadMissing \/ Reload \/ ReloadSkip \/ ReloadLine \/ ReloadCut \/ ReloadEnd
    \/ Interrupt \/ Start

Spec == Init /\ [][Next]_vars

-----------------------------------------------------------------------------
(* Properties. *)

Lines == {<<nm>> : nm \in Names}
           \cup (Names \X (Names \cup {Slash}))
           \cup (Names \X (Names \cup {Slash}) \X Types)

TypeOK ==
    /\ name \in [Nodes -> Names \cup {Slash}]
    /\ type \in [Nodes -> Types]
    /\ child \in [Nodes -> Addr \cup {Null}]
    /\ sibling \in [Nodes -> Addr \cup {Null}]
    /\ parent \in [Nodes -> Nodes]
    /\ alloc \subseteq Addr
    /\ cwd \in Nodes
    /\ file = NoFile \/ (DOMAIN file = 1 .. Len(file)
                           /\ \A k \in DOMAIN file : file[k] \in Lines)
    /\ pc \in {"prompt", "reload", "ended", "crashed"}
    /\ pos \in Nat
    /\ blank \in BOOLEAN

\* Whatever the commands, and whatever reload reads: the nodes that can be
\* reached from the root are allocated and form a tree, one pointer leads to each,
\* parent pointers lead back to the directory an entry is listed in, and the
\* current directory is one of them.
PointersTo(n, tree) ==
    Cardinality({m \in tree : child[m] = n}) + Cardinality({m \in tree : sibling[m] = n})

TreeIntact ==
    LET tree == Tree
    IN  /\ tree \subseteq alloc \cup {Root}
        /\ \A n \in tree \ {Root} : PointersTo(n, tree) = 1
        /\ \A d \in tree : \A n \in After(child[d]) : parent[n] = d
        /\ cwd \in tree

\* Memory is lost only when rm removes a file that has entries: cd lets a user
\* into a file behind a directory (line 74), and rm does not look at child.
Lost == alloc \ Tree

LostByRmOnly ==
    [][ ~(Lost' \subseteq Lost)
          => \E n \in Tree \cap Addr :
                n \notin alloc' /\ type[n] = "F" /\ child[n] # Null ]_vars

\* A reload never removes, moves or relabels an entry, nor leaves the current
\* directory: what is in the file is put behind what is there.
IsPrefixOf(s, t) == Len(s) <= Len(t) /\ s = SubSeq(t, 1, Len(s))

ReloadAdds ==
    [][ pc = "reload" /\ pc' \in {"reload", "prompt"}
          => /\ cwd' = cwd
             /\ \A n \in Nodes : IsPrefixOf(Ls(n), Ls(n)')
             /\ \A n \in alloc : <<name[n], type[n]>>' = <<name[n], type[n]>> ]_vars

\* The names of the lines are those of different entries.
Unambiguous(s) ==
    /\ \A k \in DOMAIN s : Len(s[k]) = 3
    /\ \A k, l \in DOMAIN s : s[k][1] = s[l][1] => k = l

\* A file with no name twice is restored: read into an empty tree, it gives one
\* that would be saved as the same file, line by line.
RoundTrip ==
    pc = "reload" /\ blank /\ Unambiguous(SubSeq(file, 1, pos))
        => Saved = SubSeq(file, 1, pos)

\* The nodes from the root to the current directory.
Up[m \in Nodes] == IF m = Root THEN <<>> ELSE Append(Up[parent[m]], m)

Path == Up[cwd]

\* pwd prints the path of the current directory exactly when each directory on it
\* is the first entry of the one before.
PwdOfFirstEntries ==
    Pwd = Path <=> \A k \in DOMAIN Path : child[parent[Path[k]]] = Path[k]

Fs == INSTANCE FsTree WITH
    Labels  <- (Names \cup {Slash}) \X Types,
    NoLabel <- Null,
    listing <- [n \in Nodes |-> Ls(n)],
    label   <- [n \in Addr |-> IF n \in alloc THEN <<name[n], type[n]>> ELSE Null],
    here    <- cwd

\* The pointers implement the listings: no entry is dropped, doubled or put out of
\* order when another is added or removed.
FsSpec == Fs!Spec

\* mkdir and creat refuse a name the directory has.
NoDuplicateNames ==
    \A d \in Tree : \A m, n \in After(child[d]) : name[m] = name[n] => m = n
=============================================================================
