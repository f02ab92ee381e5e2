------------------------------- MODULE FsTree -------------------------------
(***************************************************************************)
(* What the file system simulator promises: every directory has a listing, *)
(* new entries come first in the current one, restored entries last in     *)
(* theirs, removing an entry takes it out of one listing and leaves the    *)
(* rest in order.  Nothing of this outlives the program.                   *)
(***************************************************************************)
EXTENDS Integers, Sequences

CONSTANTS Nodes,    (* the root and the places for entries                 *)
          Root,     (* the root directory                                  *)
          Labels,   (* names and types an entry can have                   *)
          NoLabel   (* no entry                                            *)

VARIABLES listing,  \* the entries of each directory, in the order of ls
          label,    \* what each entry is, or NoLabel
          here      \* the current directory

treeVars == <<listing, label, here>>

Entry == Nodes \ {Root}
In(n, s) == \E k \in DOMAIN s : s[k] = n
Without(s, k) == SubSeq(s, 1, k - 1) \o SubSeq(s, k + 1, Len(s))

Blank ==
    /\ listing = [n \in Nodes |-> <<>>]
    /\ label = [n \in Entry |-> NoLabel]
    /\ here = Root

Make(n) ==
    /\ label[n] = NoLabel
    /\ \E l \in Labels : label' = [label EXCEPT ![n] = l]
    /\ listing' = [listing EXCEPT ![here] = <<n>> \o @]
    /\ UNCHANGED here

Restore(n) ==
    /\ label[n] = NoLabel
    /\ \E l \in Labels : label' = [label EXCEPT ![n] = l]
    /\ \E d \in Nodes : /\ d # Root => label[d] # NoLabel
                        /\ listing' = [listing EXCEPT ![d] = Append(@, n)]
    /\ UNCHANGED here

Remove(n) ==
    /\ \E k \in DOMAIN listing[here] :
          /\ listing[here][k] = n
          /\ listing' = [listing EXCEPT ![here] = Without(@, k), ![n] = <<>>]
    /\ label' = [label EXCEPT ![n] = NoLabel]
    /\ UNCHANGED here

Go ==
    /\ \E n \in Nodes :
          /\ n = Root \/ In(n, listing[here]) \/ In(here, listing[n])
          /\ here' = n
    /\ UNCHANGED <<listing, label>>

Next == Blank' \/ Go \/ \E n \in Entry : Make(n) \/ Restore(n) \/ Remove(n)

Spec == Blank /\ [][Next]_treeVars
=============================================================================
