------------------------------- MODULE MCKmlab -------------------------------
(* Kmlab for TLC: the tasks, the processes and the addresses are each          *)
(* interchangeable.  No temporal property is checked under the symmetry.       *)
EXTENDS Kmlab, TLC

Symmetry == Permutations(Tasks) \cup Permutations(Pids) \cup Permutations(Entries)
=============================================================================
