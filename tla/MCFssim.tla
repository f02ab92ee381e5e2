------------------------------- MODULE MCFssim -------------------------------
(* Fssim for TLC: the addresses and the names a user types are each            *)
(* interchangeable.  The properties checked under the symmetry are invariants  *)
(* and properties of single steps.                                             *)
EXTENDS Fssim, TLC

Symmetry == Permutations(Addr) \cup Permutations(Names)
=============================================================================
