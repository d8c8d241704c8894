----------------------------- MODULE MCCASStore -----------------------------
(* CASStore for TLC: two or three names over two contents.                 *)
EXTENDS CASStore, TLC

Symmetry == Permutations(Names) \cup Permutations(Hashes)
=============================================================================
