----------------------------- MODULE MCImageStore -----------------------------
(* ImageStore on small instances. *)
EXTENDS ImageStore, TLC

Symmetry == Permutations(Images) \union Permutations(Readers) \union Permutations(Deleters)
=============================================================================
