---------------------------- MODULE MCWorkDialogs ----------------------------
(* WorkDialogs on small instances; works are interchangeable.                *)
EXTENDS WorkDialogs, TLC

Symmetry == Permutations(Works)
=============================================================================
