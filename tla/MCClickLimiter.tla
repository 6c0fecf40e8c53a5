--------------------------- MODULE MCClickLimiter ---------------------------
(* ClickLimiter on a small instance.                                        *)
EXTENDS ClickLimiter, TLC

Symmetry == Permutations(Keys) \union Permutations(Callers)
=============================================================================
