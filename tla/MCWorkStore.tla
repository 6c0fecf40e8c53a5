----------------------------- MODULE MCWorkStore -----------------------------
(* WorkStore on a small instance: the image lists a request may carry, and   *)
(* the symmetry of an instance with that asymmetric set of lists.            *)
EXTENDS WorkStoreRefinement, TLC

CONSTANTS i1, i2

\* None, and four with repetitions.
SavingLists == {<< >>, <<i2, i1, i2, i1>>}

SavingSymmetry == Permutations(Requests)
=============================================================================
