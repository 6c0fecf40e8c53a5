------------------------- MODULE WorkStoreRefinement -------------------------
(***************************************************************************)
(* The tables of WorkStore implement the catalogue of WorkCatalogue: a     *)
(* work is shown as respondWorks builds it, its images by display_order.   *)
(***************************************************************************)
EXTENDS WorkStore, FiniteSets

\* Mutant: ordered by display_order, but descending.
ImagesReversed(rows) ==
    LET After(row) == {r \in rows : r.order > row.order}
    IN  [k \in 1..Cardinality(rows) |->
            (CHOOSE row \in rows : Cardinality(After(row)) = k - 1).image]

\* The images of a work's rows in the order withWorkRelations preloads them:
\* the k-th has k - 1 before it.
ImagesInOrder(rows) ==
    LET Before(row) == {r \in rows : r.order < row.order}
    IN  [k \in 1..Cardinality(rows) |->
            (CHOOSE row \in rows : Cardinality(Before(row)) = k - 1).image]

StacksOf(w) == {row.stack : row \in RowsOf(workStacks, w)}

\* workResponse
Shown == [w \in works |-> [thumb |-> thumb[w],
                           list |-> ImagesInOrder(RowsOf(workImages, w)),
                           stacks |-> StacksOf(w)]]

Catalogue == INSTANCE WorkCatalogue WITH shown <- Shown

\* Every step of the handlers is one step of the catalogue or none: validation
\* races, failed transactions and cascades never show an in-between state, and
\* gaps in display_order never change the order of the images that remain.
ImplementsCatalogue == Catalogue!Spec
=============================================================================
