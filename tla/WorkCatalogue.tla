---------------------------- MODULE WorkCatalogue ----------------------------
(***************************************************************************)
(* What the works API promises, with no table, transaction or request in   *)
(* sight: a catalogue of published works, each shown as it was last saved  *)
(* in one piece, except that a removed image disappears from every work    *)
(* that used it.  WorkStore's tables implement it (WorkStoreRefinement).   *)
(***************************************************************************)
EXTENDS FiniteSets, Functions, Naturals, Sequences

CONSTANTS
    Works,       \* work ids
    Images,      \* image ids
    Stacks,      \* tech stack ids
    ImageLists,  \* the image lists an administrator may send
    Null         \* no thumbnail

VARIABLES
    images,      \* images there are now
    stacks,      \* tech stacks there are now
    shown        \* what is shown of each published work

vars == <<images, stacks, shown>>

\* A work as it is shown.  Its tech stacks are never none.
Entry == [thumb: Images \union {Null},
          list: Seq(Images),
          stacks: (SUBSET Stacks) \ {{}}]

Init ==
    /\ images = {}
    /\ stacks = {}
    /\ shown = << >>

\* What may be saved: every image and tech stack is known at that moment.
Saveable == {e \in [thumb: Images, list: ImageLists, stacks: (SUBSET Stacks) \ {{}}] :
                /\ {e.thumb} \union Range(e.list) \subseteq images
                /\ e.stacks \subseteq stacks}

Publish(w) ==
    /\ w \notin DOMAIN shown
    /\ \E e \in Saveable :
         shown' = [v \in DOMAIN shown \union {w} |-> IF v = w THEN e ELSE shown[v]]
    /\ UNCHANGED <<images, stacks>>

Revise(w) ==
    /\ w \in DOMAIN shown
    /\ \E e \in Saveable : shown' = [shown EXCEPT ![w] = e]
    /\ UNCHANGED <<images, stacks>>

Withdraw(w) ==
    /\ w \in DOMAIN shown
    /\ shown' = Restrict(shown, DOMAIN shown \ {w})
    /\ UNCHANGED <<images, stacks>>

AddImage(i) ==
    /\ i \notin images
    /\ images' = images \union {i}
    /\ UNCHANGED <<stacks, shown>>

\* The n-th of some places in a list: n - 1 are before it.
Nth(places, n) == CHOOSE k \in places : Cardinality({j \in places : j < k}) = n - 1

Others(list, i) == {k \in DOMAIN list : list[k] # i}

\* The list without image i; what stays keeps its order.
Reduced(list, i) ==
    [n \in 1..Cardinality(Others(list, i)) |-> list[Nth(Others(list, i), n)]]

Without(e, i) ==
    [e EXCEPT !.thumb = IF @ = i THEN Null ELSE @, !.list = Reduced(@, i)]

RemoveImage(i) ==
    /\ i \in images
    /\ images' = images \ {i}
    /\ shown' = [w \in DOMAIN shown |-> Without(shown[w], i)]
    /\ UNCHANGED stacks

AddStack(s) ==
    /\ s \notin stacks
    /\ stacks' = stacks \union {s}
    /\ UNCHANGED <<images, shown>>

Next ==
    \/ \E w \in Works : Publish(w) \/ Revise(w) \/ Withdraw(w)
    \/ \E i \in Images : AddImage(i) \/ RemoveImage(i)
    \/ \E s \in Stacks : AddStack(s)

Spec == Init /\ [][Next]_vars
=============================================================================
