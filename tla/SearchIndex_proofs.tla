------------------------- MODULE SearchIndex_proofs -------------------------
(***************************************************************************)
(* Proofs about SearchIndex, for every number of works, runs, edits and    *)
(* failures.  The invariant that carries them, IInv, adds to the type what *)
(* a run in flight knows: that it read each work of its batch at a version *)
(* the work has had, and that it still holds the current text unless the   *)
(* work was edited meanwhile (which overtaken remembers) or deleted.       *)
(***************************************************************************)
EXTENDS SearchIndex, TLAPS

\* A deleted work is not a row, a row has a saved text, and an id handed out
\* to a run is that of a row or of a deleted work.
RowsAndGone ==
    /\ works \intersect gone = {}
    /\ \A w \in works : content[w].version >= 1
    /\ \A r \in Runs : batch[r] \subseteq works \union gone

\* What a run holds of a work that still exists.
BatchIsSeen ==
    \A r \in Runs : \A w \in batch[r] \intersect works :
        /\ seen[r][w].version \in 1..content[w].version
        /\ w \notin overtaken => seen[r][w] = content[w]

IInv ==
    /\ TypeOK
    /\ RowsAndGone
    /\ BatchIsSeen
    /\ ChunksAreOneVersion
    /\ CleanIsFreshUnlessOvertaken
    /\ \A w \in Works : w \notin works => chunks[w] = {}

\* What build_chunks returns are chunks.
LEMMA BuildChunksType ==
    ASSUME NEW c \in Content
    PROVE  BuildChunks(c) \in SUBSET Chunk
<1>1. ChunkKinds(c) \subseteq Kinds
  BY DEF ChunkKinds, Kinds
<1> QED
  BY <1>1 DEF BuildChunks, Chunk, Content

\* No id is a row, so nothing is indexed and no run holds anything.
LEMMA InitIInv == Init => IInv
<1> SUFFICES ASSUME Init PROVE IInv
  OBVIOUS
<1> USE DEF Init, NoContents, NoContent
<1>1. TypeOK
  BY DEF TypeOK, Content
<1>2. RowsAndGone /\ BatchIsSeen
  BY DEF RowsAndGone, BatchIsSeen
<1>3. ChunksAreOneVersion /\ CleanIsFreshUnlessOvertaken
  BY DEF ChunksAreOneVersion, CleanIsFreshUnlessOvertaken
<1> QED
  BY <1>1, <1>2, <1>3 DEF IInv

\* The type is preserved by every step.
LEMMA TypeStep == TypeOK /\ [Next]_vars => TypeOK'
<1> SUFFICES ASSUME TypeOK, [Next]_vars PROVE TypeOK'
  OBVIOUS
<1> USE DEF TypeOK
<1>0. NoContent \in Content /\ NoContents \in [Works -> Content]
  BY DEF NoContents, NoContent, Content
<1>1. ASSUME NEW w \in Works, NEW d \in BOOLEAN, CreateWork(w, d) PROVE TypeOK'
  BY <1>1 DEF CreateWork, Content, runVars
<1>2. ASSUME NEW w \in Works, NEW d \in BOOLEAN, UpdateWork(w, d) PROVE TypeOK'
  BY <1>2 DEF UpdateWork, Content, runVars
<1>3. ASSUME NEW w \in Works, DeleteWork(w) PROVE TypeOK'
  BY <1>0, <1>3 DEF DeleteWork, runVars
<1>4. ASSUME NEW r \in Runs, FetchDirtyWorks(r) PROVE TypeOK'
  BY <1>0, <1>4 DEF FetchDirtyWorks, DirtyWorks
<1>5. ASSUME NEW r \in Runs, EmbedPassages(r) PROVE TypeOK'
  BY <1>5 DEF EmbedPassages
<1>6. ASSUME NEW r \in Runs, SaveSearchChunks(r) PROVE TypeOK'
  <2>1. chunks' \in [Works -> SUBSET Chunk]
    BY <1>6, BuildChunksType DEF SaveSearchChunks
  <2>2. dirty' \in [Works -> BOOLEAN] /\ indexError' \in [Works -> {Null}]
    BY <1>6 DEF SaveSearchChunks
  <2> QED
    BY <1>0, <1>6, <2>1, <2>2 DEF SaveSearchChunks, EndRun
<1>7. ASSUME NEW r \in Runs, SaveBreaksForeignKey(r) PROVE TypeOK'
  BY <1>0, <1>7 DEF SaveBreaksForeignKey, EndRun
<1>8. ASSUME NEW r \in Runs, RunFails(r) PROVE TypeOK'
  BY <1>0, <1>8 DEF RunFails, EndRun
<1>9. CASE Restart
  BY <1>0, <1>9 DEF Restart
<1>10. CASE UNCHANGED vars
  BY <1>10 DEF vars
<1> QED
  BY <1>1, <1>2, <1>3, <1>4, <1>5, <1>6, <1>7, <1>8, <1>9, <1>10
     DEF Next, Backend, Reindex, Save

\* The backend's steps preserve the invariant: an edit raises the version and
\* records every run it overtakes, a deletion takes the row out of its scope.
LEMMA BackendStep == IInv /\ Backend => IInv'
<1> SUFFICES ASSUME IInv, Backend PROVE IInv'
  OBVIOUS
<1>0. TypeOK'
  BY TypeStep DEF IInv, Next
<1> USE DEF IInv
<1>1. ASSUME NEW w \in Works, NEW d \in BOOLEAN, CreateWork(w, d) PROVE IInv'
  <2> USE <1>1 DEF CreateWork, runVars
  <2>1. RowsAndGone'
    BY DEF RowsAndGone, TypeOK
  <2>2. BatchIsSeen'
    BY DEF RowsAndGone, BatchIsSeen, TypeOK
  <2>3. chunks[w] = {} /\ dirty'[w]
    BY DEF TypeOK
  <2>4. ChunksAreOneVersion'
    BY <2>3 DEF ChunksAreOneVersion, TypeOK
  <2>5. CleanIsFreshUnlessOvertaken'
    BY <2>3 DEF CleanIsFreshUnlessOvertaken, TypeOK
  <2> QED
    BY <1>0, <2>1, <2>2, <2>4, <2>5
<1>2. ASSUME NEW w \in Works, NEW d \in BOOLEAN, UpdateWork(w, d) PROVE IInv'
  <2> USE <1>2 DEF UpdateWork, runVars
  <2>0. /\ content'[w].version = content[w].version + 1
        /\ content[w].version \in Nat
        /\ \A v \in Works \ {w} : content'[v] = content[v] /\ dirty'[v] = dirty[v]
    BY DEF TypeOK, Content
  <2>1. RowsAndGone'
    BY <2>0 DEF RowsAndGone, TypeOK
  <2>2. BatchIsSeen'
    <3> SUFFICES ASSUME NEW r \in Runs, NEW v \in batch[r] \intersect works
                 PROVE  /\ seen[r][v].version \in 1..content'[v].version
                        /\ v \notin overtaken' => seen[r][v] = content'[v]
      BY DEF BatchIsSeen
    <3>1. v \in Works /\ content[v].version \in Nat
      BY DEF TypeOK, Content
    <3>2. CASE v = w
      BY <2>0, <3>2 DEF BatchIsSeen
    <3>3. CASE v # w
      BY <2>0, <3>1, <3>3 DEF BatchIsSeen
    <3> QED
      BY <3>2, <3>3
  <2>3. ChunksAreOneVersion'
    <3> SUFFICES ASSUME NEW v \in works, chunks[v] # {}
                 PROVE  \E n \in 1..content'[v].version, e \in BOOLEAN :
                            chunks[v] = BuildChunks([version |-> n, described |-> e])
      BY DEF ChunksAreOneVersion
    <3>1. PICK n \in 1..content[v].version, e \in BOOLEAN :
                 chunks[v] = BuildChunks([version |-> n, described |-> e])
      BY DEF ChunksAreOneVersion
    <3>2. n \in 1..content'[v].version
      BY <2>0 DEF TypeOK
    <3> QED
      BY <3>1, <3>2
  <2>4. CleanIsFreshUnlessOvertaken'
    <3>1. dirty'[w]
      BY DEF TypeOK
    <3> QED
      BY <2>0, <3>1 DEF CleanIsFreshUnlessOvertaken, TypeOK
  <2> QED
    BY <1>0, <2>1, <2>2, <2>3, <2>4
<1>3. ASSUME NEW w \in Works, DeleteWork(w) PROVE IInv'
  <2> USE <1>3 DEF DeleteWork, runVars
  <2>0. \A v \in works' : /\ v \in works /\ v # w
                          /\ content'[v] = content[v] /\ dirty'[v] = dirty[v]
                          /\ chunks'[v] = chunks[v]
    BY DEF TypeOK
  <2>1. RowsAndGone'
    BY <2>0 DEF RowsAndGone, TypeOK
  <2>2. BatchIsSeen'
    BY <2>0 DEF BatchIsSeen
  <2>3. ChunksAreOneVersion' /\ CleanIsFreshUnlessOvertaken'
    BY <2>0 DEF ChunksAreOneVersion, CleanIsFreshUnlessOvertaken
  <2>4. \A v \in Works : v \notin works' => chunks'[v] = {}
    BY DEF TypeOK
  <2> QED
    BY <1>0, <2>1, <2>2, <2>3, <2>4
<1> QED
  BY <1>1, <1>2, <1>3 DEF Backend

\* A step that leaves the tables alone and each batch as it is or empty
\* preserves the invariant: embedding, and every way a run may end in vain.
LEMMA TablesUntouchedStep ==
    ASSUME IInv, TypeOK',
           UNCHANGED <<works, gone, content, dirty, chunks, overtaken>>,
           \A r \in Runs : batch'[r] = {} \/ (batch'[r] = batch[r] /\ seen'[r] = seen[r])
    PROVE  IInv'
<1>1. RowsAndGone'
  BY DEF IInv, RowsAndGone
<1>2. BatchIsSeen'
  BY DEF IInv, BatchIsSeen
<1>3. ChunksAreOneVersion' /\ CleanIsFreshUnlessOvertaken'
  BY DEF IInv, ChunksAreOneVersion, CleanIsFreshUnlessOvertaken
<1> QED
  BY <1>1, <1>2, <1>3 DEF IInv

\* Reading the dirty works: what is seen is what is there.
LEMMA FetchStep ==
    ASSUME IInv, NEW r \in Runs, FetchDirtyWorks(r), TypeOK'
    PROVE  IInv'
<1> USE DEF FetchDirtyWorks, DirtyWorks
<1>1. RowsAndGone'
  BY DEF IInv, RowsAndGone, TypeOK
<1>2. BatchIsSeen'
  <2> SUFFICES ASSUME NEW q \in Runs, NEW w \in batch'[q] \intersect works
               PROVE  /\ seen'[q][w].version \in 1..content[w].version
                      /\ w \notin overtaken => seen'[q][w] = content[w]
    BY DEF BatchIsSeen
  <2>1. CASE q = r
    <3>1. w \in Works /\ seen'[q][w] = content[w]
      BY <2>1 DEF IInv, TypeOK
    <3>2. content[w].version \in Nat /\ content[w].version >= 1
      BY <3>1 DEF IInv, TypeOK, Content, RowsAndGone
    <3> QED
      BY <3>1, <3>2
  <2>2. CASE q # r
    BY <2>2 DEF IInv, BatchIsSeen, TypeOK
  <2> QED
    BY <2>1, <2>2
<1>3. ChunksAreOneVersion' /\ CleanIsFreshUnlessOvertaken'
  BY DEF IInv, ChunksAreOneVersion, CleanIsFreshUnlessOvertaken
<1> QED
  BY <1>1, <1>2, <1>3 DEF IInv

\* Saving: the chunks of a work of the batch become those of what was seen of
\* it, which is a version it has had and, if it was not overtaken, its text.
LEMMA SaveStep ==
    ASSUME IInv, NEW r \in Runs, SaveSearchChunks(r), TypeOK'
    PROVE  IInv'
<1> USE DEF SaveSearchChunks, EndRun
<1>0. \A q \in Runs : batch'[q] = {} \/ (batch'[q] = batch[q] /\ seen'[q] = seen[q])
  BY DEF IInv, TypeOK
<1>1. RowsAndGone' /\ BatchIsSeen'
  BY <1>0 DEF IInv, RowsAndGone, BatchIsSeen
<1>2. \A w \in Works : chunks'[w] = IF w \in batch[r] THEN BuildChunks(seen[r][w])
                                                      ELSE chunks[w]
  OBVIOUS
<1>3. ChunksAreOneVersion'
  <2> SUFFICES ASSUME NEW w \in works, chunks'[w] # {}
               PROVE  \E n \in 1..content[w].version, e \in BOOLEAN :
                          chunks'[w] = BuildChunks([version |-> n, described |-> e])
    BY DEF ChunksAreOneVersion
  <2>0. w \in Works
    BY DEF IInv, TypeOK
  <2>1. CASE w \in batch[r]
    <3> DEFINE s == seen[r][w]
    <3>1. s \in Content /\ s.version \in 1..content[w].version
      BY <2>0, <2>1 DEF IInv, TypeOK, BatchIsSeen
    <3>2. s = [version |-> s.version, described |-> s.described] /\ s.described \in BOOLEAN
      BY <3>1 DEF Content
    <3>3. chunks'[w] = BuildChunks(s)
      BY <1>2, <2>0, <2>1
    <3> HIDE DEF s
    <3> QED
      BY <3>1, <3>2, <3>3
  <2>2. CASE w \notin batch[r]
    BY <1>2, <2>0, <2>2 DEF IInv, ChunksAreOneVersion
  <2> QED
    BY <2>1, <2>2
<1>4. CleanIsFreshUnlessOvertaken'
  <2> SUFFICES ASSUME NEW w \in works, ~dirty'[w], w \notin overtaken
               PROVE  chunks'[w] = BuildChunks(content[w])
    BY DEF CleanIsFreshUnlessOvertaken
  <2>0. w \in Works
    BY DEF IInv, TypeOK
  <2>1. CASE w \in batch[r]
    BY <1>2, <2>0, <2>1 DEF IInv, BatchIsSeen
  <2>2. CASE w \notin batch[r]
    BY <1>2, <2>0, <2>2 DEF IInv, CleanIsFreshUnlessOvertaken
  <2> QED
    BY <2>1, <2>2
<1>5. \A w \in Works : w \notin works' => chunks'[w] = {}
  BY <1>2 DEF IInv
<1> QED
  BY <1>1, <1>3, <1>4, <1>5 DEF IInv

\* Every step preserves the invariant.
LEMMA NextIInv == IInv /\ [Next]_vars => IInv'
<1> SUFFICES ASSUME IInv, [Next]_vars PROVE IInv'
  OBVIOUS
<1>0. TypeOK'
  BY TypeStep DEF IInv
<1>1. CASE Backend
  BY <1>1, BackendStep
<1>2. ASSUME NEW r \in Runs, Reindex(r) PROVE IInv'
  <2>1. CASE FetchDirtyWorks(r)
    BY <1>0, <2>1, FetchStep
  <2>2. CASE EmbedPassages(r)
    BY <1>0, <2>2, TablesUntouchedStep DEF EmbedPassages
  <2>3. CASE SaveSearchChunks(r)
    BY <1>0, <2>3, SaveStep
  <2>4. CASE SaveBreaksForeignKey(r)
    BY <1>0, <2>4, TablesUntouchedStep DEF SaveBreaksForeignKey, EndRun, IInv, TypeOK
  <2>5. CASE RunFails(r)
    BY <1>0, <2>5, TablesUntouchedStep DEF RunFails, EndRun, IInv, TypeOK
  <2> QED
    BY <1>2, <2>1, <2>2, <2>3, <2>4, <2>5 DEF Reindex, Save
<1>3. CASE Restart
  BY <1>0, <1>3, TablesUntouchedStep DEF Restart
<1>4. CASE UNCHANGED vars
  BY <1>0, <1>4, TablesUntouchedStep DEF vars
<1> QED
  BY <1>1, <1>2, <1>3, <1>4 DEF Next

\* IInv is an invariant of the whole system.
THEOREM Invariant == Spec => []IInv
BY InitIInv, NextIInv, PTL DEF Spec

\* Every variable keeps its type, and a run holds a batch exactly while it runs.
THEOREM TypeCorrect == Spec => []TypeOK
<1>1. IInv => TypeOK
  BY DEF IInv
<1> QED
  BY <1>1, Invariant, PTL

\* A work is indexed under one saved version of its text, never under a mix.
THEOREM OneVersion == Spec => []ChunksAreOneVersion
<1>1. IInv => ChunksAreOneVersion
  BY DEF IInv
<1> QED
  BY <1>1, Invariant, PTL

\* The read-embed-save gap is the only way a clean work can be stale.
THEOREM CleanIsFresh == Spec => []CleanIsFreshUnlessOvertaken
<1>1. IInv => CleanIsFreshUnlessOvertaken
  BY DEF IInv
<1> QED
  BY <1>1, Invariant, PTL

\* The chunks build_chunks makes of a text are never none.
LEMMA BuildChunksNonempty == ASSUME NEW c PROVE BuildChunks(c) # {}
<1>1. "summary" \in ChunkKinds(c)
  BY DEF ChunkKinds
<1> QED
  BY <1>1 DEF BuildChunks

\* Neither an edit nor a failing run takes a findable work out of the index.
THEOREM StaysSearchable == Spec => IndexedStaysSearchable
<1> DEFINE Keeps == \A w \in works : chunks[w] # {} /\ w \in works' => chunks'[w] # {}
<1>1. IInv /\ [Next]_vars => [Keeps]_vars
  <2> SUFFICES ASSUME IInv, Next, NEW w \in works, chunks[w] # {}, w \in works'
               PROVE  chunks'[w] # {}
    OBVIOUS
  <2>0. w \in Works
    BY DEF IInv, TypeOK
  <2>1. CASE Backend
    BY <2>0, <2>1 DEF Backend, CreateWork, UpdateWork, DeleteWork, IInv, TypeOK
  <2>2. ASSUME NEW r \in Runs, Reindex(r) PROVE chunks'[w] # {}
    BY <2>0, <2>2, BuildChunksNonempty
       DEF Reindex, Save, FetchDirtyWorks, EmbedPassages, SaveSearchChunks,
           SaveBreaksForeignKey, RunFails
  <2>3. CASE Restart
    BY <2>3 DEF Restart
  <2> QED
    BY <2>1, <2>2, <2>3 DEF Next
<1> QED
  BY <1>1, Invariant, PTL DEF Spec, IndexedStaysSearchable
=============================================================================
