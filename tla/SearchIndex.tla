----------------------------- MODULE SearchIndex -----------------------------
(***************************************************************************)
(* The search index of the portfolio: what the backend's work handlers and *)
(* the embedding service's reindex runs do to the works table and to       *)
(* isirmt_work_search_chunks.                                              *)
(*                                                                         *)
(* A work's text is a version number that every committed edit increases,  *)
(* with the one fact about it that decides which chunks exist: whether its *)
(* description is empty.  A reindex run reads the dirty works in one       *)
(* transaction, embeds them with no transaction open, and saves in a       *)
(* second transaction.  Every transaction is one step: its writes become   *)
(* visible together, and none of them reads what it then writes.           *)
(***************************************************************************)
EXTENDS Naturals

CONSTANTS
    Works,        \* the ids gen_random_uuid() may hand out
    Runs,         \* concurrent reindex runs: the periodic one, manual ones
    Periodic,     \* the run that reindex_periodically repeats for ever
    Null,         \* SQL NULL
    MaxVersion,   \* bound: no work is saved more often than this
    MaxFailures   \* bound: failed runs and restarts of the service

ASSUME SearchAssumption ==
    /\ Periodic \in Runs
    /\ MaxVersion \in Nat
    /\ MaxFailures \in Nat

VARIABLES
    works,        \* ids of the rows of isirmt_works
    gone,         \* ids of deleted works; an id is never handed out again
    content,      \* what build_chunks reads of a work
    dirty,        \* column search_dirty
    indexError,   \* column search_index_error
    chunks,       \* rows of isirmt_work_search_chunks, by work
    runPc,        \* where each reindex run is
    batch,        \* the works a run has fetched
    seen,         \* the content it fetched them with
    failures,     \* failures and restarts so far
    overtaken     \* history: works edited while a run had them in its batch

vars == <<works, gone, content, dirty, indexError, chunks,
          runPc, batch, seen, failures, overtaken>>

runVars == <<runPc, batch, seen>>

Content == [version: Nat, described: BOOLEAN]

\* The chunk kinds a run writes.
Kinds == {"summary", "description", "tech_stacks"}

Chunk == [kind: Kinds, version: Nat]

\* The summary and the tech stack chunk always have text of their own (their
\* templates are not blank); the description chunk is left out when blank.
ChunkKinds(c) ==
    {"summary", "tech_stacks"} \union {k \in {"description"} : c.described}

BuildChunks(c) == {[kind |-> k, version |-> c.version] : k \in ChunkKinds(c)}

TypeOK ==
    /\ works \subseteq Works
    /\ gone \subseteq Works
    /\ content \in [Works -> Content]
    /\ dirty \in [Works -> BOOLEAN]
    /\ indexError \in [Works -> {Null}]
    /\ chunks \in [Works -> SUBSET Chunk]
    /\ runPc \in [Runs -> {"idle", "fetched", "embedded"}]
    /\ batch \in [Runs -> SUBSET Works]
    /\ seen \in [Runs -> [Works -> Content]]
    /\ failures \in Nat
    /\ overtaken \subseteq Works
    /\ \A r \in Runs : runPc[r] = "idle" <=> batch[r] = {}

NoContent == [version |-> 0, described |-> FALSE]

\* No row yet, or no longer: the columns of such an id mean nothing.
NoContents == [w \in Works |-> NoContent]

Init ==
    /\ works = {}
    /\ gone = {}
    /\ content = NoContents
    /\ dirty = [w \in Works |-> TRUE]
    /\ indexError = [w \in Works |-> Null]
    /\ chunks = [w \in Works |-> {}]
    /\ runPc = [r \in Runs |-> "idle"]
    /\ batch = [r \in Runs |-> {}]
    /\ seen = [r \in Runs |-> NoContents]
    /\ failures = 0
    /\ overtaken = {}

-----------------------------------------------------------------------------
(* The backend *)

\* handleCreateWork commits a new work, search_dirty = TRUE.
CreateWork(w, d) ==
    /\ w \notin works \union gone
    /\ works' = works \union {w}
    /\ content' = [content EXCEPT ![w] = [version |-> 1, described |-> d]]
    /\ dirty' = [dirty EXCEPT ![w] = TRUE]
    /\ UNCHANGED <<gone, indexError, chunks, runVars, failures, overtaken>>

\* Mutant: an edit drops the chunks of the old text at once.
UpdateWorkDroppingChunks(w, d) ==
    /\ w \in works
    /\ content[w].version < MaxVersion
    /\ content' = [content EXCEPT ![w] = [version |-> @.version + 1, described |-> d]]
    /\ dirty' = [dirty EXCEPT ![w] = TRUE]
    /\ indexError' = [indexError EXCEPT ![w] = Null]
    /\ overtaken' = overtaken \union {v \in {w} : \E r \in Runs : w \in batch[r]}
    /\ chunks' = [chunks EXCEPT ![w] = {}]
    /\ UNCHANGED <<works, gone, runVars, failures>>

\* handleUpdateWork commits new text: dirty again, the error column cleared.
\* The chunks of the old text stay until a run replaces them.
UpdateWork(w, d) ==
    /\ w \in works
    /\ content[w].version < MaxVersion
    /\ content' = [content EXCEPT ![w] = [version |-> @.version + 1, described |-> d]]
    /\ dirty' = [dirty EXCEPT ![w] = TRUE]
    /\ indexError' = [indexError EXCEPT ![w] = Null]
    /\ overtaken' = overtaken \union {v \in {w} : \E r \in Runs : w \in batch[r]}
    /\ UNCHANGED <<works, gone, chunks, runVars, failures>>

\* handleDeleteWork: ON DELETE CASCADE takes the chunks along.
DeleteWork(w) ==
    /\ w \in works
    /\ works' = works \ {w}
    /\ gone' = gone \union {w}
    /\ chunks' = [chunks EXCEPT ![w] = {}]
    /\ content' = [content EXCEPT ![w] = NoContent]
    /\ dirty' = [dirty EXCEPT ![w] = TRUE]
    /\ UNCHANGED <<indexError, runVars, failures, overtaken>>

-----------------------------------------------------------------------------
(* A reindex run *)

DirtyWorks == {w \in works : dirty[w]}

\* fetch_dirty_works: one SELECT, hence one snapshot.  With no dirty work
\* there is no chunk and the run returns at once.
FetchDirtyWorks(r) ==
    /\ runPc[r] = "idle"
    /\ DirtyWorks # {}
    /\ batch' = [batch EXCEPT ![r] = DirtyWorks]
    /\ seen' = [seen EXCEPT ![r] =
                   [w \in Works |-> IF w \in DirtyWorks THEN content[w] ELSE NoContent]]
    /\ runPc' = [runPc EXCEPT ![r] = "fetched"]
    /\ UNCHANGED <<works, gone, content, dirty, indexError, chunks, failures, overtaken>>

\* embed_passages: long, and no transaction is open meanwhile.
EmbedPassages(r) ==
    /\ runPc[r] = "fetched"
    /\ runPc' = [runPc EXCEPT ![r] = "embedded"]
    /\ UNCHANGED <<works, gone, content, dirty, indexError, chunks,
                   batch, seen, failures, overtaken>>

EndRun(r) ==
    /\ runPc' = [runPc EXCEPT ![r] = "idle"]
    /\ batch' = [batch EXCEPT ![r] = {}]
    /\ seen' = [seen EXCEPT ![r] = NoContents]

\* Mutant: the old chunks are not deleted first (an upsert per chunk kind).
SaveWithoutDelete(r) ==
    /\ runPc[r] = "embedded"
    /\ batch[r] \subseteq works
    /\ chunks' = [w \in Works |->
                    IF w \in batch[r]
                    THEN LET new == BuildChunks(seen[r][w])
                         IN  new \union {c \in chunks[w] :
                                            c.kind \notin {n.kind : n \in new}}
                    ELSE chunks[w]]
    /\ dirty' = [w \in Works |-> dirty[w] /\ w \notin batch[r]]
    /\ UNCHANGED indexError
    /\ EndRun(r)
    /\ UNCHANGED <<works, gone, content, failures, overtaken>>

\* Mutant: the last statement marks every dirty work clean, not the batch.
SaveMarkingAllClean(r) ==
    /\ runPc[r] = "embedded"
    /\ batch[r] \subseteq works
    /\ chunks' = [w \in Works |->
                    IF w \in batch[r] THEN BuildChunks(seen[r][w]) ELSE chunks[w]]
    /\ dirty' = [w \in Works |-> dirty[w] /\ w \notin works]
    /\ UNCHANGED indexError
    /\ EndRun(r)
    /\ UNCHANGED <<works, gone, content, failures, overtaken>>

\* save_search_chunks commits: the batch's old chunks are deleted, the new
\* ones inserted, and every work of the batch is marked clean, whatever has
\* happened to its row since it was fetched.
SaveSearchChunks(r) ==
    /\ runPc[r] = "embedded"
    /\ batch[r] \subseteq works
    /\ chunks' = [w \in Works |->
                    IF w \in batch[r] THEN BuildChunks(seen[r][w]) ELSE chunks[w]]
    /\ dirty' = [w \in Works |-> dirty[w] /\ w \notin batch[r]]
    /\ indexError' = [w \in Works |-> IF w \in batch[r] THEN Null ELSE indexError[w]]
    /\ EndRun(r)
    /\ UNCHANGED <<works, gone, content, failures, overtaken>>

\* Mutant: the run tries the same batch again instead of ending.
SaveAgainAfterForeignKey(r) ==
    /\ runPc[r] = "embedded"
    /\ ~(batch[r] \subseteq works)
    /\ runPc' = [runPc EXCEPT ![r] = "fetched"]
    /\ UNCHANGED <<works, gone, content, dirty, indexError, chunks,
                   batch, seen, failures, overtaken>>

\* A work of the batch was deleted: inserting its chunks breaks the foreign
\* key, the exception rolls the whole transaction back and ends the run.
SaveBreaksForeignKey(r) ==
    /\ runPc[r] = "embedded"
    /\ ~(batch[r] \subseteq works)
    /\ EndRun(r)
    /\ UNCHANGED <<works, gone, content, dirty, indexError, chunks, failures, overtaken>>

\* Any other exception (the model, the connection, a unique violation against
\* a concurrent run): rolled back, logged by reindex_periodically, forgotten.
RunFails(r) ==
    /\ runPc[r] # "idle"
    /\ failures < MaxFailures
    /\ failures' = failures + 1
    /\ EndRun(r)
    /\ UNCHANGED <<works, gone, content, dirty, indexError, chunks, overtaken>>

\* The container restarts: all runs are forgotten, the database is not.
Restart ==
    /\ failures < MaxFailures
    /\ failures' = failures + 1
    /\ runPc' = [r \in Runs |-> "idle"]
    /\ batch' = [r \in Runs |-> {}]
    /\ seen' = [r \in Runs |-> NoContents]
    /\ UNCHANGED <<works, gone, content, dirty, indexError, chunks, overtaken>>

-----------------------------------------------------------------------------
Backend == \E w \in Works :
    \/ \E d \in BOOLEAN : CreateWork(w, d) \/ UpdateWork(w, d)
    \/ DeleteWork(w)

Save(r) == SaveSearchChunks(r) \/ SaveBreaksForeignKey(r)

Reindex(r) == FetchDirtyWorks(r) \/ EmbedPassages(r) \/ Save(r) \/ RunFails(r)

Next == Backend \/ (\E r \in Runs : Reindex(r)) \/ Restart

Spec == Init /\ [][Next]_vars

\* reindex_periodically calls run_reindex again and again, and each call runs
\* to its end; nobody promises to start a manual run or to edit a work.
FairSpec ==
    /\ Spec
    /\ WF_vars(FetchDirtyWorks(Periodic))
    /\ WF_vars(EmbedPassages(Periodic))
    /\ WF_vars(Save(Periodic))

-----------------------------------------------------------------------------
(* Properties *)

\* The index of a work is one saved version of it, whole: its chunks are those
\* build_chunks makes of a single text that is not newer than the work's, so
\* no chunk of an older text (a description since removed) survives a save.
ChunksAreOneVersion ==
    \A w \in works : chunks[w] # {} =>
        \E v \in 1..content[w].version, d \in BOOLEAN :
            chunks[w] = BuildChunks([version |-> v, described |-> d])

\* A work that is not marked for re-embedding is indexed with its current
\* text, unless it was edited while some run held it: the only way the
\* read-embed-save sequence can leave a stale index behind a clean flag.
CleanIsFreshUnlessOvertaken ==
    \A w \in works : ~dirty[w] /\ w \notin overtaken =>
        chunks[w] = BuildChunks(content[w])

\* search_dirty is documented as "target of re-embedding" (the comment on the
\* column in db/init/002_search.sql): a work indexed with an old text is one.
StaleIsDirty ==
    \A w \in works : dirty[w] \/ chunks[w] = BuildChunks(content[w])

\* Until it is deleted, a work that search can find stays findable: neither
\* an edit nor a run that fails half way takes its chunks away.
IndexedStaysSearchable ==
    [][\A w \in works : chunks[w] # {} /\ w \in works' => chunks'[w] # {}]_vars

\* Every work marked for re-embedding is re-embedded or deleted, although runs
\* fail, the service restarts and works are deleted under a running batch.
DirtyIsReindexed ==
    \A w \in Works : (w \in works /\ dirty[w]) ~> (w \notin works \/ ~dirty[w])
=============================================================================
