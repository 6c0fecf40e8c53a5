----------------------------- MODULE WorkBrowsing -----------------------------
(* What the public page fetches: the works themselves, once; the search hits *)
(* for what the visitor types, debounced and abandoned by the next key; the  *)
(* ranking, whenever the list is sorted by popularity.  Works are created    *)
(* and deleted on the server meanwhile.                                      *)
EXTENDS FiniteSets, Integers

CONSTANTS
    WorkIds,       \* ids of works
    Techs,         \* ids of tech stacks
    TechsOf,       \* the tech stacks of each work
    Queries,       \* trimmed search terms
    NoQuery,       \* the empty term
    MaxTyping,     \* bound on changes of the term
    MaxSorts,      \* bound on changes of the order
    MaxChanges     \* bound on works created or deleted

ASSUME BrowsingAssumption ==
    /\ IsFiniteSet(WorkIds)
    /\ TechsOf \in [WorkIds -> SUBSET Techs]
    /\ NoQuery \notin Queries
    /\ MaxTyping \in Nat /\ MaxSorts \in Nat /\ MaxChanges \in Nat

Sorts == {"newest", "oldest", "popular"}
Idle == [at |-> "idle"]

VARIABLES
    stored,      \* the works table
    changes,     \* works created or deleted so far
    works,       \* works of WorksContext
    worksFetch,  \* its fetch: asked, served with a reply, idle when over
    featured,    \* "asked", "shown" or "failed": the list of an empty search
    term,        \* searchTerm, trimmed
    requestId,   \* searchRequestIdRef
    requests,    \* searches waiting for their timer, sent, or aborted
    hitsFor,     \* the term hitWorks answers, NoQuery when cleared
    isSearching,
    sort,
    sorts,       \* changes of sort so far
    selectedTechs, \* selectedTechIds
    ranking,     \* rankingWorkIds
    rankFetch,   \* the fetch of the running effect
    isRankingLoading,
    rankingError,
    \* history variables
    failed,      \* the search for what is in the box has failed
    rankedFrom   \* the works table when the ranking shown was made

serverVars == <<stored, changes>>
worksVars == <<works, worksFetch, featured>>
searchVars == <<term, requestId, requests, hitsFor, isSearching, failed>>
rankVars == <<ranking, rankFetch, isRankingLoading, rankingError, rankedFrom>>
listVars == <<sort, sorts, selectedTechs>>
vars == <<serverVars, worksVars, searchVars, rankVars, listVars>>

Init ==
    /\ stored \in SUBSET WorkIds /\ changes = 0
    /\ works = {} /\ worksFetch = [at |-> "asked"] /\ featured = "asked"
    /\ term = NoQuery /\ requestId = 1 /\ requests = {}
    /\ hitsFor = NoQuery /\ isSearching = FALSE /\ failed = FALSE
    /\ sort = "newest" /\ sorts = 0 /\ selectedTechs = {}
    /\ ranking = {} /\ rankFetch = Idle
    /\ isRankingLoading = FALSE /\ rankingError = FALSE /\ rankedFrom = {}

-----------------------------------------------------------------------------
(* The server. *)

CreateWork(w) ==
    /\ changes < MaxChanges /\ w \notin stored
    /\ stored' = stored \union {w} /\ changes' = changes + 1
    /\ UNCHANGED <<worksVars, searchVars, rankVars, listVars>>

DeleteWork(w) ==
    /\ changes < MaxChanges /\ w \in stored
    /\ stored' = stored \ {w} /\ changes' = changes + 1
    /\ UNCHANGED <<worksVars, searchVars, rankVars, listVars>>

ServeWorks ==
    /\ worksFetch.at = "asked"
    /\ worksFetch' = [at |-> "served", reply |-> stored]
    /\ UNCHANGED <<serverVars, works, featured, searchVars, rankVars, listVars>>

\* handleGetWorksRanking: the most clicked works, any of them as clicks come in.
ServeRanking ==
    /\ rankFetch.at = "asked"
    /\ \E top \in SUBSET stored :
          /\ \/ Cardinality(top) = rankFetch.limit
             \/ top = stored /\ Cardinality(stored) < rankFetch.limit
          /\ rankFetch' = [at |-> "served", reply |-> top, from |-> stored]
    /\ UNCHANGED <<serverVars, worksVars, searchVars, listVars, ranking,
                   isRankingLoading, rankingError, rankedFrom>>

-----------------------------------------------------------------------------
(* useWorkListView: the effect on the order and the works.  It aborts the    *)
(* fetch of its last run, which then leaves no trace; isRankingLoading stays. *)

\* Mutant: one work too few is asked for.
LimitBelow(ws) == Cardinality(ws) - 1

RankingLimit(ws) == Cardinality(ws)

RankingEffect(s, ws) ==
    /\ IF s # "popular" \/ ws = {}
       THEN rankFetch' = Idle /\ UNCHANGED <<isRankingLoading, rankingError>>
       ELSE /\ rankFetch' = [at |-> "asked", limit |-> RankingLimit(ws)]
            /\ isRankingLoading' = TRUE
            /\ rankingError' = FALSE
    /\ UNCHANGED <<ranking, rankedFrom>>

SetSort(s) ==
    /\ sorts < MaxSorts /\ s # sort
    /\ sort' = s /\ sorts' = sorts + 1
    /\ RankingEffect(s, works)
    /\ UNCHANGED <<serverVars, worksVars, searchVars, selectedTechs>>

RankingArrives ==
    /\ rankFetch.at = "served"
    /\ ranking' = rankFetch.reply /\ rankedFrom' = rankFetch.from
    /\ rankFetch' = Idle /\ isRankingLoading' = FALSE
    /\ UNCHANGED <<serverVars, worksVars, searchVars, listVars, rankingError>>

RankingFails ==
    /\ rankFetch # Idle
    /\ rankingError' = TRUE
    /\ rankFetch' = Idle /\ isRankingLoading' = FALSE
    /\ UNCHANGED <<serverVars, worksVars, searchVars, listVars, ranking, rankedFrom>>

ToggleTech(t) ==
    /\ selectedTechs' = IF t \in selectedTechs THEN selectedTechs \ {t}
                                               ELSE selectedTechs \union {t}
    /\ UNCHANGED <<serverVars, worksVars, searchVars, rankVars, sort, sorts>>

ClearTechs ==
    /\ selectedTechs # {} /\ selectedTechs' = {}
    /\ UNCHANGED <<serverVars, worksVars, searchVars, rankVars, sort, sorts>>

FilteredWorks == {w \in works : selectedTechs \subseteq TechsOf[w]}

VisibleWorks == IF sort = "popular" THEN ranking \intersect FilteredWorks
                                    ELSE FilteredWorks

-----------------------------------------------------------------------------
(* The fetches of the first render. *)

WorksArrive ==
    /\ worksFetch.at = "served"
    /\ works' = worksFetch.reply /\ worksFetch' = Idle
    /\ IF works' = works THEN UNCHANGED rankVars ELSE RankingEffect(sort, works')
    /\ UNCHANGED <<serverVars, featured, searchVars, listVars>>

WorksFail ==
    /\ worksFetch # Idle
    /\ worksFetch' = Idle
    /\ UNCHANGED <<serverVars, works, featured, searchVars, rankVars, listVars>>

FeaturedEnds ==
    /\ featured = "asked"
    /\ featured' \in {"shown", "failed"}
    /\ UNCHANGED <<serverVars, works, worksFetch, searchVars, rankVars, listVars>>

-----------------------------------------------------------------------------
(* SearchWindow: the effect on the term. *)

\* The cleanup of the last run: a timer is cleared, a fetch aborted.
Abandoned == {[r EXCEPT !.at = "aborted"] : r \in {q \in requests : q.at # "waiting"}}

Type(t) ==
    /\ requestId <= MaxTyping
    /\ term' = t
    /\ requestId' = requestId + 1
    /\ failed' = FALSE
    /\ IF t = NoQuery
       THEN /\ hitsFor' = NoQuery /\ isSearching' = FALSE
            /\ requests' = Abandoned
       ELSE /\ isSearching' = TRUE
            /\ requests' = Abandoned
                  \union {[id |-> requestId', query |-> t, at |-> "waiting"]}
            /\ UNCHANGED hitsFor
    /\ UNCHANGED <<serverVars, worksVars, rankVars, listVars>>

DelayEnds(r) ==
    /\ r.at = "waiting"
    /\ requests' = (requests \ {r}) \union {[r EXCEPT !.at = "sent"]}
    /\ UNCHANGED <<serverVars, worksVars, term, requestId, hitsFor, isSearching,
                   failed, rankVars, listVars>>

\* Mutant: the finally block of an abandoned search ends the one that replaced it.
SettleAny(r) == requests' = requests \ {r} /\ isSearching' = FALSE

\* The finally block.
Settle(r) ==
    /\ requests' = requests \ {r}
    /\ isSearching' = (isSearching /\ r.id # requestId)

HitsArrive(r) ==
    /\ r.at = "sent"
    /\ hitsFor' = IF r.id = requestId THEN r.query ELSE hitsFor
    /\ Settle(r)
    /\ UNCHANGED <<serverVars, worksVars, term, requestId, failed, rankVars, listVars>>

\* Mutant: an error leaves the window searching.
FailSearching(r) ==
    /\ r.at = "sent"
    /\ requests' = requests \ {r} /\ failed' = TRUE
    /\ UNCHANGED <<serverVars, worksVars, term, requestId, hitsFor, isSearching,
                   rankVars, listVars>>

SearchFails(r) ==
    /\ r.at = "sent"
    /\ failed' = (failed \/ r.id = requestId)
    /\ Settle(r)
    /\ UNCHANGED <<serverVars, worksVars, term, requestId, hitsFor, rankVars, listVars>>

AbortEnds(r) ==
    /\ r.at = "aborted"
    /\ Settle(r)
    /\ UNCHANGED <<serverVars, worksVars, term, requestId, hitsFor, failed,
                   rankVars, listVars>>

-----------------------------------------------------------------------------
Server ==
    \/ \E w \in WorkIds : CreateWork(w) \/ DeleteWork(w)
    \/ ServeWorks \/ ServeRanking

List ==
    \/ WorksArrive \/ WorksFail \/ FeaturedEnds
    \/ \E s \in Sorts : SetSort(s)
    \/ RankingArrives \/ RankingFails
    \/ \E t \in Techs : ToggleTech(t)
    \/ ClearTechs

SearchGoesOn ==
    \E r \in requests : DelayEnds(r) \/ HitsArrive(r) \/ SearchFails(r) \/ AbortEnds(r)

Search == (\E t \in Queries \union {NoQuery} : Type(t)) \/ SearchGoesOn

Next == Server \/ List \/ Search

Spec == Init /\ [][Next]_vars

\* Timers fire and fetches end, with an answer or an error.
FairSpec == Spec /\ WF_vars(SearchGoesOn)

-----------------------------------------------------------------------------
(* Properties. *)

\* Types of all variables.
TypeOK ==
    /\ stored \subseteq WorkIds /\ changes \in 0 .. MaxChanges
    /\ works \subseteq WorkIds /\ ranking \subseteq WorkIds /\ rankedFrom \subseteq WorkIds
    /\ worksFetch \in {Idle, [at |-> "asked"]}
                        \union [at : {"served"}, reply : SUBSET WorkIds]
    /\ featured \in {"asked", "shown", "failed"}
    /\ term \in Queries \union {NoQuery} /\ hitsFor \in Queries \union {NoQuery}
    /\ requestId \in 1 .. MaxTyping + 1
    /\ requests \subseteq [id : 1 .. requestId, query : Queries,
                           at : {"waiting", "sent", "aborted"}]
    /\ isSearching \in BOOLEAN /\ failed \in BOOLEAN
    /\ sort \in Sorts /\ sorts \in 0 .. MaxSorts /\ selectedTechs \subseteq Techs
    /\ rankFetch \in {Idle} \union [at : {"asked"}, limit : 1 .. Cardinality(WorkIds)]
          \union [at : {"served"}, reply : SUBSET WorkIds, from : SUBSET WorkIds]
    /\ isRankingLoading \in BOOLEAN /\ rankingError \in BOOLEAN

\* When the window does not say it is searching, what it lists answers what is
\* in the box, however the keys, the timers and the answers of abandoned
\* searches are interleaved - unless the search for it has failed: then the
\* hits of an earlier term stay on the screen, without a word.
HitsAnswerTheTerm == ~isSearching => (hitsFor = term \/ failed)

\* A search that is under way ends.
SearchEnds == isSearching ~> ~isSearching

\* Sorting by popularity hides a loaded work that still exists only to the
\* extent that works unknown to the page took its place among as many as the
\* page asked for (limit=works.length, counted before the ranking is made).
HiddenByNewcomersOnly ==
    (sort = "popular" /\ rankFetch = Idle /\ ~rankingError)
        => Cardinality((FilteredWorks \intersect rankedFrom) \ VisibleWorks)
              <= Cardinality(rankedFrom \ works)
=============================================================================
