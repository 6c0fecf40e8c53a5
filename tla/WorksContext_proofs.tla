------------------------- MODULE WorksContext_proofs -------------------------
(* The public works page and the administrator's page, the two users of      *)
(* WorksContext: what is listed, ranked and found belongs to what is asked   *)
(* for now, and what was typed in a form survives refreshes.                 *)
EXTENDS WorkBrowsing, WorkConsole, FiniteSetTheorems, TLAPS

-----------------------------------------------------------------------------
(* The public works page *)

\* The search of the last run of the effect is for what is in the box, and only
\* those of earlier runs are abandoned.
SearchInv ==
    /\ \A r \in requests : r.id = requestId => r.query = term /\ r.at # "aborted"
    /\ HitsAnswerTheTerm

\* A ranking has as many works as the page asked for, or all there were.
Fits(top, from, ws) ==
    top \subseteq from /\ (top = from \/ Cardinality(top) = Cardinality(ws))

\* The ranking that was asked for, served or shown is for the works on the page:
\* when these change the effect runs again.
RankingInv ==
    /\ sort # "popular" => rankFetch = Idle
    /\ rankFetch # Idle => works # {}
    /\ rankFetch.at = "asked" => rankFetch.limit = Cardinality(works)
    /\ rankFetch.at = "served" => Fits(rankFetch.reply, rankFetch.from, works)
    /\ (sort = "popular" /\ rankFetch = Idle /\ ~rankingError /\ works # {})
          => Fits(ranking, rankedFrom, works)

BrowsingInv == TypeOK /\ SearchInv /\ RankingInv

\* Before the first fetch.
LEMMA BrowsingInitInv == Init => BrowsingInv
<1> SUFFICES ASSUME Init PROVE BrowsingInv
  OBVIOUS
<1> USE BrowsingAssumption DEF Init
<1>1. TypeOK
  <2>1. worksFetch \in {Idle, [at |-> "asked"]}
    OBVIOUS
  <2>2. rankFetch \in {Idle}
    OBVIOUS
  <2> HIDE DEF Init
  <2>3. requestId \in 1 .. MaxTyping + 1 /\ sorts \in 0 .. MaxSorts /\ changes \in 0 .. MaxChanges
    BY DEF Init
  <2>4. /\ stored \subseteq WorkIds /\ works \subseteq WorkIds /\ ranking \subseteq WorkIds
        /\ rankedFrom \subseteq WorkIds /\ selectedTechs \subseteq Techs /\ requests = {}
        /\ featured = "asked" /\ sort \in Sorts /\ term = NoQuery /\ hitsFor = NoQuery
        /\ isSearching \in BOOLEAN /\ failed \in BOOLEAN
        /\ isRankingLoading \in BOOLEAN /\ rankingError \in BOOLEAN
    BY DEF Init, Sorts
  <2> QED
    BY <2>1, <2>2, <2>3, <2>4 DEF TypeOK
<1>2. SearchInv
  BY DEF SearchInv, HitsAnswerTheTerm
<1>3. RankingInv
  BY DEF RankingInv, Idle
<1> QED
  BY <1>1, <1>2, <1>3 DEF BrowsingInv

\* Of finitely many works a set has at most as many.
LEMMA CountOfWorks ==
    ASSUME NEW ws \in SUBSET WorkIds
    PROVE  /\ IsFiniteSet(ws) /\ Cardinality(ws) \in 0 .. Cardinality(WorkIds)
           /\ ws # {} => Cardinality(ws) \in 1 .. Cardinality(WorkIds)
<1>1. IsFiniteSet(ws) /\ Cardinality(ws) <= Cardinality(WorkIds)
  BY FS_Subset, BrowsingAssumption
<1>2. Cardinality(ws) \in Nat /\ Cardinality(WorkIds) \in Nat
  BY <1>1, FS_CardinalityType, BrowsingAssumption
<1>3. ws # {} => Cardinality(ws) # 0
  BY <1>1, FS_EmptySet
<1> QED
  BY <1>1, <1>2, <1>3

\* The effect that fetches the ranking: what it asks for is for the works it
\* runs with; a ranking on the screen stays only where none is to be shown.
LEMMA EffectKeepsRanking ==
    ASSUME BrowsingInv, NEW s \in Sorts, NEW ws \in SUBSET WorkIds, RankingEffect(s, ws),
           sort' = s, works' = ws
    PROVE  /\ RankingInv'
           /\ rankFetch' \in {Idle} \union [at : {"asked"}, limit : 1 .. Cardinality(WorkIds)]
           /\ ranking' \subseteq WorkIds /\ rankedFrom' \subseteq WorkIds
           /\ isRankingLoading' \in BOOLEAN /\ rankingError' \in BOOLEAN
<1>1. /\ ranking' \subseteq WorkIds /\ rankedFrom' \subseteq WorkIds
      /\ isRankingLoading' \in BOOLEAN /\ rankingError' \in BOOLEAN
  BY DEF RankingEffect, BrowsingInv, TypeOK
<1>2. CASE s # "popular" \/ ws = {}
  <2>1. rankFetch' = Idle
    BY <1>2 DEF RankingEffect
  <2> QED
    BY <1>1, <1>2, <2>1 DEF RankingInv, Idle
<1>3. CASE ~(s # "popular" \/ ws = {})
  <2>1. rankFetch' = [at |-> "asked", limit |-> Cardinality(ws)]
    BY <1>3 DEF RankingEffect, RankingLimit
  <2>2. Cardinality(ws) \in 1 .. Cardinality(WorkIds)
    BY <1>3, CountOfWorks
  <2>3. rankFetch' \in [at : {"asked"}, limit : 1 .. Cardinality(WorkIds)]
    BY <2>1, <2>2
  <2>4. rankFetch'.at = "asked" /\ rankFetch'.limit = Cardinality(ws)
    BY <2>1
  <2>5. rankFetch' # Idle
    BY <2>4 DEF Idle
  <2> QED
    BY <1>1, <1>3, <2>3, <2>4, <2>5 DEF RankingInv
<1> QED
  BY <1>2, <1>3

\* Steps that touch neither the works, nor the order, nor the ranking.
LEMMA RankingUntouched ==
    ASSUME RankingInv, UNCHANGED <<works, sort, rankVars>>
    PROVE  RankingInv'
BY DEF RankingInv, rankVars

\* Steps that leave the search alone.
LEMMA SearchUntouched ==
    ASSUME SearchInv, UNCHANGED searchVars
    PROVE  SearchInv'
BY DEF SearchInv, HitsAnswerTheTerm, searchVars

\* The server's steps.
LEMMA ServerStep == ASSUME BrowsingInv, Server PROVE BrowsingInv'
<1> USE DEF serverVars, worksVars, searchVars, rankVars, listVars
<1>0. TypeOK /\ SearchInv /\ RankingInv
  BY DEF BrowsingInv
<1>1. ASSUME NEW w \in WorkIds, CreateWork(w) \/ DeleteWork(w) PROVE BrowsingInv'
  <2>1. stored' \subseteq WorkIds /\ changes' \in 0 .. MaxChanges
    BY <1>0, <1>1, BrowsingAssumption DEF CreateWork, DeleteWork, TypeOK
  <2>2. TypeOK'
    BY <1>0, <1>1, <2>1 DEF CreateWork, DeleteWork, TypeOK
  <2> QED
    BY <1>0, <1>1, <2>2, RankingUntouched, SearchUntouched DEF CreateWork, DeleteWork, BrowsingInv
<1>2. CASE ServeWorks
  <2>1. worksFetch' \in [at : {"served"}, reply : SUBSET WorkIds]
    BY <1>0, <1>2 DEF ServeWorks, TypeOK
  <2>2. TypeOK'
    BY <1>0, <1>2, <2>1 DEF ServeWorks, TypeOK
  <2> QED
    BY <1>0, <1>2, <2>2, RankingUntouched, SearchUntouched DEF ServeWorks, BrowsingInv
<1>3. CASE ServeRanking
  <2>1. PICK top \in SUBSET stored :
          /\ \/ Cardinality(top) = rankFetch.limit
             \/ top = stored
          /\ rankFetch' = [at |-> "served", reply |-> top, from |-> stored]
    BY <1>3 DEF ServeRanking
  <2>2. rankFetch' \in [at : {"served"}, reply : SUBSET WorkIds, from : SUBSET WorkIds]
    BY <1>0, <2>1 DEF TypeOK
  <2>3. TypeOK'
    BY <1>0, <1>3, <2>2 DEF ServeRanking, TypeOK
  <2>4. rankFetch # Idle /\ rankFetch.limit = Cardinality(works)
    BY <1>0, <1>3 DEF ServeRanking, RankingInv, Idle
  <2>5. /\ rankFetch'.at = "served" /\ rankFetch'.reply = top /\ rankFetch'.from = stored
        /\ rankFetch' # Idle
    BY <2>1 DEF Idle
  <2>6. RankingInv'
    BY <1>0, <1>3, <2>1, <2>4, <2>5 DEF ServeRanking, RankingInv, Fits
  <2> QED
    BY <1>0, <1>3, <2>3, <2>6, SearchUntouched DEF ServeRanking, BrowsingInv
<1> QED
  BY <1>1, <1>2, <1>3 DEF Server

\* The steps of the list: the first fetches, the order, the ranking, the filter.
LEMMA ListStep == ASSUME BrowsingInv, List PROVE BrowsingInv'
<1> USE DEF serverVars, worksVars, searchVars, rankVars, listVars
<1>0. TypeOK /\ SearchInv /\ RankingInv
  BY DEF BrowsingInv
<1>1. CASE WorksArrive
  <2>1. worksFetch.reply \in SUBSET WorkIds
    BY <1>0, <1>1 DEF WorksArrive, TypeOK, Idle
  <2>2. works' \in SUBSET WorkIds /\ worksFetch' = Idle
    BY <1>1, <2>1 DEF WorksArrive
  <2>3. CASE works' = works
    <3>1. UNCHANGED rankVars
      BY <1>1, <2>3 DEF WorksArrive
    <3>2. TypeOK'
      BY <1>0, <1>1, <2>2, <3>1 DEF WorksArrive, TypeOK
    <3> QED
      BY <1>0, <1>1, <2>3, <3>1, <3>2, RankingUntouched, SearchUntouched
         DEF WorksArrive, BrowsingInv
  <2>4. CASE works' # works
    <3>1. RankingEffect(sort, works') /\ sort \in Sorts /\ sort' = sort
      BY <1>0, <1>1, <2>4 DEF WorksArrive, TypeOK
    <3> DEFINE ws == works'
    <3>2. ws \in SUBSET WorkIds /\ RankingEffect(sort, ws)
      BY <2>2, <3>1
    <3> HIDE DEF ws
    <3>3. works' = ws
      BY DEF ws
    <3>4. /\ RankingInv'
          /\ rankFetch' \in {Idle} \union [at : {"asked"}, limit : 1 .. Cardinality(WorkIds)]
          /\ ranking' \subseteq WorkIds /\ rankedFrom' \subseteq WorkIds
          /\ isRankingLoading' \in BOOLEAN /\ rankingError' \in BOOLEAN
      BY <3>1, <3>2, <3>3, EffectKeepsRanking
    <3>5. TypeOK'
      BY <1>0, <1>1, <2>2, <3>4 DEF WorksArrive, TypeOK
    <3> QED
      BY <1>0, <1>1, <3>4, <3>5, SearchUntouched DEF WorksArrive, BrowsingInv
  <2> QED
    BY <2>3, <2>4
<1>2. CASE WorksFail \/ FeaturedEnds
  <2>1. TypeOK'
    BY <1>0, <1>2 DEF WorksFail, FeaturedEnds, TypeOK
  <2> QED
    BY <1>0, <1>2, <2>1, RankingUntouched, SearchUntouched DEF WorksFail, FeaturedEnds, BrowsingInv
<1>3. ASSUME NEW s \in Sorts, SetSort(s) PROVE BrowsingInv'
  <2>1. /\ works \in SUBSET WorkIds /\ works' = works /\ sort' = s /\ RankingEffect(s, works)
        /\ sorts' \in 0 .. MaxSorts
    BY <1>0, <1>3, BrowsingAssumption DEF SetSort, TypeOK
  <2>2. /\ RankingInv'
        /\ rankFetch' \in {Idle} \union [at : {"asked"}, limit : 1 .. Cardinality(WorkIds)]
        /\ ranking' \subseteq WorkIds /\ rankedFrom' \subseteq WorkIds
        /\ isRankingLoading' \in BOOLEAN /\ rankingError' \in BOOLEAN
    BY <2>1, EffectKeepsRanking
  <2>3. TypeOK'
    BY <1>0, <1>3, <2>1, <2>2 DEF SetSort, TypeOK
  <2> QED
    BY <1>0, <1>3, <2>2, <2>3, SearchUntouched DEF SetSort, BrowsingInv
<1>4. CASE RankingArrives
  <2>1. rankFetch \in [at : {"served"}, reply : SUBSET WorkIds, from : SUBSET WorkIds]
    BY <1>0, <1>4 DEF RankingArrives, TypeOK, Idle
  <2>2. TypeOK'
    BY <1>0, <1>4, <2>1 DEF RankingArrives, TypeOK
  <2>3. rankFetch'.at # "asked" /\ rankFetch'.at # "served"
    BY <1>4 DEF RankingArrives, Idle
  <2>4. RankingInv'
    BY <1>0, <1>4, <2>3 DEF RankingArrives, RankingInv
  <2> QED
    BY <1>0, <1>4, <2>2, <2>4, SearchUntouched DEF RankingArrives, BrowsingInv
<1>5. CASE RankingFails
  <2>1. TypeOK'
    BY <1>0, <1>5 DEF RankingFails, TypeOK
  <2>2. rankFetch'.at # "asked" /\ rankFetch'.at # "served"
    BY <1>5 DEF RankingFails, Idle
  <2>3. RankingInv'
    BY <1>0, <1>5, <2>2 DEF RankingFails, RankingInv
  <2> QED
    BY <1>0, <1>5, <2>1, <2>3, SearchUntouched DEF RankingFails, BrowsingInv
<1>6. ASSUME (\E t \in Techs : ToggleTech(t)) \/ ClearTechs PROVE BrowsingInv'
  <2>1. TypeOK'
    BY <1>0, <1>6 DEF ToggleTech, ClearTechs, TypeOK
  <2> QED
    BY <1>0, <1>6, <2>1, RankingUntouched, SearchUntouched DEF ToggleTech, ClearTechs, BrowsingInv
<1> QED
  BY <1>1, <1>2, <1>3, <1>4, <1>5, <1>6 DEF List

\* The search effect and the ends of its fetches.  A key abandons what was sent
\* under an older number, so only the last search can end the searching.
LEMMA SearchStep == ASSUME BrowsingInv, Search PROVE BrowsingInv'
<1> USE DEF serverVars, worksVars, rankVars, listVars
<1>0. /\ TypeOK /\ SearchInv /\ RankingInv
      /\ requestId \in Nat /\ MaxTyping \in Nat
  BY BrowsingAssumption DEF BrowsingInv, TypeOK
<1>1. ASSUME UNCHANGED <<serverVars, worksVars, rankVars, listVars>>,
             term' \in Queries \union {NoQuery}, hitsFor' \in Queries \union {NoQuery},
             requestId' \in 1 .. MaxTyping + 1,
             requests' \subseteq [id : 1 .. requestId', query : Queries,
                                  at : {"waiting", "sent", "aborted"}],
             isSearching' \in BOOLEAN, failed' \in BOOLEAN, SearchInv'
      PROVE  BrowsingInv'
  <2>1. TypeOK'
    BY <1>0, <1>1 DEF TypeOK
  <2> QED
    BY <1>0, <1>1, <2>1, RankingUntouched DEF BrowsingInv
<1>2. ASSUME NEW t \in Queries \union {NoQuery}, Type(t) PROVE BrowsingInv'
  <2>1. /\ requestId' = requestId + 1 /\ requestId' \in 1 .. MaxTyping + 1 /\ term' = t
        /\ failed' = FALSE /\ hitsFor' \in Queries \union {NoQuery} /\ isSearching' \in BOOLEAN
    <3>1. /\ requestId' = requestId + 1 /\ requestId <= MaxTyping /\ term' = t
          /\ failed' = FALSE /\ hitsFor' \in {NoQuery, hitsFor} /\ isSearching' \in {TRUE, FALSE}
      BY <1>2 DEF Type
    <3>2. hitsFor \in Queries \union {NoQuery} /\ requestId \in 1 .. MaxTyping + 1
      BY <1>0 DEF TypeOK
    <3>3. requestId + 1 \in 1 .. MaxTyping + 1
      BY <1>0, <3>1, <3>2
    <3> QED
      BY <3>1, <3>2, <3>3
  <2>2. \A r \in Abandoned :
           /\ r \in [id : 1 .. requestId, query : Queries, at : {"aborted"}]
           /\ r.id # requestId' /\ r \in [id : 1 .. requestId', query : Queries,
                                          at : {"waiting", "sent", "aborted"}]
    <3>1. \A q \in requests :
             [q EXCEPT !.at = "aborted"] \in [id : 1 .. requestId, query : Queries, at : {"aborted"}]
      BY <1>0 DEF TypeOK
    <3>2. \A r \in Abandoned : r \in [id : 1 .. requestId, query : Queries, at : {"aborted"}]
      BY <3>1 DEF Abandoned
    <3> QED
      BY <1>0, <2>1, <3>2
  <2>3. CASE t = NoQuery
    <3>1. requests' = Abandoned /\ hitsFor' = NoQuery
      BY <1>2, <2>3 DEF Type
    <3>2. SearchInv'
      BY <2>1, <2>2, <2>3, <3>1 DEF SearchInv, HitsAnswerTheTerm
    <3> QED
      BY <1>1, <1>2, <2>1, <2>2, <3>1, <3>2 DEF Type
  <2>4. CASE t # NoQuery
    <3> DEFINE new == [id |-> requestId', query |-> t, at |-> "waiting"]
    <3>1. requests' = Abandoned \union {new} /\ isSearching' = TRUE
      BY <1>2, <2>4 DEF Type
    <3>2. /\ new \in [id : 1 .. requestId', query : Queries, at : {"waiting", "sent", "aborted"}]
          /\ new.query = t /\ new.at = "waiting"
      BY <1>0, <2>1, <2>4
    <3>3. SearchInv'
      BY <2>1, <2>2, <3>1, <3>2 DEF SearchInv, HitsAnswerTheTerm
    <3> QED
      BY <1>1, <1>2, <2>1, <2>2, <3>1, <3>2, <3>3 DEF Type
  <2> QED
    BY <2>3, <2>4
<1>3. ASSUME NEW r \in requests, DelayEnds(r) PROVE BrowsingInv'
  <2> DEFINE sent == [r EXCEPT !.at = "sent"]
  <2>1. r \in [id : 1 .. requestId, query : Queries, at : {"waiting", "sent", "aborted"}]
    BY <1>0 DEF TypeOK
  <2>2. /\ sent \in [id : 1 .. requestId, query : Queries, at : {"waiting", "sent", "aborted"}]
        /\ sent.id = r.id /\ sent.query = r.query /\ sent.at = "sent"
    BY <2>1
  <2> HIDE DEF sent
  <2>3. /\ requests' = (requests \ {r}) \union {sent}
        /\ UNCHANGED <<term, requestId, hitsFor, isSearching, failed>>
    BY <1>3 DEF DelayEnds, sent
  <2>4. SearchInv'
    BY <1>0, <2>2, <2>3 DEF SearchInv, HitsAnswerTheTerm
  <2>5. requests' \subseteq [id : 1 .. requestId', query : Queries,
                             at : {"waiting", "sent", "aborted"}]
    BY <1>0, <2>2, <2>3 DEF TypeOK
  <2>6. /\ term' \in Queries \union {NoQuery} /\ hitsFor' \in Queries \union {NoQuery}
        /\ requestId' \in 1 .. MaxTyping + 1 /\ isSearching' \in BOOLEAN /\ failed' \in BOOLEAN
    BY <1>0, <2>3 DEF TypeOK
  <2> QED
    BY <1>1, <1>3, <2>4, <2>5, <2>6 DEF DelayEnds
<1>4. ASSUME NEW r \in requests, HitsArrive(r) \/ SearchFails(r) \/ AbortEnds(r)
      PROVE  BrowsingInv'
  <2>1. /\ requests' = requests \ {r} /\ term' = term /\ requestId' = requestId
        /\ isSearching' = (isSearching /\ r.id # requestId)
    BY <1>4 DEF HitsArrive, SearchFails, AbortEnds, Settle
  <2>2. r.query \in Queries /\ isSearching \in BOOLEAN
    BY <1>0 DEF TypeOK
  <2>3. /\ term' \in Queries \union {NoQuery} /\ hitsFor' \in Queries \union {NoQuery}
        /\ requestId' \in 1 .. MaxTyping + 1 /\ failed' \in BOOLEAN /\ isSearching' \in BOOLEAN
        /\ requests' \subseteq [id : 1 .. requestId', query : Queries,
                                at : {"waiting", "sent", "aborted"}]
    BY <1>0, <1>4, <2>1, <2>2 DEF TypeOK, HitsArrive, SearchFails, AbortEnds
  <2>4. SearchInv'
    <3>1. \A q \in requests' : q.id = requestId' => q.query = term' /\ q.at # "aborted"
      BY <1>0, <2>1 DEF SearchInv
    <3>2. r.id = requestId => r.query = term /\ r.at # "aborted"
      BY <1>0 DEF SearchInv
    <3>3. ~isSearching' => (hitsFor' = term' \/ failed')
      <4>1. CASE ~isSearching
        <5>1. hitsFor = term \/ failed
          BY <1>0, <4>1 DEF SearchInv, HitsAnswerTheTerm
        <5>2. CASE HitsArrive(r)
          BY <2>1, <3>2, <5>1, <5>2 DEF HitsArrive
        <5>3. CASE SearchFails(r)
          BY <2>1, <5>1, <5>3 DEF SearchFails
        <5>4. CASE AbortEnds(r)
          BY <2>1, <5>1, <5>4 DEF AbortEnds
        <5> QED
          BY <1>4, <5>2, <5>3, <5>4
      <4>2. CASE isSearching /\ r.id = requestId
        BY <1>4, <2>1, <3>2, <4>2 DEF HitsArrive, SearchFails, AbortEnds
      <4>3. CASE isSearching /\ r.id # requestId
        BY <2>1, <4>3
      <4> QED
        BY <4>1, <4>2, <4>3
    <3> QED
      BY <3>1, <3>3 DEF SearchInv, HitsAnswerTheTerm
  <2> QED
    BY <1>1, <1>4, <2>3, <2>4 DEF HitsArrive, SearchFails, AbortEnds
<1> QED
  BY <1>2, <1>3, <1>4 DEF Search, SearchGoesOn

\* Every step of the page and the server keeps the invariant.
LEMMA BrowsingNextInv == BrowsingInv /\ [Next]_vars => BrowsingInv'
<1> SUFFICES ASSUME BrowsingInv, [Next]_vars PROVE BrowsingInv'
  OBVIOUS
<1>1. CASE UNCHANGED vars
  <2>1. TypeOK'
    BY <1>1 DEF vars, serverVars, worksVars, searchVars, rankVars, listVars, BrowsingInv, TypeOK
  <2> QED
    BY <1>1, <2>1, RankingUntouched, SearchUntouched
       DEF BrowsingInv, vars, worksVars, listVars
<1> QED
  BY <1>1, ServerStep, ListStep, SearchStep DEF Next

\* The invariant holds in every state of the public page.
THEOREM BrowsingInvariant == Spec => []BrowsingInv
BY BrowsingInitInv, BrowsingNextInv, PTL DEF Spec

\* Every variable of the public page keeps its type.
THEOREM BrowsingTypeCorrect == Spec => []TypeOK
<1>1. BrowsingInv => TypeOK
  BY DEF BrowsingInv
<1> QED
  BY <1>1, BrowsingInvariant, PTL

\* The search window: with no search under way the hits answer what is in the
\* box, unless its search has failed.
THEOREM HitsAreForTheTerm == Spec => []HitsAnswerTheTerm
<1>1. BrowsingInv => HitsAnswerTheTerm
  BY DEF BrowsingInv, SearchInv
<1> QED
  BY <1>1, BrowsingInvariant, PTL

\* Counting: of sets from, page and top with as many in top as in page, from
\* has at most as many on the page beside top as it has off the page.
LEMMA AsManyHidden ==
    ASSUME NEW from \in SUBSET WorkIds, NEW page \in SUBSET WorkIds, NEW top \in SUBSET from,
           Cardinality(top) = Cardinality(page)
    PROVE  Cardinality((page \intersect from) \ top) <= Cardinality(from \ page)
<1> DEFINE both == page \intersect top
           hidden == (page \intersect from) \ top
           newcomers == top \ page
<1>1. IsFiniteSet(page) /\ IsFiniteSet(top) /\ IsFiniteSet(from)
  BY CountOfWorks, FS_Subset
<1>2. /\ IsFiniteSet(both) /\ IsFiniteSet(hidden) /\ IsFiniteSet(newcomers)
      /\ IsFiniteSet(from \ page) /\ IsFiniteSet(both \union hidden)
  BY <1>1, FS_Subset, FS_Union
<1>3. Cardinality(both \union hidden) <= Cardinality(page)
  <2>1. both \union hidden \subseteq page
    OBVIOUS
  <2> QED
    BY <1>1, <2>1, FS_Subset
<1>4. Cardinality(both \union hidden) = Cardinality(both) + Cardinality(hidden)
  <2>1. both \intersect hidden = {}
    OBVIOUS
  <2>2. Cardinality(both \union hidden)
          = Cardinality(both) + Cardinality(hidden) - Cardinality(both \intersect hidden)
    BY <1>2, FS_Union
  <2>3. Cardinality(both \intersect hidden) = 0
    BY <2>1, FS_EmptySet
  <2>4. Cardinality(both) \in Nat /\ Cardinality(hidden) \in Nat
    BY <1>2, FS_CardinalityType
  <2> HIDE DEF both, hidden
  <2> QED
    BY <2>1, <2>2, <2>3, <2>4
<1>5. Cardinality(top) = Cardinality(both) + Cardinality(newcomers)
  <2>1. both \intersect newcomers = {} /\ both \union newcomers = top
    OBVIOUS
  <2>2. Cardinality(both \union newcomers)
          = Cardinality(both) + Cardinality(newcomers) - Cardinality(both \intersect newcomers)
    BY <1>2, FS_Union
  <2>3. Cardinality(both \intersect newcomers) = 0
    BY <2>1, FS_EmptySet
  <2>4. Cardinality(both) \in Nat /\ Cardinality(newcomers) \in Nat
    BY <1>2, FS_CardinalityType
  <2>5. Cardinality(both \union newcomers) = Cardinality(top)
    BY <2>1
  <2> HIDE DEF both, newcomers
  <2> QED
    BY <2>2, <2>3, <2>4, <2>5
<1>6. Cardinality(newcomers) <= Cardinality(from \ page)
  <2>1. newcomers \subseteq from \ page
    OBVIOUS
  <2> QED
    BY <1>2, <2>1, FS_Subset
<1>7. /\ Cardinality(both) \in Nat /\ Cardinality(hidden) \in Nat
      /\ Cardinality(newcomers) \in Nat /\ Cardinality(from \ page) \in Nat
      /\ Cardinality(page) \in Nat
  BY <1>1, <1>2, FS_CardinalityType
<1> HIDE DEF both, hidden, newcomers
<1>8. Cardinality(hidden) <= Cardinality(from \ page)
  BY <1>3, <1>4, <1>5, <1>6, <1>7
<1> QED
  BY <1>8 DEF hidden

\* handleGetWorksRanking with limit = works.length: a loaded work is missing
\* from the ranking only for a work the page does not know.
THEOREM OnlyNewcomersHide == Spec => []HiddenByNewcomersOnly
<1>1. BrowsingInv => HiddenByNewcomersOnly
  <2> SUFFICES ASSUME BrowsingInv, sort = "popular", rankFetch = Idle, ~rankingError
               PROVE  Cardinality((FilteredWorks \intersect rankedFrom) \ VisibleWorks)
                        <= Cardinality(rankedFrom \ works)
    BY DEF HiddenByNewcomersOnly
  <2> DEFINE missing == (FilteredWorks \intersect rankedFrom) \ VisibleWorks
             hidden == (works \intersect rankedFrom) \ ranking
  <2>1. works \in SUBSET WorkIds /\ rankedFrom \in SUBSET WorkIds
    BY DEF BrowsingInv, TypeOK
  <2>2. /\ IsFiniteSet(rankedFrom \ works) /\ Cardinality(rankedFrom \ works) \in Nat
        /\ IsFiniteSet(hidden)
    <3>1. rankedFrom \ works \in SUBSET WorkIds /\ hidden \in SUBSET WorkIds
      BY <2>1
    <3> QED
      BY <3>1, CountOfWorks
  <2>3. missing \subseteq hidden
    BY DEF VisibleWorks, FilteredWorks
  <2>4. Cardinality(missing) <= Cardinality(hidden) /\ Cardinality(hidden) \in Nat
        /\ Cardinality(missing) \in Nat
    BY <2>2, <2>3, FS_Subset, FS_CardinalityType
  <2>5. Cardinality(hidden) <= Cardinality(rankedFrom \ works)
    <3>1. CASE works = {} \/ ranking = rankedFrom
      <4>1. hidden = {}
        BY <3>1
      <4> QED
        BY <2>2, <4>1, FS_EmptySet
    <3>2. CASE works # {} /\ ranking # rankedFrom
      <4>1. ranking \in SUBSET rankedFrom /\ Cardinality(ranking) = Cardinality(works)
        BY <3>2 DEF BrowsingInv, RankingInv, Fits
      <4> QED
        BY <2>1, <4>1, AsManyHidden
    <3> QED
      BY <3>1, <3>2
  <2> HIDE DEF missing, hidden
  <2>6. Cardinality(missing) <= Cardinality(rankedFrom \ works)
    BY <2>2, <2>4, <2>5
  <2> QED
    BY <2>6 DEF missing
<1> QED
  BY <1>1, BrowsingInvariant, PTL

-----------------------------------------------------------------------------
(* The administrator's page *)

\* What is stored and listed.
TableTypes ==
    /\ imgs \subseteq uploaded /\ uploaded \subseteq Images /\ shown \subseteq Images
    /\ rows \in [Works -> Value \union {None}]
    /\ list \in [Works -> Value \union {None}]
    /\ error \in [Contexts -> BOOLEAN] /\ crossed \in [Contexts -> BOOLEAN]
    /\ status \in [Images -> {"none", "uploading", "success", "error"}]

\* Refreshes have the numbers given out so far, each one of its own.
AskTypes ==
    /\ asked \in Nat /\ newest \in [Contexts -> 0 .. asked] /\ unseen \in 0 .. asked
    /\ \A r \in asks :
         /\ r.id \in 1 .. asked /\ r.of \in Contexts /\ r.at \in {"asked", "served"}
         /\ r.at = "served" => IF r.of = "works" THEN r.reply \in [Works -> Value \union {None}]
                                                 ELSE r.reply \subseteq Images
    /\ \A q, r \in asks : q.id = r.id => q = r

Forms == [mount : Nat, work : Works, base : Value, text : Texts,
          thumb : Images \union {None}, box : Images \union {None}]

\* The form is the one mounted last, of the work being edited, and its fields
\* were reset by the values listed now.
FormTypes ==
    /\ mounts \in Nat /\ editing \in Works \union {None}
    /\ form \in Forms \union {None}
    /\ form # None => /\ form.work = editing /\ form.mount = mounts
                      /\ form.base = list[form.work]

Saved(r) == r.then # None /\ r.then.what = "saved"

Saves == [mount : Nat, work : Works, value : Value, at : {"sent", "stored"}]

Deletes == [id : Nat, work : Works, editing : Works \union {None},
            at : {"sent", "found", "gone"}]

\* A form is submitting for one save, or for the one refresh that follows it.
SubmissionInv ==
    /\ submitting \subseteq 0 .. mounts
    /\ saves \subseteq Saves
    /\ \A s \in saves : s.mount \in submitting /\ s.value.thumb # None
    /\ \A s, t \in saves : s.mount = t.mount => s = t
    /\ \A r \in asks : Saved(r) => /\ r.then.mount \in submitting
                                  /\ \A s \in saves : s.mount # r.then.mount
    /\ \A q, r \in asks : Saved(q) /\ Saved(r) /\ q.then.mount = r.then.mount => q = r

DeletionTypes ==
    /\ operations \in 0 .. MaxOperations
    /\ deleting \in Works \union {None}
    /\ deletes \subseteq Deletes

\* What the answer of a refresh shows is what there is: the works, unless they
\* were changed by others since it was asked for or a change is unanswered.
Current(context, id, reply) ==
    IF context = "works" THEN id <= unseen \/ Unanswered \/ reply = rows
    ELSE \A i \in imgs : status[i] = "success" => i \in reply

ListOf(context) == IF context = "works" THEN list ELSE shown

\* The refresh asked for last shows what there is, or will.
PendingIsCurrent(c, r) ==
    /\ r \in asks /\ r.of = c /\ newest[c] <= r.id
    /\ r.at = "served" => Current(c, r.id, r.reply)
    /\ \A q \in asks : q.of = c => q.id <= r.id

\* Its answer is on the screen, or was followed by that of an earlier one.
AppliedIsCurrent(c) ==
    /\ \A q \in asks : q.of = c => q.id < newest[c]
    /\ crossed[c] \/ Current(c, newest[c], ListOf(c))

LastIsCurrent(c) == error[c] \/ (\E r \in asks : PendingIsCurrent(c, r)) \/ AppliedIsCurrent(c)

ConsoleInv ==
    /\ TableTypes
    /\ AskTypes
    /\ FormTypes
    /\ SubmissionInv
    /\ DeletionTypes
    /\ \A c \in Contexts : LastIsCurrent(c)

\* The page is opened: both lists are asked for.
LEMMA ConsoleInitInv == ConsoleInit => ConsoleInv
<1> SUFFICES ASSUME ConsoleInit PROVE ConsoleInv
  OBVIOUS
<1> USE ConsoleAssumption DEF ConsoleInit, Contexts
<1>1. TableTypes
  <2>1. AnyOf(imgs) \in Images \union {None}
    BY DEF AnyOf
  <2>2. [text |-> FirstText, thumb |-> AnyOf(imgs)] \in Value
    BY <2>1 DEF Value
  <2>3. rows \in [Works -> Value \union {None}]
    BY <2>2
  <2> QED
    BY <2>3 DEF TableTypes
<1>2. AskTypes
  BY DEF AskTypes
<1>3. FormTypes /\ DeletionTypes
  BY DEF FormTypes, DeletionTypes
<1>5. SubmissionInv
  <2>1. \A r \in asks : ~Saved(r)
    BY DEF Saved
  <2> QED
    BY <2>1 DEF SubmissionInv
<1>4. ASSUME NEW c \in Contexts PROVE LastIsCurrent(c)
  <2>1. PICK r \in asks : r.of = c /\ r.at = "asked" /\ \A q \in asks : q.of = c => q = r
    BY <1>4
  <2>2. r.id \in {1, 2} /\ newest[c] = 0
    OBVIOUS
  <2> QED
    BY <2>1, <2>2 DEF LastIsCurrent, PendingIsCurrent
<1> QED
  BY <1>1, <1>2, <1>3, <1>4, <1>5 DEF ConsoleInv

-----------------------------------------------------------------------------
(* What the parts of the handlers do *)

\* A render: no form, the one there was, or a new one; one that stays with the
\* values it had keeps what was typed in it.
LEMMA Rendered ==
    ASSUME FormTypes, NEW ed \in Works \union {None},
           NEW ls \in [Works -> Value \union {None}], Render(ed, ls), list' = ls
    PROVE  /\ FormTypes'
           /\ mounts <= mounts' /\ mounts \in Nat /\ mounts' \in Nat
           /\ (/\ form # None /\ form' # None /\ form'.mount = form.mount
               /\ ls[form.work] = list[form.work]) => form' = form
<1>0. editing' = ed /\ mounts \in Nat
  BY DEF Render, FormTypes
<1>1. CASE ed = None \/ (ed # None /\ ls[ed] = None)
  <2>1. form' = None /\ mounts' = mounts
    BY <1>1 DEF Render
  <2> QED
    BY <1>0, <2>1 DEF FormTypes
<1>2. CASE ~(ed = None \/ (ed # None /\ ls[ed] = None))
  <2>0. ed \in Works /\ ls[ed] \in Value
    BY <1>2
  <2> DEFINE v == ls[ed]
  <2>1. /\ v \in Value /\ v.text \in Texts /\ v.thumb \in Images \union {None}
    BY <2>0 DEF Value
  <2> HIDE DEF v
  <2>2. CASE form # None /\ form.work = ed
    <3>1. form' = Reset(v) /\ form \in Forms /\ form.mount = mounts
      BY <1>2, <2>2 DEF Render, FormTypes, v
    <3>2. CASE form.base = v
      <4>1. form' = form
        BY <3>1, <3>2 DEF Reset
      <4>2. mounts' = mounts
        BY <2>2, <4>1 DEF Render
      <4> QED
        BY <1>0, <2>2, <3>1, <3>2, <4>1, <4>2 DEF FormTypes, v
    <3>3. CASE form.base # v
      <4>1. form' = [form EXCEPT !.base = v, !.text = v.text, !.thumb = v.thumb]
        BY <3>1, <3>3 DEF Reset
      <4>2. /\ form' \in Forms /\ form'.mount = form.mount /\ form'.work = form.work
            /\ form'.base = v
        BY <2>1, <3>1, <4>1 DEF Forms
      <4>3. mounts' = mounts
        BY <2>2, <4>2 DEF Render
      <4>4. form.base = list[form.work]
        BY <2>2 DEF FormTypes
      <4> QED
        BY <1>0, <2>2, <3>1, <3>3, <4>2, <4>3, <4>4 DEF FormTypes, v
    <3> QED
      BY <3>2, <3>3
  <2>3. CASE ~(form # None /\ form.work = ed)
    <3>1. form' = Mount(ed, v)
      BY <1>2, <2>3 DEF Render, v
    <3>2. /\ form' \in Forms /\ form'.mount = mounts + 1 /\ form'.work = ed /\ form'.base = v
      BY <1>0, <2>0, <2>1, <3>1 DEF Mount, Forms
    <3>3. form # None => form.mount = mounts
      BY DEF FormTypes
    <3>4. mounts' = IF form' # None THEN mounts + 1 ELSE mounts
      BY <1>0, <3>2, <3>3 DEF Render
    <3> QED
      BY <1>0, <3>2, <3>3, <3>4 DEF FormTypes, v
  <2> QED
    BY <2>2, <2>3
<1> QED
  BY <1>1, <1>2

\* What is current stays so if the works change only by what is unanswered, or
\* by what is marked as seen by no refresh yet.
LEMMA CurrentKept ==
    ASSUME AskTypes,
           \/ unseen' = asked
           \/ unseen' = unseen /\ (Unanswered => Unanswered') /\ (rows' = rows \/ Unanswered'),
           \A i \in imgs' : status'[i] = "success" => i \in imgs /\ status[i] = "success",
           NEW c \in Contexts, NEW id \in 0 .. asked, NEW reply, Current(c, id, reply)
    PROVE  IF c = "works" THEN id <= unseen' \/ Unanswered' \/ reply = rows'
           ELSE \A i \in imgs' : status'[i] = "success" => i \in reply
<1>1. CASE c = "works"
  BY <1>1 DEF Current, AskTypes
<1>2. CASE c # "works"
  BY <1>2 DEF Current
<1> QED
  BY <1>1, <1>2

\* Then nothing is asked for or answered.
LEMMA LastKept ==
    ASSUME AskTypes, \A c \in Contexts : LastIsCurrent(c),
           \/ unseen' = asked
           \/ unseen' = unseen /\ (Unanswered => Unanswered') /\ (rows' = rows \/ Unanswered'),
           \A i \in imgs' : status'[i] = "success" => i \in imgs /\ status[i] = "success",
           UNCHANGED contextVars
    PROVE  \A c \in Contexts : LastIsCurrent(c)'
<1> SUFFICES ASSUME NEW c \in Contexts PROVE LastIsCurrent(c)'
  OBVIOUS
<1>1. UNCHANGED <<list, shown, error, asks, newest, crossed>>
  BY DEF contextVars
<1>2. ASSUME NEW id \in 0 .. asked, NEW reply, Current(c, id, reply)
      PROVE  IF c = "works" THEN id <= unseen' \/ Unanswered' \/ reply = rows'
             ELSE \A i \in imgs' : status'[i] = "success" => i \in reply
  BY <1>2, CurrentKept
<1>3. LastIsCurrent(c)
  OBVIOUS
<1>4. CASE error[c]
  BY <1>1, <1>4 DEF LastIsCurrent
<1>5. ASSUME NEW r \in asks, PendingIsCurrent(c, r) PROVE LastIsCurrent(c)'
  <2>1. r.id \in 0 .. asked
    BY DEF AskTypes
  <2>2. r.at = "served" => IF c = "works" THEN r.id <= unseen' \/ Unanswered' \/ r.reply = rows'
                           ELSE \A i \in imgs' : status'[i] = "success" => i \in r.reply
    BY <1>2, <1>5, <2>1 DEF PendingIsCurrent
  <2> QED
    BY <1>1, <1>5, <2>2 DEF LastIsCurrent, PendingIsCurrent, Current
<1>6. CASE AppliedIsCurrent(c)
  <2>1. newest[c] \in 0 .. asked
    BY DEF AskTypes
  <2>2. crossed[c] \/ IF c = "works" THEN newest[c] <= unseen' \/ Unanswered' \/ ListOf(c) = rows'
                      ELSE \A i \in imgs' : status'[i] = "success" => i \in ListOf(c)
    BY <1>2, <1>6, <2>1 DEF AppliedIsCurrent
  <2> QED
    BY <1>1, <1>6, <2>2 DEF LastIsCurrent, AppliedIsCurrent, Current, ListOf
<1> QED
  BY <1>3, <1>4, <1>5, <1>6 DEF LastIsCurrent

\* A refresh asked for now will show what has changed; of the other context, for
\* which nothing is asked, nothing changes.
LEMMA LastAsked ==
    ASSUME ConsoleInv, NEW c \in Contexts, NEW then, asks' = asks \union Ask(c, then),
           asked' = asked + 1, error' = [error EXCEPT ![c] = FALSE],
           UNCHANGED <<tableVars, list, shown, newest, crossed, unseen>>,
           c = "images" => UNCHANGED <<saves, deletes>>,
           c = "works" => status' = status
    PROVE  AskTypes' /\ \A d \in Contexts : LastIsCurrent(d)'
<1> DEFINE new == [id |-> asked + 1, of |-> c, at |-> "asked", then |-> then]
<1>1. /\ asks' = asks \union {new} /\ new.id = asked + 1 /\ new.of = c /\ new.at = "asked"
  BY DEF Ask
<1> HIDE DEF new
<1>2. asked \in Nat /\ newest \in [Contexts -> 0 .. asked] /\ AskTypes
  BY DEF ConsoleInv, AskTypes
<1>3. \A r \in asks : r.id \in 1 .. asked
  BY <1>2 DEF AskTypes
<1>4. AskTypes'
  <2>1. newest' \in [Contexts -> 0 .. asked'] /\ unseen' \in 0 .. asked'
    BY <1>2 DEF AskTypes
  <2>2. \A r \in asks' :
         /\ r.id \in 1 .. asked' /\ r.of \in Contexts /\ r.at \in {"asked", "served"}
         /\ r.at = "served" => IF r.of = "works" THEN r.reply \in [Works -> Value \union {None}]
                                                 ELSE r.reply \subseteq Images
    BY <1>1, <1>2 DEF AskTypes
  <2>3. \A q, r \in asks' : q.id = r.id => q = r
    <3> SUFFICES ASSUME NEW q \in asks', NEW r \in asks', q.id = r.id PROVE q = r
      OBVIOUS
    <3>1. CASE q \in asks /\ r \in asks
      BY <1>2, <3>1 DEF AskTypes
    <3>2. CASE q \notin asks \/ r \notin asks
      BY <1>1, <1>2, <1>3, <3>2
    <3> QED
      BY <3>1, <3>2
  <2> QED
    BY <1>2, <2>1, <2>2, <2>3 DEF AskTypes
<1>5. LastIsCurrent(c)'
  <2>1. \A q \in asks' : q.of = c => q.id <= new.id
    BY <1>1, <1>2, <1>3
  <2>2. newest'[c] <= new.id
    BY <1>1, <1>2
  <2>3. new \in asks' /\ new.at # "served"
    BY <1>1
  <2> QED
    BY <1>1, <2>1, <2>2, <2>3 DEF LastIsCurrent, PendingIsCurrent
<1>6. ASSUME NEW d \in Contexts, d # c PROVE LastIsCurrent(d)'
  <2>1. \A q \in asks' : q.of = d => q \in asks
    BY <1>1, <1>6
  <2>2. /\ error'[d] = error[d] /\ asks \subseteq asks' /\ ListOf(d)' = ListOf(d)
        /\ newest' = newest /\ crossed' = crossed
    BY <1>1, <1>6 DEF ConsoleInv, TableTypes, ListOf
  <2>3. ASSUME NEW id, NEW reply, Current(d, id, reply)
        PROVE  IF d = "works" THEN id <= unseen' \/ Unanswered' \/ reply = rows'
               ELSE \A i \in imgs' : status'[i] = "success" => i \in reply
    <3>1. rows' = rows /\ imgs' = imgs /\ unseen' = unseen
      BY DEF tableVars
    <3>2. CASE d = "works"
      <4>1. UNCHANGED <<saves, deletes>>
        BY <1>6, <3>2 DEF Contexts
      <4>2. Unanswered' = Unanswered
        BY <4>1 DEF Unanswered
      <4> QED
        BY <2>3, <3>1, <3>2, <4>2 DEF Current
    <3>3. CASE d # "works"
      <4>1. status' = status
        BY <1>6, <3>3 DEF Contexts
      <4> QED
        BY <2>3, <3>1, <3>3, <4>1 DEF Current
    <3> QED
      BY <3>2, <3>3
  <2>4. LastIsCurrent(d)
    BY DEF ConsoleInv
  <2>5. CASE error[d]
    BY <2>2, <2>5 DEF LastIsCurrent
  <2>6. ASSUME NEW r \in asks, PendingIsCurrent(d, r) PROVE LastIsCurrent(d)'
    <3>1. r.at = "served" => IF d = "works" THEN r.id <= unseen' \/ Unanswered' \/ r.reply = rows'
                             ELSE \A i \in imgs' : status'[i] = "success" => i \in r.reply
      BY <2>3, <2>6 DEF PendingIsCurrent
    <3> QED
      BY <2>1, <2>2, <2>6, <3>1 DEF LastIsCurrent, PendingIsCurrent, Current
  <2>7. CASE AppliedIsCurrent(d)
    <3>1. crossed[d] \/ IF d = "works" THEN newest[d] <= unseen' \/ Unanswered' \/ ListOf(d) = rows'
                        ELSE \A i \in imgs' : status'[i] = "success" => i \in ListOf(d)
      BY <2>3, <2>7 DEF AppliedIsCurrent
    <3> QED
      BY <2>1, <2>2, <2>7, <3>1 DEF LastIsCurrent, AppliedIsCurrent, Current, ListOf
  <2> QED
    BY <2>4, <2>5, <2>6, <2>7 DEF LastIsCurrent
<1> QED
  BY <1>4, <1>5, <1>6

-----------------------------------------------------------------------------
(* What the administrator does *)

\* Nothing is asked for, listed or rendered.
LEMMA QuietStep ==
    ASSUME ConsoleInv, TableTypes', SubmissionInv', DeletionTypes',
           \A c \in Contexts : LastIsCurrent(c)', UNCHANGED <<contextVars, formVars>>,
           unseen' \in {unseen, asked}
    PROVE  ConsoleInv'
<1>1. AskTypes'
  BY DEF ConsoleInv, AskTypes, contextVars
<1>2. FormTypes'
  BY DEF ConsoleInv, FormTypes, contextVars, formVars
<1> QED
  BY <1>1, <1>2 DEF ConsoleInv

\* The tables stay as they are.
LEMMA TablesKept ==
    ASSUME ConsoleInv, UNCHANGED <<tableVars, contextVars, unseen>>, Unanswered => Unanswered',
           status' \in [Images -> {"none", "uploading", "success", "error"}],
           \A i \in Images : status'[i] = "success" => status[i] = "success"
    PROVE  TableTypes' /\ AskTypes' /\ \A c \in Contexts : LastIsCurrent(c)'
<1> USE DEF ConsoleInv
<1>1. TableTypes'
  BY DEF TableTypes, tableVars, contextVars
<1>2. AskTypes'
  BY DEF AskTypes, contextVars
<1>3. imgs' = imgs /\ imgs \subseteq Images /\ rows' = rows /\ unseen' = unseen
  BY DEF TableTypes, tableVars
<1>4. \A c \in Contexts : LastIsCurrent(c)'
  BY <1>3, LastKept
<1> QED
  BY <1>1, <1>2, <1>4

\* An edit form is opened, closed, typed in or given another image.
LEMMA FormSteps ==
    ASSUME ConsoleInv,
           \/ \E w \in Works : ToggleEdit(w)
           \/ \E t \in Texts : Edit(t)
           \/ \E i \in Images : ToggleImage(i)
    PROVE  ConsoleInv'
<1>1. FormTypes' /\ mounts <= mounts' /\ mounts \in Nat /\ mounts' \in Nat
  <2>1. ASSUME NEW w \in Works, ToggleEdit(w)
        PROVE  FormTypes' /\ mounts <= mounts' /\ mounts \in Nat /\ mounts' \in Nat
    <3> DEFINE ed == IF editing = w THEN None ELSE w
    <3>1. ed \in Works \union {None} /\ Render(ed, list) /\ list' = list
      BY <2>1 DEF ToggleEdit, contextVars
    <3> HIDE DEF ed
    <3>2. list \in [Works -> Value \union {None}] /\ FormTypes
      BY DEF ConsoleInv, TableTypes
    <3> QED
      BY <3>1, <3>2, Rendered
  <2>2. ASSUME NEW f \in Forms, form # None, form' = f, f.work = form.work,
               f.mount = form.mount, f.base = form.base, UNCHANGED <<editing, mounts, list>>
        PROVE  FormTypes' /\ mounts <= mounts' /\ mounts \in Nat /\ mounts' \in Nat
    BY <2>2 DEF ConsoleInv, FormTypes
  <2>3. form # None => form \in Forms
    BY DEF ConsoleInv, FormTypes
  <2>4. ASSUME NEW t \in Texts, Edit(t)
        PROVE  FormTypes' /\ mounts <= mounts' /\ mounts \in Nat /\ mounts' \in Nat
    <3>1. [form EXCEPT !.text = t] \in Forms
      BY <2>3, <2>4 DEF Edit, Forms
    <3>2. UNCHANGED <<editing, mounts, list>> /\ form # None /\ form' = [form EXCEPT !.text = t]
      BY <2>4 DEF Edit, contextVars
    <3>3. form'.work = form.work /\ form'.mount = form.mount /\ form'.base = form.base
      BY <2>3, <3>2 DEF Forms
    <3> QED
      BY <2>2, <3>1, <3>2, <3>3
  <2>5. ASSUME NEW i \in Images, ToggleImage(i)
        PROVE  FormTypes' /\ mounts <= mounts' /\ mounts \in Nat /\ mounts' \in Nat
    <3> DEFINE chosen == IF form.box = i THEN None ELSE i
    <3>1. /\ UNCHANGED <<editing, mounts, list>> /\ form # None
          /\ form' = [form EXCEPT !.box = chosen, !.thumb = chosen]
      <4>1. UNCHANGED contextVars
        BY <2>5, Zenon DEF ToggleImage
      <4>2. list' = list
        BY <4>1 DEF contextVars
      <4>3. UNCHANGED <<editing, mounts>> /\ form # None
        BY <2>5, Zenon DEF ToggleImage
      <4>4. form' = [form EXCEPT !.box = chosen, !.thumb = chosen]
        BY <2>5, Zenon DEF ToggleImage
      <4> QED
        BY <4>2, <4>3, <4>4
    <3>2. chosen \in Images \union {None}
      OBVIOUS
    <3> HIDE DEF chosen
    <3>3. form' \in Forms
      BY <2>3, <3>1, <3>2 DEF Forms
    <3>4. form'.work = form.work /\ form'.mount = form.mount /\ form'.base = form.base
      BY <2>3, <3>1 DEF Forms
    <3> QED
      BY <2>2, <3>1, <3>3, <3>4
  <2> QED
    BY <2>1, <2>4, <2>5
<1>2. UNCHANGED <<tableVars, contextVars, requestVars, unseen>>
  BY Zenon DEF ToggleEdit, Edit, ToggleImage
<1>3. TableTypes' /\ AskTypes' /\ \A c \in Contexts : LastIsCurrent(c)'
  <2>1. status' = status /\ status \in [Images -> {"none", "uploading", "success", "error"}]
    BY <1>2 DEF ConsoleInv, TableTypes, requestVars
  <2>2. UNCHANGED <<tableVars, contextVars, unseen>> /\ Unanswered' = Unanswered
    BY <1>2 DEF Unanswered, requestVars
  <2> QED
    BY <2>1, <2>2, TablesKept
<1>4. SubmissionInv'
  <2>1. UNCHANGED <<saves, submitting, asks>> /\ SubmissionInv
    BY <1>2 DEF ConsoleInv, requestVars, contextVars
  <2>2. submitting \subseteq 0 .. mounts'
    BY <1>1, <2>1 DEF SubmissionInv
  <2> QED
    BY <2>1, <2>2 DEF SubmissionInv, Saved
<1>5. DeletionTypes'
  BY <1>2 DEF ConsoleInv, DeletionTypes, requestVars
<1> QED
  BY <1>1, <1>3, <1>4, <1>5 DEF ConsoleInv

\* A form is submitted.
LEMMA SubmitStep ==
    ASSUME ConsoleInv, NEW mount \in 0 .. mounts, NEW w \in Works, NEW v \in Value,
           Submit(mount, w, v)
    PROVE  ConsoleInv'
<1> DEFINE new == [mount |-> mount, work |-> w, value |-> v, at |-> "sent"]
<1>1. /\ mount \notin submitting /\ v.thumb # None /\ saves' = saves \union {new}
      /\ submitting' = submitting \union {mount}
      /\ new.mount = mount /\ new.value = v /\ new \in Saves
  <2>1. mount \in Nat
    BY DEF ConsoleInv, FormTypes
  <2> QED
    BY <2>1 DEF Submit, Saves
<1> HIDE DEF new
<1>2. UNCHANGED <<tableVars, contextVars, formVars, status, deletes, deleting, unseen>>
  BY DEF Submit
<1>3. TableTypes' /\ AskTypes' /\ \A c \in Contexts : LastIsCurrent(c)'
  <2>1. status' = status /\ status \in [Images -> {"none", "uploading", "success", "error"}]
    BY <1>2 DEF ConsoleInv, TableTypes
  <2>2. Unanswered => Unanswered'
    BY <1>1, <1>2 DEF Unanswered
  <2> QED
    BY <1>2, <2>1, <2>2, TablesKept
<1>4. SubmissionInv'
  <2>1. asks' = asks /\ mounts' = mounts /\ SubmissionInv
    BY <1>2 DEF ConsoleInv, contextVars, formVars
  <2>2. \A s \in saves : s.mount # mount
    BY <1>1, <2>1 DEF SubmissionInv
  <2>3. \A r \in asks : Saved(r) => r.then.mount # mount
    BY <1>1, <2>1 DEF SubmissionInv
  <2>4. \A s, t \in saves' : s.mount = t.mount => s = t
    BY <1>1, <2>1, <2>2 DEF SubmissionInv
  <2>5. /\ saves' \subseteq Saves
        /\ \A s \in saves' : s.mount \in submitting' /\ s.value.thumb # None
    BY <1>1, <2>1 DEF SubmissionInv
  <2>6. \A r \in asks' : Saved(r) => /\ r.then.mount \in submitting'
                                     /\ \A s \in saves' : s.mount # r.then.mount
    BY <1>1, <2>1, <2>3 DEF SubmissionInv
  <2>7. submitting' \subseteq 0 .. mounts'
    BY <1>1, <2>1 DEF SubmissionInv
  <2> QED
    BY <2>1, <2>4, <2>5, <2>6, <2>7 DEF SubmissionInv, Saved
<1>5. DeletionTypes'
  <2>1. operations < MaxOperations /\ operations' = operations + 1
    BY DEF Submit
  <2> QED
    BY <1>2, <2>1, ConsoleAssumption DEF ConsoleInv, DeletionTypes
<1> QED
  BY <1>2, <1>3, <1>4, <1>5, QuietStep

\* A work is deleted, a file sent, or an image deleted in another tab.
LEMMA OtherSteps ==
    ASSUME ConsoleInv,
           \/ \E w \in Works : HandleDelete(w)
           \/ \E i \in Images : UploadFile(i) \/ DeleteImageElsewhere(i)
    PROVE  ConsoleInv'
<1>1. UNCHANGED <<contextVars, formVars, saves, submitting>>
  BY DEF HandleDelete, UploadFile, DeleteImageElsewhere, requestVars
<1>2. SubmissionInv'
  <2>1. UNCHANGED <<saves, submitting, asks, mounts>> /\ SubmissionInv
    BY <1>1 DEF ConsoleInv, contextVars, formVars
  <2> QED
    BY <2>1 DEF SubmissionInv, Saved
<1>3. status \in [Images -> {"none", "uploading", "success", "error"}]
  BY DEF ConsoleInv, TableTypes
<1>4. ASSUME NEW w \in Works, HandleDelete(w) PROVE ConsoleInv'
  <2> DEFINE new == [id |-> operations, work |-> w, editing |-> editing, at |-> "sent"]
  <2>1. /\ operations < MaxOperations /\ operations' = operations + 1 /\ deleting' = w
        /\ deletes' = deletes \union {new} /\ new \in Deletes
        /\ UNCHANGED <<tableVars, contextVars, status, unseen>>
    <3>1. operations \in Nat /\ editing \in Works \union {None}
      BY ConsoleAssumption DEF ConsoleInv, DeletionTypes, FormTypes
    <3> QED
      BY <1>4, <3>1 DEF HandleDelete, Deletes
  <2> HIDE DEF new
  <2>2. DeletionTypes'
    BY <2>1, ConsoleAssumption DEF ConsoleInv, DeletionTypes
  <2>3. Unanswered => Unanswered'
    BY <1>1, <2>1 DEF Unanswered
  <2>4. TableTypes' /\ \A c \in Contexts : LastIsCurrent(c)'
    BY <1>3, <2>1, <2>3, TablesKept
  <2> QED
    BY <1>1, <1>2, <2>4, <2>1, <2>2, QuietStep
<1>5. ASSUME NEW i \in Images, UploadFile(i) PROVE ConsoleInv'
  <2>1. /\ operations < MaxOperations /\ operations' = operations + 1
        /\ status' = [status EXCEPT ![i] = "uploading"]
        /\ UNCHANGED <<tableVars, contextVars, deletes, deleting, unseen>>
    BY <1>5 DEF UploadFile
  <2>2. TableTypes' /\ \A c \in Contexts : LastIsCurrent(c)'
    <3>1. Unanswered' = Unanswered
      BY <1>1, <2>1 DEF Unanswered
    <3> QED
      BY <1>3, <2>1, <3>1, TablesKept
  <2>3. DeletionTypes'
    BY <2>1, ConsoleAssumption DEF ConsoleInv, DeletionTypes
  <2> QED
    BY <1>1, <1>2, <2>1, <2>2, <2>3, QuietStep
<1>6. ASSUME NEW i \in Images, DeleteImageElsewhere(i) PROVE ConsoleInv'
  <2>1. /\ imgs' = imgs \ {i} /\ status' = status /\ uploaded' = uploaded
        /\ unseen' = IF rows' # rows THEN asked ELSE unseen
        /\ UNCHANGED <<contextVars, formVars, operations, deletes, deleting>>
        /\ rows' = [w \in Works |-> IF rows[w] # None /\ rows[w].thumb = i
                                    THEN [rows[w] EXCEPT !.thumb = None] ELSE rows[w]]
    BY <1>6 DEF DeleteImageElsewhere, requestVars
  <2>2. TableTypes'
    <3>1. \A v \in Value : [v EXCEPT !.thumb = None] \in Value
      BY DEF Value
    <3>2. rows' \in [Works -> Value \union {None}]
      BY <2>1, <3>1 DEF ConsoleInv, TableTypes
    <3> QED
      BY <2>1, <3>2 DEF ConsoleInv, TableTypes, contextVars
  <2>3. unseen' = asked \/ (unseen' = unseen /\ rows' = rows /\ Unanswered' = Unanswered)
    BY <1>1, <2>1 DEF Unanswered
  <2>4. \A c \in Contexts : LastIsCurrent(c)'
    BY <2>1, <2>3, LastKept DEF ConsoleInv
  <2>5. DeletionTypes'
    BY <2>1 DEF ConsoleInv, DeletionTypes
  <2> QED
    BY <1>1, <1>2, <2>1, <2>2, <2>4, <2>5, QuietStep
<1> QED
  BY <1>4, <1>5, <1>6

LEMMA AdministratorInv ==
    ASSUME ConsoleInv, Administrator
    PROVE  ConsoleInv'
<1>1. CASE SubmitEdit
  <2>1. /\ form # None /\ form \in Forms /\ form.mount = mounts /\ mounts \in Nat
        /\ Submit(form.mount, form.work, [text |-> form.text, thumb |-> form.thumb])
    BY <1>1 DEF SubmitEdit, ConsoleInv, FormTypes
  <2>2. [text |-> form.text, thumb |-> form.thumb] \in Value /\ form.work \in Works
    BY <2>1 DEF Forms, Value
  <2> QED
    BY <2>1, <2>2, SubmitStep
<1>2. ASSUME NEW w \in Works, NEW i \in Images, SubmitNew(w, i)
      PROVE  ConsoleInv'
  <2>1. Submit(PostForm, w, [text |-> FirstText, thumb |-> i])
    BY <1>2 DEF SubmitNew
  <2>2. [text |-> FirstText, thumb |-> i] \in Value /\ PostForm \in 0 .. mounts
    BY ConsoleAssumption DEF Value, PostForm, ConsoleInv, FormTypes
  <2> QED
    BY <2>1, <2>2, SubmitStep
<1> QED
  BY <1>1, <1>2, FormSteps, OtherSteps DEF Administrator

-----------------------------------------------------------------------------
(* What the backend carries out, of which the page knows nothing yet *)

\* A request in another state is the same to its form, or to its work.
LEMMA Replaced ==
    ASSUME ConsoleInv,
           \/ \E s \in saves : saves' = (saves \ {s}) \union {[s EXCEPT !.at = "stored"]}
           \/ saves' = saves,
           UNCHANGED <<contextVars, formVars, submitting>>
    PROVE  SubmissionInv'
<1>1. asks' = asks /\ mounts' = mounts /\ submitting' = submitting /\ SubmissionInv
  BY DEF ConsoleInv, contextVars, formVars
<1>2. CASE saves' = saves
  BY <1>1, <1>2 DEF SubmissionInv, Saved
<1>3. ASSUME NEW s \in saves, saves' = (saves \ {s}) \union {[s EXCEPT !.at = "stored"]}
      PROVE  SubmissionInv'
  <2> DEFINE new == [s EXCEPT !.at = "stored"]
  <2>1. /\ saves' = (saves \ {s}) \union {new} /\ new \in Saves
        /\ new.mount = s.mount /\ new.value = s.value
    BY <1>1, <1>3 DEF SubmissionInv, Saves
  <2> HIDE DEF new
  <2>2. /\ saves' \subseteq Saves
        /\ \A t \in saves' : t.mount \in submitting' /\ t.value.thumb # None
    BY <1>1, <2>1 DEF SubmissionInv
  <2>3. \A t, u \in saves' : t.mount = u.mount => t = u
    BY <1>1, <2>1 DEF SubmissionInv
  <2>4. \A r \in asks' : Saved(r) => /\ r.then.mount \in submitting'
                                     /\ \A t \in saves' : t.mount # r.then.mount
    BY <1>1, <2>1 DEF SubmissionInv
  <2> QED
    BY <1>1, <2>2, <2>3, <2>4 DEF SubmissionInv, Saved
<1> QED
  BY <1>2, <1>3

\* A save or a deletion is looked up or carried out, or a file stored.
LEMMA BackendSteps ==
    ASSUME ConsoleInv,
           \/ \E s \in saves : SaveCommits(s)
           \/ \E d \in deletes : DeleteFindsWork(d) \/ DeleteCommits(d)
           \/ \E i \in Images : UploadCommits(i)
    PROVE  ConsoleInv'
<1>0. /\ SubmissionInv /\ DeletionTypes /\ rows \in [Works -> Value \union {None}]
      /\ status \in [Images -> {"none", "uploading", "success", "error"}]
      /\ imgs \subseteq uploaded /\ uploaded \subseteq Images
  BY DEF ConsoleInv, TableTypes
<1>1. ASSUME NEW s \in saves, SaveCommits(s) PROVE ConsoleInv'
  <2> DEFINE new == [s EXCEPT !.at = "stored"]
  <2>1. /\ rows' = [rows EXCEPT ![s.work] = s.value] /\ saves' = (saves \ {s}) \union {new}
        /\ UNCHANGED <<imgs, uploaded, contextVars, formVars, status, submitting, deletes,
                       deleting, operations, unseen>>
    BY <1>1 DEF SaveCommits
  <2>2. s \in Saves
    BY <1>0 DEF SubmissionInv
  <2>3. SubmissionInv'
    BY <2>1, Replaced
  <2>4. new.at = "stored" /\ s.work \in Works /\ s.value \in Value
    BY <2>2 DEF Saves
  <2> HIDE DEF new
  <2>5. rows' \in [Works -> Value \union {None}]
    BY <1>0, <2>1, <2>4
  <2>6. TableTypes'
    BY <2>1, <2>5 DEF ConsoleInv, TableTypes, contextVars
  <2>7. Unanswered'
    BY <2>1, <2>4 DEF Unanswered
  <2>8. \A c \in Contexts : LastIsCurrent(c)'
    BY <2>1, <2>7, LastKept DEF ConsoleInv
  <2>9. DeletionTypes'
    BY <1>0, <2>1 DEF DeletionTypes
  <2> QED
    BY <2>1, <2>3, <2>6, <2>8, <2>9, QuietStep
<1>2. ASSUME NEW d \in deletes, NEW at \in {"found", "gone"},
             deletes' = (deletes \ {d}) \union {[d EXCEPT !.at = at]},
             UNCHANGED <<deleting, operations>>
      PROVE  DeletionTypes' /\ [d EXCEPT !.at = at].at = at
  <2>1. d \in Deletes
    BY <1>0 DEF DeletionTypes
  <2>2. [d EXCEPT !.at = at] \in Deletes /\ [d EXCEPT !.at = at].at = at
    BY <2>1 DEF Deletes
  <2> QED
    BY <1>0, <1>2, <2>2 DEF DeletionTypes
<1>3. ASSUME NEW d \in deletes, DeleteFindsWork(d) PROVE ConsoleInv'
  <2> DEFINE new == [d EXCEPT !.at = "found"]
  <2>1. /\ d.at = "sent" /\ deletes' = (deletes \ {d}) \union {new}
        /\ UNCHANGED <<tableVars, contextVars, formVars, status, saves, submitting, deleting,
                       operations, unseen>>
    BY <1>3 DEF DeleteFindsWork
  <2>2. DeletionTypes'
    BY <1>2, <2>1
  <2> HIDE DEF new
  <2>3. SubmissionInv'
    BY <2>1, Replaced
  <2>4. Unanswered => Unanswered'
    BY <2>1 DEF Unanswered
  <2>5. TableTypes' /\ \A c \in Contexts : LastIsCurrent(c)'
    BY <1>0, <2>1, <2>4, TablesKept
  <2> QED
    BY <2>1, <2>2, <2>3, <2>5, QuietStep
<1>4. ASSUME NEW d \in deletes, DeleteCommits(d) PROVE ConsoleInv'
  <2> DEFINE new == [d EXCEPT !.at = "gone"]
  <2>1. /\ rows' = [rows EXCEPT ![d.work] = None] /\ deletes' = (deletes \ {d}) \union {new}
        /\ UNCHANGED <<imgs, uploaded, contextVars, formVars, status, saves, submitting,
                       deleting, operations, unseen>>
    BY <1>4 DEF DeleteCommits
  <2>2. DeletionTypes' /\ new.at = "gone"
    BY <1>2, <2>1
  <2> HIDE DEF new
  <2>3. SubmissionInv'
    BY <2>1, Replaced
  <2>4. Unanswered'
    BY <2>1, <2>2 DEF Unanswered
  <2>5. rows' \in [Works -> Value \union {None}]
    BY <1>0, <2>1
  <2>6. TableTypes'
    BY <2>1, <2>5 DEF ConsoleInv, TableTypes, contextVars
  <2>7. \A c \in Contexts : LastIsCurrent(c)'
    BY <2>1, <2>4, LastKept DEF ConsoleInv
  <2> QED
    BY <2>1, <2>2, <2>3, <2>6, <2>7, QuietStep
<1>5. ASSUME NEW i \in Images, UploadCommits(i) PROVE ConsoleInv'
  <2>1. /\ status[i] = "uploading" /\ imgs' = imgs \union {i} /\ uploaded' = uploaded \union {i}
        /\ UNCHANGED <<rows, contextVars, formVars, requestVars, unseen>>
    BY <1>5 DEF UploadCommits
  <2>2. UNCHANGED <<status, saves, submitting, deletes, deleting, operations>>
    BY <2>1 DEF requestVars
  <2>3. TableTypes'
    BY <1>0, <2>1, <2>2 DEF ConsoleInv, TableTypes, contextVars
  <2>4. \A j \in imgs' : status'[j] = "success" => j \in imgs /\ status[j] = "success"
    BY <1>0, <2>1, <2>2
  <2>5. Unanswered' = Unanswered
    BY <2>2 DEF Unanswered
  <2>6. \A c \in Contexts : LastIsCurrent(c)'
    BY <2>1, <2>4, <2>5, LastKept DEF ConsoleInv
  <2>7. SubmissionInv' /\ DeletionTypes'
    <3>1. SubmissionInv'
      BY <2>1, <2>2, Replaced
    <3> QED
      BY <1>0, <2>2, <3>1 DEF DeletionTypes
  <2> QED
    BY <2>1, <2>3, <2>6, <2>7, QuietStep
<1> QED
  BY <1>1, <1>3, <1>4, <1>5

-----------------------------------------------------------------------------
(* The answers *)

\* A request has failed, or its answer is lost.
LEMMA FailureSteps ==
    ASSUME ConsoleInv,
           \/ \E s \in saves : SaveFails(s)
           \/ \E d \in deletes : DeleteFails(d)
           \/ \E i \in Images : UploadFails(i)
    PROVE  ConsoleInv'
<1>0. SubmissionInv /\ rows \in [Works -> Value \union {None}]
      /\ status \in [Images -> {"none", "uploading", "success", "error"}]
  BY DEF ConsoleInv, TableTypes
<1>1. UNCHANGED <<contextVars, formVars>>
  BY DEF SaveFails, DeleteFails, UploadFails
<1>2. asks' = asks /\ mounts' = mounts
  BY <1>1 DEF contextVars, formVars
<1>3. ASSUME NEW s \in saves, SaveFails(s) PROVE ConsoleInv'
  <2>1. /\ unseen' = IF s.at = "stored" THEN asked ELSE unseen
        /\ saves' = saves \ {s} /\ submitting' = submitting \ {s.mount}
        /\ UNCHANGED <<tableVars, contextVars, status, deletes, deleting, operations>>
    BY <1>3 DEF SaveFails
  <2>2. TableTypes'
    BY <2>1 DEF ConsoleInv, TableTypes, tableVars, contextVars
  <2>3. rows' = rows /\ imgs' = imgs
    BY <2>1 DEF tableVars
  <2>4. unseen' = asked \/ (unseen' = unseen /\ (Unanswered => Unanswered'))
    BY <2>1 DEF Unanswered
  <2>5. \A c \in Contexts : LastIsCurrent(c)'
    BY <2>1, <2>3, <2>4, LastKept DEF ConsoleInv
  <2>6. SubmissionInv'
    <3>1. submitting' \subseteq 0 .. mounts'
      BY <1>0, <1>2, <2>1 DEF SubmissionInv
    <3>2. \A t \in saves' : t.mount # s.mount
      BY <1>0, <2>1 DEF SubmissionInv
    <3>3. \A r \in asks : Saved(r) => r.then.mount # s.mount
      BY <1>0 DEF SubmissionInv
    <3>4. saves' \subseteq saves
      BY <2>1
    <3>5. /\ saves' \subseteq Saves
          /\ \A t \in saves' : t.mount \in submitting' /\ t.value.thumb # None
      BY <1>0, <2>1, <3>2, <3>4 DEF SubmissionInv
    <3>6. \A r \in asks' : Saved(r) => /\ r.then.mount \in submitting'
                                       /\ \A t \in saves' : t.mount # r.then.mount
      BY <1>0, <1>2, <2>1, <3>3, <3>4 DEF SubmissionInv
    <3> QED
      BY <1>0, <1>2, <3>1, <3>4, <3>5, <3>6 DEF SubmissionInv, Saved
  <2>7. DeletionTypes'
    BY <2>1 DEF ConsoleInv, DeletionTypes
  <2> QED
    BY <1>1, <2>1, <2>2, <2>5, <2>6, <2>7, QuietStep
<1>4. ASSUME UNCHANGED <<saves, submitting>> PROVE SubmissionInv'
  BY <1>0, <1>2, <1>4 DEF SubmissionInv, Saved
<1>5. ASSUME NEW d \in deletes, DeleteFails(d) PROVE ConsoleInv'
  <2>1. /\ unseen' = IF d.at = "gone" THEN asked ELSE unseen
        /\ deletes' = deletes \ {d} /\ deleting' = None
        /\ UNCHANGED <<tableVars, contextVars, status, saves, submitting, operations>>
    BY <1>5 DEF DeleteFails
  <2>2. TableTypes'
    BY <2>1 DEF ConsoleInv, TableTypes, tableVars, contextVars
  <2>3. rows' = rows /\ imgs' = imgs
    BY <2>1 DEF tableVars
  <2>4. unseen' = asked \/ (unseen' = unseen /\ (Unanswered => Unanswered'))
    BY <2>1 DEF Unanswered
  <2>5. \A c \in Contexts : LastIsCurrent(c)'
    BY <2>1, <2>3, <2>4, LastKept DEF ConsoleInv
  <2>6. DeletionTypes'
    BY <2>1 DEF ConsoleInv, DeletionTypes
  <2> QED
    BY <1>1, <1>4, <2>1, <2>2, <2>5, <2>6, QuietStep
<1>6. ASSUME NEW i \in Images, UploadFails(i) PROVE ConsoleInv'
  <2>1. /\ status' = [status EXCEPT ![i] = "error"]
        /\ UNCHANGED <<tableVars, contextVars, saves, submitting, deletes, deleting,
                       operations, unseen>>
    BY <1>6 DEF UploadFails
  <2>2. \A j \in Images : status'[j] = "success" => status[j] = "success"
    BY <1>0, <2>1
  <2>3. status' \in [Images -> {"none", "uploading", "success", "error"}]
    BY <1>0, <2>1
  <2>4. Unanswered' = Unanswered
    BY <2>1 DEF Unanswered
  <2>5. TableTypes' /\ \A c \in Contexts : LastIsCurrent(c)'
    BY <2>1, <2>2, <2>3, <2>4, TablesKept
  <2>6. DeletionTypes'
    BY <2>1 DEF ConsoleInv, DeletionTypes
  <2> QED
    BY <1>1, <1>4, <2>1, <2>5, <2>6, QuietStep
<1> QED
  BY <1>3, <1>5, <1>6

\* A save, a deletion or an upload has been made, and a refresh is asked for.
LEMMA AnsweredSteps ==
    ASSUME ConsoleInv,
           \/ \E s \in saves : SaveAnswered(s)
           \/ \E d \in deletes : DeleteAnswered(d)
           \/ \E i \in Images : UploadAnswered(i)
    PROVE  ConsoleInv'
<1>0. /\ SubmissionInv /\ rows \in [Works -> Value \union {None}] /\ "works" \in Contexts
      /\ list \in [Works -> Value \union {None}] /\ error \in [Contexts -> BOOLEAN]
      /\ status \in [Images -> {"none", "uploading", "success", "error"}]
      /\ "images" \in Contexts
  BY DEF ConsoleInv, TableTypes, Contexts
<1>1. ASSUME NEW s \in saves, SaveAnswered(s) PROVE ConsoleInv'
  <2> DEFINE then == [what |-> "saved", mount |-> s.mount]
  <2>1. /\ saves' = saves \ {s}
        /\ asks' = asks \union Ask("works", then) /\ asked' = asked + 1
        /\ error' = [error EXCEPT !["works"] = FALSE]
        /\ UNCHANGED <<tableVars, list, shown, newest, crossed, formVars, status,
                       submitting, deletes, deleting, operations, unseen>>
    BY <1>1 DEF SaveAnswered
  <2>2. then.mount = s.mount
    OBVIOUS
  <2> HIDE DEF then
  <2>3. AskTypes' /\ \A d \in Contexts : LastIsCurrent(d)'
    BY <1>0, <2>1, LastAsked
  <2>4. TableTypes'
    BY <1>0, <2>1 DEF ConsoleInv, TableTypes, tableVars
  <2>5. FormTypes' /\ mounts' = mounts
    BY <2>1 DEF ConsoleInv, FormTypes, formVars
  <2>6. DeletionTypes'
    BY <2>1 DEF ConsoleInv, DeletionTypes
  <2> DEFINE new == [id |-> asked + 1, of |-> "works", at |-> "asked", then |-> then]
  <2>7. asks' = asks \union {new} /\ new.then = then
    BY <2>1 DEF Ask
  <2> HIDE DEF new
  <2>8. SubmissionInv'
    <3>1. /\ \A t \in saves' : t \in saves /\ t.mount # s.mount
          /\ \A r \in asks : Saved(r) => r.then.mount # s.mount
      BY <1>0, <2>1 DEF SubmissionInv
    <3>2. s.mount \in submitting
      BY <1>0 DEF SubmissionInv
    <3>3. \A r \in asks' : Saved(r) => /\ r.then.mount \in submitting'
                                       /\ \A t \in saves' : t.mount # r.then.mount
      <4> SUFFICES ASSUME NEW r \in asks', Saved(r)
                   PROVE  /\ r.then.mount \in submitting'
                          /\ \A t \in saves' : t.mount # r.then.mount
        OBVIOUS
      <4>1. CASE r \in asks
        BY <1>0, <2>1, <3>1, <4>1 DEF SubmissionInv
      <4>2. CASE r = new
        BY <2>1, <2>2, <2>7, <3>1, <3>2, <4>2
      <4> QED
        BY <2>7, <4>1, <4>2
    <3>4. \A q, r \in asks' : Saved(q) /\ Saved(r) /\ q.then.mount = r.then.mount => q = r
      BY <1>0, <2>2, <2>7, <3>1 DEF SubmissionInv
    <3> QED
      BY <1>0, <2>1, <2>5, <3>1, <3>3, <3>4 DEF SubmissionInv, Saved
  <2> QED
    BY <2>3, <2>4, <2>5, <2>6, <2>8 DEF ConsoleInv
<1>2. ASSUME NEW then, ~Saved([then |-> then]), NEW c, asks' = asks \union Ask(c, then),
             UNCHANGED <<saves, submitting>>, mounts <= mounts' /\ mounts \in Nat /\ mounts' \in Nat
      PROVE  SubmissionInv'
  <2> DEFINE new == [id |-> asked + 1, of |-> c, at |-> "asked", then |-> then]
  <2>1. asks' = asks \union {new} /\ new.then = then
    BY <1>2 DEF Ask
  <2> HIDE DEF new
  <2>2. ~Saved(new)
    BY <1>2, <2>1 DEF Saved
  <2>3. submitting' \subseteq 0 .. mounts'
    BY <1>0, <1>2 DEF SubmissionInv
  <2> QED
    BY <1>0, <1>2, <2>1, <2>2, <2>3 DEF SubmissionInv, Saved
<1>3. ASSUME NEW d \in deletes, DeleteAnswered(d) PROVE ConsoleInv'
  <2> DEFINE then == [what |-> "deleted"]
             ed == IF d.editing = d.work THEN None ELSE editing
  <2>1. /\ deletes' = deletes \ {d}
        /\ asks' = asks \union Ask("works", then) /\ asked' = asked + 1
        /\ error' = [error EXCEPT !["works"] = FALSE]
        /\ Render(ed, list)
        /\ UNCHANGED <<tableVars, list, shown, newest, crossed, status, saves, submitting,
                       deleting, operations, unseen>>
    BY <1>3 DEF DeleteAnswered
  <2>2. ~Saved([then |-> then]) /\ ed \in Works \union {None}
    BY DEF Saved, ConsoleInv, FormTypes
  <2> HIDE DEF then, ed
  <2>3. AskTypes' /\ \A c \in Contexts : LastIsCurrent(c)'
    BY <1>0, <2>1, LastAsked
  <2>4. TableTypes'
    BY <1>0, <2>1 DEF ConsoleInv, TableTypes, tableVars
  <2>5. FormTypes' /\ mounts <= mounts' /\ mounts \in Nat /\ mounts' \in Nat
    <3>1. FormTypes /\ list' = list
      BY <2>1 DEF ConsoleInv
    <3> QED
      BY <1>0, <2>1, <2>2, <3>1, Rendered
  <2>6. DeletionTypes'
    BY <2>1 DEF ConsoleInv, DeletionTypes
  <2>7. UNCHANGED <<saves, submitting>> /\ mounts <= mounts'
    BY <2>1, <2>5
  <2>8. SubmissionInv'
    BY <1>2, <2>1, <2>2, <2>5, <2>7, Zenon
  <2> QED
    BY <2>3, <2>4, <2>5, <2>6, <2>8 DEF ConsoleInv
<1>4. ASSUME NEW i \in Images, UploadAnswered(i) PROVE ConsoleInv'
  <2>1. /\ status' = [status EXCEPT ![i] = "success"]
        /\ asks' = asks \union Ask("images", None) /\ asked' = asked + 1
        /\ error' = [error EXCEPT !["images"] = FALSE]
        /\ UNCHANGED <<tableVars, list, shown, newest, crossed, formVars, saves, submitting,
                       deletes, deleting, operations, unseen>>
    BY <1>4 DEF UploadAnswered
  <2>2. ~Saved([then |-> None])
    BY DEF Saved
  <2>3. AskTypes' /\ \A c \in Contexts : LastIsCurrent(c)'
    BY <1>0, <2>1, LastAsked
  <2>4. TableTypes'
    BY <1>0, <2>1 DEF ConsoleInv, TableTypes, tableVars
  <2>5. FormTypes' /\ mounts' = mounts /\ mounts \in Nat
    BY <2>1 DEF ConsoleInv, FormTypes, formVars
  <2>6. DeletionTypes'
    BY <2>1 DEF ConsoleInv, DeletionTypes
  <2>7. UNCHANGED <<saves, submitting>> /\ mounts <= mounts'
    BY <2>1, <2>5
  <2>8. SubmissionInv'
    BY <1>2, <2>1, <2>2, <2>5, <2>7, Zenon
  <2> QED
    BY <2>3, <2>4, <2>5, <2>6, <2>8 DEF ConsoleInv
<1> QED
  BY <1>1, <1>3, <1>4

-----------------------------------------------------------------------------
(* The refreshes *)

\* What follows a refresh that is over.
LEMMA Continued ==
    ASSUME ConsoleInv, NEW r \in asks, NEW ls \in [Works -> Value \union {None}],
           asks' = asks \ {r}, Continue(r.then, ls), list' = ls,
           UNCHANGED <<saves, deletes, operations>>
    PROVE  FormTypes' /\ SubmissionInv' /\ DeletionTypes'
<1> DEFINE ed == IF Saved(r) /\ r.then.mount # PostForm THEN None ELSE editing
<1>1. /\ Render(ed, ls)
      /\ submitting' = IF Saved(r) THEN submitting \ {r.then.mount} ELSE submitting
      /\ deleting' = IF r.then # None /\ r.then.what = "deleted" THEN None ELSE deleting
  BY DEF Continue, Saved
<1>2. ed \in Works \union {None} /\ FormTypes /\ SubmissionInv
  BY DEF ConsoleInv, FormTypes
<1> HIDE DEF ed
<1>3. FormTypes' /\ mounts <= mounts' /\ mounts \in Nat /\ mounts' \in Nat
  BY <1>1, <1>2, Rendered
<1>4. SubmissionInv'
  <2>1. submitting \subseteq 0 .. mounts'
    BY <1>2, <1>3 DEF SubmissionInv
  <2>2. submitting' \subseteq 0 .. mounts'
    BY <1>1, <2>1
  <2>3. ASSUME NEW m \in submitting, Saved(r) => m # r.then.mount PROVE m \in submitting'
    BY <1>1, <2>3
  <2>4. saves \subseteq Saves /\ \A s \in saves : s.mount \in submitting' /\ s.value.thumb # None
    BY <1>2, <2>3 DEF SubmissionInv
  <2>5. \A q \in asks' : Saved(q) => q.then.mount \in submitting'
    BY <1>2, <2>3 DEF SubmissionInv
  <2> QED
    BY <1>2, <2>2, <2>4, <2>5 DEF SubmissionInv, Saved
<1>5. DeletionTypes'
  BY <1>1 DEF ConsoleInv, DeletionTypes
<1> QED
  BY <1>3, <1>4, <1>5

\* The backend answers a refresh with what it reads now.
LEMMA ServeStep ==
    ASSUME ConsoleInv, NEW r \in asks, Serve(r)
    PROVE  ConsoleInv'
<1> DEFINE new == [id |-> r.id, of |-> r.of, at |-> "served", then |-> r.then,
                   reply |-> IF r.of = "works" THEN rows ELSE imgs]
<1>1. /\ asks' = (asks \ {r}) \union {new} /\ r.at = "asked"
      /\ UNCHANGED <<tableVars, list, shown, error, asked, newest, crossed, formVars,
                     requestVars, unseen>>
  BY DEF Serve
<1>2. /\ new.id = r.id /\ new.of = r.of /\ new.at = "served" /\ new.then = r.then
      /\ new.reply = IF r.of = "works" THEN rows ELSE imgs
  OBVIOUS
<1> HIDE DEF new
<1>3. /\ AskTypes /\ SubmissionInv /\ rows \in [Works -> Value \union {None}]
      /\ imgs \subseteq Images
  BY DEF ConsoleInv, TableTypes
<1>4. TableTypes' /\ FormTypes' /\ DeletionTypes'
  BY <1>1 DEF ConsoleInv, TableTypes, FormTypes, DeletionTypes, tableVars, formVars, requestVars
<1>5. AskTypes'
  <2>1. \A q \in asks' :
         /\ q.id \in 1 .. asked' /\ q.of \in Contexts /\ q.at \in {"asked", "served"}
         /\ q.at = "served" => IF q.of = "works" THEN q.reply \in [Works -> Value \union {None}]
                                                 ELSE q.reply \subseteq Images
    BY <1>1, <1>2, <1>3 DEF AskTypes
  <2>2. \A p, q \in asks' : p.id = q.id => p = q
    BY <1>1, <1>2, <1>3 DEF AskTypes
  <2> QED
    BY <1>1, <1>3, <2>1, <2>2 DEF AskTypes
<1>6. SubmissionInv'
  <2>1. UNCHANGED <<saves, submitting, mounts>>
    BY <1>1 DEF requestVars, formVars
  <2>2. Saved(new) = Saved(r)
    BY <1>2 DEF Saved
  <2>3. \A q \in asks' : Saved(q) => /\ q.then.mount \in submitting'
                                     /\ \A s \in saves' : s.mount # q.then.mount
    BY <1>1, <1>2, <1>3, <2>1, <2>2 DEF SubmissionInv
  <2>4. \A p, q \in asks' : Saved(p) /\ Saved(q) /\ p.then.mount = q.then.mount => p = q
    BY <1>1, <1>2, <1>3, <2>2 DEF SubmissionInv
  <2> QED
    BY <1>3, <2>1, <2>3, <2>4 DEF SubmissionInv, Saved
<1>7. ASSUME NEW c \in Contexts PROVE LastIsCurrent(c)'
  <2>1. UNCHANGED <<imgs, rows, list, shown, error, newest, crossed, status, unseen, saves, deletes>>
    BY <1>1 DEF tableVars, requestVars
  <2>2. Unanswered' = Unanswered
    BY <2>1 DEF Unanswered
  <2>3. LastIsCurrent(c)
    BY DEF ConsoleInv
  <2>4. CASE error[c]
    BY <2>1, <2>4 DEF LastIsCurrent
  <2>5. ASSUME NEW q \in asks, PendingIsCurrent(c, q) PROVE LastIsCurrent(c)'
    <3>1. q.of = c /\ newest[c] <= q.id /\ \A p \in asks : p.of = c => p.id <= q.id
      BY <2>5 DEF PendingIsCurrent
    <3>2. \A p \in asks' : p.of = c => p.id <= q.id
      BY <1>1, <1>2, <3>1
    <3>3. CASE q = r
      <4>1. Current(c, new.id, new.reply)
        BY <1>2, <3>1, <3>3 DEF Current, Contexts
      <4>2. new \in asks' /\ new.of = c /\ newest[c] <= new.id
            /\ \A p \in asks' : p.of = c => p.id <= new.id
        BY <1>1, <1>2, <3>1, <3>2, <3>3
      <4> QED
        BY <2>2, <2>1, <4>1, <4>2 DEF LastIsCurrent, PendingIsCurrent, Current
    <3>4. CASE q # r
      <4>1. q \in asks'
        BY <1>1, <3>4
      <4> QED
        BY <2>2, <2>1, <2>5, <3>2, <4>1 DEF LastIsCurrent, PendingIsCurrent, Current
    <3> QED
      BY <3>3, <3>4
  <2>6. CASE AppliedIsCurrent(c)
    <3>1. \A q \in asks' : q.of = c => q.id < newest[c]
      BY <1>1, <1>2, <2>6 DEF AppliedIsCurrent
    <3> QED
      BY <2>2, <2>1, <2>6, <3>1 DEF LastIsCurrent, AppliedIsCurrent, Current, ListOf
  <2> QED
    BY <2>3, <2>4, <2>5, <2>6 DEF LastIsCurrent
<1> QED
  BY <1>4, <1>5, <1>6, <1>7 DEF ConsoleInv

\* Nothing is changed of a context when a refresh of the other is over.
LEMMA LastUntouched ==
    ASSUME ConsoleInv, NEW d \in Contexts, UNCHANGED <<imgs, rows, status, unseen>>,
           Unanswered' = Unanswered, error'[d] = error[d], newest'[d] = newest[d],
           crossed'[d] = crossed[d], ListOf(d)' = ListOf(d),
           \A q : q \in asks /\ q.of = d <=> q \in asks' /\ q.of = d
    PROVE  LastIsCurrent(d)'
<1>1. LastIsCurrent(d)
  BY DEF ConsoleInv
<1>2. CASE error[d]
  BY <1>2 DEF LastIsCurrent
<1>3. ASSUME NEW r \in asks, PendingIsCurrent(d, r) PROVE LastIsCurrent(d)'
  BY <1>3 DEF LastIsCurrent, PendingIsCurrent, Current
<1>4. CASE AppliedIsCurrent(d)
  <2>1. \A q \in asks' : q.of = d => q.id < newest'[d]
    BY <1>4 DEF AppliedIsCurrent
  <2>2. crossed'[d] \/ IF d = "works" THEN newest'[d] <= unseen' \/ Unanswered' \/ ListOf(d)' = rows'
                       ELSE \A i \in imgs' : status'[i] = "success" => i \in ListOf(d)'
    BY <1>4 DEF AppliedIsCurrent, Current
  <2> QED
    BY <2>1, <2>2 DEF LastIsCurrent, AppliedIsCurrent, Current, ListOf
<1> QED
  BY <1>1, <1>2, <1>3, <1>4 DEF LastIsCurrent

\* The answer of the refresh asked for last has been seen by no other; that of
\* an earlier one is applied before it, or has been overtaken.
LEMMA ArrivalStep ==
    ASSUME ConsoleInv, NEW r \in asks, RefreshArrives(r)
    PROVE  ConsoleInv'
<1>1. /\ r.at = "served" /\ asks' = asks \ {r}
      /\ list' = IF r.of = "works" THEN r.reply ELSE list
      /\ shown' = IF r.of = "images" THEN r.reply ELSE shown
      /\ crossed' = [crossed EXCEPT ![r.of] = r.id < newest[r.of]]
      /\ newest' = [newest EXCEPT ![r.of] = IF r.id > @ THEN r.id ELSE @]
      /\ Continue(r.then, list')
      /\ UNCHANGED <<tableVars, error, asked, status, saves, deletes, operations, unseen>>
  BY DEF RefreshArrives
<1>2. /\ AskTypes /\ list \in [Works -> Value \union {None}] /\ shown \subseteq Images
      /\ crossed \in [Contexts -> BOOLEAN] /\ error \in [Contexts -> BOOLEAN]
  BY DEF ConsoleInv, TableTypes
<1>3. /\ r.id \in 1 .. asked /\ r.of \in Contexts /\ asked \in Nat
      /\ newest \in [Contexts -> 0 .. asked]
      /\ IF r.of = "works" THEN r.reply \in [Works -> Value \union {None}]
                           ELSE r.reply \subseteq Images
  BY <1>1, <1>2 DEF AskTypes
<1>4. list' \in [Works -> Value \union {None}] /\ shown' \subseteq Images
  BY <1>1, <1>2, <1>3
<1>5. TableTypes'
  <2>1. crossed' \in [Contexts -> BOOLEAN]
    <3> DEFINE b == r.id < newest[r.of]
    <3>1. crossed' = [crossed EXCEPT ![r.of] = b] /\ b \in BOOLEAN
      BY <1>1
    <3> HIDE DEF b
    <3> QED
      BY <1>2, <3>1
  <2> QED
    BY <1>1, <1>4, <2>1 DEF ConsoleInv, TableTypes, tableVars
<1>6. AskTypes'
  <2>1. newest' \in [Contexts -> 0 .. asked]
    BY <1>1, <1>3
  <2> QED
    BY <1>1, <1>2, <2>1 DEF AskTypes
<1>7. FormTypes' /\ SubmissionInv' /\ DeletionTypes'
  BY <1>1, <1>4, Continued
<1>8. /\ UNCHANGED <<imgs, rows, status, unseen, error>> /\ Unanswered' = Unanswered
       /\ asks' \subseteq asks
  BY <1>1 DEF tableVars, Unanswered
<1>9. LastIsCurrent(r.of)'
  <2> DEFINE c == r.of
  <2>1. /\ newest[c] \in Nat /\ newest'[c] = IF r.id > newest[c] THEN r.id ELSE newest[c]
    BY <1>1, <1>3
  <2>2. ASSUME r.id < newest[c] PROVE crossed'[c]
    <3> DEFINE b == r.id < newest[c]
    <3>1. crossed' = [crossed EXCEPT ![c] = b] /\ b = TRUE
      BY <1>1, <2>2
    <3> HIDE DEF b
    <3> QED
      BY <1>2, <1>3, <3>1
  <2>3. ListOf(c)' = r.reply
    BY <1>1, <1>3 DEF ListOf, Contexts
  <2>4. LastIsCurrent(c)
    BY <1>3 DEF ConsoleInv
  <2>5. CASE error[c]
    BY <1>8, <2>5 DEF LastIsCurrent
  <2>6. ASSUME NEW q \in asks, PendingIsCurrent(c, q) PROVE LastIsCurrent(c)'
    <3>1. q.of = c /\ newest[c] <= q.id /\ \A p \in asks : p.of = c => p.id <= q.id
      BY <2>6 DEF PendingIsCurrent
    <3>2. CASE q = r
      <4>1. newest'[c] = r.id /\ Current(c, r.id, r.reply)
        BY <1>1, <1>3, <2>1, <2>6, <3>1, <3>2 DEF PendingIsCurrent
      <4>2. ASSUME NEW p \in asks', p.of = c PROVE p.id < newest'[c]
        <5>1. p.id <= r.id /\ p.id # r.id /\ p.id \in Nat
          BY <1>1, <1>2, <3>1, <3>2, <4>2 DEF AskTypes
        <5> QED
          BY <1>3, <4>1, <5>1
      <4>3. IF c = "works" THEN newest'[c] <= unseen' \/ Unanswered' \/ ListOf(c)' = rows'
            ELSE \A i \in imgs' : status'[i] = "success" => i \in ListOf(c)'
        BY <1>8, <2>3, <4>1 DEF Current
      <4> HIDE DEF c
      <4> QED
        BY <4>2, <4>3 DEF LastIsCurrent, AppliedIsCurrent, Current, ListOf, c
    <3>3. CASE q # r
      <4>1. q \in asks' /\ r.id <= q.id
        BY <1>1, <3>1, <3>3
      <4>2. newest'[c] <= q.id
        BY <2>1, <3>1, <4>1
      <4> QED
        BY <1>8, <2>6, <3>1, <4>1, <4>2 DEF LastIsCurrent, PendingIsCurrent, Current
    <3> QED
      BY <3>2, <3>3
  <2>7. CASE AppliedIsCurrent(c)
    <3>1. r.id < newest[c] /\ \A q \in asks : q.of = c => q.id < newest[c]
      BY <2>7 DEF AppliedIsCurrent
    <3>2. newest'[c] = newest[c] /\ crossed'[c]
      BY <1>3, <2>1, <2>2, <3>1
    <3> QED
      BY <1>8, <3>1, <3>2 DEF LastIsCurrent, AppliedIsCurrent
  <2> QED
    BY <2>4, <2>5, <2>6, <2>7 DEF LastIsCurrent
<1>10. ASSUME NEW d \in Contexts, d # r.of PROVE LastIsCurrent(d)'
  <2>1. /\ newest'[d] = newest[d] /\ crossed'[d] = crossed[d]
    BY <1>1, <1>2, <1>3, <1>10
  <2>2. ListOf(d)' = ListOf(d)
    BY <1>1, <1>3, <1>10 DEF ListOf, Contexts
  <2>3. \A q : q \in asks /\ q.of = d <=> q \in asks' /\ q.of = d
    BY <1>1, <1>10
  <2> QED
    BY <1>8, <2>1, <2>2, <2>3, LastUntouched
<1> QED
  BY <1>5, <1>6, <1>7, <1>9, <1>10 DEF ConsoleInv

\* The error is kept until something is asked for again.
LEMMA RefreshFailsStep ==
    ASSUME ConsoleInv, NEW r \in asks, RefreshFails(r)
    PROVE  ConsoleInv'
<1>1. /\ asks' = asks \ {r} /\ error' = [error EXCEPT ![r.of] = TRUE]
      /\ Continue(r.then, list)
      /\ UNCHANGED <<tableVars, list, shown, asked, newest, crossed, status, saves,
                     deletes, operations, unseen>>
  BY DEF RefreshFails
<1>2. /\ AskTypes /\ list \in [Works -> Value \union {None}] /\ r.of \in Contexts
      /\ error \in [Contexts -> BOOLEAN]
  BY DEF ConsoleInv, TableTypes, AskTypes
<1>3. TableTypes'
  BY <1>1, <1>2 DEF ConsoleInv, TableTypes, tableVars
<1>4. AskTypes'
  BY <1>1, <1>2 DEF AskTypes
<1>5. FormTypes' /\ SubmissionInv' /\ DeletionTypes'
  BY <1>1, <1>2, Continued
<1>6. ASSUME NEW d \in Contexts PROVE LastIsCurrent(d)'
  <2>1. CASE d = r.of
    BY <1>1, <1>2, <2>1 DEF LastIsCurrent
  <2>2. CASE d # r.of
    <3>1. /\ error'[d] = error[d] /\ UNCHANGED <<imgs, rows, status, unseen>>
          /\ Unanswered' = Unanswered
      BY <1>1, <1>2, <2>2 DEF tableVars, Unanswered
    <3>2. \A q : q \in asks /\ q.of = d <=> q \in asks' /\ q.of = d
      BY <1>1, <2>2
    <3>3. newest'[d] = newest[d] /\ crossed'[d] = crossed[d] /\ ListOf(d)' = ListOf(d)
      BY <1>1 DEF ListOf
    <3> QED
      BY <3>1, <3>2, <3>3, LastUntouched
  <2> QED
    BY <2>1, <2>2
<1> QED
  BY <1>3, <1>4, <1>5, <1>6 DEF ConsoleInv

-----------------------------------------------------------------------------
(* The theorems *)

LEMMA ConsoleNextInv ==
    ASSUME ConsoleInv, [ConsoleNext]_consoleVars
    PROVE  ConsoleInv'
<1>1. CASE Administrator
  BY <1>1, AdministratorInv
<1>2. CASE Answers
  <2>1. \/ \/ \E s \in saves : SaveAnswered(s)
           \/ \E d \in deletes : DeleteAnswered(d)
           \/ \E i \in Images : UploadAnswered(i)
        \/ \/ \E s \in saves : SaveFails(s)
           \/ \E d \in deletes : DeleteFails(d)
           \/ \E i \in Images : UploadFails(i)
        \/ \E r \in asks : RefreshArrives(r) \/ RefreshFails(r)
    BY <1>2 DEF Answers
  <2> QED
    BY <2>1, AnsweredSteps, FailureSteps, ArrivalStep, RefreshFailsStep
<1>3. CASE Backend
  BY <1>3, BackendSteps, ServeStep DEF Backend
<1>4. CASE UNCHANGED consoleVars
  <2>1. UNCHANGED <<tableVars, contextVars, formVars, requestVars, unseen>>
    BY <1>4 DEF consoleVars
  <2>2. Unanswered' = Unanswered
    BY <2>1 DEF Unanswered, requestVars
  <2>3. TableTypes' /\ AskTypes' /\ \A c \in Contexts : LastIsCurrent(c)'
    BY <2>1, <2>2, TablesKept DEF ConsoleInv, TableTypes, requestVars
  <2>4. SubmissionInv' /\ DeletionTypes'
    BY <2>1 DEF ConsoleInv, SubmissionInv, Saved, DeletionTypes, requestVars, formVars, contextVars
  <2> QED
    BY <2>1, <2>3, <2>4, QuietStep
<1> QED
  BY <1>1, <1>2, <1>3, <1>4 DEF ConsoleNext

\* The invariant of the administrator's page.
THEOREM ConsoleInvariant == ConsoleSpec => []ConsoleInv
<1> QED
  BY ConsoleInitInv, ConsoleNextInv, PTL DEF ConsoleSpec

\* Types of all variables: among them that a submission whose request is going
\* keeps its button disabled, and that the mounted form is that of the work
\* being edited, with the values listed of it as its base.
THEOREM ConsoleTypeCorrect == ConsoleSpec => []ConsoleTypeOK
<1>1. ConsoleInv => ConsoleTypeOK
  <2> SUFFICES ASSUME ConsoleInv PROVE ConsoleTypeOK
    OBVIOUS
  <2>1. form # None => [text |-> form.text, thumb |-> form.thumb] \in Value
    BY DEF ConsoleInv, FormTypes, Forms, Value
  <2> QED
    BY <2>1 DEF ConsoleInv, ConsoleTypeOK, TableTypes, AskTypes, FormTypes, SubmissionInv,
                DeletionTypes
<1> QED
  BY <1>1, ConsoleInvariant, PTL

\* When every refresh is over, without an error and the newest answer shown, and
\* no change is stored that is not answered yet, the page lists the works as
\* they are stored, if the newest refresh was asked for after the last change by
\* others; and it shows every file reported as uploaded (WorksContext and
\* ImagesContext, each request's refresh after its answer).
THEOREM ListsCatchUp == ConsoleSpec => []ListsAreStored
<1>1. ConsoleInv => ListsAreStored
  <2> SUFFICES ASSUME ConsoleInv PROVE ListsAreStored
    OBVIOUS
  <2>1. ASSUME NEW c \in Contexts, Settled(c) PROVE Current(c, newest[c], ListOf(c))
    BY <2>1 DEF Settled, ConsoleInv, LastIsCurrent, PendingIsCurrent, AppliedIsCurrent
  <2>2. newest["works"] \in Nat /\ unseen \in Nat
    BY DEF ConsoleInv, AskTypes, Contexts
  <2>3. "works" \in Contexts /\ "images" \in Contexts
    BY DEF Contexts
  <2> QED
    BY <2>1, <2>3, <2>2 DEF ListsAreStored, Current, ListOf
<1> QED
  BY <1>1, ConsoleInvariant, PTL

\* A refresh that brings the same values of the work being edited leaves what
\* was typed in its form (initialKey in worksForm.tsx).
THEOREM FormSurvives == ConsoleSpec => RefreshKeepsForm
<1> DEFINE Kept == (list' # list \/ asks' # asks) /\ form # None /\ form' # None
                      /\ form'.mount = form.mount /\ list'[form.work] = list[form.work]
                   => form' = form
<1>1. ASSUME ConsoleInv, ConsoleNext PROVE Kept
  <2>1. FormTypes /\ list \in [Works -> Value \union {None}]
        /\ editing \in Works \union {None}
    BY <1>1 DEF ConsoleInv, TableTypes, FormTypes
  <2>2. ASSUME NEW ed \in Works \union {None}, Render(ed, list'),
               list' \in [Works -> Value \union {None}]
        PROVE  Kept
    BY <2>1, <2>2, Rendered
  <2>3. CASE Administrator
    <3>1. UNCHANGED contextVars
      BY <2>3, Zenon DEF Administrator, ToggleEdit, HandleDelete, Edit, ToggleImage, UploadFile,
                  DeleteImageElsewhere, SubmitEdit, SubmitNew, Submit
    <3> QED
      BY <3>1 DEF contextVars
  <2>4. CASE \/ \E s \in saves : SaveAnswered(s) \/ SaveFails(s)
             \/ \E i \in Images : UploadAnswered(i) \/ UploadFails(i)
             \/ \E d \in deletes : DeleteFails(d)
             \/ Backend
    <3>1. UNCHANGED formVars
      BY <2>4 DEF SaveAnswered, SaveFails, UploadAnswered, UploadFails, DeleteFails, Backend,
                  SaveCommits, DeleteFindsWork, DeleteCommits, UploadCommits, Serve
    <3> QED
      BY <3>1 DEF formVars
  <2>5. ASSUME NEW d \in deletes, DeleteAnswered(d) PROVE Kept
    <3> DEFINE ed == IF d.editing = d.work THEN None ELSE editing
    <3>1. Render(ed, list') /\ list' = list /\ ed \in Works \union {None}
      BY <2>1, <2>5 DEF DeleteAnswered
    <3> QED
      BY <2>1, <2>2, <3>1
  <2>6. ASSUME NEW r \in asks, RefreshArrives(r) \/ RefreshFails(r) PROVE Kept
    <3> DEFINE ed == IF (r.then # None /\ r.then.what = "saved") /\ r.then.mount # PostForm
                     THEN None ELSE editing
    <3>1. Render(ed, list')
      BY <2>6 DEF RefreshArrives, RefreshFails, Continue
    <3>2. ed \in Works \union {None} /\ list' \in [Works -> Value \union {None}]
      <4>1. ed \in Works \union {None}
        BY <2>1
      <4>2. CASE RefreshArrives(r)
        <5>1. r.at = "served" /\ list' = IF r.of = "works" THEN r.reply ELSE list
          BY <4>2 DEF RefreshArrives
        <5>2. AskTypes
          BY <1>1 DEF ConsoleInv
        <5> QED
          BY <2>1, <4>1, <5>1, <5>2 DEF AskTypes
      <4>3. CASE RefreshFails(r)
        BY <2>1, <4>1, <4>3 DEF RefreshFails
      <4> QED
        BY <2>6, <4>2, <4>3
    <3> QED
      BY <2>2, <3>1, <3>2
  <2> QED
    BY <1>1, <2>3, <2>4, <2>5, <2>6 DEF ConsoleNext, Answers
<1>2. ASSUME ConsoleInv, [ConsoleNext]_consoleVars PROVE [Kept]_consoleVars
  BY <1>1, <1>2
<1> HIDE DEF Kept
<1>3. ConsoleSpec => [][Kept]_consoleVars
  BY <1>2, ConsoleInvariant, PTL DEF ConsoleSpec
<1> QED
  BY <1>3 DEF Kept, RefreshKeepsForm

-----------------------------------------------------------------------------
(* What the administrator waits for *)

Deleted(r) == r.then # None /\ r.then.what = "deleted"

\* A form that is submitting, and the work that is being deleted, have something
\* under way that ends it: the request, or the refresh that follows it.
Awaited(m) == (\E s \in saves : s.mount = m) \/ \E r \in asks : Saved(r) /\ r.then.mount = m

DeletionAwaited ==
    deleting # None => (\E d \in deletes : d.work = deleting) \/ \E r \in asks : Deleted(r)

DisabledHasAnEnd == (\A m \in submitting : Awaited(m)) /\ DeletionAwaited

\* A request or a refresh more leaves everything awaited as it was.
LEMMA MoreIsUnderWay ==
    ASSUME DisabledHasAnEnd, saves \subseteq saves', deletes \subseteq deletes',
           asks \subseteq asks', submitting' = submitting, deleting' = deleting
    PROVE  DisabledHasAnEnd'
BY DEF DisabledHasAnEnd, Awaited, DeletionAwaited, Saved, Deleted

\* What the administrator does ends nothing.
LEMMA AdministratorAwaits ==
    ASSUME DisabledHasAnEnd, Administrator
    PROVE  DisabledHasAnEnd'
<1>1. ASSUME NEW mount, NEW w, NEW v, Submit(mount, w, v)
      PROVE  DisabledHasAnEnd'
  <2> DEFINE new == [mount |-> mount, work |-> w, value |-> v, at |-> "sent"]
  <2>1. /\ saves' = saves \union {new} /\ new.mount = mount
        /\ submitting' = submitting \union {mount}
        /\ UNCHANGED <<asks, deletes, deleting>>
    BY <1>1 DEF Submit, contextVars
  <2> HIDE DEF new
  <2> QED
    BY <2>1 DEF DisabledHasAnEnd, Awaited, DeletionAwaited, Saved, Deleted
<1>2. ASSUME NEW w \in Works, HandleDelete(w) PROVE DisabledHasAnEnd'
  <2> DEFINE new == [id |-> operations, work |-> w, editing |-> editing, at |-> "sent"]
  <2>1. /\ deletes' = deletes \union {new} /\ new.work = w /\ deleting' = w
        /\ UNCHANGED <<asks, saves, submitting>>
    BY <1>2 DEF HandleDelete, contextVars
  <2> HIDE DEF new
  <2> QED
    BY <2>1 DEF DisabledHasAnEnd, Awaited, DeletionAwaited, Saved, Deleted
<1>3. CASE \/ \E w \in Works : ToggleEdit(w)
           \/ \E t \in Texts : Edit(t)
           \/ \E i \in Images : ToggleImage(i) \/ UploadFile(i) \/ DeleteImageElsewhere(i)
  <2>1. ASSUME NEW i \in Images, UploadFile(i)
        PROVE  UNCHANGED <<contextVars, saves, deletes, submitting, deleting>>
    BY <2>1 DEF UploadFile
  <2>2. ASSUME \/ \E w \in Works : ToggleEdit(w)
               \/ \E t \in Texts : Edit(t)
               \/ \E i \in Images : ToggleImage(i) \/ DeleteImageElsewhere(i)
        PROVE  UNCHANGED <<contextVars, requestVars>>
    BY <2>2, Zenon DEF ToggleEdit, Edit, ToggleImage, DeleteImageElsewhere
  <2>3. UNCHANGED <<asks, saves, deletes, submitting, deleting>>
    BY <1>3, <2>1, <2>2 DEF contextVars, requestVars
  <2> QED
    BY <2>3, MoreIsUnderWay
<1> QED
  BY <1>1, <1>2, <1>3 DEF Administrator, SubmitEdit, SubmitNew

\* An answer ends a request together with its waiting, or hands it on to the
\* refresh that follows.
LEMMA AnswersAwait ==
    ASSUME ConsoleInv, DisabledHasAnEnd, Answers
    PROVE  DisabledHasAnEnd'
<1> USE DEF DisabledHasAnEnd, Awaited, DeletionAwaited, Saved, Deleted
<1>1. ASSUME NEW s \in saves, SaveAnswered(s) PROVE DisabledHasAnEnd'
  <2> DEFINE then == [what |-> "saved", mount |-> s.mount]
             new == [id |-> asked + 1, of |-> "works", at |-> "asked", then |-> then]
  <2>1. /\ saves' = saves \ {s} /\ asks' = asks \union {new}
        /\ UNCHANGED <<submitting, deletes, deleting>>
    BY <1>1 DEF SaveAnswered, Ask
  <2>2. s.mount \in Nat
    <3>1. SubmissionInv /\ FormTypes
      BY DEF ConsoleInv
    <3>2. s.mount \in submitting /\ submitting \subseteq 0 .. mounts
      BY <3>1 DEF SubmissionInv
    <3>3. 0 .. mounts \subseteq Nat
      BY <3>1 DEF FormTypes
    <3> QED
      BY <3>2, <3>3, Zenon
  <2>3. then # None
    BY <2>2, ConsoleAssumption DEF Sequels
  <2>4. new.then = then /\ then.what = "saved" /\ then.mount = s.mount
    OBVIOUS
  <2> HIDE DEF then, new
  <2> QED
    BY <2>1, <2>3, <2>4
<1>2. ASSUME NEW s \in saves, SaveFails(s) PROVE DisabledHasAnEnd'
  <2>1. /\ saves' = saves \ {s} /\ submitting' = submitting \ {s.mount}
        /\ UNCHANGED <<asks, deletes, deleting>>
    BY <1>2 DEF SaveFails, contextVars
  <2> QED
    BY <2>1
<1>3. ASSUME NEW d \in deletes, DeleteAnswered(d) PROVE DisabledHasAnEnd'
  <2> DEFINE then == [what |-> "deleted"]
             new == [id |-> asked + 1, of |-> "works", at |-> "asked", then |-> then]
  <2>1. /\ asks' = asks \union {new}
        /\ UNCHANGED <<saves, submitting, deleting>>
    BY <1>3 DEF DeleteAnswered, Ask
  <2>2. then # None
    BY ConsoleAssumption DEF Sequels
  <2>3. new.then = then /\ then.what = "deleted"
    OBVIOUS
  <2> HIDE DEF then, new
  <2> QED
    BY <2>1, <2>2, <2>3
<1>4. ASSUME NEW d \in deletes, DeleteFails(d) PROVE DisabledHasAnEnd'
  <2>1. deleting' = None /\ UNCHANGED <<asks, saves, submitting>>
    BY <1>4 DEF DeleteFails, contextVars
  <2> QED
    BY <2>1
<1>5. ASSUME NEW i \in Images, UploadAnswered(i) \/ UploadFails(i) PROVE DisabledHasAnEnd'
  <2>1. asks \subseteq asks' /\ UNCHANGED <<saves, submitting, deletes, deleting>>
    BY <1>5 DEF UploadAnswered, UploadFails, contextVars
  <2> QED
    BY <2>1, MoreIsUnderWay
<1>6. ASSUME NEW r \in asks, RefreshArrives(r) \/ RefreshFails(r) PROVE DisabledHasAnEnd'
  <2>1. /\ asks' = asks \ {r} /\ UNCHANGED <<saves, deletes>>
        /\ submitting' = IF Saved(r) THEN submitting \ {r.then.mount} ELSE submitting
        /\ deleting' = IF Deleted(r) THEN None ELSE deleting
    BY <1>6 DEF RefreshArrives, RefreshFails, Continue
  <2> QED
    BY <2>1
<1> QED
  BY <1>1, <1>2, <1>3, <1>4, <1>5, <1>6 DEF Answers

\* What the backend carries out leaves the requests to be answered.
LEMMA BackendAwaits ==
    ASSUME ConsoleInv, DisabledHasAnEnd, Backend
    PROVE  DisabledHasAnEnd'
<1> USE DEF DisabledHasAnEnd, Awaited, DeletionAwaited, Saved, Deleted
<1>1. ASSUME NEW s \in saves, SaveCommits(s) PROVE DisabledHasAnEnd'
  <2> DEFINE new == [s EXCEPT !.at = "stored"]
  <2>1. /\ saves' = (saves \ {s}) \union {new}
        /\ UNCHANGED <<asks, submitting, deletes, deleting>>
    BY <1>1 DEF SaveCommits, contextVars
  <2>2. new.mount = s.mount
    BY DEF ConsoleInv, SubmissionInv, Saves
  <2> HIDE DEF new
  <2> QED
    BY <2>1, <2>2
<1>2. ASSUME NEW d \in deletes, NEW at, UNCHANGED <<asks, saves, submitting, deleting>>,
             deletes' = (deletes \ {d}) \union {[d EXCEPT !.at = at]}
      PROVE  DisabledHasAnEnd'
  <2> DEFINE new == [d EXCEPT !.at = at]
  <2>1. deletes' = (deletes \ {d}) \union {new}
    BY <1>2
  <2>2. new.work = d.work
    BY DEF ConsoleInv, DeletionTypes, Deletes
  <2> HIDE DEF new
  <2> QED
    BY <1>2, <2>1, <2>2
<1>3. ASSUME NEW d \in deletes, DeleteFindsWork(d) \/ DeleteCommits(d) PROVE DisabledHasAnEnd'
  <2>1. UNCHANGED <<asks, saves, submitting, deleting>>
    BY <1>3 DEF DeleteFindsWork, DeleteCommits, contextVars
  <2>2. \/ deletes' = (deletes \ {d}) \union {[d EXCEPT !.at = "found"]}
        \/ deletes' = (deletes \ {d}) \union {[d EXCEPT !.at = "gone"]}
    BY <1>3 DEF DeleteFindsWork, DeleteCommits
  <2> HIDE DEF DisabledHasAnEnd
  <2> QED
    BY <1>2, <2>1, <2>2
<1>4. ASSUME NEW i \in Images, UploadCommits(i) PROVE DisabledHasAnEnd'
  <2>1. UNCHANGED <<asks, saves, submitting, deletes, deleting>>
    BY <1>4 DEF UploadCommits, contextVars, requestVars
  <2> QED
    BY <2>1, MoreIsUnderWay
<1>5. ASSUME NEW r \in asks, Serve(r) PROVE DisabledHasAnEnd'
  <2> DEFINE new == [id |-> r.id, of |-> r.of, at |-> "served", then |-> r.then,
                     reply |-> IF r.of = "works" THEN rows ELSE imgs]
  <2>1. /\ asks' = (asks \ {r}) \union {new} /\ new.then = r.then
        /\ UNCHANGED <<saves, submitting, deletes, deleting>>
    BY <1>5 DEF Serve, requestVars
  <2> HIDE DEF new
  <2> QED
    BY <2>1
<1> QED
  BY <1>1, <1>3, <1>4, <1>5 DEF Backend

\* No button stays disabled for nothing: a form that is submitting waits for
\* its request or for the refresh that follows, and so does a deletion, through
\* failures and refreshes in any order (handleSubmit, handleDelete).  With the
\* answers that must come, SubmissionEnds rests on this.
THEOREM DisabledButtonsWait == ConsoleSpec => []DisabledHasAnEnd
<1>1. ConsoleInit => DisabledHasAnEnd
  BY DEF ConsoleInit, DisabledHasAnEnd, DeletionAwaited
<1>2. ASSUME ConsoleInv, DisabledHasAnEnd, [ConsoleNext]_consoleVars PROVE DisabledHasAnEnd'
  <2>1. CASE UNCHANGED consoleVars
    BY <1>2, <2>1, MoreIsUnderWay DEF consoleVars, contextVars, requestVars
  <2> QED
    BY <1>2, <2>1, AdministratorAwaits, BackendAwaits, AnswersAwait DEF ConsoleNext
<1> QED
  BY <1>1, <1>2, ConsoleInvariant, PTL DEF ConsoleSpec
=============================================================================
