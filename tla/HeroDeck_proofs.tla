--------------------------- MODULE HeroDeck_proofs ---------------------------
(***************************************************************************)
(* What HeroDeck promises, for any pages, durations and lengths of the     *)
(* animations: the types, the agreement of moving and animated, of the     *)
(* stroke and the timer, and the timeline that is paused only when wanted. *)
(***************************************************************************)
EXTENDS HeroDeck, SequenceTheorems, TLAPS

(***************************************************************************)
(* The invariant                                                           *)
(***************************************************************************)

\* The timer runs while the rendered page rests; what the timer has begun and
\* is not yet rendered leaves the page; a page that has moved in has its whole
\* time, and one that is paused has what the stroke has not yet run.
TimeInv ==
    /\ timer # None => mounted /\ shown.auto /\ ~shown.moving
    /\ now.page # shown.page => timer = None
    /\ (mounted /\ shown.auto /\ ~shown.moving /\ now.page = shown.page) => timer # None
    /\ now.moving /\ ~shown.moving => now.page # shown.page
    /\ shown.moving => remaining = Duration[shown.page]
    /\ StrokeShowsTheTimeLeft
    /\ (mounted /\ timer = None /\ ~shown.moving /\ now.page = shown.page)
          => stroke + remaining = Duration[shown.page]

\* An animation that has been superseded began before the one that counts, and
\* ends no later.
AnimationInv ==
    /\ MovesWhileAnimated
    /\ ~mounted => active = None
    /\ active # None => \A t \in superseded : t <= active

\* A drag that the visitor began over a playing timeline restores it.
OpeningInv ==
    /\ PausedOnlyWhenWanted
    /\ (dragging /\ wanted) => saved = "playing"

IInv == TypeOK /\ TimeInv /\ AnimationInv /\ OpeningInv

-----------------------------------------------------------------------------
USE DeckAssumption DEF deckVars, timeVars, openingVars, vars

(***************************************************************************)
(* Lemmas about the operators                                              *)
(***************************************************************************)

\* Every page stays for a while, and every move takes a while.
LEMMA Times ==
    /\ \A p \in PageIds : Duration[p] \in Nat /\ Duration[p] > 0
    /\ Transition \in Nat /\ Transition > 0
<1>1. \A p \in PageIds : Duration[p] \in Nat /\ Duration[p] > 0
  BY DEF PageIds
<1>2. Transition \in Nat /\ Transition > 0
  BY DEF Transition, RestoreStart, TrackDelay
<1> QED
  BY <1>1, <1>2

\* Counting modulo Versions yields a version.
LEMMA VersionType ==
    ASSUME NEW v \in 0..Versions - 1
    PROVE  (v + 1) % Versions \in 0..Versions - 1
<1>1. v + 1 \in Int /\ Versions \in Int /\ Versions > 0
  OBVIOUS
<1> QED
  BY <1>1

\* The deck begins on the first of its pages.
LEMMA FirstStateType == FirstState \in State /\ FirstState.page \in PageIds
<1>1. Head(Pages) \in PageIds
  <2>1. Head(Pages) = Pages[1] /\ 1 \in DOMAIN Pages
    OBVIOUS
  <2> QED
    BY <2>1 DEF PageIds, Range
<1>2. 0 \in 0..Versions - 1 /\ 1 \in 0..Versions - 1
  OBVIOUS
<1>3. [p \in PageIds |-> IF p = Head(Pages) THEN 1 ELSE 0] \in [PageIds -> 0..Versions - 1]
  BY <1>2
<1> QED
  BY <1>1, <1>3 DEF FirstState, State

\* A page that is entered is a page, and the deck then moves.
LEMMA EnteredType ==
    ASSUME TypeOK, NEW p \in PageIds
    PROVE  Entered(p) \in State /\ Entered(p).page = p /\ Entered(p).moving
<1>1. now \in State
  BY DEF TypeOK
<1>2. (now.version[p] + 1) % Versions \in 0..Versions - 1
  BY <1>1, VersionType DEF State
<1> DEFINE versions == [now.version EXCEPT ![p] = (@ + 1) % Versions]
<1>3. versions \in [PageIds -> 0..Versions - 1]
  BY <1>1, <1>2 DEF State
<1>4. Entered(p) = [now EXCEPT !.page = p, !.moving = TRUE, !.version = versions]
  BY <1>1 DEF Entered, State
<1> HIDE DEF versions
<1> QED
  BY <1>1, <1>3, <1>4 DEF State

\* With two pages or more, the next one is another.
LEMMA NextPageType ==
    ASSUME TypeOK
    PROVE  NextPage \in PageIds /\ NextPage # shown.page
<1> DEFINE i == CHOOSE i \in DOMAIN Pages : Pages[i] = shown.page
<1>1. i \in 1..Len(Pages) /\ Pages[i] = shown.page
  <2>1. shown.page \in Range(Pages)
    BY DEF TypeOK, State, PageIds
  <2>2. \E j \in DOMAIN Pages : Pages[j] = shown.page
    BY <2>1 DEF Range
  <2> QED
    BY <2>2
<1> DEFINE j == (i % Len(Pages)) + 1
<1>2. NextPage = Pages[j]
  BY DEF NextPage
<1> HIDE DEF i
<1>3. j \in 1..Len(Pages) /\ j # i
  <2>1. Len(Pages) \in Nat /\ Len(Pages) >= 2
    OBVIOUS
  <2>2. i \in Nat /\ i > 0 /\ i <= Len(Pages)
    BY <1>1
  <2>3. CASE i = Len(Pages)
    <3>1. i % Len(Pages) = 0
      BY <2>1, <2>3
    <3> QED
      BY <2>1, <2>3, <3>1
  <2>4. CASE i < Len(Pages)
    <3>1. i % Len(Pages) = i
      BY <2>1, <2>2, <2>4
    <3> QED
      BY <2>1, <2>2, <2>4, <3>1
  <2> QED
    BY <2>1, <2>2, <2>3, <2>4
<1> HIDE DEF j
<1>4. Pages[j] \in PageIds /\ Pages[j] # Pages[i]
  BY <1>1, <1>3 DEF PageIds, Range, IsInjective
<1> QED
  BY <1>1, <1>2, <1>4

(***************************************************************************)
(* A render                                                                *)
(***************************************************************************)

\* What a render makes of a well-typed state is well typed.
LEMMA CommitType ==
    ASSUME TypeOK, NEW s \in State, Commit(s)
    PROVE  /\ now' \in State /\ shown' \in State /\ pageRef' = shown'.page
           /\ remaining' \in 0..Duration[pageRef']
           /\ timer' \in {None} \union 0..Duration[pageRef']
           /\ stroke' \in 0..Duration[shown'.page]
           /\ timeline' \in [status : {"playing", "paused", "finished"}, at : 0..Timeline]
           /\ saved' \in {None, "playing", "paused", "finished"}
           /\ dragging' \in BOOLEAN /\ wanted' \in BOOLEAN
<1>1. now' = s /\ shown' = s /\ s.page \in PageIds /\ shown.page \in PageIds
  BY DEF Commit, State, TypeOK
<1>2. pageRef = shown.page /\ remaining \in 0..Duration[pageRef]
        /\ timer \in {None} \union 0..Duration[pageRef] /\ stroke \in 0..Duration[shown.page]
  BY DEF TypeOK
<1> DEFINE left == Kept(s.page, IF timer = None THEN remaining ELSE timer)
<1>3. Duration[s.page] \in Nat /\ left \in 0..Duration[s.page]
  BY <1>1, <1>2, Times DEF Kept
<1> HIDE DEF left
<1>4. /\ pageRef' = s.page /\ remaining' \in 0..Duration[s.page]
      /\ timer' \in {None} \union 0..Duration[s.page]
  <2>1. CASE s.auto = shown.auto /\ s.page = shown.page /\ s.moving = shown.moving
    BY <1>2, <2>1 DEF Commit, PaginationEffect
  <2>2. CASE ~(s.auto = shown.auto /\ s.page = shown.page /\ s.moving = shown.moving)
    <3>1. /\ pageRef' = s.page /\ remaining' = left
          /\ timer' = IF s.auto /\ ~s.moving THEN left ELSE None
      BY <2>2 DEF Commit, PaginationEffect, left
    <3> QED
      BY <1>3, <3>1
  <2> QED
    BY <2>1, <2>2
<1>5. stroke' \in 0..Duration[s.page]
  BY <1>1, <1>2, <1>3 DEF Commit, StrokeOf
<1>6. /\ timeline' \in [status : {"playing", "paused", "finished"}, at : 0..Timeline]
      /\ saved' \in {None, "playing", "paused", "finished"}
      /\ dragging' \in BOOLEAN /\ wanted' \in BOOLEAN
  <2>1. CASE /\ timeline' = FirstTimeline /\ saved' = None
             /\ dragging' = FALSE /\ wanted' = TRUE
    <3>1. FirstTimeline \in [status : {"playing", "paused", "finished"}, at : 0..Timeline]
      BY DEF FirstTimeline
    <3> QED
      BY <2>1, <3>1
  <2>2. CASE UNCHANGED openingVars
    BY <2>2 DEF TypeOK
  <2> QED
    BY <2>1, <2>2 DEF Commit, RemountOpening
<1> QED
  BY <1>1, <1>4, <1>5, <1>6

\* A render keeps the time, if what it shows anew leaves the page.
LEMMA CommitTime ==
    ASSUME TypeOK, TimeInv, mounted, mounted', NEW s \in State, Commit(s),
           s.page = shown.page => now.page = shown.page /\ (s.moving => shown.moving)
    PROVE  TimeInv'
<1> USE DEF TimeInv, StrokeShowsTheTimeLeft
<1>1. now' = s /\ shown' = s /\ s.page \in PageIds /\ shown.page \in PageIds
        /\ s.moving \in BOOLEAN /\ s.auto \in BOOLEAN
        /\ shown.moving \in BOOLEAN /\ shown.auto \in BOOLEAN
  BY DEF Commit, State, TypeOK
<1>2. pageRef = shown.page /\ remaining \in 0..Duration[pageRef]
        /\ timer \in {None} \union 0..Duration[pageRef] /\ stroke \in 0..Duration[shown.page]
  BY DEF TypeOK
<1>3. Duration[s.page] \in Nat /\ Duration[shown.page] \in Nat
  BY <1>1, Times
<1>4. stroke' = IF s.moving \/ shown.moving \/ s.page # shown.page THEN 0 ELSE stroke
  BY DEF Commit, StrokeOf
<1>5. CASE s.page # shown.page
  <2>1. remaining' = Duration[s.page] /\ stroke' = 0
          /\ timer' = IF s.auto /\ ~s.moving THEN Duration[s.page] ELSE None
    BY <1>2, <1>4, <1>5 DEF Commit, PaginationEffect, Kept
  <2> QED
    BY <1>1, <1>3, <2>1
<1>6. CASE s.page = shown.page /\ s.auto = shown.auto /\ s.moving = shown.moving
  <2>1. remaining' = remaining /\ timer' = timer
    BY <1>6 DEF Commit, PaginationEffect
  <2> QED
    BY <1>1, <1>2, <1>3, <1>4, <1>6, <2>1
<1>7. CASE s.page = shown.page /\ ~(s.auto = shown.auto /\ s.moving = shown.moving)
  <2>1. /\ remaining' = IF timer = None THEN remaining ELSE timer
        /\ timer' = IF s.auto /\ ~s.moving THEN remaining' ELSE None
    BY <1>2, <1>7 DEF Commit, PaginationEffect, Kept
  <2> QED
    BY <1>1, <1>2, <1>3, <1>4, <1>7, <2>1
<1> QED
  BY <1>5, <1>6, <1>7

\* The opening page starts anew or goes on.
LEMMA CommitOpening ==
    ASSUME OpeningInv, mounted, NEW s, Commit(s)
    PROVE  OpeningInv'
BY DEF OpeningInv, PausedOnlyWhenWanted, Commit, RemountOpening, FirstTimeline

(***************************************************************************)
(* The steps                                                               *)
(***************************************************************************)

\* It holds when the top page is opened.
LEMMA InitInv == Init => IInv
<1> SUFFICES ASSUME Init PROVE IInv
  OBVIOUS
<1>1. /\ now = FirstState /\ shown = FirstState /\ FirstState \in State
      /\ FirstState.page \in PageIds
      /\ Duration[FirstState.page] \in Nat /\ Duration[FirstState.page] > 0
  BY FirstStateType, Times DEF Init
<1>2. FirstState.moving = FALSE /\ FirstState.auto = TRUE
  BY DEF FirstState
<1>3. TypeOK
  <2>1. FirstTimeline \in [status : {"playing", "paused", "finished"}, at : 0..Timeline]
    BY DEF FirstTimeline
  <2>2. now \in State /\ shown \in State /\ pageRef = shown.page
          /\ mounted \in BOOLEAN /\ dragging \in BOOLEAN /\ wanted \in BOOLEAN
          /\ active = None /\ superseded = {} /\ saved = None
    BY <1>1 DEF Init
  <2>3. /\ remaining \in 0..Duration[pageRef]
        /\ timer \in {None} \union 0..Duration[pageRef]
        /\ stroke \in 0..Duration[shown.page]
    BY <1>1 DEF Init
  <2>4. timeline = FirstTimeline
    BY DEF Init
  <2> QED
    BY <2>1, <2>2, <2>3, <2>4 DEF TypeOK
<1>4. TimeInv
  BY <1>1, <1>2 DEF Init, TimeInv, StrokeShowsTheTimeLeft
<1>5. AnimationInv
  BY <1>1, <1>2 DEF Init, AnimationInv, MovesWhileAnimated
<1>6. OpeningInv
  BY DEF Init, OpeningInv, PausedOnlyWhenWanted, FirstTimeline
<1> QED
  BY <1>3, <1>4, <1>5, <1>6 DEF IInv

\* What Animate leaves is an animation that counts and older ones.
LEMMA AnimateType ==
    ASSUME TypeOK, Animate
    PROVE  /\ active' \in {None} \union 0..Transition
           /\ superseded' \subseteq 0..Transition
           /\ active' # None /\ active' = Transition
<1>1. Transition \in 0..Transition /\ Transition # None
  BY Times
<1>2. superseded' \subseteq 0..Transition
  BY DEF TypeOK, Animate
<1> QED
  BY <1>1, <1>2 DEF Animate

\* The types are kept.
LEMMA TypeStep == TypeOK /\ [Next]_vars => TypeOK'
<1> SUFFICES ASSUME TypeOK, [Next]_vars PROVE TypeOK'
  OBVIOUS
<1> DEFINE Timelines == [status : {"playing", "paused", "finished"}, at : 0..Timeline]
<1>1. ASSUME NEW p \in PageIds, ClickPage(p) PROVE TypeOK'
  BY <1>1, EnteredType, CommitType, AnimateType DEF ClickPage, TypeOK
<1>2. ASSUME ClickPause PROVE TypeOK'
  <2>1. [now EXCEPT !.auto = ~shown.auto] \in State
    BY DEF TypeOK, State
  <2> QED
    BY <1>2, <2>1, CommitType DEF ClickPause, TypeOK
<1>3. ASSUME Render PROVE TypeOK'
  BY <1>3, CommitType DEF Render, TypeOK
<1>4. ASSUME TimerFires PROVE TypeOK'
  <2>1. Duration[shown.page] \in Nat /\ pageRef = shown.page
    BY Times DEF TypeOK, State
  <2>2. /\ now' \in State /\ active' \in {None} \union 0..Transition
        /\ superseded' \subseteq 0..Transition
    <3>1. CASE CanGoTo(NextPage)
      BY <1>4, <3>1, NextPageType, EnteredType, AnimateType DEF TimerFires
    <3>2. CASE ~CanGoTo(NextPage)
      BY <1>4, <3>2 DEF TimerFires, TypeOK
    <3> QED
      BY <3>1, <3>2
  <2>3. remaining' \in 0..Duration[shown.page]
    BY <1>4, <2>1 DEF TimerFires
  <2> QED
    BY <1>4, <2>1, <2>2, <2>3 DEF TimerFires, TypeOK
<1>5. ASSUME AnimationsSettle \/ SupersededSettle PROVE TypeOK'
  <2>1. [now EXCEPT !.moving = FALSE] \in State
    BY DEF TypeOK, State
  <2> QED
    BY <1>5, <2>1 DEF AnimationsSettle, SupersededSettle, TypeOK
<1>6. ASSUME Unmount PROVE TypeOK'
  <2>1. [timeline EXCEPT !.status = "paused"] \in Timelines
    BY DEF TypeOK
  <2> QED
    BY <1>6, <2>1 DEF Unmount, TypeOK
<1>7. ASSUME Mount PROVE TypeOK'
  <2>1. FirstTimeline \in Timelines
    BY DEF FirstTimeline
  <2>2. /\ Duration[FirstState.page] \in 0..Duration[FirstState.page]
        /\ 0 \in 0..Duration[FirstState.page]
    BY FirstStateType, Times
  <2> QED
    BY <1>7, <2>1, <2>2, FirstStateType DEF Mount, TypeOK
<1>8. ASSUME UNCHANGED <<deckVars, timeVars>>, timeline' \in Timelines,
             saved' \in {None, "playing", "paused", "finished"},
             dragging' \in BOOLEAN, wanted' \in BOOLEAN
      PROVE  TypeOK'
  BY <1>8 DEF TypeOK
<1>9. ASSUME Play PROVE timeline' \in Timelines
  <2>1. FirstTimeline \in Timelines /\ [timeline EXCEPT !.status = "playing"] \in Timelines
    BY SMTT(30) DEF FirstTimeline, TypeOK
  <2> QED
    BY <1>9, <2>1 DEF Play
<1>10. \A st \in {"playing", "paused", "finished"} : [timeline EXCEPT !.status = st] \in Timelines
  BY DEF TypeOK
<1>11. /\ timeline.status \in {"playing", "paused", "finished"} /\ timeline \in Timelines
       /\ saved \in {None, "playing", "paused", "finished"}
       /\ dragging \in BOOLEAN /\ wanted \in BOOLEAN
  BY DEF TypeOK
<1>12. ASSUME ClickPlay PROVE TypeOK'
  BY <1>8, <1>9, <1>10, <1>11, <1>12 DEF ClickPlay, SnapshotStatus, Paused
<1>13. ASSUME SeekBarDown PROVE TypeOK'
  BY <1>8, <1>10, <1>11, <1>13 DEF SeekBarDown, SnapshotStatus, Paused
<1>14. ASSUME NEW t \in 0..Timeline, Seek(t) PROVE TypeOK'
  <2>1. timeline' \in Timelines
    BY <1>11, <1>14 DEF Seek, Sought
  <2> QED
    BY <1>8, <1>11, <1>14, <2>1 DEF Seek
<1>15. ASSUME SeekBarUp PROVE TypeOK'
  <2>1. timeline' \in Timelines
    BY <1>9, <1>11, <1>15 DEF SeekBarUp
  <2>2. wanted' \in BOOLEAN
    BY <1>11, <1>15 DEF SeekBarUp, Input
  <2> QED
    BY <1>8, <1>11, <1>15, <2>1, <2>2 DEF SeekBarUp
<1>16. ASSUME SeekBarLost PROVE TypeOK'
  BY <1>8, <1>11, <1>16 DEF SeekBarLost
<1>17. ASSUME Tick PROVE TypeOK'
  <2>1. ASSUME NEW n \in Nat, NEW t \in {None} \union 0..n
        PROVE  Lower(t) \in {None} \union 0..n /\ (t # None => Lower(t) \in 0..n)
    BY DEF Lower
  <2>2. Duration[shown.page] \in Nat /\ Transition \in Nat /\ pageRef = shown.page
    BY Times DEF TypeOK, State
  <2>3. timer' \in {None} \union 0..Duration[pageRef] /\ active' \in {None} \union 0..Transition
    BY <1>17, <2>1, <2>2 DEF Tick, TypeOK
  <2>4. superseded' \subseteq 0..Transition
    BY <1>17, <2>1, <2>2 DEF Tick, TypeOK
  <2>5. stroke' \in 0..Duration[shown.page]
    BY <1>17, <2>2 DEF Tick, TypeOK, Higher
  <2>6. timeline' \in Timelines
    <3>1. timeline.at \in 0..Timeline /\ Higher(timeline.at, Timeline) \in 0..Timeline
      BY DEF TypeOK, Higher
    <3> QED
      BY <1>11, <1>17, <3>1 DEF Tick
  <2> QED
    BY <1>17, <2>3, <2>4, <2>5, <2>6 DEF Tick, TypeOK
<1>18. CASE UNCHANGED vars
  BY <1>18 DEF TypeOK
<1> QED
  BY <1>1, <1>2, <1>3, <1>4, <1>5, <1>6, <1>7, <1>12, <1>13, <1>14, <1>15, <1>16, <1>17, <1>18
     DEF Next, Visitor

\* The timer, the remaining time and the stroke stay in step.
LEMMA TimeStep == TypeOK /\ TimeInv /\ [Next]_vars => TimeInv'
<1> SUFFICES ASSUME TypeOK, TimeInv, [Next]_vars PROVE TimeInv'
  OBVIOUS
<1> USE DEF TimeInv, StrokeShowsTheTimeLeft
<1>0. /\ shown.page \in PageIds /\ now.page \in PageIds /\ pageRef = shown.page
      /\ Duration[shown.page] \in Nat /\ Duration[shown.page] > 0
      /\ timer \in {None} \union Nat /\ stroke \in 0..Duration[shown.page]
      /\ remaining \in 0..Duration[shown.page]
  BY Times DEF TypeOK, State
<1>1. ASSUME NEW p \in PageIds, ClickPage(p) PROVE TimeInv'
  BY <1>1, EnteredType, CommitTime DEF ClickPage, CanGoTo
<1>2. ASSUME ClickPause PROVE TimeInv'
  <2> DEFINE s == [now EXCEPT !.auto = ~shown.auto]
  <2>1. s \in State /\ s.page = now.page /\ s.moving = now.moving
    BY DEF TypeOK, State
  <2> HIDE DEF s
  <2>2. mounted /\ mounted' /\ Commit(s)
    BY <1>2 DEF ClickPause, s
  <2>3. s.page = shown.page => now.page = shown.page /\ (s.moving => shown.moving)
    BY <2>1
  <2> QED
    BY <2>1, <2>2, <2>3, CommitTime
<1>3. ASSUME Render PROVE TimeInv'
  <2>1. mounted /\ mounted' /\ Commit(now) /\ now \in State
    BY <1>3 DEF Render, TypeOK
  <2> QED
    BY <2>1, CommitTime
<1>4. ASSUME TimerFires PROVE TimeInv'
  <2>1. timer # None /\ timer = 0
    BY <1>4 DEF TimerFires
  <2>2. CanGoTo(NextPage) /\ now' = Entered(NextPage) /\ now'.page # shown.page
    BY <1>4, <2>1, NextPageType, EnteredType DEF TimerFires, CanGoTo
  <2> QED
    BY <1>0, <1>4, <2>1, <2>2 DEF TimerFires
<1>5. ASSUME AnimationsSettle PROVE TimeInv'
  <2>1. now'.page = now.page /\ now'.moving = FALSE
    BY <1>5 DEF AnimationsSettle, TypeOK, State
  <2> QED
    BY <1>5, <2>1 DEF AnimationsSettle
<1>6. ASSUME SupersededSettle PROVE TimeInv'
  BY <1>6 DEF SupersededSettle
<1>7. ASSUME Unmount PROVE TimeInv'
  BY <1>7 DEF Unmount
<1>8. ASSUME Mount PROVE TimeInv'
  <2>1. FirstState.moving = FALSE /\ FirstState.auto = TRUE
          /\ Duration[FirstState.page] \in Nat
    BY FirstStateType, Times DEF FirstState
  <2>2. /\ now' = FirstState /\ shown' = FirstState /\ mounted'
        /\ timer' = Duration[FirstState.page] /\ stroke' = 0
    BY <1>8 DEF Mount
  <2> QED
    BY <2>1, <2>2
<1>9. ASSUME UNCHANGED <<deckVars, timeVars>> PROVE TimeInv'
  BY <1>9
<1>10. ASSUME Tick PROVE TimeInv'
  <2>1. UNCHANGED <<mounted, now, shown, remaining>>
    BY <1>10 DEF Tick
  <2>2. CASE timer = None
    <3>1. timer' = None
      BY <1>10, <2>2 DEF Tick, Lower
    <3>2. mounted /\ ~shown.moving /\ now.page = shown.page => stroke' = stroke /\ ~shown.auto
      BY <1>10, <2>2 DEF Tick
    <3> QED
      BY <2>1, <2>2, <3>1, <3>2
  <2>3. CASE timer # None
    <3>1. timer' = IF timer = 0 THEN 0 ELSE timer - 1
      BY <1>10, <2>3 DEF Tick, Lower
    <3>2. stroke' = IF stroke < Duration[shown.page] THEN stroke + 1 ELSE stroke
      BY <1>10, <2>3 DEF Tick, Higher
    <3>3. timer' # None /\ stroke' + timer' = Duration[shown.page]
      BY <1>0, <2>3, <3>1, <3>2, SMTT(30)
    <3> QED
      BY <2>1, <2>3, <3>3
  <2> QED
    BY <2>2, <2>3
<1>11. ASSUME ClickPlay \/ SeekBarDown \/ SeekBarUp \/ SeekBarLost
                \/ \E t \in 0..Timeline : Seek(t)
       PROVE  UNCHANGED <<deckVars, timeVars>>
  BY <1>11 DEF ClickPlay, SeekBarDown, SeekBarUp, SeekBarLost, Seek
<1> QED
  BY <1>1, <1>2, <1>3, <1>4, <1>5, <1>6, <1>7, <1>8, <1>9, <1>10, <1>11
     DEF Next, Visitor

\* The deck moves as long as the animation that counts runs.
LEMMA AnimationStep == TypeOK /\ TimeInv /\ AnimationInv /\ [Next]_vars => AnimationInv'
<1> SUFFICES ASSUME TypeOK, TimeInv, AnimationInv, [Next]_vars PROVE AnimationInv'
  OBVIOUS
<1> USE DEF AnimationInv, MovesWhileAnimated
<1>0. /\ active \in {None} \union 0..Transition /\ superseded \subseteq 0..Transition
      /\ Transition \in Nat /\ None \notin Nat /\ now.moving \in BOOLEAN
  BY Times DEF TypeOK, State
\* A move that begins: its animation lasts longer than any other.
<1>1. ASSUME Animate, mounted', now'.moving PROVE AnimationInv'
  <2>1. active' = Transition /\ active' # None /\ superseded' \subseteq 0..Transition
    BY <1>1, AnimateType
  <2>2. \A t \in superseded' : t <= active'
    BY <1>0, <2>1
  <2> QED
    BY <1>1, <2>1, <2>2
<1>2. ASSUME UNCHANGED <<mounted, active, superseded, now>> PROVE AnimationInv'
  BY <1>2
<1>3. ASSUME NEW p \in PageIds, ClickPage(p) PROVE AnimationInv'
  <2>1. Animate /\ mounted' /\ now' = Entered(p)
    BY <1>3 DEF ClickPage, Commit
  <2> QED
    BY <1>1, <2>1, EnteredType
<1>4. ASSUME ClickPause PROVE AnimationInv'
  <2>1. now'.moving = now.moving
    BY <1>4 DEF ClickPause, Commit, TypeOK, State
  <2> QED
    BY <1>4, <2>1 DEF ClickPause
<1>5. ASSUME Render PROVE AnimationInv'
  BY <1>2, <1>5 DEF Render, Commit
<1>6. ASSUME TimerFires PROVE AnimationInv'
  <2>1. CASE CanGoTo(NextPage)
    <3>1. mounted
      BY <1>6 DEF TimeInv, TimerFires
    <3>2. Animate /\ mounted' /\ now' = Entered(NextPage)
      BY <1>6, <2>1, <3>1 DEF TimerFires
    <3> QED
      BY <1>1, <3>2, NextPageType, EnteredType
  <2>2. CASE ~CanGoTo(NextPage)
    BY <1>2, <1>6, <2>2 DEF TimerFires
  <2> QED
    BY <2>1, <2>2
\* The older ones have ended with it, or before.
<1>7. ASSUME AnimationsSettle PROVE AnimationInv'
  <2>1. active = 0 /\ active # None /\ mounted /\ active' = None
          /\ UNCHANGED <<mounted, superseded>>
    BY <1>7 DEF AnimationsSettle
  <2>2. superseded \ {0} = {}
    BY <1>0, <2>1
  <2>3. now'.moving = FALSE
    BY <1>7 DEF AnimationsSettle, TypeOK, State
  <2> QED
    BY <2>1, <2>2, <2>3
<1>8. ASSUME SupersededSettle PROVE AnimationInv'
  BY <1>8 DEF SupersededSettle
<1>9. ASSUME Unmount PROVE AnimationInv'
  BY <1>9 DEF Unmount
<1>10. ASSUME Mount PROVE AnimationInv'
  <2>1. active' = None /\ superseded' = {} /\ now' = FirstState
    BY <1>10 DEF Mount
  <2> QED
    BY <2>1 DEF FirstState
<1>11. ASSUME Tick PROVE AnimationInv'
  <2>1. /\ active' = Lower(active) /\ superseded' = {Lower(t) : t \in superseded}
        /\ UNCHANGED <<mounted, now>>
    BY <1>11 DEF Tick
  <2>2. active' # None <=> active # None
    BY <1>0, <2>1 DEF Lower
  <2>3. superseded' \ {0} # {} => superseded \ {0} # {}
    BY <1>0, <2>1 DEF Lower
  <2>4. active' # None => \A t \in superseded' : t <= active'
    <3> SUFFICES ASSUME active' # None, NEW t \in superseded PROVE Lower(t) <= Lower(active)
      BY <2>1
    <3>1. active \in Nat /\ t \in Nat /\ t <= active
      BY <1>0, <2>2
    <3> QED
      BY <1>0, <3>1 DEF Lower
  <2> QED
    BY <2>1, <2>2, <2>3, <2>4
<1>12. ASSUME ClickPlay \/ SeekBarDown \/ SeekBarUp \/ SeekBarLost
                \/ (\E t \in 0..Timeline : Seek(t)) \/ UNCHANGED vars
       PROVE  AnimationInv'
  BY <1>2, <1>12 DEF ClickPlay, SeekBarDown, SeekBarUp, SeekBarLost, Seek
<1> QED
  BY <1>3, <1>4, <1>5, <1>6, <1>7, <1>8, <1>9, <1>10, <1>11, <1>12 DEF Next, Visitor

\* Only the button, and a drag not ended over the page, pause the timeline.
LEMMA OpeningStep == TypeOK /\ OpeningInv /\ [Next]_vars => OpeningInv'
<1> SUFFICES ASSUME TypeOK, OpeningInv, [Next]_vars PROVE OpeningInv'
  OBVIOUS
<1> USE DEF OpeningInv, PausedOnlyWhenWanted
<1>0. timeline \in [status : {"playing", "paused", "finished"}, at : 0..Timeline]
  BY DEF TypeOK
<1>1. ASSUME UNCHANGED openingVars, mounted' => mounted PROVE OpeningInv'
  BY <1>1
<1>2. ASSUME Play PROVE timeline'.status = "playing"
  BY <1>0, <1>2 DEF Play, FirstTimeline
<1>3. ASSUME NEW p \in PageIds, ClickPage(p) PROVE OpeningInv'
  BY <1>3, CommitOpening DEF ClickPage
<1>4. ASSUME ClickPause \/ Render PROVE OpeningInv'
  BY <1>4, CommitOpening DEF ClickPause, Render
<1>5. ASSUME TimerFires \/ AnimationsSettle \/ SupersededSettle PROVE OpeningInv'
  BY <1>1, <1>5 DEF TimerFires, AnimationsSettle, SupersededSettle
<1>6. ASSUME Unmount \/ Mount PROVE OpeningInv'
  BY <1>6 DEF Unmount, Mount, FirstTimeline
<1>7. ASSUME ClickPlay PROVE OpeningInv'
  BY <1>2, <1>7 DEF ClickPlay, SnapshotStatus, Paused
<1>8. ASSUME SeekBarDown PROVE OpeningInv'
  BY <1>8 DEF SeekBarDown
<1>9. ASSUME NEW t \in 0..Timeline, Seek(t) PROVE OpeningInv'
  <2>1. wanted' => wanted /\ timeline.status # "finished"
    BY <1>9 DEF Seek
  <2>2. wanted' => timeline'.status = timeline.status
    BY <1>9, <2>1 DEF Seek, Sought
  <2>3. UNCHANGED <<mounted, saved, dragging>>
    BY <1>9 DEF Seek
  <2> QED
    BY <2>1, <2>2, <2>3
\* A drag that ends over the page restores what it has stopped.
<1>10. ASSUME SeekBarUp PROVE OpeningInv'
  <2>1. wanted' => wanted /\ dragging /\ Input /\ saved = "playing"
    BY <1>10 DEF SeekBarUp
  <2>2. wanted' => timeline'.status = "playing"
    BY <1>2, <1>10, <2>1 DEF SeekBarUp
  <2> QED
    BY <1>10, <2>2 DEF SeekBarUp
<1>11. ASSUME SeekBarLost PROVE OpeningInv'
  BY <1>11 DEF SeekBarLost
<1>12. ASSUME Tick PROVE OpeningInv'
  <2>1. timeline'.status = "paused" => timeline.status = "paused"
    BY <1>12 DEF Tick
  <2> QED
    BY <1>12, <2>1 DEF Tick
<1>13. CASE UNCHANGED vars
  BY <1>1, <1>13
<1> QED
  BY <1>3, <1>4, <1>5, <1>6, <1>7, <1>8, <1>9, <1>10, <1>11, <1>12, <1>13 DEF Next, Visitor

(***************************************************************************)
(* What holds in every reachable state                                     *)
(***************************************************************************)

\* The four parts hold together.
THEOREM Invariant == Spec => []IInv
<1>1. IInv /\ [Next]_vars => IInv'
  BY TypeStep, TimeStep, AnimationStep, OpeningStep DEF IInv
<1> QED
  BY InitInv, <1>1, PTL DEF Spec

\* The variables keep their types, the time left of a page and the stroke
\* within its duration.
THEOREM TypeCorrect == Spec => []TypeOK
<1>1. IInv => TypeOK
  BY DEF IInv
<1> QED
  BY Invariant, <1>1, PTL

\* goTo and the settling of the animations: the deck refuses pages exactly
\* while the latest move is animated, whichever clicks overtook the timer.
THEOREM DeckMovesWhileAnimated == Spec => []MovesWhileAnimated
<1>1. IInv => MovesWhileAnimated
  BY DEF IInv, AnimationInv
<1> QED
  BY Invariant, <1>1, PTL

\* The pagination effect: through all pauses the timer has as long to run as
\* the stroke round the page's button.
THEOREM StrokeAndTimerAgree == Spec => []StrokeShowsTheTimeLeft
<1>1. IInv => StrokeShowsTheTimeLeft
  BY DEF IInv, TimeInv
<1> QED
  BY Invariant, <1>1, PTL

\* The seek bar: a drag leaves no timeline paused that the visitor wants to run.
THEOREM TimelineRunsWhenWanted == Spec => []PausedOnlyWhenWanted
<1>1. IInv => PausedOnlyWhenWanted
  BY DEF IInv, OpeningInv
<1> QED
  BY Invariant, <1>1, PTL
=============================================================================
