------------------------------ MODULE HeroDeck ------------------------------
(* The hero of the top page: HeroDeck, which shows one page at a time, moves *)
(* between them with animations and pages on by itself, the buttons of       *)
(* HeroSection over it, and the timeline of the opening page.                *)
(*                                                                           *)
(* A handler works with the values of the last render, shown, and what it    *)
(* sets is now.  A click renders at once; what a timer or a promise sets is  *)
(* rendered some time later, and a click may come first.  Time passes in     *)
(* ticks; what is due may be late.                                           *)
EXTENDS Integers, Sequences, Functions

CONSTANTS
    Pages,          \* ids of heroPages, in order
    Duration,       \* durationMs of each page, in ticks
    Opening,        \* the page with a timeline, remounted when it is entered
    ShrinkTime,     \* HERO_FRAME_SHRINK_DURATION_MS, in ticks
    GapTime,        \* HERO_PHASE_GAP_MS
    TrackTime,      \* HERO_TRACK_DURATION_MS
    RestoreTime,    \* HERO_FRAME_RESTORE_DURATION_MS
    Timeline,       \* length of the opening timeline in ticks
    Versions,       \* bound: activation versions are counted modulo this
    None

ASSUME DeckAssumption ==
    /\ Pages \in Seq(STRING) /\ Len(Pages) >= 2 /\ IsInjective(Pages)
    /\ Duration \in [Range(Pages) -> Nat \ {0}]
    /\ Opening \in Range(Pages)
    /\ ShrinkTime \in Nat \ {0} /\ GapTime \in Nat
    /\ TrackTime \in Nat \ {0} /\ RestoreTime \in Nat
    /\ Timeline \in Nat \ {0}
    /\ Versions \in Nat /\ Versions > 2
    /\ None \notin Nat

PageIds == Range(Pages)

\* The track waits until the frames have shrunk; they are restored after it.
TrackDelay == ShrinkTime + GapTime
RestoreStart == TrackDelay + TrackTime + GapTime

\* All animations of a move have finished: the frames', in the end.
Transition == RestoreStart + RestoreTime

VARIABLES
    mounted,
    now,        \* state of the component, every update applied
    shown,      \* the same, as last rendered
    pageRef,    \* paginationPageIdRef
    remaining,  \* paginationRemainingMsRef
    timer,      \* ticks until the pagination timer fires, None without one
    stroke,     \* how far the stroke round the page's button has run
    active,     \* ticks until activeAnimationsRef ends, None when it is empty
    superseded, \* the same of each animation that ref no longer holds
    timeline,   \* of the opening page
    saved,      \* playbackStateRef
    dragging,   \* a pointer is down on the seek bar
    wanted      \* history: the visitor has left the timeline to play

deckVars == <<mounted, now, shown, active, superseded>>
timeVars == <<pageRef, remaining, timer, stroke>>
openingVars == <<timeline, saved, dragging, wanted>>
vars == <<deckVars, timeVars, openingVars>>

Lower(t) == IF t = None \/ t = 0 THEN t ELSE t - 1
Higher(t, limit) == IF t < limit THEN t + 1 ELSE t

FirstState == [page |-> Head(Pages), moving |-> FALSE, auto |-> TRUE,
               version |-> [p \in PageIds |-> IF p = Head(Pages) THEN 1 ELSE 0]]

FirstTimeline == [status |-> "playing", at |-> 0]

Init ==
    /\ mounted = TRUE
    /\ now = FirstState /\ shown = FirstState
    /\ pageRef = now.page /\ remaining = Duration[now.page]
    /\ timer = remaining /\ stroke = 0
    /\ active = None /\ superseded = {}
    /\ timeline = FirstTimeline /\ saved = None /\ dragging = FALSE /\ wanted = TRUE

-----------------------------------------------------------------------------
(* A render and the effects it runs. *)

\* Mutant: a pause forgets the time that has passed.
KeptNothing(page, left) == Duration[page]

\* Of the pagination effect: the time left is kept while the page stays, and
\* a timer runs for it unless paging is paused or the deck moves.
Kept(page, left) == IF page = pageRef THEN left ELSE Duration[page]

PaginationEffect(s) ==
    LET sameDeps == s.auto = shown.auto /\ s.page = shown.page /\ s.moving = shown.moving
        left == Kept(s.page, IF timer = None THEN remaining ELSE timer)
    IN  IF sameDeps
        THEN UNCHANGED <<pageRef, remaining, timer>>
        ELSE /\ pageRef' = s.page
             /\ remaining' = left
             /\ timer' = IF s.auto /\ ~s.moving THEN left ELSE None

\* The stroke is there while its page rests, and starts anew each time.
StrokeOf(s) == IF s.moving \/ shown.moving \/ s.page # shown.page THEN 0 ELSE stroke

\* The opening page is keyed by its version: entered, it is mounted anew.
RemountOpening(s) ==
    IF s.version[Opening] # shown.version[Opening]
    THEN /\ timeline' = FirstTimeline /\ saved' = None
         /\ dragging' = FALSE /\ wanted' = TRUE
    ELSE UNCHANGED openingVars

Commit(s) ==
    /\ now' = s /\ shown' = s
    /\ PaginationEffect(s)
    /\ stroke' = StrokeOf(s)
    /\ RemountOpening(s)

Render ==
    /\ mounted /\ now # shown
    /\ Commit(now)
    /\ UNCHANGED <<mounted, active, superseded>>

-----------------------------------------------------------------------------
(* goTo: refused while the rendered deck moves, and for its page.            *)

CanGoTo(p) == ~shown.moving /\ p # shown.page

Animate ==
    /\ active' = Transition
    /\ superseded' = IF active = None THEN superseded ELSE superseded \union {active}

Entered(p) ==
    [now EXCEPT !.page = p, !.moving = TRUE,
                !.version[p] = (@ + 1) % Versions]

NextPage ==
    LET i == CHOOSE i \in DOMAIN Pages : Pages[i] = shown.page
    IN  Pages[(i % Len(Pages)) + 1]

\* A button of HeroPageNavigation.
ClickPage(p) ==
    /\ mounted /\ CanGoTo(p)
    /\ Animate
    /\ Commit(Entered(p))
    /\ UNCHANGED mounted

\* HeroPageControlButton.
ClickPause ==
    /\ mounted
    /\ Commit([now EXCEPT !.auto = ~shown.auto])
    /\ UNCHANGED <<mounted, active, superseded>>

TimerFires ==
    /\ timer = 0
    /\ timer' = None
    /\ remaining' = Duration[shown.page]
    /\ IF CanGoTo(NextPage)
       THEN Animate /\ now' = Entered(NextPage)
       ELSE UNCHANGED <<active, superseded, now>>
    /\ UNCHANGED <<mounted, shown, pageRef, stroke, openingVars>>

\* Mutant: the animations end, the state does not.
SettleSilently ==
    /\ active = 0
    /\ active' = None
    /\ UNCHANGED <<mounted, now, shown, superseded, timeVars, openingVars>>

\* Promise.allSettled: of the animations the ref holds, and of others.
AnimationsSettle ==
    /\ active = 0
    /\ active' = None
    /\ now' = [now EXCEPT !.moving = FALSE]
    /\ UNCHANGED <<mounted, shown, superseded, timeVars, openingVars>>

\* Mutant: whatever animation ends, the deck is at rest.
SettleUnchecked ==
    /\ 0 \in superseded
    /\ superseded' = superseded \ {0}
    /\ active' = None
    /\ now' = [now EXCEPT !.moving = FALSE]
    /\ UNCHANGED <<mounted, shown, timeVars, openingVars>>

SupersededSettle ==
    /\ 0 \in superseded
    /\ superseded' = superseded \ {0}
    /\ UNCHANGED <<mounted, now, shown, active, timeVars, openingVars>>

\* Another page of the site, and back.
Unmount ==
    /\ mounted
    /\ mounted' = FALSE
    /\ active' = None /\ timer' = None
    /\ now' = shown
    /\ timeline' = [timeline EXCEPT !.status = "paused"]
    /\ dragging' = FALSE /\ wanted' = FALSE
    /\ UNCHANGED <<shown, superseded, pageRef, remaining, stroke, saved>>

Mount ==
    /\ ~mounted /\ superseded = {}
    /\ mounted' = TRUE
    /\ now' = FirstState /\ shown' = FirstState
    /\ pageRef' = now'.page /\ remaining' = Duration[pageRef']
    /\ timer' = remaining' /\ stroke' = 0
    /\ timeline' = FirstTimeline /\ saved' = None /\ dragging' = FALSE /\ wanted' = TRUE
    /\ UNCHANGED <<active, superseded>>

-----------------------------------------------------------------------------
(* The opening page.  Only the current page takes input: the others are      *)
(* inert.  What pause() and seek() make of a timeline that has finished is    *)
(* not known.                                                                *)

Paused(status) == IF status = "finished" THEN {"finished", "paused"} ELSE {"paused"}
Sought(status) == IF status = "finished" THEN {"finished", "paused"} ELSE {status}
Input == mounted /\ shown.page = Opening

\* snapshot.status, of the last render, which may not show yet that the timeline
\* has come to its end.
SnapshotStatus == IF timeline.status = "finished" THEN {"finished", "playing"}
                  ELSE {timeline.status}

Play == timeline' = IF timeline.status = "finished" THEN FirstTimeline
                    ELSE [timeline EXCEPT !.status = "playing"]

ClickPlay ==
    /\ Input /\ ~dragging
    /\ \/ /\ "playing" \in SnapshotStatus
          /\ \E s \in Paused(timeline.status) : timeline' = [timeline EXCEPT !.status = s]
          /\ wanted' = FALSE
       \/ SnapshotStatus # {"playing"} /\ Play /\ wanted' = TRUE
    /\ UNCHANGED <<deckVars, timeVars, saved, dragging>>

SeekBarDown ==
    /\ Input /\ ~dragging
    /\ saved' \in SnapshotStatus
    /\ dragging' = TRUE
    /\ wanted' = (wanted /\ saved' = "playing")
    /\ \E s \in Paused(timeline.status) : timeline' = [timeline EXCEPT !.status = s]
    /\ UNCHANGED <<deckVars, timeVars>>

\* By the pointer, or by a key.
Seek(t) ==
    /\ Input
    /\ \E s \in Sought(timeline.status) : timeline' = [status |-> s, at |-> t]
    /\ wanted' = (wanted /\ timeline.status # "finished")
    /\ UNCHANGED <<deckVars, timeVars, saved, dragging>>

\* Mutant: the end of a drag leaves the timeline as it is.
SeekBarUpQuiet ==
    /\ dragging
    /\ dragging' = FALSE
    /\ wanted' = (wanted /\ Input)
    /\ UNCHANGED <<deckVars, timeVars, timeline, saved>>

\* Over a page that has become inert since, it may not be received.
SeekBarUp ==
    /\ dragging
    /\ dragging' = FALSE
    /\ \/ saved = "playing" /\ Play
       \/ ~(Input /\ saved = "playing") /\ UNCHANGED timeline
    /\ wanted' = (wanted /\ Input)
    /\ UNCHANGED <<deckVars, timeVars, saved>>

\* The pointer is cancelled, which the page is not told of.
SeekBarLost ==
    /\ dragging
    /\ dragging' = FALSE /\ wanted' = FALSE
    /\ UNCHANGED <<deckVars, timeVars, timeline, saved>>

-----------------------------------------------------------------------------
\* A tick for everything that runs.
Tick ==
    /\ timer' = Lower(timer)
    /\ active' = Lower(active)
    /\ superseded' = {Lower(t) : t \in superseded}
    /\ stroke' = IF mounted /\ shown.auto /\ ~shown.moving
                 THEN Higher(stroke, Duration[shown.page]) ELSE stroke
    /\ timeline' = IF timeline.status # "playing" THEN timeline
                   ELSE [status |-> IF timeline.at + 1 < Timeline THEN "playing" ELSE "finished",
                         at |-> Higher(timeline.at, Timeline)]
    /\ UNCHANGED <<mounted, now, shown, pageRef, remaining, saved, dragging, wanted>>

Visitor ==
    \/ \E p \in PageIds : ClickPage(p)
    \/ ClickPause \/ ClickPlay \/ SeekBarDown \/ SeekBarUp \/ SeekBarLost
    \/ \E t \in 0 .. Timeline : Seek(t)
    \/ Unmount \/ Mount

Next == Visitor \/ Render \/ TimerFires \/ AnimationsSettle \/ SupersededSettle \/ Tick

Spec == Init /\ [][Next]_vars

\* The browser keeps time and runs what is due.
FairSpec ==
    /\ Spec
    /\ WF_vars(Tick) /\ WF_vars(Render) /\ WF_vars(TimerFires)
    /\ WF_vars(AnimationsSettle) /\ WF_vars(SupersededSettle)

-----------------------------------------------------------------------------
(* Properties. *)

State == [page : PageIds, moving : BOOLEAN, auto : BOOLEAN,
          version : [PageIds -> 0 .. Versions - 1]]

\* Types of all variables.
TypeOK ==
    /\ mounted \in BOOLEAN /\ now \in State /\ shown \in State
    /\ pageRef = shown.page
    /\ remaining \in 0 .. Duration[pageRef]
    /\ timer \in {None} \union 0 .. Duration[pageRef]
    /\ stroke \in 0 .. Duration[shown.page]
    /\ active \in {None} \union 0 .. Transition
    /\ superseded \subseteq 0 .. Transition
    /\ timeline \in [status : {"playing", "paused", "finished"}, at : 0 .. Timeline]
    /\ saved \in {None, "playing", "paused", "finished"}
    /\ dragging \in BOOLEAN /\ wanted \in BOOLEAN

\* The deck takes no other page while an animation moves it, and rests when
\* none does, also after a click that has overtaken the render of a move the
\* timer had begun: then two animations run, and only the later one counts.
MovesWhileAnimated ==
    mounted => /\ now.moving <=> active # None
               /\ superseded \ {0} # {} => now.moving

\* However often paging is paused and resumed, the stroke round the button and
\* the timer agree: the page is left when the stroke is closed.
StrokeShowsTheTimeLeft ==
    timer # None => stroke + timer = Duration[shown.page]

\* Paging never stops by itself: a deck not paused leaves each page.
KeepsPaging ==
    \A p \in PageIds :
        (mounted /\ now.page = p /\ now.auto)
            ~> (~mounted \/ now.page # p \/ ~now.auto)

\* The timeline is paused only by its button, or while the seek bar is dragged:
\* a drag that ends over the page restores what it has stopped.
PausedOnlyWhenWanted ==
    (mounted /\ wanted /\ ~dragging) => timeline.status # "paused"
=============================================================================
