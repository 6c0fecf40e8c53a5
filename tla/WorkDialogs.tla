------------------------------ MODULE WorkDialogs ------------------------------
(* The detail screen and the search window of the public page: which work is *)
(* selected, the history entry useBackButtonDismiss pushes for an open       *)
(* detail, the locks useScrollbarControl puts on the body, and the clicks    *)
(* recorded on the way.  Every event of the visitor is one step: React       *)
(* finishes rendering and effects of a click, key or popstate before the     *)
(* next event, except that a work selected by an effect, as that of a cube   *)
(* or a search result, is rendered later.  Nor is the browser's session      *)
(* history atomic: back() and the browser's own buttons queue a traversal.   *)
EXTENDS Integers, Sequences

CONSTANTS
    Works,      \* ids of works
    None,       \* no work selected
    MaxPushes,  \* bound on the history entries pushed
    MaxMoves    \* bound on the visitor's uses of Back and Forward

ASSUME DialogAssumption ==
    /\ None \notin Works
    /\ MaxPushes \in Nat
    /\ MaxMoves \in Nat

Locks == {"search", "detail"}
Overflow == {"visible", "hidden"}

VARIABLES
    isLock,      \* the page was opened with ?lock=true
    selecting,   \* selectingWorkId
    chosen,      \* the work an effect has selected and no render has shown yet
    last,        \* lastSelectedWorkId, shown while the screen fades out
    recent,      \* works in clickLimiterRef with a click less than 2 s old
    searchOpen,  \* isOpen of the search window
    body,        \* body.style.overflow, and what each cleanup will restore
    entries,     \* session history: the id each entry carries, 0 for none
    pos,         \* the current entry; 1 is the page visited before this one
    active,      \* activeEntryIdRef, 0 for null
    pushes,      \* ids created so far
    travel,      \* traversals queued and not yet done
    \* history variables
    moves,       \* visitor's traversals so far
    spent,       \* Backs done, less those that dismissed a dialog and Forwards
    raced,       \* a dialog opened with its predecessor's back() still queued
    order,       \* locks held, the oldest first
    crossed      \* a lock was released before a younger one

pageVars == <<isLock, selecting, chosen, last, recent, searchOpen>>
lockVars == <<body, order, crossed>>
historyVars == <<entries, pos, active, pushes, travel>>
ghostVars == <<moves, spent, raced>>
vars == <<pageVars, lockVars, historyVars, ghostVars>>

Init ==
    /\ isLock \in BOOLEAN
    /\ selecting = None /\ chosen = None /\ last = None
    /\ recent = {}
    /\ searchOpen = FALSE
    /\ body = [overflow |-> IF isLock THEN "hidden" ELSE "visible",
               search |-> "visible", detail |-> "visible"]
    /\ entries = <<0, 0>> /\ pos = 2
    /\ active = 0 /\ pushes = 0
    /\ travel = << >>
    /\ moves = 0 /\ spent = 0 /\ raced = FALSE
    /\ order = << >> /\ crossed = FALSE

-----------------------------------------------------------------------------
(* useScrollbarControl. *)

Lock(b, l) == [b EXCEPT !.overflow = "hidden", ![l] = b.overflow]

\* Mutant: the cleanup makes the body scroll again whatever it was before.
UnlockToVisible(b, l) == [b EXCEPT !.overflow = "visible"]

Unlock(b, l) == [b EXCEPT !.overflow = b[l]]

\* Bookkeeping of the order in which locks are taken and released.
\* There are two locks: the one released is the youngest or the oldest held.
Youngest(l) == order # << >> /\ order[Len(order)] = l
Without(l) == IF Youngest(l) THEN SubSeq(order, 1, Len(order) - 1) ELSE Tail(order)

-----------------------------------------------------------------------------
(* useBackButtonDismiss, the effect on isOpen. *)

PushEntry ==
    IF active # 0
    THEN UNCHANGED <<historyVars, raced>>
    ELSE /\ pushes < MaxPushes
         /\ pushes' = pushes + 1
         /\ active' = pushes'
         /\ entries' = Append(SubSeq(entries, 1, pos), pushes')
         /\ pos' = pos + 1
         /\ raced' = (raced \/ \E i \in DOMAIN travel : travel[i].by = "dialog")
         /\ UNCHANGED travel

\* Mutant: the entry of a closed dialog stays in activeEntryIdRef.
TakeBackKeepingId ==
    /\ travel' = IF active # 0 /\ entries[pos] = active
                 THEN Append(travel, [by |-> "dialog", delta |-> -1])
                 ELSE travel
    /\ UNCHANGED <<active, entries, pos, pushes, raced>>

\* Mutant: the dialog closes without taking its entry back.
LeaveEntry == active' = 0 /\ UNCHANGED <<travel, entries, pos, pushes, raced>>

\* Mutant: two steps back, as if the entry had been pushed twice.
TakeBackTwo ==
    /\ active' = 0
    /\ travel' = IF active # 0 /\ entries[pos] = active
                 THEN travel \o [i \in 1 .. 2 |-> [by |-> "dialog", delta |-> -1]]
                 ELSE travel
    /\ UNCHANGED <<entries, pos, pushes, raced>>

TakeBackEntry ==
    /\ active' = 0
    /\ travel' = IF active # 0 /\ entries[pos] = active
                 THEN Append(travel, [by |-> "dialog", delta |-> -1])
                 ELSE travel
    /\ UNCHANGED <<entries, pos, pushes, raced>>

-----------------------------------------------------------------------------
(* Selecting a work. *)

\* Whatever was selected before it is replaced.
OpenDetail(w) ==
    /\ selecting' = w /\ last' = w /\ chosen' = None
    /\ IF selecting # None
       THEN UNCHANGED <<body, order, historyVars, raced>>
       ELSE body' = Lock(body, "detail") /\ order' = Append(order, "detail") /\ PushEntry
    /\ UNCHANGED crossed

CloseDetail ==
    /\ selecting' = None
    /\ body' = Unlock(body, "detail")
    /\ order' = Without("detail")
    /\ crossed' = (crossed \/ ~Youngest("detail"))
    /\ UNCHANGED <<chosen, last>>

ReleaseSearch ==
    /\ searchOpen' = FALSE
    /\ body' = Unlock(body, "search")
    /\ order' = Without("search")
    /\ crossed' = (crossed \/ ~Youngest("search"))

\* By the pointer, or under an open screen by the keyboard.
ClickCard(w) ==
    /\ IF selecting = w
       THEN CloseDetail /\ TakeBackEntry /\ UNCHANGED recent
       ELSE OpenDetail(w) /\ recent' = recent \union {w}
    /\ UNCHANGED <<isLock, searchOpen, moves, spent>>

\* The effect on the nonce of a click records it and selects the work.
Choose(w) ==
    /\ chosen' = w
    /\ recent' = recent \union {w}
    /\ UNCHANGED <<isLock, selecting, last, historyVars, ghostVars>>

\* A falling box: the canvas lies under both overlays.
ClickCube(w) ==
    /\ selecting = None /\ ~searchOpen
    /\ Choose(w)
    /\ UNCHANGED <<searchOpen, lockVars>>

\* A search result: closes the window and passes the id on as a cube click.
ClickHit(w) ==
    /\ searchOpen /\ selecting = None
    /\ ReleaseSearch
    /\ Choose(w)

\* In a task of its own: other events may come before it.
RenderChosen ==
    /\ chosen # None
    /\ OpenDetail(chosen)
    /\ UNCHANGED <<isLock, recent, searchOpen, moves, spent>>

DismissDetail ==
    /\ selecting # None
    /\ CloseDetail
    /\ TakeBackEntry
    /\ UNCHANGED <<isLock, recent, searchOpen, moves, spent>>

\* Two seconds have passed since the last recorded click on w.
Forget(w) ==
    /\ w \in recent
    /\ recent' = recent \ {w}
    /\ UNCHANGED <<isLock, selecting, chosen, last, searchOpen, lockVars, historyVars,
                   ghostVars>>

-----------------------------------------------------------------------------
(* The search window: "/" or the focus opens it, Escape or the mouse closes. *)

OpenSearch ==
    /\ ~searchOpen
    /\ searchOpen' = TRUE
    /\ body' = Lock(body, "search")
    /\ order' = Append(order, "search")
    /\ UNCHANGED <<isLock, selecting, chosen, last, recent, crossed, historyVars,
                   ghostVars>>

CloseSearch ==
    /\ searchOpen
    /\ ReleaseSearch
    /\ UNCHANGED <<isLock, selecting, chosen, last, recent, historyVars, ghostVars>>

-----------------------------------------------------------------------------
(* The browser. *)

PressButton(delta) ==
    /\ moves < MaxMoves
    /\ pos + delta \in DOMAIN entries
    /\ moves' = moves + 1
    /\ travel' = Append(travel, [by |-> "visitor", delta |-> delta])
    /\ UNCHANGED <<pageVars, lockVars, entries, pos, active, pushes, spent, raced>>

HandlePopState ==
    /\ active' = 0
    /\ IF active = 0
       THEN UNCHANGED <<selecting, chosen, last, lockVars>>
       ELSE CloseDetail

\* A traversal that leads nowhere is dropped; one that leaves the page ends it.
Traverse ==
    /\ travel # << >>
    /\ LET t == Head(travel)
           to == pos + t.delta
           moved == to \in DOMAIN entries
       IN  /\ travel' = Tail(travel)
           /\ pos' = IF moved THEN to ELSE pos
           /\ spent' = spent + (IF moved /\ t.by = "visitor" THEN -t.delta ELSE 0)
                             - (IF moved /\ to > 1 /\ active # 0 THEN 1 ELSE 0)
           /\ raced' = (raced \/ t.delta = 1)
           /\ IF moved /\ to > 1
              THEN HandlePopState
              ELSE UNCHANGED <<selecting, chosen, last, active, lockVars>>
    /\ UNCHANGED <<isLock, recent, searchOpen, entries, pushes, moves>>

Visitor ==
    \/ \E w \in Works : ClickCard(w) \/ ClickCube(w) \/ ClickHit(w)
    \/ DismissDetail \/ OpenSearch \/ CloseSearch
    \/ \E delta \in {-1, 1} : PressButton(delta)

Next ==
    /\ pos > 1
    /\ \/ Visitor
       \/ RenderChosen \/ Traverse
       \/ \E w \in Works : Forget(w)

Spec == Init /\ [][Next]_vars

-----------------------------------------------------------------------------
(* Properties. *)

\* Types of all variables.
TypeOK ==
    /\ isLock \in BOOLEAN /\ searchOpen \in BOOLEAN
    /\ {selecting, chosen, last} \subseteq Works \union {None}
    /\ recent \subseteq Works
    /\ body \in [{"overflow"} \union Locks -> Overflow]
    /\ entries \in Seq(0 .. MaxPushes) /\ pos \in DOMAIN entries
    /\ active \in 0 .. MaxPushes /\ pushes \in 0 .. MaxPushes
    /\ travel \in Seq([by : {"visitor", "dialog"}, delta : {-1, 1}])
    /\ moves \in 0 .. MaxMoves /\ spent \in Int
    /\ raced \in BOOLEAN /\ crossed \in BOOLEAN
    /\ order \in Seq(Locks)

\* An open detail always stands on its own history entry and the hook knows
\* it, so that the next Back dismisses it instead of leaving the page; a
\* closed one has no entry to wait for, whichever way it was closed.
OpenHasEntry ==
    /\ (selecting # None) <=> (active # 0)
    /\ selecting # None => entries[pos] = active

\* The entry of a dialog is consumed however the dialog was closed: with all
\* closed and nothing queued the visitor stands on no dead entry, where a Back
\* would do nothing.  Except after a Forward, and after a dialog was opened
\* before the back() of the one before it was done (that back() then dismisses
\* the new dialog and leaves the old entry behind).
NoDeadEntry ==
    (selecting = None /\ travel = << >> /\ ~raced) => entries[pos] = 0

\* The page is left only by a Back of the visitor that no dialog used up:
\* closing dialogs, in any order with the visitor's own traversals, never
\* steps further back than the visitor asked.
LeavingTakesABackOfItsOwn == pos = 1 => spent >= 1

\* The page below cannot scroll exactly while a dialog is open (or the page
\* was opened locked), as long as locks are released in the order opposite to
\* the one they were taken in.
LockedWhileOpen ==
    ~crossed => ((body.overflow = "hidden")
                    <=> (isLock \/ searchOpen \/ selecting # None))
=============================================================================
