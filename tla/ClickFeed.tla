------------------------------ MODULE ClickFeed ------------------------------
(***************************************************************************)
(* A click on its way to another visitor's screen: handleCreateWorkClick   *)
(* in the backend, the sockets of the hub, and WorkClickPhysics of         *)
(* realtimeWorld.tsx in one browser, which drops a box for every click.    *)
(*                                                                         *)
(* The hub is taken as WsHub shows it to be: a message goes to every       *)
(* client it has, in one step here, and each socket delivers in order      *)
(* until it ends.  The limiter is taken as ClickLimiter shows it to be: it *)
(* refuses a key it let through and forgets it some time later.            *)
(***************************************************************************)
EXTENDS Naturals, Sequences, FiniteSets, Functions

CONSTANTS
    Requests,        \* click request goroutines
    Keys,            \* visitor and work
    MaxBoxes,        \* MAX_BOXES
    AutoSpawnCount,  \* AUTO_SPAWN_COUNT
    MaxClicks,       \* bound: clicks that get past the limiter
    MaxRestarts,     \* bound: restarts of the backend
    MaxLosses,       \* bound: lost connections and failed connects
    MaxRuns          \* bound: the effect that connects runs so often

ASSUME FeedAssumption ==
    /\ MaxBoxes \in Nat \ {0} /\ AutoSpawnCount \in Nat \ {0}
    /\ MaxClicks \in Nat /\ MaxRestarts \in Nat /\ MaxLosses \in Nat
    /\ MaxRuns \in Nat \ {0}

VARIABLES
    (* the backend *)
    recent,     \* keys the limiter refuses now
    clicks,     \* clicks let through so far: each has its number
    pc,         \* where each click request is
    click,      \* the click it is about
    seqOf,      \* the sequence number it has drawn
    stored,     \* rows of isirmt_work_clicks
    wsSeq,      \* pSrv.wsSeq
    epoch,      \* restarts so far
    hub,        \* sockets with a client in the hub
    (* between them *)
    queue,      \* messages on their way, by socket
    losses,     \* lost connections and failed connects so far
    (* the browser *)
    run,        \* which run of the connecting effect is the current one
    mounted,    \* the page is open
    sockets,    \* sockets made so far: 1..sockets
    state,      \* their readyState
    owner,      \* the effect run whose connect() made them
    wsRef, lastSeqRef, retryRef,      \* the refs of that name
    timers,     \* pending reconnects, by the socket whose end set them
    timerRef,   \* reconnectTimerRef: one of them, perhaps an old one; or 0
    shouldReconnectRef,               \* FALSE once there are enough boxes
    boxes,      \* boxes on the screen
    autoSpawn,  \* the auto spawn interval: "no", "on", "off"
    autoCount,  \* boxes it has asked for
    shown,      \* history: the events that spawned a box, in order
    dropped     \* history: the events the sequence filter turned away

limiterVars == <<recent, clicks>>
requestVars == <<pc, click, seqOf, stored, wsSeq>>
backendVars == <<limiterVars, requestVars, epoch>>
netVars == <<hub, queue, losses>>
socketVars == <<run, mounted, sockets, state, owner, wsRef, retryRef,
                timers, timerRef, shouldReconnectRef>>
screenVars == <<lastSeqRef, boxes, shown, dropped>>
autoVars == <<autoSpawn, autoCount>>
vars == <<backendVars, netVars, socketVars, screenVars, autoVars>>

MaxSockets == MaxRuns + MaxLosses + MaxRestarts
SocketIds == 1..MaxSockets

\* workClickEvent, with the click and the backend process it stems from.
Event == [click: 1..MaxClicks, seq: 1..MaxClicks, epoch: 0..MaxRestarts]

Live(s) == state[s] \in {"connecting", "open"}

TypeOK ==
    /\ recent \subseteq Keys
    /\ clicks \in 0..MaxClicks
    /\ pc \in [Requests -> {"idle", "inserting", "stored", "numbered"}]
    /\ click \in [Requests -> 0..clicks]
    /\ seqOf \in [Requests -> 0..wsSeq]
    /\ stored \subseteq 1..clicks
    /\ wsSeq \in 0..clicks
    /\ epoch \in 0..MaxRestarts
    /\ hub \subseteq 1..sockets
    /\ queue \in [SocketIds -> Seq(Event)]
    /\ losses \in 0..MaxLosses
    /\ run \in 1..MaxRuns
    /\ mounted \in BOOLEAN
    /\ sockets \in SocketIds
    /\ state \in [SocketIds -> {"none", "connecting", "open", "closing", "closed"}]
    /\ \A s \in SocketIds : state[s] = "none" <=> s > sockets
    /\ owner \in [SocketIds -> 0..run]
    /\ wsRef \in 1..sockets
    /\ retryRef \in 0..6
    /\ lastSeqRef \in 0..MaxClicks
    /\ timers \subseteq 1..sockets
    /\ timerRef \in 0..sockets
    /\ shouldReconnectRef \in BOOLEAN
    /\ boxes \in 0..MaxBoxes
    /\ autoSpawn \in {"no", "on", "off"}
    /\ autoCount \in 0..AutoSpawnCount
    /\ shown \in Seq(Event)
    /\ dropped \subseteq Event

\* The page has been opened and its effect has made the first socket.
Init ==
    /\ recent = {} /\ clicks = 0
    /\ pc = [q \in Requests |-> "idle"]
    /\ click = [q \in Requests |-> 0]
    /\ seqOf = [q \in Requests |-> 0]
    /\ stored = {} /\ wsSeq = 0 /\ epoch = 0
    /\ hub = {} /\ losses = 0
    /\ queue = [s \in SocketIds |-> << >>]
    /\ run = 1 /\ mounted = TRUE
    /\ sockets = 1
    /\ state = [s \in SocketIds |-> IF s = 1 THEN "connecting" ELSE "none"]
    /\ owner = [s \in SocketIds |-> IF s = 1 THEN 1 ELSE 0]
    /\ wsRef = 1 /\ lastSeqRef = 0 /\ retryRef = 0
    /\ timers = {} /\ timerRef = 0 /\ shouldReconnectRef = TRUE
    /\ boxes = 0 /\ autoSpawn = "no" /\ autoCount = 0
    /\ shown = << >> /\ dropped = {}

-----------------------------------------------------------------------------
(* handleCreateWorkClick *)

\* isAllowedClick: a refused click is answered 202 and changes nothing.  The
\* limiter remembers the click before anything is stored.
AllowClick(q, k) ==
    /\ pc[q] = "idle"
    /\ k \notin recent
    /\ clicks < MaxClicks
    /\ recent' = recent \union {k}
    /\ clicks' = clicks + 1
    /\ click' = [click EXCEPT ![q] = clicks + 1]
    /\ pc' = [pc EXCEPT ![q] = "inserting"]
    /\ UNCHANGED <<seqOf, stored, wsSeq, epoch, netVars, socketVars, screenVars, autoVars>>

\* minInterval passes.
Forget(k) ==
    /\ k \in recent
    /\ recent' = recent \ {k}
    /\ UNCHANGED <<clicks, requestVars, epoch, netVars, socketVars, screenVars, autoVars>>

\* Mutant: the click is announced first and inserted after.
AnnounceFirst(q) ==
    /\ pc[q] = "inserting"
    /\ pc' = [pc EXCEPT ![q] = "stored"]
    /\ UNCHANGED <<limiterVars, click, seqOf, stored, wsSeq, epoch, netVars,
                   socketVars, screenVars, autoVars>>

InsertClick(q) ==
    /\ pc[q] = "inserting"
    /\ stored' = stored \union {click[q]}
    /\ pc' = [pc EXCEPT ![q] = "stored"]
    /\ UNCHANGED <<limiterVars, click, seqOf, wsSeq, epoch, netVars,
                   socketVars, screenVars, autoVars>>

\* An unknown work, a lost connection: 500, and the limiter is not told.
InsertFails(q) ==
    /\ pc[q] = "inserting"
    /\ pc' = [pc EXCEPT ![q] = "idle"]
    /\ UNCHANGED <<limiterVars, click, seqOf, stored, wsSeq, epoch, netVars,
                   socketVars, screenVars, autoVars>>

\* Mutant: the counter is read and written back in two steps, so that a request
\* may draw the number another one has just drawn.
NextSeqNotAtomic(q) ==
    /\ pc[q] = "stored"
    /\ wsSeq' = IF \E p \in Requests \ {q} : pc[p] = "numbered" THEN wsSeq ELSE wsSeq + 1
    /\ seqOf' = [seqOf EXCEPT ![q] = wsSeq']
    /\ pc' = [pc EXCEPT ![q] = "numbered"]
    /\ UNCHANGED <<limiterVars, click, stored, epoch, netVars,
                   socketVars, screenVars, autoVars>>

\* broadcastWorkClick: atomic.AddUint64 ...
NextSeq(q) ==
    /\ pc[q] = "stored"
    /\ wsSeq' = wsSeq + 1
    /\ seqOf' = [seqOf EXCEPT ![q] = wsSeq + 1]
    /\ pc' = [pc EXCEPT ![q] = "numbered"]
    /\ UNCHANGED <<limiterVars, click, stored, epoch, netVars,
                   socketVars, screenVars, autoVars>>

\* ... and Broadcast, later, to the clients there are then.
Broadcast(q) ==
    /\ pc[q] = "numbered"
    /\ LET event == [click |-> click[q], seq |-> seqOf[q], epoch |-> epoch]
       IN  queue' = [s \in SocketIds |->
                        IF s \in hub THEN Append(queue[s], event) ELSE queue[s]]
    /\ pc' = [pc EXCEPT ![q] = "idle"]
    /\ UNCHANGED <<limiterVars, click, seqOf, stored, wsSeq, epoch, hub, losses,
                   socketVars, screenVars, autoVars>>

\* A new process: no client, no request, an empty limiter, wsSeq from 0.  What
\* was sent may still arrive before the browser notices.
RestartBackend ==
    /\ epoch < MaxRestarts
    /\ epoch' = epoch + 1
    /\ wsSeq' = 0
    /\ recent' = {}
    /\ hub' = {}
    /\ pc' = [q \in Requests |-> "idle"]
    /\ seqOf' = [q \in Requests |-> 0]
    /\ UNCHANGED <<clicks, click, stored, queue, losses, socketVars, screenVars, autoVars>>

-----------------------------------------------------------------------------
(* WorkClickPhysics: the effect that connects *)

\* connect() of the effect run r: a new socket becomes wsRef.
Connect(r, states) ==
    /\ sockets' = sockets + 1
    /\ state' = [states EXCEPT ![sockets + 1] = "connecting"]
    /\ owner' = [owner EXCEPT ![sockets + 1] = r]
    /\ wsRef' = sockets + 1

\* ws.close(): a socket that is not closed starts to close.
ClosingOne(s) == [state EXCEPT ![s] = IF Live(s) THEN "closing" ELSE @]

\* The backend accepts (Upgrade and Add), onopen.
Open(s) ==
    /\ state[s] = "connecting"
    /\ state' = [state EXCEPT ![s] = "open"]
    /\ hub' = hub \union {s}
    /\ retryRef' = 0
    /\ UNCHANGED <<backendVars, queue, losses, run, mounted, sockets, owner, wsRef,
                   timers, timerRef, shouldReconnectRef, screenVars, autoVars>>

\* Mutant: only a connection that was open is tried again.
SocketEndsForGood(s) ==
    /\ state' = [state EXCEPT ![s] = "closed"]
    /\ hub' = hub \ {s}
    /\ queue' = [queue EXCEPT ![s] = << >>]
    /\ IF owner[s] = run /\ mounted /\ shouldReconnectRef /\ state[s] = "open"
       THEN /\ retryRef' = IF retryRef < 6 THEN retryRef + 1 ELSE 6
            /\ timers' = timers \union {s}
            /\ timerRef' = s
       ELSE UNCHANGED <<retryRef, timers, timerRef>>
    /\ UNCHANGED <<backendVars, run, mounted, sockets, owner, wsRef,
                   shouldReconnectRef, screenVars, autoVars>>

\* onclose.  Outside the current run, or with enough boxes, nothing more;
\* otherwise a reconnect after a delay that doubles up to ten seconds.
SocketEnds(s) ==
    /\ state' = [state EXCEPT ![s] = "closed"]
    /\ hub' = hub \ {s}
    /\ queue' = [queue EXCEPT ![s] = << >>]
    /\ IF owner[s] = run /\ mounted /\ shouldReconnectRef
       THEN /\ retryRef' = IF retryRef < 6 THEN retryRef + 1 ELSE 6
            /\ timers' = timers \union {s}
            /\ timerRef' = s
       ELSE UNCHANGED <<retryRef, timers, timerRef>>
    /\ UNCHANGED <<backendVars, run, mounted, sockets, owner, wsRef,
                   shouldReconnectRef, screenVars, autoVars>>

\* The network, the backend or its proxy ends a connection, or refuses one.
LoseSocket(s) ==
    /\ Live(s)
    /\ losses < MaxLosses
    /\ losses' = losses + 1
    /\ SocketEnds(s)

\* A connection to a process that is gone, or one that was closed here.
FinishClosing(s) ==
    /\ \/ state[s] = "closing"
       \/ state[s] = "open" /\ s \notin hub
    /\ SocketEnds(s)
    /\ UNCHANGED losses

\* The timer calls connect, which does nothing in an effect run that is over.
TimerFires(s) ==
    /\ s \in timers
    /\ timers' = timers \ {s}
    /\ IF owner[s] = run /\ mounted
       THEN Connect(run, state)
       ELSE UNCHANGED <<sockets, state, owner, wsRef>>
    /\ UNCHANGED <<backendVars, netVars, run, mounted, retryRef, timerRef,
                   shouldReconnectRef, screenVars, autoVars>>

\* Mutant: the cleanup leaves the socket open.
RerunKeepingSocket ==
    /\ mounted /\ run < MaxRuns
    /\ run' = run + 1
    /\ timers' = timers \ {timerRef}
    /\ Connect(run + 1, state)
    /\ autoSpawn' = IF autoSpawn = "on" THEN "off" ELSE autoSpawn
    /\ UNCHANGED <<backendVars, netVars, mounted, retryRef, timerRef,
                   shouldReconnectRef, screenVars, autoCount>>

\* spawnBox changes with the size of the window: the effect is cleaned up and
\* runs again, and so does the auto spawn effect, which does not start twice.
Rerun ==
    /\ mounted /\ run < MaxRuns
    /\ run' = run + 1
    /\ timers' = timers \ {timerRef}
    /\ Connect(run + 1, ClosingOne(wsRef))
    /\ autoSpawn' = IF autoSpawn = "on" THEN "off" ELSE autoSpawn
    /\ UNCHANGED <<backendVars, netVars, mounted, retryRef, timerRef,
                   shouldReconnectRef, screenVars, autoCount>>

\* The visitor leaves the page.
Unmount ==
    /\ mounted
    /\ mounted' = FALSE
    /\ timers' = timers \ {timerRef}
    /\ state' = ClosingOne(wsRef)
    /\ autoSpawn' = IF autoSpawn = "on" THEN "off" ELSE autoSpawn
    /\ UNCHANGED <<backendVars, netVars, run, sockets, owner, wsRef, retryRef, timerRef,
                   shouldReconnectRef, screenVars, autoCount>>

-----------------------------------------------------------------------------
(* WorkClickPhysics: the boxes *)

\* setBoxes: no more than MAX_BOXES.
OneMoreBox == boxes' = IF boxes < MaxBoxes THEN boxes + 1 ELSE boxes

\* onmessage
Receive(s) ==
    /\ state[s] = "open" /\ queue[s] # << >>
    /\ LET event == Head(queue[s]) IN
         \/ /\ event.seq > lastSeqRef
            /\ lastSeqRef' = event.seq
            /\ OneMoreBox
            /\ shown' = Append(shown, event)
            /\ UNCHANGED dropped
         \/ /\ event.seq <= lastSeqRef
            /\ dropped' = dropped \union {event}
            /\ UNCHANGED <<lastSeqRef, boxes, shown>>
    /\ queue' = [queue EXCEPT ![s] = Tail(@)]
    /\ UNCHANGED <<backendVars, hub, losses, socketVars, autoVars>>

\* The works have been loaded.
StartAutoSpawn ==
    /\ mounted /\ autoSpawn = "no"
    /\ autoSpawn' = "on"
    /\ UNCHANGED <<autoCount, backendVars, netVars, socketVars, screenVars>>

SpawnOnce ==
    /\ autoSpawn = "on"
    /\ OneMoreBox
    /\ autoCount' = autoCount + 1
    /\ autoSpawn' = IF autoCount + 1 >= AutoSpawnCount THEN "off" ELSE "on"
    /\ UNCHANGED <<lastSeqRef, shown, dropped, backendVars, netVars, socketVars>>

\* Mutant: the pending reconnect is left alone.
EnoughBoxesKeepingTimer ==
    /\ mounted /\ boxes >= MaxBoxes /\ shouldReconnectRef
    /\ shouldReconnectRef' = FALSE
    /\ UNCHANGED timers
    /\ state' = ClosingOne(wsRef)
    /\ UNCHANGED <<backendVars, netVars, run, mounted, sockets, owner, wsRef, retryRef,
                   timerRef, screenVars, autoVars>>

\* The effect on boxes.length: the feed ends.
EnoughBoxes ==
    /\ mounted /\ boxes >= MaxBoxes /\ shouldReconnectRef
    /\ shouldReconnectRef' = FALSE
    /\ timers' = timers \ {timerRef}
    /\ state' = ClosingOne(wsRef)
    /\ UNCHANGED <<backendVars, netVars, run, mounted, sockets, owner, wsRef, retryRef,
                   timerRef, screenVars, autoVars>>

-----------------------------------------------------------------------------
Request(q) ==
    \/ \E k \in Keys : AllowClick(q, k)
    \/ InsertClick(q) \/ InsertFails(q) \/ NextSeq(q) \/ Broadcast(q)

Socket(s) ==
    Open(s) \/ LoseSocket(s) \/ FinishClosing(s) \/ TimerFires(s) \/ Receive(s)

Page == Rerun \/ Unmount \/ StartAutoSpawn \/ SpawnOnce \/ EnoughBoxes

Next ==
    \/ \E q \in Requests : Request(q)
    \/ \E k \in Keys : Forget(k)
    \/ RestartBackend
    \/ \E s \in SocketIds : Socket(s)
    \/ Page

Spec == Init /\ [][Next]_vars

\* The backend is up again after its restarts and answers a connect, timers
\* fire, and a socket that is closing closes.  Nobody has to click.
FairSpec ==
    /\ Spec
    /\ \A s \in SocketIds :
         /\ WF_vars(Open(s))
         /\ WF_vars(FinishClosing(s))
         /\ WF_vars(TimerFires(s))

-----------------------------------------------------------------------------
(* Properties *)

\* However reconnect timers, resizes and the end of the feed race, the browser
\* has at most one socket that is not closing: the one wsRef can still close,
\* made by the effect run that is current, and none once the page is left.
LiveSocketIsCurrent ==
    \A s \in 1..sockets : Live(s) => s = wsRef /\ owner[s] = run /\ mounted

\* No box falls for a click that is not in the table.
ShownIsStored == \A e \in Range(shown) : e.click \in stored

\* A click that arrived and was not shown was overtaken by a later one of the
\* same backend process, or stems from a process started since: the numbers
\* begin again, and the browser keeps the highest it has seen.
DropsExplained ==
    \A d \in dropped : \E e \in Range(shown) :
        \/ e.epoch = d.epoch /\ e.seq > d.seq
        \/ e.epoch < d.epoch

\* After the feed has ended only a resize makes a new socket: no timer that
\* was pending does.
EndedStaysEnded ==
    [][~shouldReconnectRef /\ sockets' # sockets => run' # run]_vars

\* A browser whose connection was lost gets another one, unless the page is
\* left or the feed has ended.
Reconnects ==
    mounted ~> (~mounted \/ ~shouldReconnectRef \/ \E s \in hub : state[s] = "open")
=============================================================================
