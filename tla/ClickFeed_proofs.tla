--------------------------- MODULE ClickFeed_proofs ---------------------------
(***************************************************************************)
(* What ClickFeed promises, for any number of requests, keys and boxes and *)
(* any bounds: the types, and the browser's single socket, stored clicks   *)
(* and explained drops, from one inductive invariant in three parts.       *)
(***************************************************************************)
EXTENDS ClickFeed, FiniteSetTheorems, TLAPS

(***************************************************************************)
(* The invariant                                                           *)
(***************************************************************************)

\* Every number drawn since the start was drawn for a click of its own: the
\* clicks that will still draw one are counted beside those that have.
Waiting == {q \in Requests : pc[q] \in {"inserting", "stored"}}

NumbersFit ==
    /\ IsFiniteSet(Waiting)
    /\ wsSeq + Cardinality(Waiting) <= clicks

\* The reconnect that will make a socket: one of the current effect run.
Due(s) == s \in timers /\ owner[s] = run /\ mounted

\* It is the one timerRef can clear, of the socket wsRef, which has closed, and
\* there is none once the feed has ended.
DueIsCurrent ==
    \A s \in 1..sockets : Due(s) =>
        s = wsRef /\ s = timerRef /\ state[s] = "closed" /\ shouldReconnectRef

\* A socket the page closes is one it will not replace.
ClosingIsOver ==
    \A s \in 1..sockets : state[s] = "closing" =>
        ~(owner[s] = run /\ mounted /\ shouldReconnectRef)

\* A socket is made for an effect run, a lost connection or a restart; while a
\* reconnect is due, or a socket has lost its backend, one of these is unused.
Orphan(s) == state[s] = "open" /\ s \notin hub

SocketsFit ==
    /\ sockets <= run + losses + epoch
    /\ (\E s \in 1..sockets : Due(s) \/ Orphan(s)) => sockets < run + losses + epoch

SocketInv == LiveSocketIsCurrent /\ DueIsCurrent /\ ClosingIsOver /\ SocketsFit

\* Nothing is on its way to a socket that is not connected.
QuietUnlessConnected ==
    \A s \in SocketIds : state[s] \notin {"open", "closing"} => queue[s] = << >> /\ s \notin hub

\* An event that was broadcast and is on its way or on the screen.
Sent(e) == e \in Range(shown) \/ \E s \in SocketIds : e \in Range(queue[s])

\* A click is in the table before it is numbered, sent or shown.
SentIsStored ==
    /\ \A q \in Requests : pc[q] # "idle" => click[q] >= 1
    /\ \A q \in Requests : pc[q] \in {"stored", "numbered"} => click[q] \in stored
    /\ \A s \in SocketIds : \A e \in Range(queue[s]) : e.click \in stored
    /\ ShownIsStored

\* The number of an event within the backend process that drew it.
SameNumber(e, d) == e.epoch = d.epoch /\ e.seq = d.seq

\* A number that was drawn is that of one request or of one event.
NumbersAreDrawnOnce ==
    /\ \A q \in Requests : pc[q] = "numbered" => seqOf[q] >= 1
    /\ \A p, q \in Requests :
          pc[p] = "numbered" /\ pc[q] = "numbered" /\ seqOf[p] = seqOf[q] => p = q
    /\ \A e \in Event : Sent(e) =>
          /\ e.epoch <= epoch
          /\ e.epoch = epoch => e.seq <= wsSeq
          /\ \A q \in Requests :
                pc[q] = "numbered" => ~(e.epoch = epoch /\ e.seq = seqOf[q])

\* A socket delivers the events of one process before those of the next, and
\* none twice, nor one that is on the screen.
SentInOrder ==
    /\ \A s \in SocketIds : \A i, j \in 1..Len(queue[s]) : i < j =>
          /\ queue[s][i].epoch <= queue[s][j].epoch
          /\ ~SameNumber(queue[s][i], queue[s][j])
    /\ \A s \in SocketIds : state[s] = "open" =>
          \A d \in Range(queue[s]) : \A e \in Range(shown) :
              e.epoch <= d.epoch /\ ~SameNumber(e, d)

LastIsShown == lastSeqRef # 0 => \E e \in Range(shown) : e.seq = lastSeqRef

EventInv ==
    /\ QuietUnlessConnected /\ SentIsStored /\ NumbersAreDrawnOnce
    /\ SentInOrder /\ LastIsShown /\ DropsExplained

\* The auto spawn interval is cleared with the last box it asks for.
AutoSpawnEnds == autoSpawn # "off" => autoCount < AutoSpawnCount

IInv == TypeOK /\ NumbersFit /\ SocketInv /\ EventInv /\ AutoSpawnEnds

-----------------------------------------------------------------------------
USE FeedAssumption DEF limiterVars, requestVars, backendVars, netVars, socketVars,
    screenVars, autoVars, vars, SocketIds, MaxSockets, Live

(***************************************************************************)
(* Lemmas about sequences                                                  *)
(***************************************************************************)

\* What a message is appended to holds it and what it held before.
LEMMA AppendRange ==
    ASSUME NEW S, NEW s \in Seq(S), NEW e \in S
    PROVE  /\ Append(s, e) \in Seq(S)
           /\ Range(Append(s, e)) = Range(s) \union {e}
<1> DEFINE t == Append(s, e)
<1>1. /\ t \in Seq(S) /\ Len(t) = Len(s) + 1 /\ Len(s) \in Nat
      /\ \A i \in 1..Len(s) : t[i] = s[i]
      /\ t[Len(s) + 1] = e
  OBVIOUS
<1>2. DOMAIN t = 1..(Len(s) + 1) /\ DOMAIN s = 1..Len(s)
  BY <1>1
<1>3. \A i \in 1..(Len(s) + 1) : i \in 1..Len(s) \/ i = Len(s) + 1
  BY <1>1
<1> HIDE DEF t
<1>4. Range(t) = Range(s) \union {e}
  BY <1>1, <1>2, <1>3 DEF Range
<1> QED
  BY <1>1, <1>4 DEF t

\* What is received leaves the rest, in order.
LEMMA TailRange ==
    ASSUME NEW S, NEW s \in Seq(S), s # << >>
    PROVE  /\ Tail(s) \in Seq(S) /\ Head(s) \in S
           /\ Len(s) \in Nat \ {0}
           /\ Len(Tail(s)) = Len(s) - 1
           /\ \A i \in 1..Len(Tail(s)) : Tail(s)[i] = s[i + 1]
           /\ Head(s) = s[1]
           /\ Range(Tail(s)) \subseteq Range(s)
           /\ Head(s) \in Range(s)
           /\ \A d \in Range(Tail(s)) : \E i \in 1..Len(s) : 1 < i /\ d = s[i]
<1> DEFINE t == Tail(s)
<1>1. /\ t \in Seq(S) /\ Head(s) \in S /\ Len(s) \in Nat \ {0}
      /\ Len(t) = Len(s) - 1
      /\ \A i \in 1..Len(t) : t[i] = s[i + 1]
      /\ Head(s) = s[1]
  OBVIOUS
<1>2. DOMAIN t = 1..Len(t) /\ DOMAIN s = 1..Len(s)
  BY <1>1
<1>3. \A i \in 1..Len(t) : i + 1 \in 1..Len(s) /\ 1 < i + 1
  BY <1>1
<1>4. 1 \in 1..Len(s)
  BY <1>1
<1> HIDE DEF t
<1>5. Range(t) \subseteq Range(s) /\ Head(s) \in Range(s)
  BY <1>1, <1>2, <1>3, <1>4 DEF Range
<1>6. \A d \in Range(t) : \E i \in 1..Len(s) : 1 < i /\ d = s[i]
  BY <1>1, <1>2, <1>3 DEF Range
<1> QED
  BY <1>1, <1>5, <1>6 DEF t

\* The messages of a sequence are of its type.
LEMMA RangeType ==
    ASSUME NEW S, NEW s \in Seq(S)
    PROVE  Range(s) \subseteq S /\ Range(s) = {s[i] : i \in 1..Len(s)}
BY DEF Range

(***************************************************************************)
(* The three parts of the invariant                                        *)
(***************************************************************************)

\* They hold when the page has been opened.
LEMMA InitInv == Init => IInv
<1> SUFFICES ASSUME Init PROVE IInv
  OBVIOUS
<1>0. 1 \in SocketIds /\ MaxSockets \in Nat \ {0}
  OBVIOUS
<1>1. TypeOK
  BY <1>0 DEF Init, TypeOK, Event
<1>2. NumbersFit
  <2>1. Waiting = {}
    BY DEF Init, Waiting
  <2> QED
    BY <2>1, FS_EmptySet DEF Init, NumbersFit
<1>3. SocketInv
  BY <1>0 DEF Init, SocketInv, LiveSocketIsCurrent, DueIsCurrent, Due, ClosingIsOver,
     SocketsFit, Orphan
<1>4. EventInv
  <2>1. Range(shown) = {} /\ \A s \in SocketIds : Range(queue[s]) = {} /\ Len(queue[s]) = 0
    BY DEF Init, Range
  <2>2. \A e : ~Sent(e)
    BY <2>1 DEF Sent
  <2>3. QuietUnlessConnected /\ SentIsStored /\ LastIsShown /\ DropsExplained
    BY <2>1 DEF Init, QuietUnlessConnected, SentIsStored, ShownIsStored, LastIsShown,
       DropsExplained
  <2>4. NumbersAreDrawnOnce /\ SentInOrder
    BY <2>1, <2>2 DEF Init, NumbersAreDrawnOnce, SentInOrder
  <2> QED
    BY <2>3, <2>4 DEF EventInv
<1>5. AutoSpawnEnds
  BY DEF Init, AutoSpawnEnds
<1> QED
  BY <1>1, <1>2, <1>3, <1>4, <1>5 DEF IInv

\* No more clicks are numbered than were let through.
LEMMA NumbersFitStep ==
    ASSUME TypeOK, NumbersFit, [Next]_vars
    PROVE  NumbersFit'
<1> DEFINE W == Waiting
<1>0. W \in SUBSET Requests /\ IsFiniteSet(W) /\ Cardinality(W) \in Nat
      /\ wsSeq \in Nat /\ clicks \in Nat /\ wsSeq + Cardinality(W) <= clicks
  BY FS_CardinalityType DEF Waiting, NumbersFit, TypeOK
<1>1. ASSUME NEW q \in Requests, NEW k \in Keys, AllowClick(q, k)
      PROVE  NumbersFit'
  <2>1. Waiting' = W \union {q} /\ q \notin W
    BY <1>1 DEF AllowClick, Waiting, TypeOK
  <2>2. IsFiniteSet(Waiting') /\ Cardinality(Waiting') = Cardinality(W) + 1
    BY <1>0, <2>1, FS_AddElement
  <2>3. wsSeq' = wsSeq /\ clicks' = clicks + 1
    BY <1>1 DEF AllowClick
  <2> QED
    BY <1>0, <2>2, <2>3 DEF NumbersFit
<1>2. ASSUME NEW q \in Requests, InsertClick(q)
      PROVE  NumbersFit'
  <2>1. Waiting' = W
    BY <1>2 DEF InsertClick, Waiting, TypeOK
  <2> QED
    BY <1>0, <1>2, <2>1 DEF NumbersFit, InsertClick
<1>3. ASSUME NEW q \in Requests, InsertFails(q) \/ NextSeq(q)
      PROVE  NumbersFit'
  <2>1. Waiting' = W \ {q} /\ q \in W
    BY <1>3 DEF InsertFails, NextSeq, Waiting, TypeOK
  <2>2. IsFiniteSet(Waiting') /\ Cardinality(Waiting') = Cardinality(W) - 1
    BY <1>0, <2>1, FS_RemoveElement
  <2>3. wsSeq' \in {wsSeq, wsSeq + 1} /\ clicks' = clicks
    BY <1>3 DEF InsertFails, NextSeq
  <2> QED
    BY <1>0, <2>2, <2>3 DEF NumbersFit
<1>4. ASSUME NEW q \in Requests, Broadcast(q)
      PROVE  NumbersFit'
  <2>1. Waiting' = W
    BY <1>4 DEF Broadcast, Waiting, TypeOK
  <2> QED
    BY <1>0, <1>4, <2>1 DEF NumbersFit, Broadcast
<1>5. CASE RestartBackend
  <2>1. Waiting' = {}
    BY <1>5 DEF RestartBackend, Waiting
  <2> QED
    BY <1>0, <1>5, <2>1, FS_EmptySet DEF NumbersFit, RestartBackend
<1>6. CASE UNCHANGED <<pc, wsSeq, clicks>>
  <2>1. Waiting' = W
    BY <1>6 DEF Waiting
  <2> QED
    BY <1>0, <1>6, <2>1 DEF NumbersFit
<1>7. ASSUME NEW s \in SocketIds, Socket(s)
      PROVE  UNCHANGED <<pc, wsSeq, clicks>>
  BY <1>7 DEF Socket, Open, LoseSocket, FinishClosing, SocketEnds, TimerFires, Receive
<1>8. ASSUME Page
      PROVE  UNCHANGED <<pc, wsSeq, clicks>>
  BY <1>8 DEF Page, Rerun, Unmount, StartAutoSpawn, SpawnOnce, EnoughBoxes
<1>9. ASSUME NEW k \in Keys, Forget(k)
      PROVE  UNCHANGED <<pc, wsSeq, clicks>>
  BY <1>9 DEF Forget
<1>10. CASE UNCHANGED vars
  BY <1>6, <1>10
<1> QED
  BY <1>1, <1>2, <1>3, <1>4, <1>5, <1>6, <1>7, <1>8, <1>9, <1>10 DEF Next, Request

\* There is at most one live socket, however the reconnects, the effect runs
\* and the restarts interleave, and no more sockets than there were reasons.
LEMMA SocketInvStep ==
    ASSUME TypeOK, SocketInv, [Next]_vars
    PROVE  SocketInv'
<1> USE DEF SocketInv, LiveSocketIsCurrent, DueIsCurrent, Due, ClosingIsOver, SocketsFit, Orphan
<1>0. /\ sockets \in SocketIds /\ wsRef \in 1..sockets /\ hub \subseteq 1..sockets
      /\ run \in 1..MaxRuns /\ losses \in 0..MaxLosses /\ epoch \in 0..MaxRestarts
      /\ timers \subseteq 1..sockets /\ timerRef \in 0..sockets
      /\ mounted \in BOOLEAN /\ shouldReconnectRef \in BOOLEAN
      /\ state \in [SocketIds -> {"none", "connecting", "open", "closing", "closed"}]
      /\ \A s \in SocketIds : state[s] = "none" <=> s > sockets
      /\ owner \in [SocketIds -> 0..run]
  BY DEF TypeOK
<1>1. ASSUME UNCHANGED <<run, mounted, sockets, state, owner, wsRef, timers, timerRef,
                         shouldReconnectRef, hub, losses, epoch>>
      PROVE  SocketInv'
  BY <1>1
<1>2. ASSUME NEW q \in Requests, Request(q)
      PROVE  SocketInv'
  BY <1>1, <1>2 DEF Request, AllowClick, InsertClick, InsertFails, NextSeq, Broadcast
<1>3. ASSUME NEW k \in Keys, Forget(k)
      PROVE  SocketInv'
  BY <1>1, <1>3 DEF Forget
<1>4. CASE RestartBackend
  BY <1>0, <1>4 DEF RestartBackend
<1>5. ASSUME NEW s \in SocketIds, Open(s)
      PROVE  SocketInv'
  BY <1>0, <1>5 DEF Open
<1>6. ASSUME NEW s \in SocketIds, LoseSocket(s)
      PROVE  SocketInv'
  BY <1>0, <1>6 DEF LoseSocket, SocketEnds
<1>7. ASSUME NEW s \in SocketIds, FinishClosing(s)
      PROVE  SocketInv'
  BY <1>0, <1>7 DEF FinishClosing, SocketEnds
<1>8. ASSUME NEW s \in SocketIds, TimerFires(s)
      PROVE  SocketInv'
  <2>1. CASE owner[s] = run /\ mounted
    <3>1. /\ sockets' = sockets + 1 /\ sockets + 1 \in SocketIds /\ sockets' \in Nat
          /\ wsRef' = sockets + 1
          /\ UNCHANGED <<run, mounted, hub, losses, epoch, shouldReconnectRef, timerRef>>
      BY <1>0, <1>8, <2>1 DEF TimerFires, Connect
    <3>2. /\ s \in timers /\ s = wsRef /\ timers' = timers \ {s}
          /\ \A t \in 1..sockets : t \in timers /\ owner[t] = run => t = s
          /\ \A t \in 1..sockets : ~Live(t)
      BY <1>0, <1>8, <2>1 DEF TimerFires
    <3>3. /\ state'[sockets + 1] = "connecting" /\ owner'[sockets + 1] = run
          /\ \A t \in 1..sockets : state'[t] = state[t] /\ owner'[t] = owner[t]
          /\ sockets + 1 \notin timers'
      BY <1>0, <1>8, <2>1, <3>1 DEF TimerFires, Connect
    <3>4. \A t \in 1..sockets' : t \in 1..sockets \/ t = sockets + 1
      BY <1>0, <3>1
    <3>5. \A t \in 1..sockets' : ~Due(t)' /\ ~Orphan(t)'
      BY <1>0, <2>1, <3>1, <3>2, <3>3, <3>4
    <3>6. sockets < run + losses + epoch
      BY <1>0, <1>8, <2>1 DEF TimerFires
    <3>7. LiveSocketIsCurrent' /\ ClosingIsOver'
      BY <1>0, <2>1, <3>1, <3>2, <3>3, <3>4
    <3>8. DueIsCurrent' /\ SocketsFit'
      BY <1>0, <3>1, <3>4, <3>5, <3>6
    <3> QED
      BY <3>7, <3>8
  <2>2. CASE ~(owner[s] = run /\ mounted)
    BY <1>0, <1>8, <2>2 DEF TimerFires
  <2> QED
    BY <2>1, <2>2
<1>9. ASSUME NEW s \in SocketIds, Receive(s)
      PROVE  SocketInv'
  BY <1>1, <1>9 DEF Receive
<1>10. CASE Rerun
  <2>1. /\ sockets' = sockets + 1 /\ sockets + 1 \in SocketIds /\ sockets' \in Nat
        /\ run' = run + 1 /\ run' \in Nat /\ wsRef' = sockets + 1
        /\ mounted' /\ mounted /\ shouldReconnectRef' = shouldReconnectRef
        /\ hub' = hub /\ losses' = losses /\ epoch' = epoch
    BY <1>0, <1>10 DEF Rerun, Connect
  <2>2. /\ state'[sockets + 1] = "connecting" /\ owner'[sockets + 1] = run'
        /\ \A s \in 1..sockets :
              /\ state'[s] \notin {"connecting", "open"}
              /\ owner'[s] = owner[s] /\ owner'[s] # run'
        /\ timers' \subseteq 1..sockets
    BY <1>0, <1>10, <2>1 DEF Rerun, Connect, ClosingOne
  <2>3. \A s \in 1..sockets' : s \in 1..sockets \/ s = sockets + 1
    BY <1>0, <2>1
  <2>4. \A s \in 1..sockets' : ~Due(s)' /\ ~Orphan(s)'
    BY <1>0, <2>1, <2>2, <2>3
  <2> QED
    BY <1>0, <2>1, <2>2, <2>3, <2>4
<1>11. CASE Unmount
  BY <1>0, <1>11 DEF Unmount, ClosingOne
<1>12. CASE EnoughBoxes
  BY <1>0, <1>12 DEF EnoughBoxes, ClosingOne
<1>13. CASE StartAutoSpawn \/ SpawnOnce
  BY <1>1, <1>13 DEF StartAutoSpawn, SpawnOnce
<1>14. CASE UNCHANGED vars
  BY <1>1, <1>14
<1> QED
  BY <1>2, <1>3, <1>4, <1>5, <1>6, <1>7, <1>8, <1>9, <1>10, <1>11, <1>12, <1>13, <1>14
     DEF Next, Socket, Page

\* Connecting, closing and losing sockets sends nothing and shows nothing: what
\* was on its way stays so, or is lost with its socket.
LEMMA ConnectionStep ==
    ASSUME TypeOK, EventInv, QuietUnlessConnected',
           UNCHANGED <<pc, click, seqOf, stored, wsSeq, epoch, shown, lastSeqRef, dropped>>,
           \A s \in SocketIds : queue'[s] \in {queue[s], << >>},
           \A s \in SocketIds : state'[s] = "open" => state[s] = "open" \/ queue'[s] = << >>
    PROVE  EventInv'
<1> USE DEF EventInv
<1>0. \A s \in SocketIds : queue[s] \in Seq(Event)
  BY DEF TypeOK
<1>1. Range(<< >>) = {} /\ Len(<< >>) = 0
  BY DEF Range
<1>2. \A s \in SocketIds : Range(queue'[s]) \subseteq Range(queue[s])
  BY <1>1
<1>3. \A e : Sent(e)' => Sent(e)
  BY <1>2 DEF Sent
<1>4. SentIsStored'
  BY <1>2 DEF SentIsStored, ShownIsStored
<1>5. NumbersAreDrawnOnce'
  BY <1>3 DEF NumbersAreDrawnOnce
<1>6. SentInOrder'
  <2>1. ASSUME NEW s \in SocketIds, NEW i \in 1..Len(queue[s])', NEW j \in 1..Len(queue[s])',
               i < j
        PROVE  /\ queue'[s][i].epoch <= queue'[s][j].epoch
               /\ ~SameNumber(queue'[s][i], queue'[s][j])
    <3>1. queue'[s] = queue[s]
      BY <1>1, <2>1
    <3> QED
      BY <2>1, <3>1 DEF SentInOrder
  <2>2. ASSUME NEW s \in SocketIds, state'[s] = "open",
               NEW d \in Range(queue'[s]), NEW e \in Range(shown')
        PROVE  e.epoch <= d.epoch /\ ~SameNumber(e, d)
    <3>1. state[s] = "open" /\ d \in Range(queue[s])
      BY <1>1, <1>2, <2>2
    <3> QED
      BY <2>2, <3>1 DEF SentInOrder
  <2> QED
    BY <2>1, <2>2 DEF SentInOrder, SameNumber
<1>7. LastIsShown' /\ DropsExplained'
  BY DEF LastIsShown, DropsExplained
<1> QED
  BY <1>4, <1>5, <1>6, <1>7

\* The steps of sockets, timers and effects are such steps.
LEMMA SocketEventStep ==
    ASSUME TypeOK, EventInv, NEW s \in SocketIds,
           Open(s) \/ LoseSocket(s) \/ FinishClosing(s) \/ TimerFires(s)
    PROVE  EventInv'
<1>0. /\ sockets \in SocketIds /\ hub \subseteq 1..sockets
      /\ state \in [SocketIds -> {"none", "connecting", "open", "closing", "closed"}]
      /\ \A t \in SocketIds : state[t] = "none" <=> t > sockets
      /\ queue \in [SocketIds -> Seq(Event)]
  BY DEF TypeOK
<1>1. QuietUnlessConnected
  BY DEF EventInv
<1>2. CASE Open(s)
  <2>1. QuietUnlessConnected'
    BY <1>0, <1>1, <1>2 DEF Open, QuietUnlessConnected
  <2>2. \A t \in SocketIds : state'[t] = "open" => state[t] = "open" \/ queue'[t] = << >>
    BY <1>0, <1>1, <1>2 DEF Open, QuietUnlessConnected
  <2> QED
    BY <1>2, <2>1, <2>2, ConnectionStep DEF Open
<1>3. CASE LoseSocket(s) \/ FinishClosing(s)
  <2>0. /\ SocketEnds(s)
        /\ UNCHANGED <<pc, click, seqOf, stored, wsSeq, epoch, shown, lastSeqRef, dropped>>
    BY <1>3 DEF LoseSocket, FinishClosing, SocketEnds
  <2>1. QuietUnlessConnected'
    BY <1>0, <1>1, <2>0 DEF SocketEnds, QuietUnlessConnected
  <2>2. /\ \A t \in SocketIds : queue'[t] \in {queue[t], << >>}
        /\ \A t \in SocketIds : state'[t] = "open" => state[t] = "open"
    BY <1>0, <2>0 DEF SocketEnds
  <2> QED
    BY <2>0, <2>1, <2>2, ConnectionStep
<1>4. CASE TimerFires(s)
  <2>0. hub' = hub /\ queue' = queue
    BY <1>4 DEF TimerFires
  <2>1. QuietUnlessConnected'
    <3>1. \A t \in SocketIds : state'[t] = state[t] \/ state[t] = "none"
      BY <1>0, <1>4 DEF TimerFires, Connect
    <3> QED
      BY <1>1, <2>0, <3>1 DEF QuietUnlessConnected
  <2>2. \A t \in SocketIds : state'[t] = "open" => state[t] = "open"
    BY <1>0, <1>4 DEF TimerFires, Connect
  <2> QED
    BY <1>4, <2>1, <2>2, ConnectionStep DEF TimerFires
<1> QED
  BY <1>2, <1>3, <1>4

\* So are those of the page, which receives nothing itself.
LEMMA PageEventStep ==
    ASSUME TypeOK, EventInv, Page
    PROVE  EventInv'
<1>0. /\ sockets \in SocketIds /\ hub \subseteq 1..sockets /\ wsRef \in 1..sockets
      /\ state \in [SocketIds -> {"none", "connecting", "open", "closing", "closed"}]
      /\ \A t \in SocketIds : state[t] = "none" <=> t > sockets
      /\ queue \in [SocketIds -> Seq(Event)]
  BY DEF TypeOK
<1>1. QuietUnlessConnected
  BY DEF EventInv
<1>2. UNCHANGED <<pc, click, seqOf, stored, wsSeq, epoch, shown, lastSeqRef, dropped, hub, queue>>
  BY DEF Page, Rerun, Unmount, StartAutoSpawn, SpawnOnce, EnoughBoxes
<1>3. \A t \in SocketIds : /\ state'[t] = "open" => state[t] = "open"
                           /\ state'[t] \notin {"open", "closing"} =>
                                  state[t] \notin {"open", "closing"}
  BY <1>0 DEF Page, Rerun, Unmount, StartAutoSpawn, SpawnOnce, EnoughBoxes, Connect, ClosingOne
<1>4. QuietUnlessConnected'
  BY <1>0, <1>1, <1>2, <1>3 DEF QuietUnlessConnected
<1> QED
  BY <1>2, <1>3, <1>4, ConnectionStep

\* The steps of a request and of the backend.
LEMMA RequestEventStep ==
    ASSUME TypeOK, NumbersFit, EventInv, NEW q \in Requests, Request(q)
    PROVE  EventInv'
<1> USE DEF EventInv
<1>0. /\ pc \in [Requests -> {"idle", "inserting", "stored", "numbered"}]
      /\ clicks \in 0..MaxClicks /\ wsSeq \in 0..clicks /\ epoch \in 0..MaxRestarts
      /\ click \in [Requests -> 0..clicks] /\ seqOf \in [Requests -> 0..wsSeq]
      /\ hub \subseteq SocketIds
      /\ queue \in [SocketIds -> Seq(Event)] /\ shown \in Seq(Event)
  BY DEF TypeOK
<1>1. /\ Range(shown) \subseteq Event
      /\ \A s \in SocketIds : Range(queue[s]) \subseteq Event
  BY <1>0, RangeType
<1>2. CASE UNCHANGED <<queue, shown, lastSeqRef, dropped, state, hub>>
  <2>1. /\ QuietUnlessConnected' /\ LastIsShown' /\ DropsExplained'
        /\ SentInOrder'
    <3>1. QuietUnlessConnected' /\ LastIsShown' /\ DropsExplained'
      BY <1>2 DEF QuietUnlessConnected, LastIsShown, DropsExplained
    <3>2. SentInOrder' <=> SentInOrder
      BY <1>2 DEF SentInOrder, SameNumber
    <3> QED
      BY <3>1, <3>2
  <2>2. \A e : Sent(e)' <=> Sent(e)
    BY <1>2 DEF Sent
  <2>3. ASSUME NEW k \in Keys, AllowClick(q, k)
        PROVE  SentIsStored' /\ NumbersAreDrawnOnce'
    <3>1. SentIsStored'
      BY <1>0, <1>2, <2>3 DEF AllowClick, SentIsStored, ShownIsStored
    <3>2. NumbersAreDrawnOnce'
      BY <1>0, <2>2, <2>3 DEF AllowClick, NumbersAreDrawnOnce
    <3> QED
      BY <3>1, <3>2
  <2>4. ASSUME InsertClick(q) \/ InsertFails(q)
        PROVE  SentIsStored' /\ NumbersAreDrawnOnce'
    <3>1. SentIsStored'
      BY <1>0, <1>2, <2>4 DEF InsertClick, InsertFails, SentIsStored, ShownIsStored
    <3>2. NumbersAreDrawnOnce'
      <4>1. /\ \A p \in Requests : pc'[p] = "numbered" => pc[p] = "numbered"
            /\ UNCHANGED <<seqOf, wsSeq, epoch>>
        BY <1>0, <2>4 DEF InsertClick, InsertFails
      <4> QED
        BY <2>2, <4>1 DEF NumbersAreDrawnOnce
    <3> QED
      BY <3>1, <3>2
  <2>5. ASSUME NextSeq(q)
        PROVE  SentIsStored' /\ NumbersAreDrawnOnce'
    <3>1. SentIsStored'
      BY <1>0, <1>2, <2>5 DEF NextSeq, SentIsStored, ShownIsStored
    <3>2. /\ pc' = [pc EXCEPT ![q] = "numbered"] /\ seqOf' = [seqOf EXCEPT ![q] = wsSeq + 1]
          /\ wsSeq' = wsSeq + 1 /\ epoch' = epoch
          /\ \A p \in Requests : seqOf[p] <= wsSeq /\ seqOf[p] \in Nat
          /\ wsSeq \in Nat
      BY <1>0, <2>5 DEF NextSeq
    <3>3. \A p \in Requests : pc'[p] = "numbered" => seqOf'[p] >= 1
      BY <1>0, <3>2 DEF NumbersAreDrawnOnce
    <3>4. \A p, r \in Requests :
             pc'[p] = "numbered" /\ pc'[r] = "numbered" /\ seqOf'[p] = seqOf'[r] => p = r
      BY <1>0, <3>2 DEF NumbersAreDrawnOnce
    <3>5. \A e \in Event : Sent(e) =>
             /\ e.epoch <= epoch
             /\ e.epoch = epoch => e.seq <= wsSeq + 1 /\ e.seq # wsSeq + 1
             /\ \A r \in Requests :
                   pc'[r] = "numbered" => ~(e.epoch = epoch /\ e.seq = seqOf'[r])
      BY <1>0, <3>2, SMTT(30) DEF NumbersAreDrawnOnce, Event
    <3>6. NumbersAreDrawnOnce'
      BY <2>2, <3>2, <3>3, <3>4, <3>5 DEF NumbersAreDrawnOnce
    <3> QED
      BY <3>1, <3>6
  <2>6. ~Broadcast(q) => SentIsStored' /\ NumbersAreDrawnOnce'
    BY <2>3, <2>4, <2>5 DEF Request
  <2>7. ASSUME Broadcast(q)
        PROVE  SentIsStored' /\ NumbersAreDrawnOnce'
    <3>1. SentIsStored'
      BY <1>0, <1>2, <2>7 DEF Broadcast, SentIsStored, ShownIsStored
    <3>2. NumbersAreDrawnOnce'
      BY <1>0, <2>2, <2>7 DEF Broadcast, NumbersAreDrawnOnce
    <3> QED
      BY <3>1, <3>2
  <2> QED
    BY <2>1, <2>6, <2>7
<1>3. CASE Broadcast(q)
  <2> DEFINE event == [click |-> click[q], seq |-> seqOf[q], epoch |-> epoch]
  <2>0. /\ pc[q] = "numbered" /\ pc' = [pc EXCEPT ![q] = "idle"]
        /\ queue' = [s \in SocketIds |->
                        IF s \in hub THEN Append(queue[s], event) ELSE queue[s]]
        /\ UNCHANGED <<click, seqOf, stored, wsSeq, epoch, hub, state, shown, lastSeqRef, dropped>>
    BY <1>3 DEF Broadcast
  <2>1. /\ event \in Event /\ event.click \in stored
        /\ event.seq = seqOf[q] /\ event.epoch = epoch
        /\ event.seq <= wsSeq
    BY <1>0, <2>0 DEF Event, SentIsStored, NumbersAreDrawnOnce
  <2> HIDE DEF event
  <2>2. \A s \in SocketIds :
           /\ s \in hub => /\ queue'[s] = Append(queue[s], event)
                           /\ Range(queue'[s]) = Range(queue[s]) \union {event}
           /\ s \notin hub => queue'[s] = queue[s]
    BY <1>0, <2>0, <2>1, AppendRange
  <2>3. ASSUME NEW e, Sent(e)'
        PROVE  Sent(e) \/ e = event
    <3>1. \A s \in SocketIds : Range(queue'[s]) \subseteq Range(queue[s]) \union {event}
      BY <2>2
    <3> QED
      BY <2>0, <2>3, <3>1 DEF Sent
  <2>4. QuietUnlessConnected'
    BY <2>0, <2>2 DEF QuietUnlessConnected
  <2>5. SentIsStored'
    BY <1>0, <2>0, <2>1, <2>2 DEF SentIsStored, ShownIsStored
  <2>6. NumbersAreDrawnOnce'
    <3>1. ASSUME NEW e \in Event, Sent(e)'
          PROVE  /\ e.epoch <= epoch
                 /\ e.epoch = epoch => e.seq <= wsSeq
                 /\ \A r \in Requests :
                       pc'[r] = "numbered" => ~(e.epoch = epoch /\ e.seq = seqOf[r])
      <4>1. CASE Sent(e)
        BY <1>0, <2>0, <4>1 DEF NumbersAreDrawnOnce
      <4>2. CASE e = event
        BY <1>0, <2>0, <2>1, <4>2 DEF NumbersAreDrawnOnce
      <4> QED
        BY <2>3, <3>1, <4>1, <4>2
    <3> QED
      BY <1>0, <2>0, <3>1 DEF NumbersAreDrawnOnce
  <2>7. \A e \in Event : Sent(e) => e.epoch <= event.epoch /\ ~SameNumber(e, event)
    BY <1>0, <2>0, <2>1 DEF NumbersAreDrawnOnce, SameNumber
  <2>8. SentInOrder'
    <3>1. ASSUME NEW s \in SocketIds, NEW i \in 1..Len(queue'[s]), NEW j \in 1..Len(queue'[s]),
                 i < j
          PROVE  /\ queue'[s][i].epoch <= queue'[s][j].epoch
                 /\ ~SameNumber(queue'[s][i], queue'[s][j])
      <4>1. CASE s \notin hub
        BY <2>2, <3>1, <4>1 DEF SentInOrder
      <4>2. CASE s \in hub
        <5>1. queue'[s] = Append(queue[s], event) /\ queue[s] \in Seq(Event)
          BY <1>0, <2>2, <4>2
        <5>2. /\ Len(queue'[s]) = Len(queue[s]) + 1 /\ Len(queue[s]) \in Nat
              /\ \A k \in 1..Len(queue[s]) : queue'[s][k] = queue[s][k]
              /\ queue'[s][Len(queue[s]) + 1] = event
          BY <2>1, <5>1
        <5>3. i \in 1..Len(queue[s]) /\ (j \in 1..Len(queue[s]) \/ j = Len(queue[s]) + 1)
          BY <3>1, <5>2
        <5>4. CASE j \in 1..Len(queue[s])
          BY <3>1, <5>2, <5>3, <5>4 DEF SentInOrder
        <5>5. CASE j = Len(queue[s]) + 1
          <6>1. queue[s][i] \in Range(queue[s]) /\ queue[s][i] \in Event
            BY <1>0, <5>3 DEF Range
          <6>2. Sent(queue[s][i])
            BY <6>1 DEF Sent
          <6> QED
            BY <2>7, <5>2, <5>3, <5>5, <6>1, <6>2
        <5> QED
          BY <5>3, <5>4, <5>5
      <4> QED
        BY <4>1, <4>2
    <3>2. ASSUME NEW s \in SocketIds, state'[s] = "open",
                 NEW d \in Range(queue'[s]), NEW e \in Range(shown')
          PROVE  e.epoch <= d.epoch /\ ~SameNumber(e, d)
      <4>1. state[s] = "open" /\ e \in Range(shown) /\ e \in Event /\ Sent(e)
        BY <1>1, <2>0, <3>2 DEF Sent
      <4>2. CASE d \in Range(queue[s])
        BY <4>1, <4>2 DEF SentInOrder
      <4>3. CASE d = event
        BY <2>7, <4>1, <4>3
      <4>4. d \in Range(queue[s]) \/ d = event
        BY <2>2, <3>2
      <4> QED
        BY <4>2, <4>3, <4>4
    <3> QED
      BY <3>1, <3>2 DEF SentInOrder, SameNumber
  <2>9. LastIsShown' /\ DropsExplained'
    BY <2>0 DEF LastIsShown, DropsExplained
  <2> QED
    BY <2>4, <2>5, <2>6, <2>8, <2>9
<1>4. Broadcast(q) \/ UNCHANGED <<queue, shown, lastSeqRef, dropped, state, hub>>
  BY DEF Request, AllowClick, InsertClick, InsertFails, NextSeq
<1> QED
  BY <1>2, <1>3, <1>4

\* A new process numbers from one again, and forgets its requests and sockets.
LEMMA RestartEventStep ==
    ASSUME TypeOK, EventInv, RestartBackend
    PROVE  EventInv'
<1> USE DEF EventInv
<1>0. /\ epoch \in Nat /\ epoch' = epoch + 1 /\ hub' = {}
      /\ pc' = [q \in Requests |-> "idle"]
      /\ UNCHANGED <<click, stored, queue, state, shown, lastSeqRef, dropped>>
  BY DEF RestartBackend, TypeOK
<1>1. QuietUnlessConnected' /\ SentIsStored' /\ LastIsShown' /\ DropsExplained'
  BY <1>0 DEF QuietUnlessConnected, SentIsStored, ShownIsStored, LastIsShown, DropsExplained
<1>2. NumbersAreDrawnOnce'
  <2>1. \A e : Sent(e)' <=> Sent(e)
    BY <1>0 DEF Sent
  <2>2. \A e \in Event : Sent(e) => e.epoch <= epoch' /\ e.epoch # epoch'
    BY <1>0 DEF NumbersAreDrawnOnce, Event
  <2> QED
    BY <1>0, <2>1, <2>2 DEF NumbersAreDrawnOnce
<1>3. SentInOrder'
  BY <1>0 DEF SentInOrder, SameNumber
<1> QED
  BY <1>1, <1>2, <1>3

\* The browser shows an event or drops it: then it has shown a later one, or
\* one of an earlier process, and never the event itself.
LEMMA ReceiveEventStep ==
    ASSUME TypeOK, LiveSocketIsCurrent, EventInv, NEW s \in SocketIds, Receive(s)
    PROVE  EventInv'
<1> USE DEF EventInv
<1> DEFINE event == Head(queue[s])
<1>0. /\ queue \in [SocketIds -> Seq(Event)] /\ shown \in Seq(Event)
      /\ lastSeqRef \in Nat /\ dropped \subseteq Event
      /\ state \in [SocketIds -> {"none", "connecting", "open", "closing", "closed"}]
      /\ sockets \in SocketIds /\ wsRef \in 1..sockets
      /\ \A t \in SocketIds : state[t] = "none" <=> t > sockets
  BY DEF TypeOK
<1>1. /\ state[s] = "open" /\ queue[s] # << >> /\ queue[s] \in Seq(Event)
      /\ queue' = [queue EXCEPT ![s] = Tail(queue[s])]
      /\ UNCHANGED <<pc, click, seqOf, stored, wsSeq, epoch, hub, state>>
  BY <1>0 DEF Receive
<1>2. /\ \/ /\ event.seq > lastSeqRef /\ lastSeqRef' = event.seq
            /\ shown' = Append(shown, event) /\ dropped' = dropped
         \/ /\ event.seq <= lastSeqRef /\ dropped' = dropped \union {event}
            /\ UNCHANGED <<lastSeqRef, shown>>
  BY DEF Receive
<1>3. /\ event \in Event /\ event \in Range(queue[s]) /\ Range(queue[s]) \subseteq Event
      /\ queue'[s] = Tail(queue[s])
      /\ Range(queue'[s]) \subseteq Range(queue[s])
      /\ Len(queue[s]) \in Nat \ {0} /\ Len(queue'[s]) = Len(queue[s]) - 1
      /\ \A i \in 1..Len(queue'[s]) : queue'[s][i] = queue[s][i + 1]
      /\ event = queue[s][1]
      /\ \A d \in Range(queue'[s]) : \E i \in 1..Len(queue[s]) : 1 < i /\ d = queue[s][i]
      /\ \A t \in SocketIds \ {s} : queue'[t] = queue[t]
  BY <1>0, <1>1, TailRange, RangeType
<1>4. \A t \in SocketIds : state[t] = "open" => t = s
  <2>1. \A t \in SocketIds : state[t] = "open" => t \in 1..sockets
    BY <1>0
  <2> QED
    BY <1>0, <1>1, <2>1 DEF LiveSocketIsCurrent
<1>5. Range(shown) \subseteq Event /\ Range(shown') \subseteq Range(shown) \union {event}
      /\ Range(shown) \subseteq Range(shown')
  <2>1. Range(Append(shown, event)) = Range(shown) \union {event}
    BY <1>0, <1>3, AppendRange
  <2> QED
    BY <1>0, <1>2, <2>1, RangeType
<1> HIDE DEF event
<1>6. \A d \in Range(queue'[s]) : event.epoch <= d.epoch /\ ~SameNumber(event, d)
  BY <1>3 DEF SentInOrder
<1>7. ASSUME NEW e, Sent(e)'
      PROVE  Sent(e)
  BY <1>3, <1>5, <1>7 DEF Sent
<1>8. QuietUnlessConnected'
  BY <1>1, <1>3 DEF QuietUnlessConnected
<1>9. SentIsStored'
  <2>1. event.click \in stored
    BY <1>3 DEF SentIsStored
  <2>2. \A e \in Range(shown') : e.click \in stored
    BY <1>5, <2>1 DEF SentIsStored, ShownIsStored
  <2>3. ASSUME NEW t \in SocketIds, NEW e \in Range(queue'[t])
        PROVE  e.click \in stored
    <3>1. e \in Range(queue[t])
      BY <1>3, <2>3
    <3> QED
      BY <3>1 DEF SentIsStored
  <2> QED
    BY <1>1, <2>2, <2>3 DEF SentIsStored, ShownIsStored
<1>10. NumbersAreDrawnOnce'
  BY <1>1, <1>7 DEF NumbersAreDrawnOnce
<1>11. SentInOrder'
  <2>1. ASSUME NEW t \in SocketIds, NEW i \in 1..Len(queue'[t]), NEW j \in 1..Len(queue'[t]),
               i < j
        PROVE  /\ queue'[t][i].epoch <= queue'[t][j].epoch
               /\ ~SameNumber(queue'[t][i], queue'[t][j])
    <3>1. CASE t = s
      <4>1. i \in 1..Len(queue'[s]) /\ j \in 1..Len(queue'[s])
        BY <2>1, <3>1
      <4>2. queue'[s][i] = queue[s][i + 1] /\ queue'[s][j] = queue[s][j + 1]
        BY <1>3, <4>1
      <4>3. i + 1 \in 1..Len(queue[s]) /\ j + 1 \in 1..Len(queue[s]) /\ i + 1 < j + 1
        BY <1>3, <2>1, <4>1
      <4> QED
        BY <3>1, <4>2, <4>3 DEF SentInOrder
    <3>2. CASE t # s
      BY <1>3, <2>1, <3>2 DEF SentInOrder
    <3> QED
      BY <3>1, <3>2
  <2>2. ASSUME NEW t \in SocketIds, state'[t] = "open",
               NEW d \in Range(queue'[t]), NEW e \in Range(shown')
        PROVE  e.epoch <= d.epoch /\ ~SameNumber(e, d)
    <3>1. t = s /\ d \in Range(queue[s])
      BY <1>1, <1>3, <1>4, <2>2
    <3>2. CASE e = event
      BY <1>6, <2>2, <3>1, <3>2
    <3>3. CASE e \in Range(shown)
      BY <1>1, <3>1, <3>3 DEF SentInOrder
    <3> QED
      BY <1>5, <2>2, <3>2, <3>3
  <2> QED
    BY <2>1, <2>2 DEF SentInOrder, SameNumber
<1>12. LastIsShown' /\ DropsExplained'
  <2>1. CASE event.seq > lastSeqRef /\ lastSeqRef' = event.seq
             /\ shown' = Append(shown, event) /\ dropped' = dropped
    <3>1. event \in Range(shown')
      BY <1>0, <1>3, <2>1, AppendRange
    <3> QED
      BY <1>5, <2>1, <3>1 DEF LastIsShown, DropsExplained
  <2>2. CASE event.seq <= lastSeqRef /\ dropped' = dropped \union {event}
             /\ UNCHANGED <<lastSeqRef, shown>>
    <3>1. event.seq \in Nat \ {0} /\ lastSeqRef # 0
      BY <1>0, <1>3, <2>2 DEF Event
    <3>2. PICK e \in Range(shown) : e.seq = lastSeqRef
      BY <3>1 DEF LastIsShown
    <3>3. e.epoch <= event.epoch /\ ~SameNumber(e, event)
      BY <1>1, <1>3 DEF SentInOrder
    <3>4. e \in Event /\ e.epoch \in Nat /\ event.epoch \in Nat /\ e.seq \in Nat
      BY <1>3, <1>5 DEF Event
    <3>5. (e.epoch = event.epoch /\ e.seq > event.seq) \/ e.epoch < event.epoch
      BY <2>2, <3>1, <3>2, <3>3, <3>4 DEF SameNumber
    <3> QED
      BY <2>2, <3>5 DEF LastIsShown, DropsExplained
  <2> QED
    BY <1>2, <2>1, <2>2
<1> QED
  BY <1>8, <1>9, <1>10, <1>11, <1>12

\* The screen's part of the invariant survives every step.
LEMMA EventInvStep ==
    ASSUME TypeOK, NumbersFit, SocketInv, EventInv, [Next]_vars
    PROVE  EventInv'
<1>1. CASE \E k \in Keys : Forget(k)
  BY <1>1, ConnectionStep DEF Forget, EventInv, QuietUnlessConnected
<1>2. CASE UNCHANGED vars
  BY <1>2, ConnectionStep DEF EventInv, QuietUnlessConnected
<1> QED
  BY <1>1, <1>2, RequestEventStep, RestartEventStep, SocketEventStep, ReceiveEventStep,
     PageEventStep DEF Next, Socket, SocketInv

\* No more than MAX_BOXES boxes, no more than AUTO_SPAWN_COUNT of them asked for
\* by the interval, and a back-off that stops growing.
LEMMA BoundedCounters ==
    ASSUME TypeOK
    PROVE  /\ OneMoreBox => boxes' \in 0..MaxBoxes
           /\ autoCount < AutoSpawnCount => autoCount + 1 \in 0..AutoSpawnCount
           /\ (IF retryRef < 6 THEN retryRef + 1 ELSE 6) \in 0..6
<1>1. /\ boxes \in 0..MaxBoxes /\ MaxBoxes \in Nat /\ retryRef \in 0..6
      /\ autoCount \in 0..AutoSpawnCount /\ AutoSpawnCount \in Nat
  BY DEF TypeOK
<1> QED
  BY <1>1 DEF OneMoreBox

\* The types: sockets and numbers stay within their bounds because the counts
\* above do.
LEMMA TypeStep ==
    ASSUME TypeOK, NumbersFit, SocketInv, EventInv, AutoSpawnEnds, [Next]_vars
    PROVE  TypeOK'
<1> USE DEF TypeOK
<1>1. ASSUME NEW q \in Requests, Request(q)
      PROVE  TypeOK'
  <2>1. ASSUME NEW k \in Keys, AllowClick(q, k)
        PROVE  TypeOK'
    <3>1. /\ clicks' = clicks + 1 /\ clicks' \in 0..MaxClicks
          /\ click' = [click EXCEPT ![q] = clicks + 1]
          /\ pc' = [pc EXCEPT ![q] = "inserting"] /\ recent' = recent \union {k}
      BY <2>1 DEF AllowClick
    <3>2. click' \in [Requests -> 0..clicks']
      BY <3>1
    <3>3. stored \subseteq 1..clicks' /\ wsSeq \in 0..clicks'
      BY <3>1
    <3>4. recent' \subseteq Keys /\ pc' \in [Requests -> {"idle", "inserting", "stored", "numbered"}]
      BY <3>1
    <3>5. UNCHANGED <<seqOf, stored, wsSeq, epoch, netVars, socketVars, screenVars, autoVars>>
      BY <2>1 DEF AllowClick
    <3>6. /\ recent' \subseteq Keys /\ clicks' \in 0..MaxClicks
          /\ pc' \in [Requests -> {"idle", "inserting", "stored", "numbered"}]
          /\ click' \in [Requests -> 0..clicks'] /\ seqOf' \in [Requests -> 0..wsSeq']
          /\ stored' \subseteq 1..clicks' /\ wsSeq' \in 0..clicks'
      BY <3>1, <3>2, <3>3, <3>4, <3>5
    <3> HIDE DEF Event, netVars, socketVars, screenVars, autoVars
    <3>7. UNCHANGED <<epoch, netVars, socketVars, screenVars, autoVars>>
      BY <3>5
    <3> QED
      BY <3>6, <3>7, Zenon DEF netVars, socketVars, screenVars, autoVars
  <2>2. CASE InsertClick(q)
    <3>1. click[q] \in 1..clicks
      BY <2>2 DEF InsertClick, EventInv, SentIsStored
    <3> QED
      BY <2>2, <3>1 DEF InsertClick
  <2>3. CASE InsertFails(q)
    BY <2>3 DEF InsertFails
  <2>4. CASE NextSeq(q)
    <3>1. q \in Waiting /\ IsFiniteSet(Waiting)
      BY <2>4 DEF NextSeq, Waiting, NumbersFit
    <3>2. Cardinality(Waiting) \in Nat /\ Cardinality(Waiting) # 0
      BY <3>1, FS_CardinalityType, FS_EmptySet
    <3>3. wsSeq + 1 \in 0..clicks
      BY <3>2 DEF NumbersFit
    <3> QED
      BY <2>4, <3>3, SMTT(30) DEF NextSeq
  <2>5. CASE Broadcast(q)
    <3> DEFINE event == [click |-> click[q], seq |-> seqOf[q], epoch |-> epoch]
    <3>1. event \in Event
      BY <2>5 DEF Broadcast, Event, EventInv, SentIsStored, NumbersAreDrawnOnce
    <3> HIDE DEF event
    <3>2. queue' = [s \in SocketIds |->
                        IF s \in hub THEN Append(queue[s], event) ELSE queue[s]]
      BY <2>5 DEF Broadcast, event
    <3>3. queue' \in [SocketIds -> Seq(Event)]
      BY <3>1, <3>2, AppendRange
    <3> QED
      BY <2>5, <3>3 DEF Broadcast
  <2> QED
    BY <1>1, <2>1, <2>2, <2>3, <2>4, <2>5 DEF Request
<1>2. ASSUME NEW k \in Keys, Forget(k)
      PROVE  TypeOK'
  BY <1>2 DEF Forget
<1>3. CASE RestartBackend
  BY <1>3 DEF RestartBackend
<1>4. ASSUME NEW s \in SocketIds, Open(s)
      PROVE  TypeOK'
  BY <1>4 DEF Open
<1>5. ASSUME NEW s \in SocketIds, LoseSocket(s) \/ FinishClosing(s)
      PROVE  TypeOK'
  <2>1. SocketEnds(s) /\ losses' \in 0..MaxLosses /\ s \in 1..sockets
    <3>1. state[s] # "none"
      BY <1>5 DEF LoseSocket, FinishClosing
    <3>2. losses \in 0..MaxLosses /\ MaxLosses \in Nat
      OBVIOUS
    <3>6. s \in 1..sockets
      BY <3>1
    <3> HIDE DEF TypeOK
    <3>3. SocketEnds(s)
      BY <1>5 DEF LoseSocket, FinishClosing
    <3>4. \/ losses' = losses
          \/ losses' = losses + 1 /\ losses < MaxLosses
      BY <1>5 DEF LoseSocket, FinishClosing
    <3>5. losses' \in 0..MaxLosses
      BY <3>2, <3>4
    <3> QED
      BY <3>3, <3>5, <3>6
  <2>2. /\ state' \in [SocketIds -> {"none", "connecting", "open", "closing", "closed"}]
        /\ \A t \in SocketIds : state'[t] = "none" <=> t > sockets
    BY <2>1 DEF SocketEnds
  <2>3. queue' \in [SocketIds -> Seq(Event)]
    BY <2>1 DEF SocketEnds
  <2>4. /\ hub' \subseteq 1..sockets /\ timers' \subseteq 1..sockets
        /\ timerRef' \in 0..sockets /\ retryRef' \in 0..6
    <3>1. \/ timers' = timers \union {s} /\ timerRef' = s
                /\ retryRef' = IF retryRef < 6 THEN retryRef + 1 ELSE 6
          \/ UNCHANGED <<retryRef, timers, timerRef>>
      BY <2>1 DEF SocketEnds
    <3>2. hub' = hub \ {s}
      BY <2>1 DEF SocketEnds
    <3>3. hub' \subseteq 1..sockets /\ timers' \subseteq 1..sockets /\ timerRef' \in 0..sockets
      <4>1. /\ hub \subseteq 1..sockets /\ timers \subseteq 1..sockets /\ sockets \in Nat
            /\ timerRef \in 0..sockets
        OBVIOUS
      <4>2. s \in 0..sockets
        BY <2>1, <4>1
      <4> QED
        BY <2>1, <3>1, <3>2, <4>1, <4>2
    <3>4. retryRef' \in 0..6
      BY <3>1, BoundedCounters
    <3> QED
      BY <3>3, <3>4
  <2> QED
    BY <2>1, <2>2, <2>3, <2>4 DEF SocketEnds
<1>6. ASSUME NEW s \in SocketIds, TimerFires(s)
      PROVE  TypeOK'
  <2>1. CASE owner[s] = run /\ mounted
    <3>1. sockets < run + losses + epoch
      BY <1>6, <2>1 DEF TimerFires, SocketInv, SocketsFit, Due
    <3>2. sockets + 1 \in SocketIds
      BY <3>1
    <3>3. /\ sockets' = sockets + 1 /\ wsRef' = sockets + 1
          /\ state' = [state EXCEPT ![sockets + 1] = "connecting"]
          /\ owner' = [owner EXCEPT ![sockets + 1] = run]
          /\ timers' = timers \ {s}
      BY <1>6, <2>1 DEF TimerFires, Connect
    <3>4. /\ state' \in [SocketIds -> {"none", "connecting", "open", "closing", "closed"}]
          /\ \A t \in SocketIds : state'[t] = "none" <=> t > sockets'
          /\ owner' \in [SocketIds -> 0..run]
      BY <3>2, <3>3
    <3>5. hub \subseteq 1..sockets' /\ timers' \subseteq 1..sockets' /\ wsRef' \in 1..sockets'
          /\ timerRef \in 0..sockets'
      BY <3>2, <3>3
    <3> QED
      BY <1>6, <3>2, <3>3, <3>4, <3>5 DEF TimerFires
  <2>2. CASE ~(owner[s] = run /\ mounted)
    BY <1>6, <2>2 DEF TimerFires
  <2> QED
    BY <2>1, <2>2
<1>7. ASSUME NEW s \in SocketIds, Receive(s)
      PROVE  TypeOK'
  <2>1. /\ Tail(queue[s]) \in Seq(Event) /\ Head(queue[s]) \in Event
        /\ Head(queue[s]) \in Range(queue[s])
    BY <1>7, TailRange DEF Receive
  <2>2. Sent(Head(queue[s]))
    BY <2>1 DEF Sent
  <2> QED
    <3> DEFINE event == Head(queue[s])
    <3>1. event.seq \in 0..MaxClicks
      BY <2>1, SMTT(30) DEF Event
    <3> HIDE DEF event
    <3>2. /\ lastSeqRef' \in {lastSeqRef, event.seq}
          /\ boxes' = boxes \/ OneMoreBox
          /\ dropped' \in {dropped, dropped \union {event}}
          /\ shown' \in {shown, Append(shown, event)}
          /\ queue' = [queue EXCEPT ![s] = Tail(queue[s])]
      BY <1>7 DEF Receive, event
    <3>3. boxes' \in 0..MaxBoxes
      BY <3>2, BoundedCounters
    <3>4. shown' \in Seq(Event) /\ dropped' \subseteq Event
      <4>1. event \in Event /\ shown \in Seq(Event) /\ dropped \subseteq Event
        BY <2>1 DEF event
      <4>2. Append(shown, event) \in Seq(Event)
        BY <4>1, AppendRange
      <4> QED
        BY <3>2, <4>1, <4>2
    <3>5. queue' \in [SocketIds -> Seq(Event)]
      BY <2>1, <3>2
    <3> QED
      BY <1>7, <3>1, <3>2, <3>3, <3>4, <3>5 DEF Receive
<1>8. CASE Rerun
  <2>1. sockets + 1 \in SocketIds /\ run + 1 \in 1..MaxRuns
    BY <1>8 DEF Rerun, SocketInv, SocketsFit
  <2>2. /\ sockets' = sockets + 1 /\ wsRef' = sockets + 1 /\ run' = run + 1
        /\ state' = [ClosingOne(wsRef) EXCEPT ![sockets + 1] = "connecting"]
        /\ owner' = [owner EXCEPT ![sockets + 1] = run + 1]
        /\ timers' \subseteq timers
    BY <1>8 DEF Rerun, Connect
  <2>3. /\ state' \in [SocketIds -> {"none", "connecting", "open", "closing", "closed"}]
        /\ \A t \in SocketIds : state'[t] = "none" <=> t > sockets'
        /\ owner' \in [SocketIds -> 0..run']
    <3>1. /\ ClosingOne(wsRef) \in
                [SocketIds -> {"none", "connecting", "open", "closing", "closed"}]
          /\ \A t \in SocketIds : ClosingOne(wsRef)[t] = "none" <=> t > sockets
      BY DEF ClosingOne
    <3>2. owner \in [SocketIds -> 0..run']
      BY <2>1, <2>2
    <3>3. \A t \in SocketIds : t > sockets + 1 <=> t > sockets /\ t # sockets + 1
      BY <2>1
    <3>4. sockets + 1 \in SocketIds /\ ~(sockets + 1 > sockets + 1)
      BY <2>1
    <3>5. \A t \in SocketIds : state'[t] = "none" <=> t > sockets'
      BY <2>2, <3>1, <3>3, <3>4
    <3>6. /\ state' \in [SocketIds -> {"none", "connecting", "open", "closing", "closed"}]
          /\ owner' \in [SocketIds -> 0..run']
      BY <2>1, <2>2, <3>1, <3>2, SMTT(30)
    <3> QED
      BY <3>5, <3>6
  <2>4. hub \subseteq 1..sockets' /\ timers' \subseteq 1..sockets' /\ wsRef' \in 1..sockets'
        /\ timerRef \in 0..sockets'
    BY <2>1, <2>2
  <2> QED
    BY <1>8, <2>1, <2>2, <2>3, <2>4 DEF Rerun
<1>9. CASE Unmount \/ EnoughBoxes
  <2>1. state' = ClosingOne(wsRef) /\ timers' = timers \ {timerRef}
    BY <1>9 DEF Unmount, EnoughBoxes
  <2>2. /\ state' \in [SocketIds -> {"none", "connecting", "open", "closing", "closed"}]
        /\ \A t \in SocketIds : state'[t] = "none" <=> t > sockets
    BY <2>1 DEF ClosingOne
  <2>3. timers' \subseteq 1..sockets
    BY <2>1
  <2>4. mounted' \in BOOLEAN /\ shouldReconnectRef' \in BOOLEAN
        /\ autoSpawn' \in {"no", "on", "off"}
    BY <1>9 DEF Unmount, EnoughBoxes
  <2>5. UNCHANGED <<backendVars, netVars, run, sockets, owner, wsRef, retryRef, timerRef,
                    screenVars, autoCount>>
    BY <1>9 DEF Unmount, EnoughBoxes
  <2> QED
    BY <2>2, <2>3, <2>4, <2>5
<1>10. CASE StartAutoSpawn \/ SpawnOnce
  <2>1. autoCount' \in 0..AutoSpawnCount /\ autoSpawn' \in {"no", "on", "off"}
    BY <1>10, BoundedCounters DEF StartAutoSpawn, SpawnOnce, AutoSpawnEnds
  <2>2. boxes' \in 0..MaxBoxes
    BY <1>10, BoundedCounters DEF StartAutoSpawn, SpawnOnce
  <2> QED
    BY <1>10, <2>1, <2>2, ZenonT(30) DEF StartAutoSpawn, SpawnOnce
<1>11. CASE UNCHANGED vars
  BY <1>11
<1> QED
  BY <1>1, <1>2, <1>3, <1>4, <1>5, <1>6, <1>7, <1>8, <1>9, <1>10, <1>11
     DEF Next, Socket, Page

\* The auto spawn interval asks for so many boxes and no more.
LEMMA AutoSpawnStep ==
    ASSUME TypeOK, AutoSpawnEnds, [Next]_vars
    PROVE  AutoSpawnEnds'
<1>1. CASE UNCHANGED autoVars
  BY <1>1 DEF AutoSpawnEnds
<1>2. CASE Page
  BY <1>2 DEF Page, Rerun, Unmount, StartAutoSpawn, SpawnOnce, EnoughBoxes, AutoSpawnEnds, TypeOK
<1>3. ASSUME NEW q \in Requests, Request(q)
      PROVE  UNCHANGED autoVars
  BY <1>3 DEF Request, AllowClick, InsertClick, InsertFails, NextSeq, Broadcast
<1>4. ASSUME NEW s \in SocketIds, Socket(s)
      PROVE  UNCHANGED autoVars
  BY <1>4 DEF Socket, Open, LoseSocket, FinishClosing, SocketEnds, TimerFires, Receive
<1>5. ASSUME RestartBackend \/ \E k \in Keys : Forget(k)
      PROVE  UNCHANGED autoVars
  BY <1>5 DEF RestartBackend, Forget
<1> QED
  BY <1>1, <1>2, <1>3, <1>4, <1>5 DEF Next

-----------------------------------------------------------------------------
(***************************************************************************)
(* Theorems                                                                *)
(***************************************************************************)

\* The invariant holds in every state.
THEOREM Invariant == Spec => []IInv
<1>1. IInv /\ [Next]_vars => IInv'
  BY NumbersFitStep, SocketInvStep, EventInvStep, TypeStep, AutoSpawnStep DEF IInv
<1> QED
  BY InitInv, <1>1, PTL DEF Spec

\* Every variable keeps its type: among them the sockets, of which no more are
\* made than effect runs, lost connections and restarts account for, and the
\* numbers, of which no more are drawn than clicks were let through.
THEOREM TypeCorrect == Spec => []TypeOK
<1>1. IInv => TypeOK
  BY DEF IInv
<1> QED
  BY <1>1, Invariant, PTL

\* At most one socket is not closing: wsRef, of the current effect run.
THEOREM OneLiveSocket == Spec => []LiveSocketIsCurrent
<1>1. IInv => LiveSocketIsCurrent
  BY DEF IInv, SocketInv
<1> QED
  BY <1>1, Invariant, PTL

\* A box falls for stored clicks only.
THEOREM BoxesAreStoredClicks == Spec => []ShownIsStored
<1>1. IInv => ShownIsStored
  BY DEF IInv, EventInv, SentIsStored
<1> QED
  BY <1>1, Invariant, PTL

\* The sequence filter turns away only what a later event of the same process
\* overtook, or what a process started since has sent.
THEOREM DropsAreExplained == Spec => []DropsExplained
<1>1. IInv => DropsExplained
  BY DEF IInv, EventInv
<1> QED
  BY <1>1, Invariant, PTL

\* Once the feed has ended, only a new run of the effect makes a socket: a
\* reconnect that is due would have to be of a feed that has not ended.
THEOREM NoSocketAfterTheEnd == Spec => EndedStaysEnded
<1>1. ASSUME IInv, [Next]_vars
      PROVE  [~shouldReconnectRef /\ sockets' # sockets => run' # run]_vars
  <2> SUFFICES ASSUME ~shouldReconnectRef, sockets' # sockets
               PROVE  run' # run
    OBVIOUS
  <2>1. CASE Rerun
    BY <1>1, <2>1 DEF Rerun, IInv, TypeOK
  <2>2. ASSUME NEW s \in SocketIds, TimerFires(s)
        PROVE  FALSE
    <3>1. s \in 1..sockets /\ Due(s)
      BY <1>1, <2>2 DEF TimerFires, IInv, TypeOK, Due
    <3> QED
      BY <1>1, <3>1 DEF IInv, SocketInv, DueIsCurrent
  <2>3. ~Rerun /\ (\A s \in SocketIds : ~TimerFires(s)) => sockets' = sockets
    BY <1>1 DEF Next, Request, AllowClick, InsertClick, InsertFails, NextSeq, Broadcast,
       Forget, RestartBackend, Socket, Open, LoseSocket, FinishClosing, SocketEnds, Receive,
       Page, Unmount, StartAutoSpawn, SpawnOnce, EnoughBoxes
  <2> QED
    BY <2>1, <2>2, <2>3
<1>2. Spec => [][[~shouldReconnectRef /\ sockets' # sockets => run' # run]_vars]_vars
  BY <1>1, Invariant, PTL DEF Spec
<1> QED
  BY <1>2, PTL DEF EndedStaysEnded
=============================================================================
