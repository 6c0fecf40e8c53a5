---------------------------- MODULE Backend_proofs ----------------------------
(***************************************************************************)
(* Parts of the server, each proved about on its own: the two that a click *)
(* passes through, ClickLimiter for any number of keys and callers and any *)
(* intervals, from the assumption that no call waits for the lock longer   *)
(* than nine times minInterval, and WsHub for any number of connections,   *)
(* broadcasts and messages and any buffer size; and ImageStore for any     *)
(* number of uploads, requests and crashes.                                *)
(***************************************************************************)
EXTENDS ClickLimiter, WsHub, ImageStore, TLAPS

-----------------------------------------------------------------------------
(* The click limiter *)

\* A call that waits has read a recent time.
WaitIsBounded == \A p \in waiting : clock - now[p] <= MaxWait

\* The map remembers the last click let through, or has forgotten it at a time
\* when it was already older than ten intervals; or there was none.
MapRemembers ==
    \A k \in Keys :
        \/ k \in known /\ lastClicks[k] = lastAccepted[k]
        \/ k \notin known /\ lastAccepted[k] = -MinInterval
        \/ k \notin known /\ lastAccepted[k] < ExpireBefore(clock)

\* No entry has survived a cleanup that should have dropped it, and none is
\* added behind the back of the last cleanup.
EntriesOutliveCleanup == \A k \in known : lastClicks[k] >= ExpireBefore(lastCleanup)

LimiterInv == LimiterTypeOK /\ WaitIsBounded /\ MapRemembers /\ EntriesOutliveCleanup

\* createClickLimiter: the empty map.
LEMMA LimiterInitInv == LimiterInit => LimiterInv
<1> SUFFICES ASSUME LimiterInit PROVE LimiterInv
  OBVIOUS
<1> QED
  BY LimiterAssumption
     DEF LimiterInit, LimiterInv, LimiterTypeOK, WaitIsBounded, MapRemembers, EntriesOutliveCleanup

\* Time passes: what is recent enough stays so because Tick waits for waiters.
LEMMA TickStep == ASSUME LimiterInv, Tick PROVE LimiterInv'
<1> USE LimiterAssumption DEF Tick, LimiterInv
<1>1. LimiterTypeOK'
  BY DEF LimiterTypeOK
<1>2. WaitIsBounded'
  <2> SUFFICES ASSUME NEW p \in waiting' PROVE (clock - now[p] <= MaxWait)'
    BY DEF WaitIsBounded
  <2>1. now[p] \in Nat /\ clock \in Nat /\ clock - now[p] < MaxWait
    BY DEF LimiterTypeOK
  <2> QED
    BY <2>1
<1>3. MapRemembers'
  <2> SUFFICES ASSUME NEW k \in Keys
               PROVE  \/ k \in known /\ lastClicks[k] = lastAccepted[k]
                      \/ k \notin known /\ lastAccepted[k] = -MinInterval
                      \/ k \notin known /\ lastAccepted[k] < ExpireBefore(clock + 1)
    BY DEF MapRemembers
  <2>1. lastAccepted[k] \in Int /\ clock \in Nat
    BY DEF LimiterTypeOK
  <2> QED
    BY <2>1 DEF MapRemembers, ExpireBefore
<1>4. EntriesOutliveCleanup'
  BY DEF EntriesOutliveCleanup
<1> QED
  BY <1>1, <1>2, <1>3, <1>4

\* Calling and being refused leave the map as it is.
LEMMA CallStep == ASSUME LimiterInv, NEW p \in Callers, NEW k \in Keys, Call(p, k) PROVE LimiterInv'
<1> USE LimiterAssumption DEF Call, LimiterInv
<1>1. LimiterTypeOK'
  BY DEF LimiterTypeOK
<1>2. WaitIsBounded'
  BY DEF WaitIsBounded, LimiterTypeOK
<1>3. MapRemembers' /\ EntriesOutliveCleanup'
  BY DEF MapRemembers, EntriesOutliveCleanup
<1> QED
  BY <1>1, <1>2, <1>3

\* A refused call only stops waiting.
LEMMA RejectStep == ASSUME LimiterInv, NEW p \in Callers, Reject(p) PROVE LimiterInv'
BY DEF Reject, LimiterInv, LimiterTypeOK, WaitIsBounded, MapRemembers, EntriesOutliveCleanup

\* What a click let through does to the map, by key.
LEMMA AcceptEffect ==
    ASSUME LimiterInv, NEW p \in Callers, Accept(p)
    PROVE  /\ now[p] \in 0..clock /\ clock - now[p] <= MaxWait
           /\ \A k \in Keys \ {key[p]} :
                /\ lastAccepted'[k] = lastAccepted[k]
                /\ \/ /\ k \in known' <=> k \in known
                      /\ lastClicks'[k] = lastClicks[k]
                   \/ k \in known /\ k \notin known' /\ lastClicks[k] < ExpireBefore(now[p])
           /\ key[p] \in known' /\ lastClicks'[key[p]] = now[p]
           /\ lastAccepted'[key[p]] = now[p]
           /\ \/ /\ lastCleanup' = now[p]
                 /\ \A k \in known' : lastClicks'[k] >= ExpireBefore(now[p])
              \/ /\ lastCleanup' = lastCleanup
                 /\ ~(Cardinality(known') > MaxEntries)
                 /\ now[p] - lastCleanup < CleanupInterval
<1> DEFINE t == now[p]
           clicks == [lastClicks EXCEPT ![key[p]] = t]
           entries == known \union {key[p]}
           old == {k \in entries : clicks[k] < ExpireBefore(t)}
<1>0. /\ t \in 0..clock /\ key[p] \in Keys /\ t \in Int /\ clock - t <= MaxWait
      /\ \A k \in Keys : clicks[k] \in Int
  BY DEF LimiterInv, LimiterTypeOK, WaitIsBounded, Accept
<1>1. key[p] \notin old
  BY <1>0, LimiterAssumption DEF LimiterInv, LimiterTypeOK, ExpireBefore
<1>2. CASE CleanupDue(t, entries)
  <2>1. /\ known' = entries \ old /\ lastCleanup' = t
        /\ lastClicks' = [k \in Keys |-> IF k \in old THEN 0 ELSE clicks[k]]
        /\ lastAccepted' = [lastAccepted EXCEPT ![key[p]] = t]
    BY <1>2 DEF Accept
  <2>2. \A k \in known' : lastClicks'[k] >= ExpireBefore(t)
    BY <1>0, <2>1, LimiterAssumption DEF LimiterInv, LimiterTypeOK, ExpireBefore
  <2> QED
    BY <1>0, <1>1, <2>1, <2>2 DEF LimiterInv, LimiterTypeOK
<1>3. CASE ~CleanupDue(t, entries)
  <2>1. /\ known' = entries /\ lastCleanup' = lastCleanup
        /\ lastAccepted' = [lastAccepted EXCEPT ![key[p]] = t]
    BY <1>3 DEF Accept
  <2>2. lastClicks' = clicks
    BY <1>3 DEF Accept, LimiterInv, LimiterTypeOK
  <2>3. ~(Cardinality(known') > MaxEntries) /\ ~(t - lastCleanup >= CleanupInterval)
    BY <1>3, <2>1 DEF CleanupDue
  <2> QED
    BY <1>0, <2>1, <2>2, <2>3, LimiterAssumption DEF LimiterInv, LimiterTypeOK
<1> QED
  BY <1>2, <1>3

\* A click let through keeps the invariant, whatever is evicted with it.
LEMMA AcceptStep == ASSUME LimiterInv, NEW p \in Callers, Accept(p) PROVE LimiterInv'
<1> DEFINE t == now[p]
<1>0. /\ t \in 0..clock /\ clock - t <= MaxWait /\ clock \in Nat
      /\ MinInterval \in Nat \ {0} /\ MaxWait \in Nat /\ MaxWait <= 9 * MinInterval
      /\ clock' = clock /\ now' = now /\ key' = key /\ waiting' = waiting \ {p}
  BY AcceptEffect, LimiterAssumption DEF LimiterInv, LimiterTypeOK, Accept
<1>1. ASSUME NEW k \in Keys
      PROVE  /\ lastClicks[k] \in 0..clock /\ lastAccepted[k] \in -MinInterval..clock
             /\ lastClicks'[k] \in 0..clock /\ lastAccepted'[k] \in -MinInterval..clock
  <2>1. lastClicks[k] \in 0..clock /\ lastAccepted[k] \in -MinInterval..clock
    BY DEF LimiterInv, LimiterTypeOK
  <2>2. lastAccepted'[k] \in {lastAccepted[k], t}
    BY <1>0 DEF Accept, LimiterInv, LimiterTypeOK
  <2>3. lastClicks'[k] \in {lastClicks[k], t, 0}
    BY DEF Accept, LimiterInv, LimiterTypeOK
  <2> QED
    BY <1>0, <2>1, <2>2, <2>3
<1>2. LimiterTypeOK'
  <2>1. lastClicks' \in [Keys -> 0..clock] /\ lastAccepted' \in [Keys -> -MinInterval..clock]
    BY <1>1 DEF Accept, LimiterInv, LimiterTypeOK
  <2>2. known' \subseteq Keys /\ lastCleanup' \in 0..clock
    BY <1>0 DEF Accept, LimiterInv, LimiterTypeOK
  <2> QED
    BY <1>0, <2>1, <2>2 DEF LimiterInv, LimiterTypeOK
<1>3. WaitIsBounded'
  BY <1>0 DEF LimiterInv, WaitIsBounded
<1>4. MapRemembers'
  <2> SUFFICES ASSUME NEW k \in Keys
               PROVE  \/ k \in known' /\ lastClicks'[k] = lastAccepted'[k]
                      \/ k \notin known' /\ lastAccepted'[k] = -MinInterval
                      \/ k \notin known' /\ lastAccepted'[k] < ExpireBefore(clock)
    BY <1>0 DEF MapRemembers
  <2>1. CASE k = key[p]
    BY <2>1, AcceptEffect
  <2>2. CASE k # key[p] /\ (k \in known' <=> k \in known) /\ lastClicks'[k] = lastClicks[k]
    BY <2>2, AcceptEffect DEF LimiterInv, MapRemembers
  <2>3. CASE k # key[p] /\ k \in known /\ k \notin known' /\ lastClicks[k] < ExpireBefore(t)
    <3>1. lastAccepted'[k] = lastClicks[k]
      BY <2>3, AcceptEffect DEF LimiterInv, MapRemembers
    <3> QED
      BY <1>0, <1>1, <2>3, <3>1 DEF ExpireBefore
  <2> QED
    BY <2>1, <2>2, <2>3, AcceptEffect
<1>5. EntriesOutliveCleanup'
  <2>1. CASE lastCleanup' = t /\ \A k \in known' : lastClicks'[k] >= ExpireBefore(t)
    BY <2>1 DEF EntriesOutliveCleanup
  <2>2. CASE lastCleanup' = lastCleanup
    <3> SUFFICES ASSUME NEW k \in known' PROVE lastClicks'[k] >= ExpireBefore(lastCleanup)
      BY <2>2 DEF EntriesOutliveCleanup
    <3>1. CASE k = key[p]
      <4>1. lastCleanup \in 0..clock
        BY DEF LimiterInv, LimiterTypeOK
      <4> QED
        BY <1>0, <3>1, <4>1, AcceptEffect DEF ExpireBefore
    <3>2. CASE k # key[p]
      BY <1>2, <3>2, AcceptEffect DEF LimiterInv, LimiterTypeOK, EntriesOutliveCleanup
    <3> QED
      BY <3>1, <3>2
  <2> QED
    BY <2>1, <2>2, AcceptEffect
<1> QED
  BY <1>2, <1>3, <1>4, <1>5 DEF LimiterInv

\* Every step keeps the invariant of the limiter.
LEMMA LimiterNextInv == LimiterInv /\ [LimiterNext]_limiterVars => LimiterInv'
<1> SUFFICES ASSUME LimiterInv, [LimiterNext]_limiterVars PROVE LimiterInv'
  OBVIOUS
<1>1. CASE UNCHANGED limiterVars
  BY <1>1 DEF limiterVars, LimiterInv, LimiterTypeOK, WaitIsBounded, MapRemembers, EntriesOutliveCleanup
<1> QED
  BY <1>1, TickStep, CallStep, RejectStep, AcceptStep DEF LimiterNext

\* LimiterInv is an invariant of the limiter.
THEOREM LimiterInvariant == LimiterSpec => []LimiterInv
BY LimiterInitInv, LimiterNextInv, PTL DEF LimiterSpec

\* Every variable keeps its type; no time is in the future.
THEOREM LimiterTypeCorrect == LimiterSpec => []LimiterTypeOK
<1>1. LimiterInv => LimiterTypeOK
  BY DEF LimiterInv
<1> QED
  BY <1>1, LimiterInvariant, PTL

\* Clicks let through for one key are minInterval apart, for any interval, any
\* number of concurrent calls and any pattern of evictions.
THEOREM Apart == LimiterSpec => AcceptedApart
<1> DEFINE A == \A p \in Callers :
                  Accept(p) => now[p] - lastAccepted[key[p]] >= MinInterval
<1>1. LimiterInv /\ [LimiterNext]_limiterVars => [A]_limiterVars
  <2> SUFFICES ASSUME LimiterInv, NEW p \in Callers, Accept(p)
               PROVE  now[p] - lastAccepted[key[p]] >= MinInterval
    OBVIOUS
  <2> DEFINE t == now[p]
             l == lastAccepted[key[p]]
  <2>0. /\ t \in 0..clock /\ clock - t <= MaxWait /\ clock \in Nat
        /\ MinInterval \in Nat \ {0} /\ MaxWait \in Nat /\ MaxWait <= 9 * MinInterval
        /\ key[p] \in Keys /\ l \in Int
    BY AcceptEffect, LimiterAssumption DEF LimiterInv, LimiterTypeOK
  <2>1. CASE key[p] \in known /\ lastClicks[key[p]] = l
    BY <2>0, <2>1 DEF Accept, TooSoon
  <2>2. CASE key[p] \notin known /\ l = -MinInterval
    BY <2>0, <2>2
  <2>3. CASE key[p] \notin known /\ l < ExpireBefore(clock)
    BY <2>0, <2>3 DEF ExpireBefore
  <2> QED
    BY <2>0, <2>1, <2>2, <2>3 DEF LimiterInv, MapRemembers
<1> QED
  BY <1>1, LimiterInvariant, PTL DEF LimiterSpec, AcceptedApart

\* Nothing older than ten intervals and a cleanup interval stays in the map,
\* and nothing older than ten intervals while it is over its size.
THEOREM MapIsRecent == LimiterSpec => EntriesAreRecent
<1> DEFINE Recent(p, k) ==
        lastClicks'[k] >= now[p] - 10 * MinInterval
            - (IF Cardinality(known') > MaxEntries THEN 0 ELSE CleanupInterval)
<1>1. LimiterInv /\ [LimiterNext]_limiterVars => [\A p \in Callers : Accept(p) => \A k \in known' : Recent(p, k)]_limiterVars
  <2> SUFFICES ASSUME LimiterInv, NEW p \in Callers, Accept(p), NEW k \in known'
               PROVE  Recent(p, k)
    OBVIOUS
  <2>0. LimiterInv'
    BY AcceptStep
  <2>1. /\ now[p] \in Nat /\ lastClicks'[k] \in Int /\ lastCleanup \in Nat
        /\ MinInterval \in Nat /\ CleanupInterval \in Nat
    BY <2>0, AcceptEffect, LimiterAssumption DEF LimiterInv, LimiterTypeOK
  <2>2. CASE lastClicks'[k] >= ExpireBefore(now[p])
    BY <2>1, <2>2 DEF ExpireBefore
  <2>3. CASE /\ lastCleanup' = lastCleanup /\ ~(Cardinality(known') > MaxEntries)
             /\ now[p] - lastCleanup < CleanupInterval
    BY <2>0, <2>1, <2>3 DEF LimiterInv, EntriesOutliveCleanup, ExpireBefore
  <2> QED
    BY <2>2, <2>3, AcceptEffect
<1> QED
  BY <1>1, LimiterInvariant, PTL DEF LimiterSpec, EntriesAreRecent

-----------------------------------------------------------------------------
(* The websocket hub *)

\* Only connections that were made are in the hub or in a snapshot, and a
\* connection is made once: none of them comes back after its removal.
Connected(c) == reader[c] # "none"

KnownClients ==
    /\ \A c \in hub : Connected(c)
    /\ \A b \in Casters : \A c \in snapshot[b] : Connected(c)

\* What a broadcast holds in each of its states.
CasterState ==
    \A b \in Casters :
        /\ left[b] \subseteq snapshot[b]
        /\ caster[b] \in {"idle", "numbered"} => snapshot[b] = {}
        /\ caster[b] # "idle" => msg[b] \in 1..wsSeq
        /\ caster[b] \in {"full", "closing"} <=> target[b] # {}
        /\ caster[b] \in {"full", "closing"} => \E c \in Clients : target[b] = {c}

HubInv ==
    /\ TypeOK
    /\ KnownClients
    /\ CasterState
    /\ ClosedOnceWhenRemoved
    /\ PassedClientsHaveIt

\* The empty hub.
LEMMA HubInitInv == Init => HubInv
<1> SUFFICES ASSUME Init PROVE HubInv
  OBVIOUS
<1> USE DEF Init
<1>1. TypeOK
  BY HubAssumption DEF TypeOK, ReaderStates, WriterStates, CasterStates
<1>2. KnownClients /\ CasterState
  BY DEF KnownClients, CasterState
<1>3. ClosedOnceWhenRemoved /\ PassedClientsHaveIt
  BY DEF ClosedOnceWhenRemoved, PassedClientsHaveIt
<1> QED
  BY <1>1, <1>2, <1>3 DEF HubInv

-----------------------------------------------------------------------------
(* Types *)

\* The steps of a reader keep the types.
LEMMA ReaderType == ASSUME TypeOK, NEW c \in Clients, Reader(c) PROVE TypeOK'
<1> USE DEF TypeOK, ReaderStates, ReaderGoto, casterVars, connVars
<1>1. CASE Add(c)
  BY <1>1 DEF Add
<1>2. CASE StartWriter(c)
  BY <1>2 DEF StartWriter, WriterStates
<1>3. CASE ReaderFails(c)
  BY <1>3 DEF ReaderFails
<1>4. CASE ReaderRemoves(c)
  BY <1>4 DEF ReaderRemoves, Remove
<1>5. CASE ReaderCloses(c)
  BY <1>5 DEF ReaderCloses, CloseConn
<1> QED
  BY <1>1, <1>2, <1>3, <1>4, <1>5 DEF Reader

\* The steps of a writer keep the types.
LEMMA WriterType == ASSUME TypeOK, NEW c \in Clients, Writer(c) PROVE TypeOK'
<1> USE DEF TypeOK, WriterStates, WriterGoto, casterVars, connVars
<1>1. CASE WriterReceives(c)
  <2>1. Tail(send[c]) \in Seq(1..wsSeq) /\ Len(Tail(send[c])) = Len(send[c]) - 1
    BY <1>1 DEF WriterReceives
  <2>2. Len(Tail(send[c])) <= BufferSize
    BY <2>1, HubAssumption
  <2> QED
    BY <1>1, <2>1, <2>2 DEF WriterReceives
<1>2. CASE WriterWrites(c)
  BY <1>2 DEF WriterWrites
<1>3. CASE WriterFails(c)
  BY <1>3 DEF WriterFails
<1>4. CASE WriterSeesClosed(c)
  BY <1>4 DEF WriterSeesClosed
<1>5. CASE WriterRemoves(c)
  BY <1>5 DEF WriterRemoves, Remove
<1>6. CASE WriterCloses(c)
  BY <1>6 DEF WriterCloses, CloseConn
<1> QED
  BY <1>1, <1>2, <1>3, <1>4, <1>5, <1>6 DEF Writer

\* The steps of a broadcast keep the types: what it enqueues is a number given out.
LEMMA CasterType == ASSUME TypeOK, CasterState, NEW b \in Casters, Caster(b) PROVE TypeOK'
<1> USE DEF TypeOK, CasterStates, CasterGoto, connVars
<1>1. CASE NextSeq(b)
  <2>0. wsSeq' = wsSeq + 1 /\ wsSeq \in Nat /\ 1..wsSeq \subseteq 1..wsSeq'
    BY <1>1 DEF NextSeq
  <2>1. send' \in [Clients -> Seq(1..wsSeq')]
    <3>1. send' = send /\ \A c \in Clients : send[c] \in Seq(1..wsSeq)
      BY <1>1 DEF NextSeq
    <3>2. \A c \in Clients : send[c] \in Seq(1..wsSeq')
      BY <2>0, <3>1
    <3> QED
      BY <3>1, <3>2
  <2>2. msg' \in [Casters -> 0..wsSeq']
    BY <1>1, <2>0 DEF NextSeq
  <2>3. enqueued' \in [Clients -> SUBSET (1..wsSeq')]
    BY <1>1, <2>0 DEF NextSeq
  <2> QED
    BY <1>1, <2>0, <2>1, <2>2, <2>3 DEF NextSeq
<1>2. CASE Snapshot(b)
  BY <1>2 DEF Snapshot
<1>3. ASSUME NEW c \in Clients, Send(b, c) PROVE TypeOK'
  <2>1. msg[b] \in 1..wsSeq
    BY <1>3 DEF Send, CasterState
  <2>2. /\ Append(send[c], msg[b]) \in Seq(1..wsSeq)
        /\ Len(Append(send[c], msg[b])) = Len(send[c]) + 1
    BY <2>1
  <2>3. Len(send[c]) + 1 <= BufferSize
    <3>1. Len(send[c]) \in Nat /\ Len(send[c]) < BufferSize /\ BufferSize \in Nat
      BY <1>3, HubAssumption DEF Send
    <3> QED
      BY <3>1
  <2> QED
    BY <1>3, <2>1, <2>2, <2>3 DEF Send
<1>4. ASSUME NEW c \in Clients, SendFull(b, c) PROVE TypeOK'
  BY <1>4 DEF SendFull
<1>5. ASSUME NEW c \in Clients, CasterRemoves(b, c) PROVE TypeOK'
  BY <1>5 DEF CasterRemoves, Remove
<1>6. ASSUME NEW c \in Clients, CasterCloses(b, c) PROVE TypeOK'
  BY <1>6 DEF CasterCloses, CloseConn
<1>7. ASSUME EndBroadcast(b) PROVE TypeOK'
  BY <1>7 DEF EndBroadcast
<1> QED
  BY <1>1, <1>2, <1>3, <1>4, <1>5, <1>6, <1>7 DEF Caster, CasterOn, SendPanics, Finish

\* Every step keeps the types.
LEMMA TypeStep == TypeOK /\ CasterState /\ [Next]_vars => TypeOK'
<1> SUFFICES ASSUME TypeOK, CasterState, [Next]_vars PROVE TypeOK'
  OBVIOUS
<1>1. ASSUME NEW c \in Clients, PeerDies(c) PROVE TypeOK'
  BY <1>1 DEF PeerDies, TypeOK, connVars, casterVars
<1>2. CASE UNCHANGED vars
  BY <1>2 DEF vars, TypeOK, connVars, casterVars
<1> QED
  BY <1>1, <1>2, ReaderType, WriterType, CasterType DEF Next

-----------------------------------------------------------------------------
(* The invariant *)

\* A step that neither adds nor removes a client nor broadcasts.
LEMMA QuietStep ==
    ASSUME HubInv, TypeOK', UNCHANGED <<hub, closes, enqueued, wsSeq, casterVars>>,
           \A c \in Clients : Connected(c)' <=> Connected(c)
    PROVE  HubInv'
<1> USE DEF casterVars
<1>1. KnownClients'
  BY DEF HubInv, TypeOK, KnownClients
<1>2. CasterState'
  BY DEF HubInv, CasterState
<1>3. ClosedOnceWhenRemoved'
  BY DEF HubInv, ClosedOnceWhenRemoved, Connected
<1>4. PassedClientsHaveIt'
  BY DEF HubInv, PassedClientsHaveIt
<1> QED
  BY <1>1, <1>2, <1>3, <1>4 DEF HubInv

\* Removing a client, whoever does it: the channel is closed as it leaves.
LEMMA RemoveStep ==
    ASSUME HubInv, NEW c \in Clients, Remove(c),
           \A d \in Clients : Connected(d)' <=> Connected(d)
    PROVE  /\ ClosedOnceWhenRemoved'
           /\ hub' \subseteq hub /\ c \notin hub' /\ enqueued' = enqueued
<1>1. ASSUME NEW d \in Clients
      PROVE  closes'[d] = IF d \in hub' \/ ~Connected(d)' THEN 0 ELSE 1
  <2>1. CASE c \in hub /\ d = c
    BY <2>1 DEF Remove, HubInv, TypeOK, ClosedOnceWhenRemoved, KnownClients, Connected
  <2>2. CASE ~(c \in hub /\ d = c)
    BY <2>2 DEF Remove, HubInv, TypeOK, ClosedOnceWhenRemoved, Connected
  <2> QED
    BY <2>1, <2>2
<1> QED
  BY <1>1 DEF Remove, ClosedOnceWhenRemoved, Connected

\* The goroutines of a connection.
LEMMA ConnectionStep ==
    ASSUME HubInv, TypeOK', NEW c \in Clients, Reader(c) \/ Writer(c) \/ PeerDies(c)
    PROVE  HubInv'
<1> USE DEF connVars, casterVars
<1>1. CASE Add(c)
  <2>0. /\ hub' = hub \union {c} /\ ~Connected(c) /\ Connected(c)'
        /\ \A d \in Clients \ {c} : Connected(d)' <=> Connected(d)
        /\ UNCHANGED <<closes, enqueued, wsSeq, caster, msg, snapshot, left, target>>
    BY <1>1 DEF Add, ReaderGoto, Connected, HubInv, TypeOK
  <2>1. KnownClients'
    BY <2>0 DEF HubInv, TypeOK, KnownClients
  <2>2. CasterState'
    BY <2>0 DEF HubInv, CasterState
  <2>3. ClosedOnceWhenRemoved'
    BY <2>0 DEF HubInv, ClosedOnceWhenRemoved, Connected
  <2>4. PassedClientsHaveIt'
    BY <2>0 DEF HubInv, PassedClientsHaveIt, KnownClients
  <2> QED
    BY <2>1, <2>2, <2>3, <2>4 DEF HubInv
<1>2. CASE ReaderRemoves(c) \/ WriterRemoves(c)
  <2>0. /\ \A d \in Clients : Connected(d)' <=> Connected(d)
        /\ UNCHANGED <<wsSeq, caster, msg, snapshot, left, target>>
        /\ Remove(c)
    BY <1>2 DEF ReaderRemoves, WriterRemoves, ReaderGoto, WriterGoto, Connected, HubInv, TypeOK
  <2>1. ClosedOnceWhenRemoved' /\ hub' \subseteq hub /\ enqueued' = enqueued
    BY <2>0, RemoveStep
  <2>2. KnownClients' /\ CasterState'
    BY <2>0, <2>1 DEF HubInv, TypeOK, KnownClients, CasterState
  <2>3. PassedClientsHaveIt'
    BY <2>0, <2>1 DEF HubInv, PassedClientsHaveIt
  <2> QED
    BY <2>1, <2>2, <2>3 DEF HubInv
<1>3. CASE \/ StartWriter(c) \/ ReaderFails(c) \/ ReaderCloses(c)
           \/ WriterReceives(c) \/ WriterWrites(c) \/ WriterFails(c)
           \/ WriterSeesClosed(c) \/ WriterCloses(c) \/ PeerDies(c)
  <2>1. /\ UNCHANGED <<hub, closes, enqueued, wsSeq, casterVars>>
        /\ \A d \in Clients : Connected(d)' <=> Connected(d)
    <3>1. CASE StartWriter(c) \/ ReaderFails(c) \/ ReaderCloses(c) \/ PeerDies(c)
      BY <3>1, SMTT(30) DEF StartWriter, ReaderFails, ReaderCloses, PeerDies, CloseConn,
                            ReaderGoto, WriterGoto, Connected, HubInv, TypeOK
    <3>2. CASE WriterReceives(c) \/ WriterWrites(c) \/ WriterFails(c)
      BY <3>2, SMTT(30) DEF WriterReceives, WriterWrites, WriterFails,
                            WriterGoto, Connected, HubInv, TypeOK
    <3>3. CASE WriterSeesClosed(c) \/ WriterCloses(c)
      BY <3>3, SMTT(30) DEF WriterSeesClosed, WriterCloses, CloseConn,
                            WriterGoto, Connected, HubInv, TypeOK
    <3> QED
      BY <1>3, <3>1, <3>2, <3>3
  <2> QED
    BY <2>1, QuietStep
<1> QED
  BY <1>1, <1>2, <1>3 DEF Reader, Writer

\* A broadcast.
LEMMA CasterStep == ASSUME HubInv, TypeOK', NEW b \in Casters, Caster(b) PROVE HubInv'
<1> USE DEF CasterGoto, connVars
<1>0. /\ TypeOK /\ KnownClients /\ CasterState
      /\ ClosedOnceWhenRemoved /\ PassedClientsHaveIt
      /\ reader' = reader
  BY DEF HubInv, Caster, NextSeq, Snapshot, CasterOn, Send, SendFull, SendPanics, CasterRemoves,
         CasterCloses, Finish, EndBroadcast
<1>1. CASE NextSeq(b)
  <2>1. CasterState'
    BY <1>0, <1>1 DEF NextSeq, CasterState, TypeOK
  <2>2. KnownClients' /\ ClosedOnceWhenRemoved' /\ PassedClientsHaveIt'
    BY <1>0, <1>1 DEF NextSeq, KnownClients, Connected, ClosedOnceWhenRemoved,
                      PassedClientsHaveIt, CasterState, TypeOK
  <2> QED
    BY <2>1, <2>2 DEF HubInv
<1>2. CASE Snapshot(b)
  <2>1. CasterState'
    BY <1>0, <1>2 DEF Snapshot, CasterState, TypeOK
  <2>2. KnownClients' /\ ClosedOnceWhenRemoved' /\ PassedClientsHaveIt'
    BY <1>0, <1>2 DEF Snapshot, KnownClients, Connected, ClosedOnceWhenRemoved,
                      PassedClientsHaveIt, TypeOK
  <2> QED
    BY <2>1, <2>2 DEF HubInv
<1>3. ASSUME NEW c \in Clients, Send(b, c) PROVE HubInv'
  <2>1. CasterState'
    BY <1>0, <1>3 DEF Send, CasterState, TypeOK
  <2>2. KnownClients' /\ ClosedOnceWhenRemoved'
    BY <1>0, <1>3 DEF Send, KnownClients, Connected, ClosedOnceWhenRemoved
  <2>3. PassedClientsHaveIt'
    BY <1>0, <1>3 DEF Send, PassedClientsHaveIt, TypeOK
  <2> QED
    BY <2>1, <2>2, <2>3 DEF HubInv
<1>4. ASSUME NEW c \in Clients, SendFull(b, c) PROVE HubInv'
  <2>1. CasterState'
    BY <1>0, <1>4 DEF SendFull, CasterState, TypeOK
  <2>2. KnownClients' /\ ClosedOnceWhenRemoved'
    BY <1>0, <1>4 DEF SendFull, KnownClients, Connected, ClosedOnceWhenRemoved
  <2>3. PassedClientsHaveIt'
    BY <1>0, <1>4 DEF SendFull, PassedClientsHaveIt, TypeOK
  <2> QED
    BY <2>1, <2>2, <2>3 DEF HubInv
<1>5. ASSUME NEW c \in Clients, CasterRemoves(b, c) PROVE HubInv'
  <2>0. ClosedOnceWhenRemoved' /\ hub' \subseteq hub /\ c \notin hub' /\ enqueued' = enqueued
    BY <1>0, <1>5, RemoveStep DEF CasterRemoves, Connected
  <2>1. CasterState'
    BY <1>0, <1>5 DEF CasterRemoves, CasterState, TypeOK
  <2>2. KnownClients'
    BY <1>0, <1>5, <2>0 DEF CasterRemoves, KnownClients, Connected
  <2>3. PassedClientsHaveIt'
    BY <1>0, <1>5, <2>0 DEF CasterRemoves, PassedClientsHaveIt, CasterState, TypeOK
  <2> QED
    BY <2>0, <2>1, <2>2, <2>3 DEF HubInv
<1>6. ASSUME NEW c \in Clients, CasterCloses(b, c) PROVE HubInv'
  <2>1. CasterState'
    BY <1>0, <1>6 DEF CasterCloses, CloseConn, CasterState, TypeOK
  <2>2. KnownClients' /\ ClosedOnceWhenRemoved'
    BY <1>0, <1>6 DEF CasterCloses, CloseConn, KnownClients, Connected, ClosedOnceWhenRemoved
  <2>3. PassedClientsHaveIt'
    BY <1>0, <1>6 DEF CasterCloses, CloseConn, PassedClientsHaveIt, TypeOK
  <2> QED
    BY <2>1, <2>2, <2>3 DEF HubInv
<1>7. ASSUME EndBroadcast(b), caster[b] = "sending" PROVE HubInv'
  <2>1. CasterState'
    BY <1>0, <1>7 DEF EndBroadcast, CasterState, TypeOK
  <2>2. KnownClients' /\ ClosedOnceWhenRemoved' /\ PassedClientsHaveIt'
    BY <1>0, <1>7 DEF EndBroadcast, KnownClients, Connected, ClosedOnceWhenRemoved,
                      PassedClientsHaveIt, TypeOK
  <2> QED
    BY <2>1, <2>2 DEF HubInv
<1> QED
  BY <1>1, <1>2, <1>3, <1>4, <1>5, <1>6, <1>7 DEF Caster, CasterOn, SendPanics, Finish

\* Every step keeps the invariant of the hub.
LEMMA HubNextInv == HubInv /\ [Next]_vars => HubInv'
<1> SUFFICES ASSUME HubInv, [Next]_vars PROVE HubInv'
  OBVIOUS
<1>1. TypeOK'
  BY TypeStep DEF HubInv
<1>2. CASE UNCHANGED vars
  BY <1>1, <1>2, QuietStep DEF vars, connVars, Connected
<1> QED
  BY <1>1, <1>2, ConnectionStep, CasterStep DEF Next

-----------------------------------------------------------------------------
(* The theorems *)

\* HubInv is an invariant of the hub.
THEOREM HubInvariant == Spec => []HubInv
BY HubInitInv, HubNextInv, PTL DEF Spec

\* Every variable keeps its type, and no buffer holds more than its size.
THEOREM HubTypeCorrect == Spec => []TypeOK
<1>1. HubInv => TypeOK
  BY DEF HubInv
<1> QED
  BY <1>1, HubInvariant, PTL

\* No race of reader, writer and broadcasts closes a channel twice, or leaves
\* the channel of a removed client open.
THEOREM ClosedOnce == Spec => []ClosedOnceWhenRemoved
<1>1. HubInv => ClosedOnceWhenRemoved
  BY DEF HubInv
<1> QED
  BY <1>1, HubInvariant, PTL

\* Nobody stays connected and misses a click whose broadcast passed by.
THEOREM NobodyPassedOver == Spec => []PassedClientsHaveIt
<1>1. HubInv => PassedClientsHaveIt
  BY DEF HubInv
<1> QED
  BY <1>1, HubInvariant, PTL

\* A broadcast panics only because of a removal by someone else.
THEOREM PanicCause == Spec => PanicNeedsRemoval
<1> DEFINE P == \A b \in Casters :
                  caster[b] = "sending" /\ caster'[b] = "idle" /\ left[b] # {} =>
                      \E c \in left[b] : c \notin hub
<1>1. HubInv /\ [Next]_vars => [P]_vars
  <2> SUFFICES ASSUME HubInv, Next, NEW b \in Casters,
                      caster[b] = "sending", caster'[b] = "idle", left[b] # {}
               PROVE  \E c \in left[b] : c \notin hub
    OBVIOUS
  <2>1. PICK p \in Casters : Caster(p)
    BY DEF Next, Reader, Writer, Add, StartWriter, ReaderFails, ReaderRemoves, ReaderCloses,
           WriterReceives, WriterWrites, WriterFails, WriterSeesClosed, WriterRemoves,
           WriterCloses, PeerDies, ReaderGoto, WriterGoto, casterVars
  <2>2. PICK c \in Clients : SendPanics(b, c)
    BY <2>1 DEF HubInv, TypeOK, Caster, CasterOn, NextSeq, Snapshot, Send, SendFull,
                CasterRemoves, CasterCloses, Finish, SendPanics, EndBroadcast, CasterGoto
  <2>3. closes[c] # 0
    BY <2>2 DEF SendPanics, Closed, HubInv, TypeOK
  <2> QED
    BY <2>2, <2>3 DEF SendPanics, HubInv, ClosedOnceWhenRemoved
<1> QED
  BY <1>1, HubInvariant, PTL DEF Spec, PanicNeedsRemoval

-----------------------------------------------------------------------------
(* The image store *)

\* The ids that ever had a row.
Stored == rows \union removed

\* What holds of an upload at each point: the handler's steps are in an order
\* that leaves nothing to happen to the file once there is a row.
UploadState ==
    \A i \in Images :
        /\ up[i] = "copied" => files[i] = (IF big[i] THEN "oversize" ELSE "whole")
        /\ up[i] = "synced" => files[i] = "whole" /\ sync[i] # "no"
        /\ i \in Stored => up[i] \in {"done", "failed"} /\ sync[i] # "no" /\ Intact(i)
        /\ up[i] = "done" => i \in Stored

\* Readers and deleters work on images that had a row when they looked.
RequestState ==
    /\ \A r \in Readers : serving[r] # Null => serving[r] \in Stored
    /\ \A d \in Deleters : deleting[d] # Null => deleting[d] \in Stored

ImageInv == ImageTypeOK /\ UploadState /\ RequestState

\* The empty store.
LEMMA InitImageInv == ImageInit => ImageInv
<1> SUFFICES ASSUME ImageInit PROVE ImageInv
  OBVIOUS
<1>1. ImageTypeOK
  BY ImageAssumption DEF ImageInit, ImageTypeOK
<1>2. UploadState /\ RequestState
  BY DEF ImageInit, UploadState, RequestState, Stored
<1> QED
  BY <1>1, <1>2 DEF ImageInv

(* Uploads *)

\* The steps of an upload keep the types.
LEMMA UploadType ==
    ASSUME ImageTypeOK, NEW i \in Images, Upload(i), i \notin removed \/ up[i] # "synced"
    PROVE  ImageTypeOK'
<1> USE DEF ImageTypeOK, Goto, requests, UnderWay, Answers
<1>1. CASE \E b, declared \in BOOLEAN : StartUpload(i, b, declared)
  BY <1>1 DEF StartUpload
<1>2. CASE OpenFails(i) \/ CreateFile(i)
  BY <1>2 DEF OpenFails, CreateFile
<1>3. CASE CopyFile(i) \/ CopyFails(i)
  BY <1>3 DEF CopyFile, CopyFails
<1>4. CASE RejectOversize(i) \/ SeekFails(i)
  BY <1>4 DEF RejectOversize, SeekFails
<1>5. CASE SyncFile(i)
  BY <1>5 DEF SyncFile
<1>6. CASE InsertRow(i) \/ InsertFails(i)
  BY <1>6 DEF InsertRow, InsertFails
<1> QED
  BY <1>1, <1>2, <1>3, <1>4, <1>5, <1>6 DEF Upload

\* What an upload has done to its file agrees with the point it has reached.
LEMMA UploadKeepsState ==
    ASSUME ImageTypeOK, UploadState, NEW i \in Images, Upload(i)
    PROVE  UploadState'
<1> USE DEF ImageTypeOK, UploadState, Stored, Intact, Goto, requests
<1>1. CASE \E b, declared \in BOOLEAN : StartUpload(i, b, declared)
  BY <1>1 DEF StartUpload
<1>2. CASE OpenFails(i) \/ CreateFile(i)
  BY <1>2 DEF OpenFails, CreateFile
<1>3. CASE CopyFile(i) \/ CopyFails(i)
  BY <1>3 DEF CopyFile, CopyFails
<1>4. CASE RejectOversize(i) \/ SeekFails(i)
  BY <1>4 DEF RejectOversize, SeekFails
<1>5. CASE SyncFile(i)
  BY <1>5 DEF SyncFile
<1>6. CASE InsertRow(i) \/ InsertFails(i)
  BY <1>6 DEF InsertRow, InsertFails
<1> QED
  BY <1>1, <1>2, <1>3, <1>4, <1>5, <1>6 DEF Upload

\* The steps of an upload keep the invariant.
LEMMA UploadKeepsImageInv == ASSUME ImageInv, NEW i \in Images, Upload(i) PROVE ImageInv'
<1> USE DEF ImageInv
<1>1. ImageTypeOK'
  BY UploadType DEF UploadState, Stored
<1>2. UploadState'
  BY UploadKeepsState
<1>3. UNCHANGED requests /\ Stored \subseteq Stored'
  BY DEF Upload, Stored, Goto, StartUpload, OpenFails, CreateFile, CopyFile, CopyFails,
         RejectOversize, SeekFails, SyncFile, InsertRow, InsertFails
<1>4. RequestState'
  BY <1>3 DEF RequestState, requests
<1> QED
  BY <1>1, <1>2, <1>4

(* Readers and deleters *)

\* The steps of a reader keep the invariant.
LEMMA ServeKeepsImageInv == ASSUME ImageInv, NEW r \in Readers, Serve(r) PROVE ImageInv'
<1> USE DEF ImageInv, Serve, FetchRow, ServeContent, uploads
<1>1. ImageTypeOK'
  BY DEF ImageTypeOK
<1>2. UploadState'
  BY DEF UploadState, Stored, Intact
<1>3. RequestState'
  BY DEF ImageTypeOK, RequestState, Stored
<1> QED
  BY <1>1, <1>2, <1>3

\* The steps of a deletion keep the invariant.
LEMMA DeleteKeepsImageInv == ASSUME ImageInv, NEW d \in Deleters, Delete(d) PROVE ImageInv'
<1> USE DEF ImageInv, Delete, DeleteRow, DeleteFails, FindRow, uploads
<1>1. ImageTypeOK'
  BY DEF ImageTypeOK
<1>2. Stored' = Stored
  BY DEF RequestState, Stored
<1>3. UploadState'
  BY <1>2 DEF UploadState, Intact
<1>4. RequestState'
  BY <1>2 DEF ImageTypeOK, RequestState, Stored
<1> QED
  BY <1>1, <1>3, <1>4

(* Crashes *)

\* A restart and a power loss keep the invariant.
LEMMA CrashKeepsImageInv == ASSUME ImageInv, Restart \/ PowerLoss PROVE ImageInv'
<1> USE DEF ImageInv, Crash
<1>1. ImageTypeOK'
  BY ImageAssumption DEF ImageTypeOK, Restart, PowerLoss, UnderWay, Answers
<1>2. Stored' = Stored /\ RequestState'
  BY DEF Restart, PowerLoss, Stored, RequestState
<1>3. CASE Restart
  <2>1. UploadState'
    BY <1>2, <1>3 DEF ImageTypeOK, UploadState, Restart, Intact, UnderWay
  <2> QED
    BY <1>1, <1>2, <2>1
<1>4. CASE PowerLoss
  <2>1. PICK lost \in SUBSET {i \in Images : files[i] # "none" /\ sync[i] # "ok"} :
            /\ files' = [i \in Images |-> IF i \in lost THEN "partial" ELSE files[i]]
            /\ torn' = torn \union lost
    BY <1>4 DEF PowerLoss
  <2>2. ASSUME NEW i \in Images, i \in Stored PROVE Intact(i)'
    \* A row means that the sync was tried: what is lost failed to sync.
    BY <1>4, <2>1, <2>2 DEF ImageTypeOK, UploadState, PowerLoss, Intact
  <2>3. \A i \in Images : up'[i] \notin {"copied", "synced"}
    BY <1>4 DEF ImageTypeOK, PowerLoss, UnderWay
  <2>4. UploadState'
    BY <1>2, <1>4, <2>2, <2>3 DEF ImageTypeOK, UploadState, PowerLoss, UnderWay
  <2> QED
    BY <1>1, <1>2, <2>4
<1> QED
  BY <1>3, <1>4

\* The inductive invariant: where each upload is, what its file then holds,
\* and that the requests under way are about images that had a row.
THEOREM ImageInvariant == ImageSpec => []ImageInv
<1>1. ASSUME ImageInv, [ImageNext]_imageVars PROVE ImageInv'
  <2>1. CASE ImageNext
    BY <1>1, <2>1, UploadKeepsImageInv, ServeKeepsImageInv, DeleteKeepsImageInv,
       CrashKeepsImageInv DEF ImageNext
  <2>2. CASE UNCHANGED imageVars
    BY <1>1, <2>2 DEF imageVars, requests, ImageInv, ImageTypeOK, UploadState,
                         RequestState, Stored, Intact
  <2> QED
    BY <1>1, <2>1, <2>2
<1> QED
  BY <1>1, InitImageInv, PTL DEF ImageSpec

\* The variables keep their types; no id is in the table after its deletion.
THEOREM ImageTypeCorrect == ImageSpec => []ImageTypeOK
BY ImageInvariant, PTL DEF ImageInv

\* An image the database knows has its whole file, whatever failed, crashed or
\* raced, unless its sync failed and a power loss came.
THEOREM RowsHaveFiles == ImageSpec => []RowHasFile
<1>1. ImageInv => RowHasFile
  BY DEF ImageInv, ImageTypeOK, UploadState, Stored, RowHasFile
<1> QED
  BY <1>1, ImageInvariant, PTL

\* A reader that found the row finds the whole file, even when a deletion
\* comes between its two steps.
THEOREM ServingIsSafe == ImageSpec => []ServingFindsFile
<1>1. ImageInv => ServingFindsFile
  BY ImageAssumption DEF ImageInv, ImageTypeOK, UploadState, RequestState, Stored, ServingFindsFile
<1> QED
  BY <1>1, ImageInvariant, PTL

\* The answer to an upload tells the truth about what was stored.
THEOREM AnswersAreTrue == ImageSpec => []AnswerIsTrue
<1>1. ImageInv => AnswerIsTrue
  BY DEF ImageInv, ImageTypeOK, UploadState, Stored, AnswerIsTrue
<1> QED
  BY <1>1, ImageInvariant, PTL
===============================================================================
