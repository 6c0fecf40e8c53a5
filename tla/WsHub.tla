-------------------------------- MODULE WsHub --------------------------------
(***************************************************************************)
(* backend/websocket.go: the hub that sends every counted click to every   *)
(* connected browser.  Three kinds of goroutines share it: a reader and a  *)
(* writer per connection, and the click requests, which broadcast.         *)
(*                                                                         *)
(* mu guards the client map only.  A broadcast takes a snapshot of the map *)
(* under mu and sends after releasing it, so a client may be removed, and  *)
(* its channel closed, between the two: the send then panics and           *)
(* middleware.Recover ends the request.  Each critical section is one      *)
(* step; so is each operation on a channel or a connection.                *)
(***************************************************************************)
EXTENDS Naturals, Sequences

CONSTANTS
    Clients,     \* connections, each used once
    Casters,     \* click requests past their INSERT
    BufferSize,  \* wsBufferSize
    MaxSeq       \* bound: no more clicks than this are broadcast

ASSUME HubAssumption == BufferSize \in Nat \ {0} /\ MaxSeq \in Nat

VARIABLES
    hub,        \* h.clients
    send,       \* buffered messages of each client's channel, by their seq
    closes,     \* how often close(client.send) was called
    connOpen,   \* conn.Close() not called yet
    alive,      \* the browser at the other end answers
    reader,     \* the goroutine of handleWS
    writer,     \* the goroutine it starts
    wsSeq,      \* pSrv.wsSeq
    caster,     \* where each broadcast is
    msg,        \* the seq it broadcasts
    snapshot,   \* the clients it copied from the map
    left,       \* those it has not come to yet
    target,     \* the client it is removing
    enqueued    \* history: messages ever put into each client's channel

connVars == <<send, closes, connOpen, enqueued>>
casterVars == <<caster, msg, snapshot, left, target>>
vars == <<hub, connVars, alive, reader, writer, wsSeq, casterVars>>

\* "none" before the connection; "leaving" with an error at hand; "closing"
\* after Remove and before conn.Close().
ReaderStates == {"none", "starting", "reading", "leaving", "closing", "done"}
WriterStates == {"none", "running", "writing", "leaving", "closing", "done"}
CasterStates == {"idle", "numbered", "sending", "full", "closing"}

TypeOK ==
    /\ hub \subseteq Clients
    /\ send \in [Clients -> Seq(1..wsSeq)]
    /\ \A c \in Clients : Len(send[c]) <= BufferSize
    /\ closes \in [Clients -> Nat]
    /\ connOpen \in [Clients -> BOOLEAN]
    /\ alive \in [Clients -> BOOLEAN]
    /\ reader \in [Clients -> ReaderStates]
    /\ writer \in [Clients -> WriterStates]
    /\ wsSeq \in Nat
    /\ caster \in [Casters -> CasterStates]
    /\ msg \in [Casters -> 0..wsSeq]
    /\ snapshot \in [Casters -> SUBSET Clients]
    /\ left \in [Casters -> SUBSET Clients]
    /\ target \in [Casters -> SUBSET Clients]
    /\ enqueued \in [Clients -> SUBSET (1..wsSeq)]

Init ==
    /\ hub = {}
    /\ send = [c \in Clients |-> << >>]
    /\ closes = [c \in Clients |-> 0]
    /\ connOpen = [c \in Clients |-> FALSE]
    /\ alive = [c \in Clients |-> TRUE]
    /\ reader = [c \in Clients |-> "none"]
    /\ writer = [c \in Clients |-> "none"]
    /\ wsSeq = 0
    /\ caster = [b \in Casters |-> "idle"]
    /\ msg = [b \in Casters |-> 0]
    /\ snapshot = [b \in Casters |-> {}]
    /\ left = [b \in Casters |-> {}]
    /\ target = [b \in Casters |-> {}]
    /\ enqueued = [c \in Clients |-> {}]

-----------------------------------------------------------------------------
(* The hub and the connection *)

\* Mutant: the client stays in the map.
RemoveClosingOnly(c) ==
    /\ hub' = hub
    /\ closes' = IF c \in hub THEN [closes EXCEPT ![c] = @ + 1] ELSE closes
    /\ UNCHANGED <<send, connOpen, enqueued>>

\* Mutant: the channel is closed whether or not the client is in the map.
RemoveUnchecked(c) ==
    /\ hub' = hub \ {c}
    /\ closes' = [closes EXCEPT ![c] = @ + 1]
    /\ UNCHANGED <<send, connOpen, enqueued>>

\* wsHub.Remove: whoever comes first closes the channel, the others do nothing.
Remove(c) ==
    /\ hub' = hub \ {c}
    /\ closes' = IF c \in hub THEN [closes EXCEPT ![c] = @ + 1] ELSE closes
    /\ UNCHANGED <<send, connOpen, enqueued>>

\* conn.Close(); more than once does no harm.
CloseConn(c) ==
    /\ connOpen' = [connOpen EXCEPT ![c] = FALSE]
    /\ UNCHANGED <<hub, send, closes, enqueued>>

Closed(c) == closes[c] > 0

\* The browser, its machine or the network goes away without a word.
PeerDies(c) ==
    /\ alive[c] /\ reader[c] # "none"
    /\ alive' = [alive EXCEPT ![c] = FALSE]
    /\ UNCHANGED <<hub, connVars, reader, writer, wsSeq, casterVars>>

-----------------------------------------------------------------------------
(* handleWS: the reader *)

ReaderGoto(c, s) ==
    /\ reader' = [reader EXCEPT ![c] = s]
    /\ UNCHANGED <<alive, wsSeq, casterVars>>

\* Upgrade and wsHub.Add: broadcasts reach the client before its goroutine runs.
Add(c) ==
    /\ reader[c] = "none"
    /\ hub' = hub \union {c}
    /\ connOpen' = [connOpen EXCEPT ![c] = TRUE]
    /\ ReaderGoto(c, "starting")
    /\ UNCHANGED <<send, closes, enqueued, writer>>

StartWriter(c) ==
    /\ reader[c] = "starting"
    /\ writer' = [writer EXCEPT ![c] = "running"]
    /\ ReaderGoto(c, "reading")
    /\ UNCHANGED <<hub, connVars>>

\* ReadMessage ends in an error: the browser closed, sent too much or too odd
\* a frame, the network failed; or nothing was heard within wsPongWait; or
\* another goroutine closed the connection.
ReaderFails(c) ==
    /\ reader[c] = "reading"
    /\ ReaderGoto(c, "leaving")
    /\ UNCHANGED <<hub, connVars, writer>>

ReaderRemoves(c) ==
    /\ reader[c] = "leaving"
    /\ Remove(c)
    /\ ReaderGoto(c, "closing")
    /\ UNCHANGED writer

ReaderCloses(c) ==
    /\ reader[c] = "closing"
    /\ CloseConn(c)
    /\ ReaderGoto(c, "done")
    /\ UNCHANGED writer

-----------------------------------------------------------------------------
(* The writer *)

WriterGoto(c, s) ==
    /\ writer' = [writer EXCEPT ![c] = s]
    /\ UNCHANGED <<alive, reader, wsSeq, casterVars>>

\* A buffered message is received even after the channel was closed.
WriterReceives(c) ==
    /\ writer[c] = "running"
    /\ send[c] # << >>
    /\ send' = [send EXCEPT ![c] = Tail(@)]
    /\ WriterGoto(c, "writing")
    /\ UNCHANGED <<hub, closes, connOpen, enqueued>>

WriterWrites(c) ==
    /\ writer[c] = "writing"
    /\ connOpen[c]
    /\ WriterGoto(c, "running")
    /\ UNCHANGED <<hub, connVars>>

\* The write of a message or of a ping fails: the connection is closed or
\* broken, or wsWriteWait has passed.
WriterFails(c) ==
    /\ writer[c] \in {"running", "writing"}
    /\ WriterGoto(c, "leaving")
    /\ UNCHANGED <<hub, connVars>>

\* Closed and drained: a close frame, and the goroutine ends.  It leaves the
\* connection to the one that closed the channel.
WriterSeesClosed(c) ==
    /\ writer[c] = "running"
    /\ Closed(c) /\ send[c] = << >>
    /\ WriterGoto(c, "done")
    /\ UNCHANGED <<hub, connVars>>

WriterRemoves(c) ==
    /\ writer[c] = "leaving"
    /\ Remove(c)
    /\ WriterGoto(c, "closing")

WriterCloses(c) ==
    /\ writer[c] = "closing"
    /\ CloseConn(c)
    /\ WriterGoto(c, "done")

-----------------------------------------------------------------------------
(* broadcastWorkClick and wsHub.Broadcast *)

CasterGoto(b, s) ==
    /\ caster' = [caster EXCEPT ![b] = s]
    /\ UNCHANGED <<alive, reader, writer>>

\* atomic.AddUint64 and json.Marshal
NextSeq(b) ==
    /\ caster[b] = "idle"
    /\ wsSeq < MaxSeq
    /\ wsSeq' = wsSeq + 1
    /\ msg' = [msg EXCEPT ![b] = wsSeq + 1]
    /\ CasterGoto(b, "numbered")
    /\ UNCHANGED <<hub, connVars, snapshot, left, target>>

Snapshot(b) ==
    /\ caster[b] = "numbered"
    /\ snapshot' = [snapshot EXCEPT ![b] = hub]
    /\ left' = [left EXCEPT ![b] = hub]
    /\ CasterGoto(b, "sending")
    /\ UNCHANGED <<hub, connVars, wsSeq, msg, target>>

\* The map is ranged over in any order.
Send(b, c) ==
    /\ caster[b] = "sending" /\ c \in left[b]
    /\ ~Closed(c) /\ Len(send[c]) < BufferSize
    /\ send' = [send EXCEPT ![c] = Append(@, msg[b])]
    /\ enqueued' = [enqueued EXCEPT ![c] = @ \union {msg[b]}]
    /\ left' = [left EXCEPT ![b] = @ \ {c}]
    /\ CasterGoto(b, "sending")
    /\ UNCHANGED <<hub, closes, connOpen, wsSeq, msg, snapshot, target>>

\* Mutant: a client with a full buffer is passed over and kept.
SkipFull(b, c) ==
    /\ caster[b] = "sending" /\ c \in left[b]
    /\ ~Closed(c) /\ Len(send[c]) = BufferSize
    /\ left' = [left EXCEPT ![b] = @ \ {c}]
    /\ CasterGoto(b, "sending")
    /\ UNCHANGED <<hub, connVars, wsSeq, msg, snapshot, target>>

\* The default case: the buffer is full, the client too slow.
SendFull(b, c) ==
    /\ caster[b] = "sending" /\ c \in left[b]
    /\ ~Closed(c) /\ Len(send[c]) = BufferSize
    /\ left' = [left EXCEPT ![b] = @ \ {c}]
    /\ target' = [target EXCEPT ![b] = {c}]
    /\ CasterGoto(b, "full")
    /\ UNCHANGED <<hub, connVars, wsSeq, msg, snapshot>>

CasterRemoves(b, c) ==
    /\ caster[b] = "full" /\ c \in target[b]
    /\ Remove(c)
    /\ CasterGoto(b, "closing")
    /\ UNCHANGED <<wsSeq, msg, snapshot, left, target>>

\* Mutant: the connection of the slow client is left to others.
CasterLeavesConn(b, c) ==
    /\ caster[b] = "closing" /\ c \in target[b]
    /\ UNCHANGED <<hub, connVars>>
    /\ target' = [target EXCEPT ![b] = {}]
    /\ CasterGoto(b, "sending")
    /\ UNCHANGED <<wsSeq, msg, snapshot, left>>

CasterCloses(b, c) ==
    /\ caster[b] = "closing" /\ c \in target[b]
    /\ CloseConn(c)
    /\ target' = [target EXCEPT ![b] = {}]
    /\ CasterGoto(b, "sending")
    /\ UNCHANGED <<wsSeq, msg, snapshot, left>>

EndBroadcast(b) ==
    /\ msg' = [msg EXCEPT ![b] = 0]
    /\ snapshot' = [snapshot EXCEPT ![b] = {}]
    /\ left' = [left EXCEPT ![b] = {}]
    /\ CasterGoto(b, "idle")
    /\ UNCHANGED <<hub, connVars, wsSeq, target>>

\* A send on a closed channel: the request is answered with 500, although the
\* click is stored, and the clients left get nothing.
SendPanics(b, c) ==
    /\ caster[b] = "sending" /\ c \in left[b]
    /\ Closed(c)
    /\ EndBroadcast(b)

Finish(b) ==
    /\ caster[b] = "sending" /\ left[b] = {}
    /\ EndBroadcast(b)

-----------------------------------------------------------------------------
Reader(c) ==
    Add(c) \/ StartWriter(c) \/ ReaderFails(c) \/ ReaderRemoves(c) \/ ReaderCloses(c)

Writer(c) ==
    \/ WriterReceives(c) \/ WriterWrites(c) \/ WriterFails(c)
    \/ WriterSeesClosed(c) \/ WriterRemoves(c) \/ WriterCloses(c)

CasterOn(b, c) ==
    \/ Send(b, c) \/ SendFull(b, c) \/ SendPanics(b, c)
    \/ CasterRemoves(b, c) \/ CasterCloses(b, c)

Caster(b) == NextSeq(b) \/ Snapshot(b) \/ Finish(b) \/ \E c \in Clients : CasterOn(b, c)

Next ==
    \/ \E c \in Clients : Reader(c) \/ Writer(c) \/ PeerDies(c)
    \/ \E b \in Casters : Caster(b)

Spec == Init /\ [][Next]_vars

\* Goroutines that can go on do.  A read must fail only when the connection
\* is closed or the browser is dead (no pong within wsPongWait), a write only
\* when the connection is closed (the next ping, at the latest, notices).
\* Nobody has to connect, to click or to die.
FairSpec ==
    /\ Spec
    /\ \A c \in Clients :
         /\ WF_vars(StartWriter(c))
         /\ WF_vars(~(connOpen[c] /\ alive[c]) /\ ReaderFails(c))
         /\ WF_vars(ReaderRemoves(c) \/ ReaderCloses(c))
         /\ WF_vars(WriterReceives(c) \/ WriterSeesClosed(c))
         /\ WF_vars(writer[c] = "writing" /\ (WriterWrites(c) \/ WriterFails(c)))
         /\ WF_vars(~connOpen[c] /\ WriterFails(c))
         /\ WF_vars(WriterRemoves(c) \/ WriterCloses(c))
    /\ \A b \in Casters :
         WF_vars(Snapshot(b) \/ Finish(b) \/ \E c \in Clients : CasterOn(b, c))

-----------------------------------------------------------------------------
(* Properties *)

\* However reader, writer and broadcasts race to remove a client, its channel
\* is closed exactly when it leaves the map, and once: a second close would
\* panic in a goroutine nothing recovers and end the whole process.
ClosedOnceWhenRemoved ==
    \A c \in Clients :
        closes[c] = IF c \in hub \/ reader[c] = "none" THEN 0 ELSE 1

\* A broadcast that has got past a client has put its message into that
\* client's channel, or the client is out of the hub (or about to be, by this
\* very broadcast): nobody stays connected and misses a click it passed by.
PassedClientsHaveIt ==
    \A b \in Casters :
        \A c \in (snapshot[b] \ left[b]) \intersect hub :
            msg[b] \in enqueued[c] \/ (caster[b] = "full" /\ target[b] = {c})

\* A panic cuts a broadcast short only if a client of its snapshot was removed
\* by someone else in the meantime.
PanicNeedsRemoval ==
    [][\A b \in Casters :
         caster[b] = "sending" /\ caster'[b] = "idle" /\ left[b] # {} =>
             \E c \in left[b] : c \notin hub]_vars

\* Once a client is out of the hub both its goroutines end: no one is left
\* blocked on its channel or its connection.
RemovedGoroutinesEnd ==
    \A c \in Clients :
        (reader[c] # "none" /\ c \notin hub) ~> (reader[c] = "done" /\ writer[c] = "done")

\* A browser that vanished is taken out of the hub in the end.
DeadPeerLeaves == \A c \in Clients : (~alive[c]) ~> (c \notin hub)
=============================================================================
