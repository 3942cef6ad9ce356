------------------------------ MODULE DocRoom ------------------------------
(***************************************************************************)
(* The document side of the WebSocket hub: the hub's map entry of one      *)
(* document, the rooms created for it, the connections (one Client each)   *)
(* with their handler, ReadPump and WritePump goroutines, the persistence  *)
(* of every edit, and the ordered shutdown of main.go.                     *)
(*                                                                         *)
(* One document is enough: rooms of two documents share only the mutex of  *)
(* the map.  A room is an identity of Rooms, so that an old room and its   *)
(* replacement can exist side by side; a connection is an identity of      *)
(* Clients and is used once.  Channels are sequences with a capacity;      *)
(* unbuffered channels are rendezvous, one action of both goroutines.      *)
(*                                                                         *)
(* Not covered: the contents of messages, tokens and upgrade errors        *)
(* (handlers/ws.go 53-76, which reject a request before any of this state  *)
(* exists), messages of unknown type (dropped), RoomSize.                  *)
(***************************************************************************)
EXTENDS Naturals, Sequences, FiniteSets

CONSTANTS
    Clients,        \* WebSocket connections to the document
    Rooms,          \* identities of *Room values
    Edits,          \* distinct Yjs update payloads
    BroadcastCap,   \* capacity of room.broadcast   (256 in the code)
    AwarenessCap,   \* capacity of room.awareness   (256 in the code)
    SendCap,        \* capacity of client.send      (256 in the code)
    MaxCursorMoves, \* bound: awareness messages read from all connections
    Sigterm,        \* whether the environment may send SIGTERM
    WaitMayTimeOut, \* whether hub.Shutdown's context expires (after 10 s)
    NoRoom, Nobody, NoMsg, SyncStep1, Presence

ASSUME CapAssumption ==
    /\ BroadcastCap \in Nat \ {0}
    /\ AwarenessCap \in Nat \ {0}
    /\ SendCap \in Nat \ {0}
    /\ MaxCursorMoves \in Nat

ASSUME SwitchAssumption == Sigterm \in BOOLEAN /\ WaitMayTimeOut \in BOOLEAN

ASSUME DistinctAssumption ==
    /\ NoRoom \notin Rooms
    /\ Nobody \notin Clients
    /\ SyncStep1 \notin Edits
    /\ Presence \notin Edits
    /\ SyncStep1 # Presence

VARIABLES
    docRoom,     \* hub.docRooms[documentID], NoRoom when absent
    run,         \* where each room's Run() goroutine is
    clients,     \* room.clients
    broadcast,   \* room.broadcast: FIFO of messages
    awareness,   \* room.awareness: FIFO of senders
    shutdown,    \* rooms whose shutdown channel is closed
    task,        \* the message Run() took out of broadcast
    pc,          \* where each connection's handler goroutine is
    myRoom,      \* the *Room the handler got from the hub
    held,        \* the message ReadPump has read and not yet handed over
    conn,        \* the connection as ReadMessage sees it
    send,        \* client.send: FIFO of outbound messages
    sendOpen,    \* whether client.send is still open
    pump,        \* WritePump
    received,    \* edits that reached the peer, in order
    db,          \* document_updates of the document, in clock order
    author,      \* which connection an edit was read from
    joinedAt,    \* clock of the document when the client was registered
    panicked,    \* a goroutine closed, or sent on, a closed channel
    cursorMoves, \* awareness messages read so far
    main,        \* main.go's shutdown sequence
    draining     \* hub.Shutdown's snapshot of the map

hubVars   == <<docRoom, draining, main>>
queueVars == <<broadcast, awareness>>
roomVars  == <<run, clients, shutdown, task>>
connVars  == <<pc, myRoom, held, conn>>
sendVars  == <<send, sendOpen, panicked>>
pumpVars  == <<pump, received>>
logVars   == <<db, author, joinedAt, cursorMoves>>
vars == <<hubVars, queueVars, roomVars, connVars, sendVars, pumpVars, logVars>>

-----------------------------------------------------------------------------
RunStates  == {"unborn", "select", "persist", "fanout", "done", "reaped"}
PcStates   == {"idle", "upgraded", "creating", "registering", "registered",
               "reading", "sending", "unregistering", "returned"}
MainStates == {"serving", "stopped", "waiting", "drained", "poolClosed"}

\* RoomMessage: what a ReadPump hands to room.broadcast.
RoomMessage == [sender : Clients, data : Edits]

\* What may sit in client.send.
Outbound == Edits \cup {SyncStep1, Presence}

\* Run() has started and has not returned.
Running(r) == run[r] \in {"select", "persist", "fanout"}

\* The handler has not handed its client to a room yet.
Unregistered(c) == pc[c] \in {"idle", "upgraded", "creating", "registering"}

TypeOK ==
    /\ docRoom \in Rooms \cup {NoRoom}
    /\ run \in [Rooms -> RunStates]
    /\ clients \in [Rooms -> SUBSET Clients]
    /\ broadcast \in [Rooms -> Seq(RoomMessage)]
    /\ awareness \in [Rooms -> Seq(Clients)]
    /\ shutdown \subseteq Rooms
    /\ task \in [Rooms -> RoomMessage \cup {NoMsg}]
    /\ pc \in [Clients -> PcStates]
    /\ myRoom \in [Clients -> Rooms \cup {NoRoom}]
    /\ held \in [Clients -> Edits \cup {Presence, NoMsg}]
    /\ conn \in [Clients -> {"open", "broken"}]
    /\ send \in [Clients -> Seq(Outbound)]
    /\ sendOpen \in [Clients -> BOOLEAN]
    /\ pump \in [Clients -> {"none", "running", "exited"}]
    /\ received \in [Clients -> Seq(Edits)]
    /\ db \in Seq(Edits)
    /\ author \in [Edits -> Clients \cup {Nobody}]
    /\ joinedAt \in [Clients -> Nat]
    /\ panicked \in BOOLEAN
    /\ cursorMoves \in 0..MaxCursorMoves
    /\ main \in MainStates
    /\ draining \subseteq Rooms

Init ==
    /\ docRoom = NoRoom
    /\ run = [r \in Rooms |-> "unborn"]
    /\ clients = [r \in Rooms |-> {}]
    /\ broadcast = [r \in Rooms |-> <<>>]
    /\ awareness = [r \in Rooms |-> <<>>]
    /\ shutdown = {}
    /\ task = [r \in Rooms |-> NoMsg]
    /\ pc = [c \in Clients |-> "idle"]
    /\ myRoom = [c \in Clients |-> NoRoom]
    /\ held = [c \in Clients |-> NoMsg]
    /\ conn = [c \in Clients |-> "open"]
    /\ send = [c \in Clients |-> <<>>]
    /\ sendOpen = [c \in Clients |-> TRUE]
    /\ pump = [c \in Clients |-> "none"]
    /\ received = [c \in Clients |-> <<>>]
    /\ db = <<>>
    /\ author = [e \in Edits |-> Nobody]
    /\ joinedAt = [c \in Clients |-> 0]
    /\ panicked = FALSE
    /\ cursorMoves = 0
    /\ main = "serving"
    /\ draining = {}

-----------------------------------------------------------------------------
(* Channels.  A definition named X_Y, here and below, is X with a mistake  *)
(* Y; no action uses it.  It is there to show that a property would notice. *)

\* Clients whose send buffer takes no more.
Full(S) == {c \in S : Len(send[c]) >= SendCap}

\* Non-blocking send of m to every client of S that has room.
Offer(S, m) ==
    [c \in Clients |-> IF c \in S \ Full(S) THEN Append(send[c], m) ELSE send[c]]

\* The clients a document update cannot be handed to, which fanout drops.
Dropped_MissTheUpdate(S) == {}
Dropped(S) == Full(S)

\* Close the send channels of S after using those of T: Go panics when one of
\* them is closed already.
CloseAndUse(S, T) ==
    /\ sendOpen' = [c \in Clients |-> sendOpen[c] /\ c \notin S]
    /\ panicked' = (panicked \/ \E c \in S \cup T : ~sendOpen[c])

-----------------------------------------------------------------------------
(* The handler goroutine: HandleDocumentWS, GetOrCreateDocRoom, ReadPump.  *)

\* The request passed the token checks and the connection is upgraded.
Upgrade(c) ==
    /\ main = "serving"
    /\ pc[c] = "idle"
    /\ pc' = [pc EXCEPT ![c] = "upgraded"]
    /\ UNCHANGED <<hubVars, queueVars, roomVars, myRoom, held, conn, sendVars,
                   pumpVars, logVars>>

\* The handler leaves GetOrCreateDocRoom with room r and builds its Client.
TakeRoom(c, r) ==
    /\ myRoom' = [myRoom EXCEPT ![c] = r]
    /\ pc' = [pc EXCEPT ![c] = "registering"]

\* Read-locked fast path: found the room, or go on to the slow path.
LookupFast(c) ==
    /\ pc[c] = "upgraded"
    /\ \/ /\ docRoom # NoRoom
          /\ TakeRoom(c, docRoom)
       \/ /\ docRoom = NoRoom
          /\ pc' = [pc EXCEPT ![c] = "creating"]
          /\ UNCHANGED myRoom
    /\ UNCHANGED <<hubVars, queueVars, roomVars, held, conn, sendVars, pumpVars,
                   logVars>>

\* The double check under the write lock.
NotCreatedYet_Unchecked == TRUE
NotCreatedYet == docRoom = NoRoom

\* Slow path under the write lock: somebody else created it in between ...
LookupAgain(c) ==
    /\ pc[c] = "creating"
    /\ docRoom # NoRoom
    /\ TakeRoom(c, docRoom)
    /\ UNCHANGED <<hubVars, queueVars, roomVars, held, conn, sendVars, pumpVars,
                   logVars>>

\* ... or create room r and start its Run() and its watcher.
CreateRoom(c, r) ==
    /\ pc[c] = "creating"
    /\ NotCreatedYet
    /\ run[r] = "unborn"
    /\ docRoom' = r
    /\ run' = [run EXCEPT ![r] = "select"]
    /\ TakeRoom(c, r)
    /\ UNCHANGED <<draining, main, queueVars, clients, shutdown, task, held,
                   conn, sendVars, pumpVars, logVars>>

\* Back from Register: start WritePump, continue as ReadPump.
StartPumps(c) ==
    /\ pc[c] = "registered"
    /\ pc' = [pc EXCEPT ![c] = "reading"]
    /\ pump' = [pump EXCEPT ![c] = "running"]
    /\ UNCHANGED <<hubVars, queueVars, roomVars, myRoom, held, conn, sendVars,
                   received, logVars>>

\* ReadMessage returns a Yjs message ...
ReadEdit(c, e) ==
    /\ pc[c] = "reading" /\ conn[c] = "open"
    /\ author[e] = Nobody
    /\ author' = [author EXCEPT ![e] = c]
    /\ held' = [held EXCEPT ![c] = e]
    /\ pc' = [pc EXCEPT ![c] = "sending"]
    /\ UNCHANGED <<hubVars, queueVars, roomVars, myRoom, conn, sendVars,
                   pumpVars, db, joinedAt, cursorMoves>>

\* ... or a cursor message ...
ReadPresence(c) ==
    /\ pc[c] = "reading" /\ conn[c] = "open"
    /\ cursorMoves < MaxCursorMoves
    /\ cursorMoves' = cursorMoves + 1
    /\ held' = [held EXCEPT ![c] = Presence]
    /\ pc' = [pc EXCEPT ![c] = "sending"]
    /\ UNCHANGED <<hubVars, queueVars, roomVars, myRoom, conn, sendVars,
                   pumpVars, db, author, joinedAt>>

\* ... or an error: the deferred send to unregister is next.
ReadError(c) ==
    /\ pc[c] = "reading" /\ conn[c] = "broken"
    /\ pc' = [pc EXCEPT ![c] = "unregistering"]
    /\ UNCHANGED <<hubVars, queueVars, roomVars, myRoom, held, conn, sendVars,
                   pumpVars, logVars>>

\* room.broadcast <- message: blocks while the channel is full, and does not
\* notice that nobody receives from it any more.
SendEdit(c) ==
    LET r == myRoom[c] IN
    /\ pc[c] = "sending" /\ held[c] \in Edits
    /\ Len(broadcast[r]) < BroadcastCap
    /\ broadcast' = [broadcast EXCEPT
                       ![r] = Append(@, [sender |-> c, data |-> held[c]])]
    /\ held' = [held EXCEPT ![c] = NoMsg]
    /\ pc' = [pc EXCEPT ![c] = "reading"]
    /\ UNCHANGED <<hubVars, awareness, roomVars, myRoom, conn, sendVars,
                   pumpVars, logVars>>

SendPresence(c) ==
    LET r == myRoom[c] IN
    /\ pc[c] = "sending" /\ held[c] = Presence
    /\ Len(awareness[r]) < AwarenessCap
    /\ awareness' = [awareness EXCEPT ![r] = Append(@, c)]
    /\ held' = [held EXCEPT ![c] = NoMsg]
    /\ pc' = [pc EXCEPT ![c] = "reading"]
    /\ UNCHANGED <<hubVars, broadcast, roomVars, myRoom, conn, sendVars,
                   pumpVars, logVars>>

\* The peer goes away, or nothing is read for pongWait.
ConnectionBreaks(c) ==
    /\ pc[c] \notin {"idle", "returned"} /\ conn[c] = "open"
    /\ conn' = [conn EXCEPT ![c] = "broken"]
    /\ UNCHANGED <<hubVars, queueVars, roomVars, pc, myRoom, held, sendVars,
                   pumpVars, logVars>>

-----------------------------------------------------------------------------
(* WritePump.                                                              *)

PumpExits_LoopGoesOn(c) == UNCHANGED <<pump, conn>>

PumpExits(c) ==
    /\ pump' = [pump EXCEPT ![c] = "exited"]
    /\ conn' = [conn EXCEPT ![c] = "broken"]

\* A queued message is written; one written to a broken connection may be
\* accepted by the kernel and never arrive.
WriteMessage(c) ==
    /\ pump[c] = "running" /\ send[c] # <<>>
    /\ send' = [send EXCEPT ![c] = Tail(@)]
    /\ received' = IF conn[c] = "open" /\ Head(send[c]) \in Edits
                   THEN [received EXCEPT ![c] = Append(@, Head(send[c]))]
                   ELSE received
    /\ UNCHANGED <<hubVars, queueVars, roomVars, connVars, sendOpen, panicked,
                   pump, logVars>>

\* The write fails or times out: the message is gone and so is WritePump.
WriteFails(c) ==
    /\ pump[c] = "running" /\ send[c] # <<>>
    /\ send' = [send EXCEPT ![c] = Tail(@)]
    /\ PumpExits(c)
    /\ UNCHANGED <<hubVars, queueVars, roomVars, pc, myRoom, held, sendOpen,
                   panicked, received, logVars>>

\* The channel is closed and drained: close frame, exit.
WriteClose(c) ==
    /\ pump[c] = "running" /\ send[c] = <<>> /\ ~sendOpen[c]
    /\ PumpExits(c)
    /\ UNCHANGED <<hubVars, queueVars, roomVars, pc, myRoom, held, sendVars,
                   received, logVars>>

\* A ping on a dead connection fails.
PingFails(c) ==
    /\ pump[c] = "running" /\ conn[c] = "broken"
    /\ PumpExits(c)
    /\ UNCHANGED <<hubVars, queueVars, roomVars, pc, myRoom, held, sendVars,
                   received, logVars>>

-----------------------------------------------------------------------------
(* Room.Run(): one action per select case; PersistUpdate takes its time,   *)
(* so that a document message is three steps.                              *)

RunRegister(r, c) ==
    /\ run[r] = "select"
    /\ pc[c] = "registering" /\ myRoom[c] = r
    /\ clients' = [clients EXCEPT ![r] = @ \cup {c}]
    \* the new channel is empty, so SYNC_STEP_1 always fits
    /\ send' = [Offer(clients[r] \ {c}, Presence) EXCEPT ![c] = Append(@, SyncStep1)]
    /\ CloseAndUse({}, clients[r] \cup {c})
    /\ pc' = [pc EXCEPT ![c] = "registered"]
    /\ joinedAt' = [joinedAt EXCEPT ![c] = Len(db)]
    /\ UNCHANGED <<hubVars, queueVars, run, shutdown, task, myRoom, held, conn,
                   pumpVars, db, author, cursorMoves>>

\* "if _, ok := r.clients[client]; !ok { continue }"
IsMember_Unchecked(r, c) == TRUE
IsMember(r, c) == c \in clients[r]

RunUnregister(r, c) ==
    /\ run[r] = "select"
    /\ pc[c] = "unregistering" /\ myRoom[c] = r
    /\ pc' = [pc EXCEPT ![c] = "returned"]
    /\ \/ /\ ~IsMember(r, c)   \* dropped earlier as a slow client
          /\ UNCHANGED <<clients, run, send, sendOpen, panicked>>
       \/ LET rest == clients[r] \ {c} IN
          /\ IsMember(r, c)
          /\ clients' = [clients EXCEPT ![r] = rest]
          /\ send' = Offer(rest, Presence)
          /\ CloseAndUse({c}, rest)
          /\ run' = IF rest = {} THEN [run EXCEPT ![r] = "done"] ELSE run
    /\ UNCHANGED <<hubVars, queueVars, shutdown, task, myRoom, held, conn,
                   pumpVars, logVars>>

RunBroadcast(r) ==
    /\ run[r] = "select" /\ broadcast[r] # <<>>
    /\ task' = [task EXCEPT ![r] = Head(broadcast[r])]
    /\ broadcast' = [broadcast EXCEPT ![r] = Tail(@)]
    /\ run' = [run EXCEPT ![r] = "persist"]
    /\ UNCHANGED <<hubVars, awareness, clients, shutdown, connVars, sendVars,
                   pumpVars, logVars>>

\* PersistUpdate commits: the edit has a clock.  It is called with
\* context.Background(): nothing says that it ever returns.
PersistOK(r) ==
    /\ run[r] = "persist"
    /\ main # "poolClosed"
    /\ db' = Append(db, task[r].data)
    /\ run' = [run EXCEPT ![r] = "fanout"]
    /\ UNCHANGED <<hubVars, queueVars, clients, shutdown, task, connVars,
                   sendVars, pumpVars, author, joinedAt, cursorMoves>>

\* PersistUpdate returns an error: logged, not broadcast.
PersistFails_StillBroadcasts(r) ==
    /\ run[r] = "persist"
    /\ run' = [run EXCEPT ![r] = "fanout"]
    /\ UNCHANGED <<hubVars, queueVars, clients, shutdown, task, connVars,
                   sendVars, pumpVars, logVars>>

PersistFails(r) ==
    /\ run[r] = "persist"
    /\ task' = [task EXCEPT ![r] = NoMsg]
    /\ run' = [run EXCEPT ![r] = "select"]
    /\ UNCHANGED <<hubVars, queueVars, clients, shutdown, connVars, sendVars,
                   pumpVars, logVars>>

RunFanout_Blocking(r) ==
    LET targets == clients[r] \ {task[r].sender} IN
    /\ run[r] = "fanout"
    /\ Full(targets) = {}
    /\ send' = Offer(targets, task[r].data)
    /\ CloseAndUse({}, targets)
    /\ task' = [task EXCEPT ![r] = NoMsg]
    /\ run' = [run EXCEPT ![r] = "select"]
    /\ UNCHANGED <<hubVars, queueVars, clients, shutdown, connVars, pumpVars, logVars>>

\* fanout(msg.sender, msg.data, true): slow clients are dropped.
RunFanout(r) ==
    LET targets == clients[r] \ {task[r].sender}
        slow    == Dropped(targets)
    IN
    /\ run[r] = "fanout"
    /\ send' = Offer(targets, task[r].data)
    /\ clients' = [clients EXCEPT ![r] = @ \ slow]
    /\ CloseAndUse(slow, targets)
    /\ task' = [task EXCEPT ![r] = NoMsg]
    /\ run' = [run EXCEPT ![r] = "select"]
    /\ UNCHANGED <<hubVars, queueVars, shutdown, connVars, pumpVars, logVars>>

\* fanout(msg.sender, msg.data, false): slow clients miss the message.
RunAwareness(r) ==
    LET targets == clients[r] \ {Head(awareness[r])} IN
    /\ run[r] = "select" /\ awareness[r] # <<>>
    /\ awareness' = [awareness EXCEPT ![r] = Tail(@)]
    /\ send' = Offer(targets, Presence)
    /\ CloseAndUse({}, targets)
    /\ UNCHANGED <<hubVars, broadcast, roomVars, connVars, pumpVars, logVars>>

RunShutdown_NoReturn(r) ==
    /\ run[r] = "select" /\ r \in shutdown
    /\ CloseAndUse(clients[r], {})
    /\ clients' = [clients EXCEPT ![r] = {}]
    /\ UNCHANGED <<hubVars, queueVars, run, shutdown, task, connVars, send,
                   pumpVars, logVars>>

RunShutdown(r) ==
    /\ run[r] = "select" /\ r \in shutdown
    /\ CloseAndUse(clients[r], {})
    /\ clients' = [clients EXCEPT ![r] = {}]
    /\ run' = [run EXCEPT ![r] = "done"]
    /\ UNCHANGED <<hubVars, queueVars, shutdown, task, connVars, send, pumpVars,
                   logVars>>

\* "Only delete if it's still the same room".
Forget_Nothing(r) == docRoom
Forget(r) == IF docRoom = r THEN NoRoom ELSE docRoom

\* watchDocRoom: room.done is closed; forget the room unless it was replaced.
Reap(r) ==
    /\ run[r] = "done"
    /\ run' = [run EXCEPT ![r] = "reaped"]
    /\ docRoom' = Forget(r)
    /\ UNCHANGED <<draining, main, queueVars, clients, shutdown, task, connVars,
                   sendVars, pumpVars, logVars>>

-----------------------------------------------------------------------------
(* main.go after SIGTERM.                                                  *)

\* server.Shutdown returned: no new upgrade; upgraded handlers keep running.
StopHTTP ==
    /\ Sigterm /\ main = "serving"
    /\ main' = "stopped"
    /\ UNCHANGED <<docRoom, draining, queueVars, roomVars, connVars, sendVars,
                   pumpVars, logVars>>

\* hub.Shutdown: snapshot the map, close every room in it.
HubShutdown ==
    LET snapshot == {docRoom} \ {NoRoom} IN
    /\ main = "stopped"
    /\ draining' = snapshot
    /\ shutdown' = snapshot
    /\ main' = IF snapshot = {} THEN "drained" ELSE "waiting"
    /\ UNCHANGED <<docRoom, queueVars, run, clients, task, connVars, sendVars,
                   pumpVars, logVars>>

\* wg.Wait returns: every room of the snapshot is done, or the context is.
WaitReturns ==
    /\ main = "waiting"
    /\ WaitMayTimeOut \/ \A r \in draining : run[r] \in {"done", "reaped"}
    /\ main' = "drained"
    /\ UNCHANGED <<docRoom, draining, queueVars, roomVars, connVars, sendVars,
                   pumpVars, logVars>>

\* dbPool.Close waits for the connections that are in use.
ClosePool ==
    /\ main = "drained"
    /\ \A r \in Rooms : run[r] # "persist"
    /\ main' = "poolClosed"
    /\ UNCHANGED <<docRoom, draining, queueVars, roomVars, connVars, sendVars,
                   pumpVars, logVars>>

-----------------------------------------------------------------------------
\* The handler goroutine of c, when it is not waiting for a rendezvous.
Handler(c) ==
    \/ LookupFast(c)
    \/ LookupAgain(c)
    \/ \E r \in Rooms : CreateRoom(c, r)
    \/ StartPumps(c)
    \/ ReadError(c)
    \/ SendEdit(c)
    \/ SendPresence(c)

\* What the browser at the other end does.
Peer(c) ==
    \/ Upgrade(c)
    \/ \E e \in Edits : ReadEdit(c, e)
    \/ ReadPresence(c)
    \/ ConnectionBreaks(c)

WritePump(c) ==
    \/ WriteMessage(c)
    \/ WriteFails(c)
    \/ WriteClose(c)
    \/ PingFails(c)

\* What Run() does of itself ...
Serve(r) ==
    \/ \E c \in Clients : RunRegister(r, c) \/ RunUnregister(r, c)
    \/ RunBroadcast(r)
    \/ RunFanout(r)
    \/ RunAwareness(r)
    \/ RunShutdown(r)

\* ... and what it waits for.
Persist(r) == PersistOK(r) \/ PersistFails(r)

Run(r) == Serve(r) \/ Persist(r)

Main == StopHTTP \/ HubShutdown \/ WaitReturns \/ ClosePool

Next ==
    \/ \E c \in Clients : Handler(c) \/ Peer(c) \/ WritePump(c)
    \/ \E r \in Rooms : Run(r) \/ Reap(r)
    \/ Main

Spec == Init /\ [][Next]_vars

\* Goroutines are scheduled, writes to sockets and the wait of the shutdown have
\* deadlines; peers, operators and the database owe nothing.
Fairness ==
    /\ \A c \in Clients : WF_vars(Handler(c)) /\ WF_vars(WritePump(c))
    /\ \A r \in Rooms : WF_vars(Serve(r)) /\ WF_vars(Reap(r))
    /\ WF_vars(HubShutdown \/ WaitReturns \/ ClosePool)

FairSpec == Spec /\ Fairness

-----------------------------------------------------------------------------
(* Safety.                                                                 *)

\* All that c was sent and that was not lost, in order.
Stream(c) == received[c] \o send[c]

\* The clocks after c joined, up to n, of the edits of others.
Foreign(c, n) == {k \in joinedAt[c] + 1 .. n : author[db[k]] # c}

\* The edits among the messages s are those with the clocks K, in their order,
\* each of them once.
Shows(s, K) ==
    /\ \A i \in DOMAIN s : s[i] \in Edits => \E k \in K : s[i] = db[k]
    /\ \A k \in K : \E i \in DOMAIN s : s[i] = db[k]
    /\ \A i, j \in DOMAIN s : \A k, l \in K :
          (i < j /\ s[i] = db[k] /\ s[j] = db[l]) => k < l

\* The clock up to which the edits of the log were sent to the members of r.
SentUpTo(r) == IF run[r] = "fanout" THEN Len(db) - 1 ELSE Len(db)

\* No goroutine ever closes a client's send channel twice or sends on a closed
\* one: Run() closes it on unregister, on a slow fanout and on shutdown, and
\* ReadPump's deferred unregister may arrive after any of them.
NoPanic == ~panicked

\* At most one event loop serves the document, and it is the one the hub hands
\* out: two would each send to their own half of the connections.
OneLiveRoom == \A r \in Rooms : Running(r) => docRoom = r

\* "The hub must only broadcast AFTER this returns successfully": whatever a
\* peer is sent, or was sent, is in document_updates.
DeliveredIsPersisted ==
    \A c \in Clients : \A e \in Edits :
        (\/ \E i \in DOMAIN send[c] : send[c][i] = e
         \/ \E i \in DOMAIN received[c] : received[c][i] = e)
        => \E k \in DOMAIN db : db[k] = e

\* A connected member misses nothing and sees the order of the clocks: what it
\* received and what waits in its channel is exactly the log since it joined,
\* without its own edits, whatever other members were dropped meanwhile.
StreamsFollowLog ==
    \A r \in Rooms : \A c \in clients[r] :
        conn[c] = "open" => Shows(Stream(c), Foreign(c, SentUpTo(r)))

-----------------------------------------------------------------------------
(* The hub implements one shared log with ordered, gapless delivery.       *)

Log == INSTANCE DocLog WITH
           log     <- db,
           author  <- author,
           members <- {c \in Clients : ~Unregistered(c)},
           start   <- joinedAt,
           seen    <- received

\* Whatever peer drops, write fails or room is replaced: an edit is committed
\* at most once, and what a peer gets, also one dropped as slow or cut off by a
\* failed write, continues the log where it was, never with a gap.
ImplementsDocLog == Log!Spec

-----------------------------------------------------------------------------
(* Liveness, under FairSpec.                                               *)

Member(c) == \E r \in Rooms : c \in clients[r]

\* A client the room let go of (slow, unregistered, shut down) ends up
\* disconnected, so that its browser reconnects and syncs again.
DroppedClientDisconnects ==
    \A c \in Clients : (~Unregistered(c) /\ ~Member(c)) ~> (pump[c] = "exited")

\* A persisted edit reaches every other member, or that member's connection
\* is given up.
EditReachesPeers ==
    \A c \in Clients, r \in Rooms, e \in Edits :
        (/\ run[r] = "fanout" /\ c \in clients[r]
         /\ task[r].data = e /\ task[r].sender # c)
        ~> (conn[c] = "broken" \/ \E i \in DOMAIN received[c] : received[c][i] = e)

\* Once a room's event loop has returned, the hub forgets the room for good.
DeadRoomForgotten ==
    \A r \in Rooms : (run[r] = "done") ~> [](docRoom # r)

\* The database call of room r never returns.
Hangs(r) == [](run[r] = "persist")

\* The shutdown gets on: hub.Shutdown returns, by its timeout if by nothing else;
\* every room it closes drains, and the pool is closed, unless a database call
\* never returns.
ShutdownEnds ==
    /\ (main = "waiting") ~> (main # "waiting")
    /\ \A r \in Rooms : (r \in shutdown) ~> (run[r] \in {"done", "reaped"} \/ Hangs(r))
    /\ (main = "drained") ~> (main = "poolClosed" \/ \E r \in Rooms : Hangs(r))

HandsOver(c) == pc[c] \in {"registering", "sending", "unregistering"}

\* A connection's goroutine that hands something to its room (itself, an edit, a
\* cursor, its leaving) gets through as long as the room's loop has not returned,
\* however slow or dead the other connections are.  Only a database call that
\* never returns holds it up.
RoomTakesWhatItIsSent ==
    \A c \in Clients, r \in Rooms :
        \/ []<>~(HandsOver(c) /\ myRoom[c] = r /\ Running(r))
        \/ <>Hangs(r)

-----------------------------------------------------------------------------
(* What comments say and the code does not do.                             *)

\* room.go 37: "broadcast receives Yjs sync messages (real document edits).
\* Run() persists them": no room returns with edits left in its channel.
NoEditAbandoned ==
    \A r \in Rooms : run[r] \in {"done", "reaped"} => broadcast[r] = <<>>

\* handlers/ws.go 96: after Register "Room.Run() will send the Yjs SYNC_STEP_1
\* initiation immediately": Register returns.
RegisterReturns ==
    \A c \in Clients : (pc[c] = "registering") ~> (pc[c] # "registering")

\* hub.go 212: closing the rooms "causes their ReadPumps to return errors and
\* send to the unregister channel, which drains the room".
UnregisterReturns ==
    \A c \in Clients : (pc[c] = "unregistering") ~> (pc[c] = "returned")

\* room.go 22: a room is "Destroyed (goroutine exits) when the last client
\* disconnects": no event loop stays behind with no client.
EmptyRoomExits ==
    \A r \in Rooms :
        (Running(r) /\ clients[r] = {}) ~> (~Running(r) \/ clients[r] # {})

\* main.go 178: closing the pool "will not block": it waits for a database call
\* that outlived the timeout.
PoolCloses == (main = "drained") ~> (main = "poolClosed")

\* main.go 178: "By this point no goroutine is touching the pool", when the
\* database pool is closed.
PoolQuiet ==
    main = "poolClosed" => \A r \in Rooms : run[r] # "persist"

=============================================================================
