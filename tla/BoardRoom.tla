----------------------------- MODULE BoardRoom -----------------------------
(***************************************************************************)
(* The board side of the WebSocket hub: the hub's map entry of one board,  *)
(* the rooms created for it, the connections (one BoardClient each) with   *)
(* their handler, ReadPump and WritePump goroutines, and the HTTP handlers *)
(* that publish an event after they have changed a card or a column.       *)
(*                                                                         *)
(* A publisher looks the room up under a read lock and sends to it after   *)
(* the lock is released, so that the room may have ended in between.  A    *)
(* room, a connection and an event are identities used once.  A case of    *)
(* Run() touches only the room's own data and never blocks: one action.    *)
(*                                                                         *)
(* Not covered: token and upgrade errors (handlers/ws.go 122-146, before   *)
(* any of this state exists), the JSON of an event (a map that always      *)
(* marshals), and what peers send (ReadPump discards it).                  *)
(***************************************************************************)
EXTENDS Naturals, SequencesExt

CONSTANTS
    Clients,        \* WebSocket connections to the board
    Rooms,          \* identities of *BoardRoom values
    Events,         \* changes of cards and columns, each published once
    BroadcastCap,   \* capacity of room.broadcast   (256 in the code)
    SendCap,        \* capacity of client.send      (256 in the code)
    Sigterm,        \* whether the environment may send SIGTERM
    MayTimeOut,     \* whether main.go's shutdown contexts may expire
    NoRoom, UserJoined

ASSUME BoardCapAssumption ==
    /\ BroadcastCap \in Nat \ {0}
    /\ SendCap \in Nat \ {0}

ASSUME BoardSwitchAssumption == Sigterm \in BOOLEAN /\ MayTimeOut \in BOOLEAN

ASSUME BoardDistinctAssumption == NoRoom \notin Rooms /\ UserJoined \notin Events

VARIABLES
    boardRoom,   \* hub.boardRooms[boardID], NoRoom when absent
    run,         \* where each room's Run() goroutine is
    clients,     \* room.clients
    broadcast,   \* room.broadcast: FIFO of events
    shutdown,    \* rooms whose shutdown channel is closed
    pc,          \* where each connection's handler goroutine is
    myRoom,      \* the room the handler got from the hub
    conn,        \* the connection as ReadMessage sees it
    send,        \* client.send
    sendOpen,    \* whether client.send is still open
    panicked,    \* a goroutine closed, or sent on, a closed channel
    pump,        \* WritePump
    received,    \* events that reached the peer, in order
    pub,         \* where the handler that publishes an event is
    pubRoom,     \* the room BroadcastToBoard found
    feed,        \* ghost: what each room sent out, in order
    joinedAt,    \* ghost: length of its room's feed when a client registered
    main,        \* main.go's shutdown sequence
    draining     \* the rooms hub.Shutdown waits for

hubVars   == <<boardRoom, main, draining>>
roomVars  == <<run, clients, shutdown>>
connVars  == <<pc, myRoom, conn>>
sendVars  == <<send, sendOpen, panicked>>
pumpVars  == <<pump, received>>
pubVars   == <<pub, pubRoom>>
ghostVars == <<feed, joinedAt>>
vars == <<hubVars, roomVars, broadcast, connVars, sendVars, pumpVars, pubVars,
          ghostVars>>

-----------------------------------------------------------------------------
Running(r) == run[r] = "select"

\* The handler has not handed its client to a room yet.
Unregistered(c) == pc[c] \in {"idle", "upgraded", "creating", "registering"}

Outbound == Events \cup {UserJoined}

TypeOK ==
    /\ boardRoom \in Rooms \cup {NoRoom}
    /\ run \in [Rooms -> {"unborn", "select", "done", "reaped"}]
    /\ clients \in [Rooms -> SUBSET Clients]
    /\ broadcast \in [Rooms -> Seq(Events)]
    /\ shutdown \subseteq Rooms
    /\ pc \in [Clients -> {"idle", "upgraded", "creating", "registering",
                           "registered", "reading", "unregistering", "returned"}]
    /\ myRoom \in [Clients -> Rooms \cup {NoRoom}]
    /\ conn \in [Clients -> {"open", "broken"}]
    /\ send \in [Clients -> Seq(Outbound)]
    /\ sendOpen \in [Clients -> BOOLEAN]
    /\ panicked \in BOOLEAN
    /\ pump \in [Clients -> {"none", "running", "exited"}]
    /\ received \in [Clients -> Seq(Events)]
    /\ pub \in [Events -> {"idle", "written", "sending", "returned"}]
    /\ pubRoom \in [Events -> Rooms \cup {NoRoom}]
    /\ \A e \in Events : pub[e] = "sending" => pubRoom[e] \in Rooms
    /\ feed \in [Rooms -> Seq(Events)]
    /\ joinedAt \in [Clients -> Nat]
    /\ main \in {"serving", "stopped", "waiting", "drained"}
    /\ draining \subseteq Rooms

Init ==
    /\ boardRoom = NoRoom
    /\ run = [r \in Rooms |-> "unborn"]
    /\ clients = [r \in Rooms |-> {}]
    /\ broadcast = [r \in Rooms |-> <<>>]
    /\ shutdown = {}
    /\ pc = [c \in Clients |-> "idle"]
    /\ myRoom = [c \in Clients |-> NoRoom]
    /\ conn = [c \in Clients |-> "open"]
    /\ send = [c \in Clients |-> <<>>]
    /\ sendOpen = [c \in Clients |-> TRUE]
    /\ panicked = FALSE
    /\ pump = [c \in Clients |-> "none"]
    /\ received = [c \in Clients |-> <<>>]
    /\ pub = [e \in Events |-> "idle"]
    /\ pubRoom = [e \in Events |-> NoRoom]
    /\ feed = [r \in Rooms |-> <<>>]
    /\ joinedAt = [c \in Clients |-> 0]
    /\ main = "serving"
    /\ draining = {}

-----------------------------------------------------------------------------
(* Channels.  A definition named X_Y, here and below, is X with a mistake  *)
(* Y; no action uses it.                                                   *)

Full(S) == {c \in S : Len(send[c]) >= SendCap}

\* Non-blocking send of m to every client of S that has room.
Offer(S, m) ==
    [c \in Clients |-> IF c \in S \ Full(S) THEN Append(send[c], m) ELSE send[c]]

\* The members an event cannot be handed to: the fan-out drops them.
Dropped_MissTheEvent(S) == {}
Dropped(S) == Full(S)

\* Close the channels of S after using those of T; Go panics when one of them
\* is closed already.
CloseAndUse(S, T) ==
    /\ sendOpen' = [c \in Clients |-> sendOpen[c] /\ c \notin S]
    /\ panicked' = (panicked \/ \E c \in S \cup T : ~sendOpen[c])

-----------------------------------------------------------------------------
(* The handler goroutine: HandleBoardWS, GetOrCreateBoardRoom, ReadPump.   *)

Upgrade(c) ==
    /\ main = "serving"
    /\ pc[c] = "idle"
    /\ pc' = [pc EXCEPT ![c] = "upgraded"]
    /\ UNCHANGED <<hubVars, roomVars, broadcast, myRoom, conn, sendVars,
                   pumpVars, pubVars, ghostVars>>

TakeRoom(c, r) ==
    /\ myRoom' = [myRoom EXCEPT ![c] = r]
    /\ pc' = [pc EXCEPT ![c] = "registering"]

\* Under the read lock: the room is there, or it has to be created.
LookupFast(c) ==
    /\ pc[c] = "upgraded"
    /\ \/ boardRoom # NoRoom /\ TakeRoom(c, boardRoom)
       \/ /\ boardRoom = NoRoom
          /\ pc' = [pc EXCEPT ![c] = "creating"]
          /\ UNCHANGED myRoom
    /\ UNCHANGED <<hubVars, roomVars, broadcast, conn, sendVars, pumpVars,
                   pubVars, ghostVars>>

\* The double check under the write lock.
NotCreatedYet_Unchecked == TRUE
NotCreatedYet == boardRoom = NoRoom

\* Under the write lock: somebody else created it in between ...
LookupAgain(c) ==
    /\ pc[c] = "creating" /\ boardRoom # NoRoom
    /\ TakeRoom(c, boardRoom)
    /\ UNCHANGED <<hubVars, roomVars, broadcast, conn, sendVars, pumpVars,
                   pubVars, ghostVars>>

\* ... or create room r, start its Run() and its watcher.
CreateRoom(c, r) ==
    /\ pc[c] = "creating" /\ NotCreatedYet
    /\ run[r] = "unborn"
    /\ boardRoom' = r
    /\ run' = [run EXCEPT ![r] = "select"]
    /\ TakeRoom(c, r)
    /\ UNCHANGED <<main, draining, clients, shutdown, broadcast, conn, sendVars,
                   pumpVars, pubVars, ghostVars>>

\* Back from Register: start WritePump, continue as ReadPump.
StartPumps(c) ==
    /\ pc[c] = "registered"
    /\ pc' = [pc EXCEPT ![c] = "reading"]
    /\ pump' = [pump EXCEPT ![c] = "running"]
    /\ UNCHANGED <<hubVars, roomVars, broadcast, myRoom, conn, sendVars,
                   received, pubVars, ghostVars>>

\* ReadMessage fails: the deferred send to unregister is next.
ReadError(c) ==
    /\ pc[c] = "reading" /\ conn[c] = "broken"
    /\ pc' = [pc EXCEPT ![c] = "unregistering"]
    /\ UNCHANGED <<hubVars, roomVars, broadcast, myRoom, conn, sendVars,
                   pumpVars, pubVars, ghostVars>>

\* The peer goes away, or nothing is read for pongWait.
ConnectionBreaks(c) ==
    /\ pc[c] \notin {"idle", "returned"} /\ conn[c] = "open"
    /\ conn' = [conn EXCEPT ![c] = "broken"]
    /\ UNCHANGED <<hubVars, roomVars, broadcast, pc, myRoom, sendVars, pumpVars,
                   pubVars, ghostVars>>

-----------------------------------------------------------------------------
(* WritePump.                                                              *)

PumpExits(c) ==
    /\ pump' = [pump EXCEPT ![c] = "exited"]
    /\ conn' = [conn EXCEPT ![c] = "broken"]

\* A queued message is written; on a broken connection it may not arrive.
WriteMessage(c) ==
    /\ pump[c] = "running" /\ send[c] # <<>>
    /\ send' = [send EXCEPT ![c] = Tail(@)]
    /\ received' = IF conn[c] = "open" /\ Head(send[c]) \in Events
                   THEN [received EXCEPT ![c] = Append(@, Head(send[c]))]
                   ELSE received
    /\ UNCHANGED <<hubVars, roomVars, broadcast, connVars, sendOpen, panicked,
                   pump, pubVars, ghostVars>>

\* The write fails: the message is gone and so is WritePump.
WriteFails(c) ==
    /\ pump[c] = "running" /\ send[c] # <<>>
    /\ send' = [send EXCEPT ![c] = Tail(@)]
    /\ PumpExits(c)
    /\ UNCHANGED <<hubVars, roomVars, broadcast, pc, myRoom, sendOpen, panicked,
                   received, pubVars, ghostVars>>

\* "if !ok"
ChannelClosed_Ignored(c) == FALSE
ChannelClosed(c) == send[c] = <<>> /\ ~sendOpen[c]

\* The channel is closed and drained, or a ping on a dead connection fails.
WriteCloseOrPing(c) ==
    /\ pump[c] = "running"
    /\ ChannelClosed(c) \/ conn[c] = "broken"
    /\ PumpExits(c)
    /\ UNCHANGED <<hubVars, roomVars, broadcast, pc, myRoom, sendVars, received,
                   pubVars, ghostVars>>

-----------------------------------------------------------------------------
(* BoardRoom.Run(): one action per select case.                            *)

RunRegister(r, c) ==
    /\ Running(r)
    /\ pc[c] = "registering" /\ myRoom[c] = r
    /\ pc' = [pc EXCEPT ![c] = "registered"]
    /\ clients' = [clients EXCEPT ![r] = @ \cup {c}]
    /\ send' = Offer(clients[r] \ {c}, UserJoined)
    /\ CloseAndUse({}, clients[r] \ {c})
    /\ joinedAt' = [joinedAt EXCEPT ![c] = Len(feed[r])]
    /\ UNCHANGED <<hubVars, run, shutdown, broadcast, myRoom, conn, pumpVars,
                   pubVars, feed>>

\* "if _, ok := r.clients[client]; !ok { continue }"
IsMember_Unchecked(r, c) == TRUE
IsMember(r, c) == c \in clients[r]

RunUnregister(r, c) ==
    LET rest == clients[r] \ {c} IN
    /\ Running(r)
    /\ pc[c] = "unregistering" /\ myRoom[c] = r
    /\ pc' = [pc EXCEPT ![c] = "returned"]
    /\ IF IsMember(r, c)
       THEN /\ clients' = [clients EXCEPT ![r] = rest]
            /\ CloseAndUse({c}, {})
            /\ run' = IF rest = {} THEN [run EXCEPT ![r] = "done"] ELSE run
       ELSE UNCHANGED <<clients, sendOpen, panicked, run>>
    /\ UNCHANGED <<hubVars, shutdown, broadcast, myRoom, conn, send, pumpVars,
                   pubVars, ghostVars>>

\* The select case of the broadcast channel is ready.
HasEvent_MembersOnly(r) == broadcast[r] # <<>> /\ clients[r] # {}
HasEvent(r) == broadcast[r] # <<>>

\* Slow clients are dropped and disconnected; nobody looks whether any is left.
RunBroadcast(r) ==
    LET e    == Head(broadcast[r])
        slow == Dropped(clients[r])
    IN
    /\ Running(r) /\ HasEvent(r)
    /\ broadcast' = [broadcast EXCEPT ![r] = Tail(@)]
    /\ send' = Offer(clients[r], e)
    /\ clients' = [clients EXCEPT ![r] = @ \ slow]
    /\ CloseAndUse(slow, clients[r])
    /\ feed' = [feed EXCEPT ![r] = Append(@, e)]
    /\ UNCHANGED <<hubVars, run, shutdown, connVars, pumpVars, pubVars, joinedAt>>

RunShutdown(r) ==
    /\ Running(r) /\ r \in shutdown
    /\ CloseAndUse(clients[r], {})
    /\ clients' = [clients EXCEPT ![r] = {}]
    /\ run' = [run EXCEPT ![r] = "done"]
    /\ UNCHANGED <<hubVars, shutdown, broadcast, connVars, send, pumpVars,
                   pubVars, ghostVars>>

\* watchBoardRoom: forget the room, unless it was replaced.
Reap(r) ==
    /\ run[r] = "done"
    /\ run' = [run EXCEPT ![r] = "reaped"]
    /\ boardRoom' = IF boardRoom = r THEN NoRoom ELSE boardRoom
    /\ UNCHANGED <<main, draining, clients, shutdown, broadcast, connVars,
                   sendVars, pumpVars, pubVars, ghostVars>>

-----------------------------------------------------------------------------
(* A handler that changed a card or column: BroadcastToBoard.              *)

\* The change is committed.
WriteChange(e) ==
    /\ main = "serving"
    /\ pub[e] = "idle"
    /\ pub' = [pub EXCEPT ![e] = "written"]
    /\ UNCHANGED <<hubVars, roomVars, broadcast, connVars, sendVars, pumpVars,
                   pubRoom, ghostVars>>

\* "if !ok { return }"
Found == boardRoom # NoRoom

\* Under the read lock; without a room the event is dropped.
FindRoom(e) ==
    /\ pub[e] = "written"
    /\ pubRoom' = [pubRoom EXCEPT ![e] = boardRoom]
    /\ pub' = [pub EXCEPT ![e] = IF Found THEN "sending" ELSE "returned"]
    /\ UNCHANGED <<hubVars, roomVars, broadcast, connVars, sendVars, pumpVars,
                   ghostVars>>

\* room.broadcast <- data: blocks while the channel is full, whether or not
\* anybody still receives from it.
Publish_DropsWhenFull(e) ==
    LET r == pubRoom[e] IN
    /\ pub[e] = "sending"
    /\ broadcast' = IF Len(broadcast[r]) < BroadcastCap
                    THEN [broadcast EXCEPT ![r] = Append(@, e)] ELSE broadcast
    /\ pub' = [pub EXCEPT ![e] = "returned"]
    /\ UNCHANGED <<hubVars, roomVars, connVars, sendVars, pumpVars, pubRoom,
                   ghostVars>>

Publish(e) ==
    LET r == pubRoom[e] IN
    /\ pub[e] = "sending"
    /\ Len(broadcast[r]) < BroadcastCap
    /\ broadcast' = [broadcast EXCEPT ![r] = Append(@, e)]
    /\ pub' = [pub EXCEPT ![e] = "returned"]
    /\ UNCHANGED <<hubVars, roomVars, connVars, sendVars, pumpVars, pubRoom,
                   ghostVars>>

-----------------------------------------------------------------------------
(* main.go after SIGTERM.                                                  *)

Publishing(e) == pub[e] \in {"written", "sending"}

\* server.Shutdown waits for the HTTP handlers, not for upgraded connections.
StopHTTP ==
    /\ Sigterm /\ main = "serving"
    /\ MayTimeOut \/ \A e \in Events : ~Publishing(e)
    /\ main' = "stopped"
    /\ UNCHANGED <<boardRoom, draining, roomVars, broadcast, connVars, sendVars,
                   pumpVars, pubVars, ghostVars>>

\* hub.Shutdown: snapshot the map, close every room in it.
HubShutdown ==
    LET snapshot == {boardRoom} \ {NoRoom} IN
    /\ main = "stopped"
    /\ draining' = snapshot
    /\ shutdown' = snapshot
    /\ main' = IF snapshot = {} THEN "drained" ELSE "waiting"
    /\ UNCHANGED <<boardRoom, run, clients, broadcast, connVars, sendVars,
                   pumpVars, pubVars, ghostVars>>

\* wg.Wait returns: every room of the snapshot is done, or the context is.
WaitReturns ==
    /\ main = "waiting"
    /\ MayTimeOut \/ \A r \in draining : run[r] \in {"done", "reaped"}
    /\ main' = "drained"
    /\ UNCHANGED <<boardRoom, draining, roomVars, broadcast, connVars, sendVars,
                   pumpVars, pubVars, ghostVars>>

-----------------------------------------------------------------------------
\* The handler goroutine of c, when it is not waiting for a rendezvous.
Handler(c) ==
    \/ LookupFast(c)
    \/ LookupAgain(c)
    \/ \E r \in Rooms : CreateRoom(c, r)
    \/ StartPumps(c)
    \/ ReadError(c)

Peer(c) == Upgrade(c) \/ ConnectionBreaks(c)

WritePump(c) == WriteMessage(c) \/ WriteFails(c) \/ WriteCloseOrPing(c)

Run(r) ==
    \/ \E c \in Clients : RunRegister(r, c) \/ RunUnregister(r, c)
    \/ RunBroadcast(r)
    \/ RunShutdown(r)

BroadcastToBoard(e) == FindRoom(e) \/ Publish(e)

Main == StopHTTP \/ HubShutdown \/ WaitReturns

Next ==
    \/ \E c \in Clients : Handler(c) \/ Peer(c) \/ WritePump(c)
    \/ \E r \in Rooms : Run(r) \/ Reap(r)
    \/ \E e \in Events : WriteChange(e) \/ BroadcastToBoard(e)
    \/ Main

Spec == Init /\ [][Next]_vars

\* Goroutines are scheduled; peers, users and operators owe nothing.
Fairness ==
    /\ \A c \in Clients : WF_vars(Handler(c)) /\ WF_vars(WritePump(c))
    /\ \A r \in Rooms : WF_vars(Run(r)) /\ WF_vars(Reap(r))
    /\ \A e \in Events : WF_vars(BroadcastToBoard(e))
    /\ WF_vars(HubShutdown \/ WaitReturns)

FairSpec == Spec /\ Fairness

-----------------------------------------------------------------------------
(* Safety.                                                                 *)

\* No goroutine closes a client's channel twice or sends on a closed one: Run()
\* closes it on unregister, on a slow fan-out and on shutdown, and the deferred
\* unregister of ReadPump may follow any of them.
NoPanic == ~panicked

\* A connection that is a member of some room is a member of the one that
\* BroadcastToBoard finds, however connects, last disconnects, watchers and
\* shutdown interleave: no member sits in a room nobody publishes to.
PublishersReachMembers ==
    \A r \in Rooms : clients[r] # {} => boardRoom = r

\* What c's room sent out since c registered.
Due(c) == SubSeq(feed[myRoom[c]], joinedAt[c] + 1, Len(feed[myRoom[c]]))

\* How far c has received the feed of its room.
Reached(c) == joinedAt[c] + Len(received[c])

\* The events in the channel q are the entries K of the feed f, each of them
\* once and in order (USER_JOINED messages in between take space).
EventPlaces(q) == {i \in DOMAIN q : q[i] \in Events}
Carries(q, f, K) ==
    \E entry \in [EventPlaces(q) -> K] :
        /\ \A i \in EventPlaces(q) : q[i] = f[entry[i]]
        /\ \A i, j \in EventPlaces(q) : i < j => entry[i] < entry[j]
        /\ \A k \in K : \E i \in EventPlaces(q) : entry[i] = k

\* What a connection received is the feed of its room from where it registered,
\* without a gap, and a member's channel holds exactly the rest of the feed; one
\* that was dropped or cut off has a beginning of it.
FeedWithoutGap ==
    \A c \in Clients : ~Unregistered(c) =>
        LET f == feed[myRoom[c]] IN
        /\ Reached(c) <= Len(f)
        /\ \A i \in DOMAIN received[c] : received[c][i] = f[joinedAt[c] + i]
        /\ (conn[c] = "open" /\ c \in clients[myRoom[c]])
           => Carries(send[c], f, Reached(c) + 1 .. Len(f))

-----------------------------------------------------------------------------
(* Liveness, under FairSpec.  Connections and events are used up, so what  *)
(* should happen again and again is stated as what holds in the end.       *)

\* Whoever stays connected gets everything that publishers hand to its room
\* after it joined, although they may have to wait for space in the room.
ChangeReachesMembers ==
    <>[](\A r \in Rooms : \A c \in clients[r] : conn[c] = "open" =>
             /\ received[c] = Due(c)
             /\ \A e \in Events : pubRoom[e] = r => \E i \in DOMAIN feed[r] : feed[r][i] = e)

\* A client the room let go of ends up disconnected, so that its browser
\* reconnects and loads the board again.
DroppedClientDisconnects ==
    <>[](\A c \in Clients :
             (~Unregistered(c) /\ \A r \in Rooms : c \notin clients[r])
             => (pump[c] = "exited" /\ conn[c] = "broken"))

\* Only a room whose loop has returned may hold an event back, and with it the
\* HTTP handler in BroadcastToBoard: one that is still running takes it, also
\* when the fan-out has dropped all its members.
HeldOnlyByDeadRoom ==
    <>[](\A e \in Events : (pubRoom[e] \in Rooms /\ Running(pubRoom[e]))
             => \E i \in DOMAIN feed[pubRoom[e]] : feed[pubRoom[e]][i] = e)

-----------------------------------------------------------------------------
(* What comments say and the code does not do.                             *)

\* hub.go 151: BroadcastToBoard "delivers it to all clients currently in the
\* board room": it returns.  A room that ended with a full channel keeps it.
PublisherReturns ==
    \A e \in Events : (pub[e] = "sending") ~> (pub[e] = "returned")

=============================================================================
