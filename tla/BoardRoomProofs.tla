--------------------------- MODULE BoardRoomProofs ---------------------------
(***************************************************************************)
(* Theorems about BoardRoom, for any number of connections, rooms, events  *)
(* and any channel capacities: types (with: past the lookup a handler has  *)
(* a room), then who owns a send channel, then which rooms have members,   *)
(* then which entries of the room's feed a channel holds.                  *)
(***************************************************************************)
EXTENDS BoardRoom, SequenceTheorems, TLAPS

RunStates == {"unborn", "select", "done", "reaped"}
PcStates  == {"idle", "upgraded", "creating", "registering",
              "registered", "reading", "unregistering", "returned"}

\* The types, by whose state it is.
HubTyped ==
    /\ boardRoom \in Rooms \cup {NoRoom}
    /\ run \in [Rooms -> RunStates]
    /\ clients \in [Rooms -> SUBSET Clients]
    /\ broadcast \in [Rooms -> Seq(Events)]
    /\ shutdown \subseteq Rooms
    /\ feed \in [Rooms -> Seq(Events)]
    /\ main \in {"serving", "stopped", "waiting", "drained"}
    /\ draining \subseteq Rooms

\* Past GetOrCreateBoardRoom a handler has a room.
HandlerTyped ==
    /\ pc \in [Clients -> PcStates]
    /\ myRoom \in [Clients -> Rooms \cup {NoRoom}]
    /\ \A c \in Clients :
          pc[c] \notin {"idle", "upgraded", "creating"} => myRoom[c] \in Rooms

ChannelTyped ==
    /\ conn \in [Clients -> {"open", "broken"}]
    /\ send \in [Clients -> Seq(Outbound)]
    /\ sendOpen \in [Clients -> BOOLEAN]
    /\ panicked \in BOOLEAN
    /\ pump \in [Clients -> {"none", "running", "exited"}]
    /\ received \in [Clients -> Seq(Events)]
    /\ joinedAt \in [Clients -> Nat]

PublisherTyped ==
    /\ pub \in [Events -> {"idle", "written", "sending", "returned"}]
    /\ pubRoom \in [Events -> Rooms \cup {NoRoom}]
    /\ \A e \in Events : pub[e] = "sending" => pubRoom[e] \in Rooms

Typed == HubTyped /\ HandlerTyped /\ ChannelTyped /\ PublisherTyped

\* A client's channel is open until its room lets go of it, and it is in no
\* room but its own.
Ownership ==
    /\ ~panicked
    /\ \A c \in Clients : Unregistered(c) => sendOpen[c]
    /\ \A r \in Rooms : \A c \in clients[r] :
          sendOpen[c] /\ myRoom[c] = r /\ ~Unregistered(c)

\* A room that runs is the one in the map, and only such a room has members.
OneLiveRoom == \A r \in Rooms : Running(r) => boardRoom = r
MembersLive == \A r \in Rooms : clients[r] # {} => Running(r)

-----------------------------------------------------------------------------
\* A non-blocking send keeps the channels well formed.
LEMMA OfferType ==
    ASSUME NEW X, send \in [Clients -> Seq(X)], NEW S, NEW m \in X
    PROVE  Offer(S, m) \in [Clients -> Seq(X)]
<1>1. \A c \in Clients : Append(send[c], m) \in Seq(X)
  OBVIOUS
<1>. QED  BY <1>1 DEF Offer

\* A message goes into, or comes out of, one of a family of channels.
LEMMA AppendAt ==
    ASSUME NEW S, NEW D, NEW f \in [D -> Seq(S)], NEW x \in D, NEW m \in S
    PROVE  [f EXCEPT ![x] = Append(@, m)] \in [D -> Seq(S)]
<1>1. Append(f[x], m) \in Seq(S)
  OBVIOUS
<1>. QED  BY <1>1

LEMMA TailAt ==
    ASSUME NEW S, NEW D, NEW f \in [D -> Seq(S)], NEW x \in D, f[x] # <<>>
    PROVE  /\ [f EXCEPT ![x] = Tail(@)] \in [D -> Seq(S)]
           /\ Head(f[x]) \in S
<1>1. Tail(f[x]) \in Seq(S) /\ Head(f[x]) \in S
  OBVIOUS
<1>. QED  BY <1>1

\* The initial state is well typed.
LEMMA TypedInit == Init => Typed
<1>. SUFFICES ASSUME Init PROVE Typed
  OBVIOUS
<1>. USE BoardDistinctAssumption DEF Init
<1>1. HubTyped
  BY DEF HubTyped, RunStates
<1>2. HandlerTyped
  BY DEF HandlerTyped, PcStates
<1>3. ChannelTyped
  <2>1. send \in [Clients -> Seq(Outbound)] /\ received \in [Clients -> Seq(Events)]
    OBVIOUS
  <2>. QED  BY <2>1 DEF ChannelTyped
<1>4. PublisherTyped
  BY DEF PublisherTyped
<1>. QED  BY <1>1, <1>2, <1>3, <1>4 DEF Typed

\* A publisher that sends has found a room.
LEMMA PublisherStep == Typed /\ [Next]_vars => PublisherTyped'
<1>. SUFFICES ASSUME Typed, [Next]_vars PROVE PublisherTyped'
  OBVIOUS
<1>. USE BoardDistinctAssumption DEF pubVars
<1>t. PublisherTyped /\ boardRoom \in Rooms \cup {NoRoom}
  BY DEF Typed, HubTyped
<1>1. CASE UNCHANGED pubVars
  BY <1>t, <1>1 DEF PublisherTyped
<1>2. ASSUME NEW e \in Events, WriteChange(e) PROVE PublisherTyped'
  BY <1>t, <1>2 DEF WriteChange, PublisherTyped
<1>3. ASSUME NEW e \in Events, FindRoom(e) PROVE PublisherTyped'
  BY <1>t, <1>3 DEF FindRoom, Found, PublisherTyped
<1>4. ASSUME NEW e \in Events, Publish(e) PROVE PublisherTyped'
  BY <1>t, <1>4 DEF Publish, PublisherTyped
<1>5. ASSUME NEW c \in Clients, Handler(c) \/ Peer(c) \/ WritePump(c)
      PROVE  UNCHANGED pubVars
  BY <1>5 DEF Handler, LookupFast, LookupAgain, CreateRoom, StartPumps, ReadError,
      Peer, Upgrade, ConnectionBreaks, WritePump, WriteMessage, WriteFails,
      WriteCloseOrPing
<1>6. ASSUME NEW r \in Rooms, Run(r) \/ Reap(r) PROVE UNCHANGED pubVars
  BY <1>6 DEF Run, RunRegister, RunUnregister, RunBroadcast, RunShutdown, Reap
<1>7. CASE Main \/ UNCHANGED vars
  BY <1>1, <1>7 DEF Main, StopHTTP, HubShutdown, WaitReturns, vars
<1>. QED
  BY <1>1, <1>2, <1>3, <1>4, <1>5, <1>6, <1>7 DEF Next, BroadcastToBoard

\* A handler past the lookup keeps its room.
LEMMA HandlerStep == Typed /\ [Next]_vars => HandlerTyped'
<1>. SUFFICES ASSUME Typed, [Next]_vars PROVE HandlerTyped'
  OBVIOUS
<1>. USE BoardDistinctAssumption DEF connVars, HandlerTyped, PcStates
<1>t. HandlerTyped /\ boardRoom \in Rooms \cup {NoRoom}
  BY DEF Typed, HubTyped
<1>1. CASE UNCHANGED <<pc, myRoom>>
  BY <1>t, <1>1
<1>2. ASSUME NEW c \in Clients, Handler(c) PROVE HandlerTyped'
  <2>1. CASE boardRoom # NoRoom /\ TakeRoom(c, boardRoom)
    BY <1>t, <2>1 DEF TakeRoom
  <2>2. CASE LookupFast(c)
    BY <1>t, <2>1, <2>2 DEF LookupFast
  <2>3. CASE LookupAgain(c)
    BY <2>1, <2>3 DEF LookupAgain
  <2>4. ASSUME NEW r \in Rooms, CreateRoom(c, r) PROVE HandlerTyped'
    BY <1>t, <2>4 DEF CreateRoom, TakeRoom
  <2>5. CASE StartPumps(c) \/ ReadError(c)
    BY <1>t, <2>5 DEF StartPumps, ReadError
  <2>. QED  BY <1>2, <2>2, <2>3, <2>4, <2>5 DEF Handler
<1>3. ASSUME NEW c \in Clients, Upgrade(c) PROVE HandlerTyped'
  BY <1>t, <1>3 DEF Upgrade
<1>4. ASSUME NEW r \in Rooms, NEW c \in Clients,
             RunRegister(r, c) \/ RunUnregister(r, c)
      PROVE  HandlerTyped'
  BY <1>t, <1>4 DEF RunRegister, RunUnregister
<1>5. ASSUME NEW c \in Clients, ConnectionBreaks(c) \/ WritePump(c)
      PROVE  UNCHANGED <<pc, myRoom>>
  BY <1>5 DEF ConnectionBreaks, WritePump, WriteMessage, WriteFails, WriteCloseOrPing
<1>6. ASSUME NEW r \in Rooms, RunBroadcast(r) \/ RunShutdown(r) \/ Reap(r)
      PROVE  UNCHANGED <<pc, myRoom>>
  BY <1>6 DEF RunBroadcast, RunShutdown, Reap
<1>7. ASSUME NEW e \in Events, WriteChange(e) \/ BroadcastToBoard(e)
      PROVE  UNCHANGED <<pc, myRoom>>
  BY <1>7 DEF WriteChange, BroadcastToBoard, FindRoom, Publish
<1>8. CASE Main \/ UNCHANGED vars
  BY <1>1, <1>8 DEF Main, StopHTTP, HubShutdown, WaitReturns, vars
<1>. QED
  BY <1>1, <1>2, <1>3, <1>4, <1>5, <1>6, <1>7, <1>8 DEF Next, Peer, Run

\* Channels hold events and join messages only, what is received events only.
LEMMA ChannelStep == Typed /\ [Next]_vars => ChannelTyped'
<1>. SUFFICES ASSUME Typed, [Next]_vars PROVE ChannelTyped'
  OBVIOUS
<1>. USE DEF connVars, sendVars, pumpVars, ghostVars
<1>t. ChannelTyped /\ broadcast \in [Rooms -> Seq(Events)] /\ feed \in [Rooms -> Seq(Events)]
  BY DEF Typed, HubTyped
<1>1. CASE UNCHANGED <<conn, send, sendOpen, panicked, pump, received, joinedAt>>
  BY <1>t, <1>1 DEF ChannelTyped
<1>2. ASSUME NEW c \in Clients, Handler(c) PROVE ChannelTyped'
  <2>1. /\ UNCHANGED <<conn, send, sendOpen, panicked, received, joinedAt>>
        /\ pump' \in {pump, [pump EXCEPT ![c] = "running"]}
    BY <1>2 DEF Handler, LookupFast, LookupAgain, CreateRoom, StartPumps, ReadError
  <2>. QED  BY <1>t, <2>1 DEF ChannelTyped
<1>3. ASSUME NEW c \in Clients, Peer(c) PROVE ChannelTyped'
  <2>1. /\ UNCHANGED <<pump, send, sendOpen, panicked, received, joinedAt>>
        /\ conn' \in {conn, [conn EXCEPT ![c] = "broken"]}
    BY <1>3 DEF Peer, Upgrade, ConnectionBreaks
  <2>. QED  BY <1>t, <2>1 DEF ChannelTyped
<1>4. ASSUME NEW c \in Clients, WritePump(c) PROVE ChannelTyped'
  <2>1. /\ UNCHANGED <<sendOpen, panicked, joinedAt>>
        /\ conn' \in {conn, [conn EXCEPT ![c] = "broken"]}
        /\ pump' \in {pump, [pump EXCEPT ![c] = "exited"]}
    BY <1>4 DEF WritePump, WriteMessage, WriteFails, WriteCloseOrPing, PumpExits
  <2>2. send' = send \/ (send[c] # <<>> /\ send' = [send EXCEPT ![c] = Tail(@)])
    BY <1>4 DEF WritePump, WriteMessage, WriteFails, WriteCloseOrPing
  <2>3. send' \in [Clients -> Seq(Outbound)]
    <3>1. send \in [Clients -> Seq(Outbound)]
      BY <1>t DEF ChannelTyped
    <3>2. send[c] # <<>> => [send EXCEPT ![c] = Tail(@)] \in [Clients -> Seq(Outbound)]
      BY <3>1, TailAt
    <3>. QED  BY <2>2, <3>1, <3>2
  <2>4. \/ received' = received
        \/ \E m \in Events : received' = [received EXCEPT ![c] = Append(@, m)]
    <3>1. CASE WriteMessage(c)
      BY <3>1 DEF WriteMessage
    <3>2. CASE WriteFails(c) \/ WriteCloseOrPing(c)
      BY <3>2 DEF WriteFails, WriteCloseOrPing
    <3>. QED  BY <1>4, <3>1, <3>2 DEF WritePump
  <2>5. received' \in [Clients -> Seq(Events)]
    <3>1. received \in [Clients -> Seq(Events)]
      BY <1>t DEF ChannelTyped
    <3>2. \A m \in Events :
             [received EXCEPT ![c] = Append(@, m)] \in [Clients -> Seq(Events)]
      BY <3>1, AppendAt
    <3>. QED  BY <2>4, <3>1, <3>2
  <2>. QED  BY <1>t, <2>1, <2>3, <2>5 DEF ChannelTyped
<1>5. ASSUME NEW S, NEW T, CloseAndUse(S, T)
      PROVE  sendOpen' \in [Clients -> BOOLEAN] /\ panicked' \in BOOLEAN
  BY <1>t, <1>5 DEF CloseAndUse, ChannelTyped
<1>9. ASSUME NEW r \in Rooms, NEW c \in Clients, RunRegister(r, c) PROVE ChannelTyped'
  <2>1. /\ send' = Offer(clients[r] \ {c}, UserJoined)
        /\ CloseAndUse({}, clients[r] \ {c})
        /\ joinedAt' = [joinedAt EXCEPT ![c] = Len(feed[r])]
        /\ UNCHANGED <<conn, pump, received>>
    BY <1>9 DEF RunRegister
  <2>2. send' \in [Clients -> Seq(Outbound)]
    BY <1>t, <2>1, OfferType DEF ChannelTyped, Outbound
  <2>3. joinedAt' \in [Clients -> Nat]
    <3>1. Len(feed[r]) \in Nat
      BY <1>t
    <3>. QED  BY <1>t, <2>1, <3>1 DEF ChannelTyped
  <2>4. sendOpen' \in [Clients -> BOOLEAN] /\ panicked' \in BOOLEAN
    BY <1>5, <2>1
  <2>. QED  BY <1>t, <2>1, <2>2, <2>3, <2>4 DEF ChannelTyped
<1>10. ASSUME NEW r \in Rooms, NEW c \in Clients, RunUnregister(r, c) PROVE ChannelTyped'
  <2>1. /\ CloseAndUse({c}, {}) \/ UNCHANGED <<sendOpen, panicked>>
        /\ UNCHANGED <<conn, send, pump, received, joinedAt>>
    BY <1>10 DEF RunUnregister
  <2>. QED  BY <1>t, <1>5, <2>1 DEF ChannelTyped
<1>11. ASSUME NEW r \in Rooms, RunBroadcast(r) PROVE ChannelTyped'
  <2>1. /\ broadcast[r] # <<>>
        /\ send' = Offer(clients[r], Head(broadcast[r]))
        /\ CloseAndUse(Dropped(clients[r]), clients[r])
        /\ UNCHANGED <<conn, pump, received, joinedAt>>
    BY <1>11 DEF RunBroadcast, HasEvent
  <2>2. Head(broadcast[r]) \in Outbound
    BY <1>t, <2>1, TailAt DEF Outbound
  <2>3. send' \in [Clients -> Seq(Outbound)]
    BY <1>t, <2>1, <2>2, OfferType DEF ChannelTyped
  <2>. QED  BY <1>t, <1>5, <2>1, <2>3 DEF ChannelTyped
<1>12. ASSUME NEW r \in Rooms, RunShutdown(r) PROVE ChannelTyped'
  <2>1. /\ CloseAndUse(clients[r], {})
        /\ UNCHANGED <<conn, send, pump, received, joinedAt>>
    BY <1>12 DEF RunShutdown
  <2>. QED  BY <1>t, <1>5, <2>1 DEF ChannelTyped
<1>6. ASSUME NEW r \in Rooms, Reap(r)
      PROVE  UNCHANGED <<conn, send, sendOpen, panicked, pump, received, joinedAt>>
  BY <1>6 DEF Reap
<1>7. ASSUME NEW e \in Events, WriteChange(e) \/ BroadcastToBoard(e)
      PROVE  UNCHANGED <<conn, send, sendOpen, panicked, pump, received, joinedAt>>
  BY <1>7 DEF WriteChange, BroadcastToBoard, FindRoom, Publish
<1>8. CASE Main \/ UNCHANGED vars
  BY <1>1, <1>8 DEF Main, StopHTTP, HubShutdown, WaitReturns, vars
<1>. QED
  BY <1>1, <1>2, <1>3, <1>4, <1>6, <1>7, <1>8, <1>9, <1>10, <1>11, <1>12
  DEF Next, Run

\* The map and the rooms.
LEMMA HubStep == Typed /\ [Next]_vars => HubTyped'
<1>. SUFFICES ASSUME Typed, [Next]_vars PROVE HubTyped'
  OBVIOUS
<1>. USE DEF hubVars, roomVars, ghostVars, HubTyped, RunStates
<1>t. HubTyped /\ PublisherTyped /\ HandlerTyped
  BY DEF Typed
<1>1. CASE UNCHANGED <<hubVars, roomVars, broadcast, feed>>
  BY <1>t, <1>1
<1>2. ASSUME NEW c \in Clients, NEW r \in Rooms, CreateRoom(c, r) PROVE HubTyped'
  BY <1>t, <1>2 DEF CreateRoom
<1>3. ASSUME NEW c \in Clients,
             \/ LookupFast(c) \/ LookupAgain(c) \/ StartPumps(c) \/ ReadError(c)
             \/ Peer(c) \/ WritePump(c)
      PROVE  UNCHANGED <<hubVars, roomVars, broadcast, feed>>
  BY <1>3 DEF LookupFast, LookupAgain, StartPumps, ReadError, Peer, WritePump,
      Upgrade, ConnectionBreaks, WriteMessage, WriteFails, WriteCloseOrPing
<1>4. ASSUME NEW r \in Rooms, NEW c \in Clients,
             RunRegister(r, c) \/ RunUnregister(r, c)
      PROVE  HubTyped'
  <2>1. /\ clients' \in {clients, [clients EXCEPT ![r] = @ \cup {c}],
                         [clients EXCEPT ![r] = @ \ {c}]}
        /\ run' \in {run, [run EXCEPT ![r] = "done"]}
        /\ UNCHANGED <<hubVars, shutdown, broadcast, feed>>
    BY <1>4 DEF RunRegister, RunUnregister
  <2>2. /\ clients \in [Rooms -> SUBSET Clients]
        /\ [clients EXCEPT ![r] = @ \cup {c}] \in [Rooms -> SUBSET Clients]
        /\ [clients EXCEPT ![r] = @ \ {c}] \in [Rooms -> SUBSET Clients]
    BY <1>t
  <2>3. clients' \in [Rooms -> SUBSET Clients]
    BY <2>1, <2>2
  <2>. QED  BY <1>t, <2>1, <2>3
<1>5. ASSUME NEW r \in Rooms, RunBroadcast(r) PROVE HubTyped'
  <2>1. /\ broadcast' = [broadcast EXCEPT ![r] = Tail(@)] /\ broadcast[r] # <<>>
        /\ feed' = [feed EXCEPT ![r] = Append(@, Head(broadcast[r]))]
        /\ clients' = [clients EXCEPT ![r] = @ \ Dropped(clients[r])]
        /\ UNCHANGED <<hubVars, run, shutdown>>
    BY <1>5 DEF RunBroadcast, HasEvent
  <2>2. broadcast' \in [Rooms -> Seq(Events)] /\ Head(broadcast[r]) \in Events
    <3>1. broadcast \in [Rooms -> Seq(Events)]
      BY <1>t
    <3>2. /\ [broadcast EXCEPT ![r] = Tail(@)] \in [Rooms -> Seq(Events)]
          /\ Head(broadcast[r]) \in Events
      BY <2>1, <3>1, TailAt
    <3>. QED  BY <2>1, <3>2
  <2>3. feed' \in [Rooms -> Seq(Events)]
    <3>1. PICK e \in Events : feed' = [feed EXCEPT ![r] = Append(@, e)]
      BY <2>1, <2>2
    <3>. QED  BY <1>t, <3>1, AppendAt
  <2>. QED  BY <1>t, <2>1, <2>2, <2>3
<1>6. ASSUME NEW r \in Rooms, RunShutdown(r) \/ Reap(r) PROVE HubTyped'
  BY <1>t, <1>6 DEF RunShutdown, Reap
<1>7. ASSUME NEW e \in Events, WriteChange(e) \/ FindRoom(e)
      PROVE  UNCHANGED <<hubVars, roomVars, broadcast, feed>>
  BY <1>7 DEF WriteChange, FindRoom
<1>8. ASSUME NEW e \in Events, Publish(e) PROVE HubTyped'
  <2>1. broadcast' \in [Rooms -> Seq(Events)]
    BY <1>t, <1>8, AppendAt DEF Publish, PublisherTyped
  <2>. QED  BY <1>t, <1>8, <2>1 DEF Publish
<1>9. CASE Main
  BY <1>t, <1>9 DEF Main, StopHTTP, HubShutdown, WaitReturns
<1>10. CASE UNCHANGED vars
  BY <1>1, <1>10 DEF vars
<1>. QED
  BY <1>1, <1>2, <1>3, <1>4, <1>5, <1>6, <1>7, <1>8, <1>9, <1>10
  DEF Next, Handler, Run, BroadcastToBoard

LEMMA TypedInvariant == Spec => []Typed
<1>1. Typed /\ [Next]_vars => Typed'
  BY HubStep, HandlerStep, ChannelStep, PublisherStep DEF Typed
<1>. QED  BY <1>1, TypedInit, PTL DEF Spec

\* Type correctness; among others, a publisher that sends has a room to send to.
THEOREM TypeCorrect == Spec => []TypeOK
<1>1. Typed => TypeOK
  BY DEF Typed, HubTyped, HandlerTyped, ChannelTyped, PublisherTyped, TypeOK,
         RunStates, PcStates
<1>. QED  BY <1>1, TypedInvariant, PTL

-----------------------------------------------------------------------------
(* The send channel of a client: closed once, never used afterwards.       *)

\* A step of Run(r) that closes the channels of S and uses those of T, all of
\* them members of r, and lets go of S.
LEMMA LetGo ==
    ASSUME Ownership, NEW r \in Rooms, NEW S, NEW T,
           S \subseteq clients[r], T \subseteq clients[r],
           clients \in [Rooms -> SUBSET Clients],
           sendOpen \in [Clients -> BOOLEAN],
           clients' = [clients EXCEPT ![r] = @ \ S],
           CloseAndUse(S, T),
           myRoom' = myRoom,
           \A c \in Clients : Unregistered(c)' = Unregistered(c)
    PROVE  Ownership'
<1>. USE DEF Ownership, CloseAndUse
<1>1. ~panicked'
  OBVIOUS
<1>2. ASSUME NEW c \in Clients, Unregistered(c)' PROVE sendOpen'[c]
  BY <1>2
<1>3. ASSUME NEW q \in Rooms, NEW c \in clients'[q]
      PROVE  sendOpen'[c] /\ myRoom'[c] = q /\ ~Unregistered(c)'
  <2>1. c \in clients[q] /\ c \in Clients
    OBVIOUS
  <2>2. sendOpen[c] /\ myRoom[c] = q /\ ~Unregistered(c)
    BY <2>1
  <2>3. c \notin S
    BY <2>2
  <2>. QED  BY <2>1, <2>2, <2>3
<1>. QED  BY <1>1, <1>2, <1>3

\* A step that touches neither the rooms nor the channels, and takes no handler
\* back before Register or to another room once registered.
LEMMA OwnershipKept ==
    ASSUME Ownership, Typed, UNCHANGED <<clients, sendOpen, panicked>>,
           \A c \in Clients : Unregistered(c)' = Unregistered(c),
           \A c \in Clients : ~Unregistered(c) => myRoom'[c] = myRoom[c]
    PROVE  Ownership'
<1>1. \A r \in Rooms : clients[r] \subseteq Clients
  BY DEF Typed, HubTyped
<1>. QED  BY <1>1 DEF Ownership

\* Every step keeps the ownership of send channels.
LEMMA OwnershipStep == Typed /\ Ownership /\ [Next]_vars => Ownership'
<1>. SUFFICES ASSUME Typed, Ownership, [Next]_vars PROVE Ownership'
  OBVIOUS
<1>. USE DEF hubVars, roomVars, connVars, sendVars, pumpVars, pubVars, ghostVars
<1>t. /\ clients \in [Rooms -> SUBSET Clients]
      /\ sendOpen \in [Clients -> BOOLEAN]
      /\ pc \in [Clients -> PcStates]
      /\ myRoom \in [Clients -> Rooms \cup {NoRoom}]
  BY DEF Typed, HubTyped, HandlerTyped, ChannelTyped
<1>1. ASSUME NEW c \in Clients, Handler(c) PROVE Ownership'
  <2>1. UNCHANGED <<clients, sendOpen, panicked>>
    BY <1>1 DEF Handler, LookupFast, LookupAgain, CreateRoom, StartPumps, ReadError
  <2>2. /\ \A d \in Clients : Unregistered(d)' = Unregistered(d)
        /\ \A d \in Clients : ~Unregistered(d) => myRoom'[d] = myRoom[d]
    BY <1>1, <1>t DEF Handler, LookupFast, LookupAgain, CreateRoom, StartPumps,
                ReadError, TakeRoom, Unregistered
  <2>. QED  BY <2>1, <2>2, OwnershipKept
<1>2. ASSUME NEW c \in Clients, Peer(c) \/ WritePump(c) PROVE Ownership'
  <2>1. UNCHANGED <<clients, sendOpen, panicked, myRoom>>
    BY <1>2 DEF Peer, WritePump, Upgrade, ConnectionBreaks, WriteMessage,
                WriteFails, WriteCloseOrPing
  <2>2. \A d \in Clients : Unregistered(d)' = Unregistered(d)
    BY <1>2, <1>t DEF Peer, WritePump, Upgrade, ConnectionBreaks, WriteMessage,
                WriteFails, WriteCloseOrPing, Unregistered
  <2>. QED  BY <2>1, <2>2, OwnershipKept
<1>3. ASSUME NEW r \in Rooms, NEW c \in Clients, RunRegister(r, c)
      PROVE  Ownership'
  <2>1. /\ Unregistered(c) /\ sendOpen[c] /\ myRoom[c] = r
        /\ clients' = [clients EXCEPT ![r] = @ \cup {c}]
        /\ pc' = [pc EXCEPT ![c] = "registered"] /\ myRoom' = myRoom
    BY <1>3 DEF RunRegister, Unregistered, Ownership
  <2>2. sendOpen' = sendOpen /\ panicked' = FALSE
    BY <1>3, <1>t, <2>1 DEF RunRegister, CloseAndUse, Ownership
  <2>. QED  BY <1>t, <2>1, <2>2 DEF Ownership, Unregistered
<1>4. ASSUME NEW r \in Rooms, NEW c \in Clients, RunUnregister(r, c)
      PROVE  Ownership'
  <2>1. myRoom' = myRoom /\ \A d \in Clients : Unregistered(d)' = Unregistered(d)
    BY <1>4, <1>t DEF RunUnregister, Unregistered
  <2>2. CASE ~IsMember(r, c)
    <3>1. UNCHANGED <<clients, sendOpen, panicked>>
      BY <1>4, <2>2 DEF RunUnregister
    <3>. QED  BY <2>1, <3>1, OwnershipKept
  <2>3. CASE IsMember(r, c)
    <3>1. clients' = [clients EXCEPT ![r] = @ \ {c}] /\ CloseAndUse({c}, {})
      BY <1>4, <2>3 DEF RunUnregister
    <3>2. {c} \subseteq clients[r]
      BY <2>3 DEF IsMember
    <3>. QED  BY <1>t, <2>1, <3>1, <3>2, LetGo
  <2>. QED  BY <2>2, <2>3
<1>5. ASSUME NEW r \in Rooms, RunBroadcast(r) PROVE Ownership'
  <2>1. /\ clients' = [clients EXCEPT ![r] = @ \ Dropped(clients[r])]
        /\ CloseAndUse(Dropped(clients[r]), clients[r])
        /\ UNCHANGED <<myRoom, pc>>
    BY <1>5 DEF RunBroadcast
  <2>2. Dropped(clients[r]) \subseteq clients[r]
    BY DEF Dropped, Full
  <2>3. \A d \in Clients : Unregistered(d)' = Unregistered(d)
    BY <2>1 DEF Unregistered
  <2>. QED  BY <1>t, <2>1, <2>2, <2>3, LetGo
<1>6. ASSUME NEW r \in Rooms, RunShutdown(r) PROVE Ownership'
  <2>1. /\ clients' = [clients EXCEPT ![r] = @ \ clients[r]]
        /\ CloseAndUse(clients[r], {})
        /\ UNCHANGED <<myRoom, pc>>
    BY <1>6, <1>t DEF RunShutdown
  <2>2. \A d \in Clients : Unregistered(d)' = Unregistered(d)
    BY <2>1 DEF Unregistered
  <2>. QED  BY <1>t, <2>1, <2>2, LetGo
<1>7. ASSUME NEW e \in Events, WriteChange(e) \/ BroadcastToBoard(e)
      PROVE  Ownership'
  <2>1. UNCHANGED <<clients, sendOpen, panicked, myRoom, pc>>
    BY <1>7 DEF WriteChange, BroadcastToBoard, FindRoom, Publish
  <2>. QED  BY <2>1, OwnershipKept DEF Unregistered
<1>8. ASSUME NEW r \in Rooms, Reap(r) PROVE Ownership'
  <2>1. UNCHANGED <<clients, sendOpen, panicked, myRoom, pc>>
    BY <1>8 DEF Reap
  <2>. QED  BY <2>1, OwnershipKept DEF Unregistered
<1>9. CASE Main \/ UNCHANGED vars
  <2>1. UNCHANGED <<clients, sendOpen, panicked, myRoom, pc>>
    BY <1>9 DEF Main, StopHTTP, HubShutdown, WaitReturns, vars
  <2>. QED  BY <2>1, OwnershipKept DEF Unregistered
<1>. QED
  BY <1>1, <1>2, <1>3, <1>4, <1>5, <1>6, <1>7, <1>8, <1>9 DEF Next, Run

\* No send channel of a board connection is closed twice or used after it was
\* closed, whatever the order of disconnects, slow fan-outs and shutdown.
THEOREM NeverPanics == Spec => []NoPanic
<1>1. Init => Ownership
  BY DEF Init, Ownership, Unregistered
<1>2. Ownership => NoPanic
  BY DEF Ownership, NoPanic
<1>. QED  BY <1>1, <1>2, TypedInvariant, OwnershipStep, PTL DEF Spec

-----------------------------------------------------------------------------
(* Members are where publishers look.                                      *)

\* What a step of room r's loop does to the rooms: nothing to any other, and
\* when the loop returns the room has no members.
RunOwn(r) ==
    /\ Running(r) /\ boardRoom' = boardRoom
    /\ \A q \in Rooms : q # r => run'[q] = run[q] /\ clients'[q] = clients[q]
    /\ ~Running(r)' => clients'[r] = {}

\* Every case of the select is such a step.
LEMMA RunOnlyOwn ==
    ASSUME Typed, NEW r \in Rooms, Run(r)
    PROVE  RunOwn(r)
<1>. USE DEF Running, roomVars, hubVars, RunOwn
<1>t. run \in [Rooms -> RunStates] /\ clients \in [Rooms -> SUBSET Clients]
  BY DEF Typed, HubTyped
<1>1. ASSUME NEW c \in Clients, RunRegister(r, c) PROVE RunOwn(r)
  BY <1>1, <1>t DEF RunRegister
<1>2. ASSUME NEW c \in Clients, RunUnregister(r, c) PROVE RunOwn(r)
  BY <1>2, <1>t DEF RunUnregister
<1>3. CASE RunBroadcast(r)
  BY <1>3, <1>t DEF RunBroadcast
<1>4. CASE RunShutdown(r)
  BY <1>4, <1>t DEF RunShutdown
<1>. QED  BY <1>1, <1>2, <1>3, <1>4 DEF Run

\* Every step keeps members in running rooms and the running room in the map.
LEMMA MembersStep ==
    Typed /\ OneLiveRoom /\ MembersLive /\ [Next]_vars => OneLiveRoom' /\ MembersLive'
<1>. SUFFICES ASSUME Typed, OneLiveRoom, MembersLive, [Next]_vars, NEW q \in Rooms
              PROVE  /\ Running(q)' => boardRoom' = q
                     /\ clients'[q] # {} => Running(q)'
  BY DEF OneLiveRoom, MembersLive
<1>. USE BoardDistinctAssumption DEF OneLiveRoom, MembersLive, Running
<1>t. run \in [Rooms -> RunStates]
  BY DEF Typed, HubTyped
<1>1. CASE UNCHANGED <<boardRoom, run, clients>>
  BY <1>1
<1>2. ASSUME NEW r \in Rooms, Run(r)
      PROVE  /\ Running(q)' => boardRoom' = q
             /\ clients'[q] # {} => Running(q)'
  BY <1>2, RunOnlyOwn DEF RunOwn
<1>3. ASSUME NEW c \in Clients, NEW r \in Rooms, CreateRoom(c, r)
      PROVE  /\ Running(q)' => boardRoom' = q
             /\ clients'[q] # {} => Running(q)'
  BY <1>3, <1>t DEF CreateRoom, NotCreatedYet
<1>4. ASSUME NEW r \in Rooms, Reap(r)
      PROVE  /\ Running(q)' => boardRoom' = q
             /\ clients'[q] # {} => Running(q)'
  BY <1>4, <1>t DEF Reap
<1>5. ASSUME NEW c \in Clients,
             \/ LookupFast(c) \/ LookupAgain(c) \/ StartPumps(c) \/ ReadError(c)
             \/ Peer(c) \/ WritePump(c)
      PROVE  UNCHANGED <<boardRoom, run, clients>>
  BY <1>5 DEF LookupFast, LookupAgain, StartPumps, ReadError, Peer, WritePump,
      Upgrade, ConnectionBreaks, WriteMessage, WriteFails, WriteCloseOrPing,
      hubVars, roomVars
<1>6. ASSUME NEW e \in Events, WriteChange(e) \/ BroadcastToBoard(e)
      PROVE  UNCHANGED <<boardRoom, run, clients>>
  BY <1>6 DEF WriteChange, BroadcastToBoard, FindRoom, Publish, hubVars, roomVars
<1>7. CASE Main \/ UNCHANGED vars
  BY <1>1, <1>7 DEF Main, StopHTTP, HubShutdown, WaitReturns, vars, hubVars, roomVars
<1>. QED
  BY <1>1, <1>2, <1>3, <1>4, <1>5, <1>6, <1>7 DEF Next, Handler

\* However lookups, creations, exits, watchers and shutdown interleave, whoever
\* is a member is a member of the room that publishers find.
THEOREM MembersAreReachable == Spec => []PublishersReachMembers
<1>1. Init => OneLiveRoom /\ MembersLive
  BY DEF Init, OneLiveRoom, MembersLive, Running
<1>2. OneLiveRoom /\ MembersLive => PublishersReachMembers
  BY DEF OneLiveRoom, MembersLive, PublishersReachMembers
<1>. QED  BY <1>1, <1>2, TypedInvariant, MembersStep, PTL DEF Spec

-----------------------------------------------------------------------------
(* What a channel carries of a feed.                                       *)

\* Entry is how the events of q are entries K of f.
Entries(q, f, K, entry) ==
    /\ entry \in [EventPlaces(q) -> K]
    /\ \A i \in EventPlaces(q) : q[i] = f[entry[i]]
    /\ \A i, j \in EventPlaces(q) : i < j => entry[i] < entry[j]
    /\ \A k \in K : \E i \in EventPlaces(q) : entry[i] = k

LEMMA CarriesEntries ==
    ASSUME NEW q, NEW f, NEW K
    PROVE  Carries(q, f, K) <=> \E entry : Entries(q, f, K, entry)
BY DEF Carries, Entries

\* An empty channel carries nothing.
LEMMA CarriesNothing ==
    ASSUME NEW f
    PROVE  Carries(<<>>, f, {})
<1>1. EventPlaces(<<>>) = {}
  BY DEF EventPlaces
<1>2. Entries(<<>>, f, {}, [i \in {} |-> 0])
  BY <1>1 DEF Entries
<1>. QED  BY <1>2, CarriesEntries

\* The channel does not depend on what the feed holds elsewhere.
LEMMA CarriesSame ==
    ASSUME NEW q, NEW f, NEW g, NEW K, Carries(q, f, K), \A k \in K : g[k] = f[k]
    PROVE  Carries(q, g, K)
<1>1. PICK entry : Entries(q, f, K, entry)
  BY CarriesEntries
<1>2. Entries(q, g, K, entry)
  BY <1>1 DEF Entries
<1>. QED  BY <1>2, CarriesEntries

\* A message that is no event leaves the events as they are.
LEMMA CarriesNoise ==
    ASSUME NEW X, NEW q \in Seq(X), NEW f, NEW K, NEW m \in X, m \notin Events,
           Carries(q, f, K)
    PROVE  Carries(Append(q, m), f, K)
<1>1. PICK entry : Entries(q, f, K, entry)
  BY CarriesEntries
<1>. DEFINE p == Append(q, m)
<1>2. /\ DOMAIN p = 1 .. Len(q) + 1 /\ DOMAIN q = 1 .. Len(q) /\ Len(q) \in Nat
      /\ \A i \in DOMAIN q : p[i] = q[i]
      /\ p[Len(q) + 1] = m
  OBVIOUS
<1>. HIDE DEF p
<1>3. EventPlaces(p) = EventPlaces(q) /\ \A i \in EventPlaces(q) : p[i] = q[i]
  BY <1>2 DEF EventPlaces
<1>4. Entries(p, f, K, entry)
  BY <1>1, <1>3 DEF Entries
<1>. QED  BY <1>4, CarriesEntries DEF p

\* The next event of the feed goes to the end of the channel.
LEMMA CarriesNext ==
    ASSUME NEW X, NEW q \in Seq(X), NEW f, NEW a \in Nat, NEW n \in Nat, a <= n + 1,
           NEW e \in X, e \in Events, f[n + 1] = e, Carries(q, f, a .. n)
    PROVE  Carries(Append(q, e), f, a .. n + 1)
<1>1. PICK entry : Entries(q, f, a .. n, entry)
  BY CarriesEntries
<1>. DEFINE p == Append(q, e)
            l == Len(q) + 1
            next == [i \in EventPlaces(p) |-> IF i = l THEN n + 1 ELSE entry[i]]
<1>2. /\ DOMAIN p = 1 .. l /\ DOMAIN q = 1 .. l - 1 /\ l \in Nat \ {0}
      /\ \A i \in DOMAIN q : p[i] = q[i]
      /\ p[l] = e
  OBVIOUS
<1>. HIDE DEF p, l
<1>3. /\ EventPlaces(p) = EventPlaces(q) \cup {l} /\ l \notin EventPlaces(q)
      /\ \A i \in EventPlaces(q) : p[i] = q[i] /\ i \in Nat /\ i < l
  <2>1. \A i : i \in DOMAIN p <=> i \in DOMAIN q \/ i = l
    BY <1>2
  <2>2. l \notin DOMAIN q /\ \A i \in DOMAIN q : i \in Nat /\ i < l
    BY <1>2
  <2>. QED  BY <1>2, <2>1, <2>2 DEF EventPlaces
<1>4. next[l] = n + 1 /\ \A i \in EventPlaces(q) : next[i] = entry[i]
  BY <1>3
<1>5. next \in [EventPlaces(p) -> a .. n + 1]
  <2>1. \A i \in EventPlaces(q) : entry[i] \in a .. n
    BY <1>1 DEF Entries
  <2>. QED  BY <1>3, <1>4, <2>1
<1>. HIDE DEF next
<1>6. \A i \in EventPlaces(p) : p[i] = f[next[i]]
  BY <1>1, <1>2, <1>3, <1>4 DEF Entries
<1>7. ASSUME NEW i \in EventPlaces(p), NEW j \in EventPlaces(p), i < j
      PROVE  next[i] < next[j]
  <2>1. i \in EventPlaces(q)
    BY <1>2, <1>3, <1>7
  <2>2. entry[i] \in a .. n
    BY <1>1, <2>1 DEF Entries
  <2>. QED  BY <1>1, <1>3, <1>4, <1>7, <2>1, <2>2 DEF Entries
<1>8. ASSUME NEW k \in a .. n + 1 PROVE \E i \in EventPlaces(p) : next[i] = k
  <2>1. CASE k = n + 1
    BY <1>3, <1>4, <2>1
  <2>2. CASE k # n + 1
    <3>1. k \in a .. n
      BY <2>2
    <3>2. PICK i \in EventPlaces(q) : entry[i] = k
      BY <1>1, <3>1 DEF Entries
    <3>. QED  BY <1>3, <1>4, <3>2
  <2>. QED  BY <2>1, <2>2
<1>9. Entries(p, f, a .. n + 1, next)
  BY <1>5, <1>6, <1>7, <1>8 DEF Entries
<1>. QED  BY <1>9, CarriesEntries DEF p

\* What is left when the first message is taken out: all of it, or all but the
\* first entry.
LEMMA TailPlaces ==
    ASSUME NEW X, NEW q \in Seq(X), q # <<>>
    PROVE  /\ \A i \in EventPlaces(Tail(q)) : i + 1 \in EventPlaces(q) /\ Tail(q)[i] = q[i + 1]
           /\ \A j \in EventPlaces(q) : j # 1 => j - 1 \in EventPlaces(Tail(q))
           /\ EventPlaces(q) \subseteq Nat \ {0} /\ EventPlaces(Tail(q)) \subseteq Nat \ {0}
           /\ Head(q) = q[1] /\ (1 \in EventPlaces(q) <=> Head(q) \in Events)
<1>. DEFINE p == Tail(q)
            n == Len(q)
<1>1. /\ DOMAIN q = 1 .. n /\ DOMAIN p = 1 .. n - 1 /\ n \in Nat \ {0}
      /\ \A i \in DOMAIN p : p[i] = q[i + 1]
      /\ Head(q) = q[1]
  OBVIOUS
<1>. HIDE DEF p, n
<1>2. /\ \A i \in EventPlaces(p) : i + 1 \in EventPlaces(q) /\ p[i] = q[i + 1]
      /\ \A j \in EventPlaces(q) : j # 1 => j - 1 \in EventPlaces(p)
      /\ EventPlaces(q) \subseteq Nat \ {0} /\ EventPlaces(p) \subseteq Nat \ {0}
      /\ Head(q) = q[1] /\ (1 \in EventPlaces(q) <=> Head(q) \in Events)
  BY <1>1 DEF EventPlaces
<1>. QED  BY <1>2 DEF p

LEMMA CarriesTail ==
    ASSUME NEW X, NEW q \in Seq(X), NEW f, NEW a \in Nat, NEW n \in Nat, q # <<>>,
           Carries(q, f, a .. n)
    PROVE  /\ Head(q) \notin Events => Carries(Tail(q), f, a .. n)
           /\ Head(q) \in Events => /\ a <= n /\ Head(q) = f[a]
                                    /\ Carries(Tail(q), f, a + 1 .. n)
<1>1. PICK entry : Entries(q, f, a .. n, entry)
  BY CarriesEntries
<1>. DEFINE p == Tail(q)
            P == EventPlaces(p)
            rest == [i \in P |-> entry[i + 1]]
<1>2. /\ \A i \in P : i + 1 \in EventPlaces(q) /\ p[i] = q[i + 1]
      /\ \A j \in EventPlaces(q) : j # 1 => j - 1 \in P
      /\ EventPlaces(q) \subseteq Nat \ {0} /\ P \subseteq Nat \ {0}
      /\ Head(q) = q[1] /\ (1 \in EventPlaces(q) <=> Head(q) \in Events)
  BY TailPlaces
<1>3. \A i \in P : rest[i] = entry[i + 1]
  OBVIOUS
<1>. HIDE DEF p, rest
<1>4. /\ \A i \in P : p[i] = f[rest[i]] /\ rest[i] \in a .. n
      /\ \A i, j \in P : i < j => rest[i] < rest[j]
  <2>1. \A i \in P : i \in Nat /\ i + 1 \in EventPlaces(q)
    BY <1>2
  <2>2. ASSUME NEW i \in P, NEW j \in P, i < j PROVE rest[i] < rest[j]
    BY <1>1, <1>3, <2>1, <2>2 DEF Entries
  <2>. QED  BY <1>1, <1>2, <1>3, <2>1, <2>2 DEF Entries
<1>5. ASSUME NEW k \in a .. n, \A i \in EventPlaces(q) : entry[i] = k => i # 1
      PROVE  \E i \in P : rest[i] = k
  <2>1. PICK j \in EventPlaces(q) : entry[j] = k
    BY <1>1 DEF Entries
  <2>2. j - 1 \in P /\ j \in Nat /\ j - 1 + 1 = j
    BY <1>2, <1>5, <2>1
  <2>. QED  BY <1>3, <2>1, <2>2
<1>6. ASSUME Head(q) \notin Events PROVE Carries(p, f, a .. n)
  <2>1. 1 \notin EventPlaces(q)
    BY <1>2, <1>6
  <2>2. \A k \in a .. n : \E i \in P : rest[i] = k
    BY <1>5, <2>1
  <2>3. rest \in [P -> a .. n]
    BY <1>4 DEF rest
  <2>4. Entries(p, f, a .. n, rest)
    BY <1>4, <2>2, <2>3 DEF Entries
  <2>. QED  BY <2>4, CarriesEntries
<1>7. ASSUME Head(q) \in Events
      PROVE  a <= n /\ Head(q) = f[a] /\ Carries(p, f, a + 1 .. n)
  <2>1. 1 \in EventPlaces(q)
    BY <1>2, <1>7
  <2>2. entry[1] \in a .. n /\ a \in a .. n
    BY <1>1, <2>1 DEF Entries
  <2>3. PICK j \in EventPlaces(q) : entry[j] = a
    BY <1>1, <2>2 DEF Entries
  <2>4. entry[1] = a
    <3>1. ASSUME j # 1 PROVE FALSE
      <4>1. 1 < j
        BY <1>2, <3>1
      <4>. QED  BY <1>1, <2>1, <2>2, <2>3, <4>1 DEF Entries
    <3>. QED  BY <2>3, <3>1
  <2>5. Head(q) = f[a]
    BY <1>1, <1>2, <2>1, <2>4 DEF Entries
  <2>6. \A i \in P : rest[i] \in a + 1 .. n
    <3>1. ASSUME NEW i \in P PROVE entry[1] < rest[i]
      <4>1. 1 < i + 1 /\ i + 1 \in EventPlaces(q)
        BY <1>2
      <4>. QED  BY <1>1, <1>3, <2>1, <4>1 DEF Entries
    <3>. QED  BY <1>4, <2>4, <3>1
  <2>7. \A k \in a + 1 .. n : \E i \in P : rest[i] = k
    <3>1. ASSUME NEW k \in a + 1 .. n, NEW i \in EventPlaces(q), entry[i] = k PROVE i # 1
      BY <2>4, <3>1
    <3>2. \A k \in a + 1 .. n : k \in a .. n
      OBVIOUS
    <3>. QED  BY <1>5, <3>1, <3>2
  <2>8. rest \in [P -> a + 1 .. n]
    BY <2>6 DEF rest
  <2>9. Entries(p, f, a + 1 .. n, rest)
    BY <1>4, <2>7, <2>8 DEF Entries
  <2>. QED  BY <2>2, <2>5, <2>9, CarriesEntries
<1>. QED  BY <1>6, <1>7 DEF p

-----------------------------------------------------------------------------
(* What a connection that registered when the feed f had j entries has and *)
(* still gets of it: it received rec, and q waits in its channel.          *)

Got(f, j, rec) ==
    /\ j + Len(rec) <= Len(f)
    /\ \A i \in DOMAIN rec : rec[i] = f[j + i]

Whole(f, j, rec, q) == Carries(q, f, j + Len(rec) + 1 .. Len(f))

Part(f, j, rec, q) ==
    \E n \in j + Len(rec) .. Len(f) : Carries(q, f, j + Len(rec) + 1 .. n)

LEMMA WholeIsPart ==
    ASSUME NEW f \in Seq(Events), NEW j \in Nat, NEW rec \in Seq(Events), NEW q,
           Got(f, j, rec), Whole(f, j, rec, q)
    PROVE  Part(f, j, rec, q)
<1>1. /\ Len(f) \in Nat /\ Len(rec) \in Nat
      /\ j + Len(rec) <= Len(f)
  BY DEF Got
<1>2. Len(f) \in j + Len(rec) .. Len(f)
  BY <1>1
<1>. QED  BY <1>2 DEF Part, Whole

\* A message of another kind waits behind the events.
LEMMA NoiseKeeps ==
    ASSUME NEW f, NEW j, NEW rec, NEW X, NEW q \in Seq(X), NEW m \in X, m \notin Events,
           Whole(f, j, rec, q)
    PROVE  Whole(f, j, rec, Append(q, m))
BY CarriesNoise DEF Whole

\* The fan-out of an event, to a member that has room for it ...
LEMMA EventKeeps ==
    ASSUME NEW f \in Seq(Events), NEW j \in Nat, NEW rec \in Seq(Events),
           NEW q \in Seq(Outbound), NEW e \in Events,
           Got(f, j, rec), Whole(f, j, rec, q)
    PROVE  Whole(Append(f, e), j, rec, Append(q, e))
<1>. DEFINE g == Append(f, e)
            a == j + Len(rec) + 1
<1>1. /\ Len(g) = Len(f) + 1 /\ Len(f) \in Nat /\ g[Len(f) + 1] = e
      /\ \A k \in 1 .. Len(f) : g[k] = f[k]
  OBVIOUS
<1>2. a \in Nat \ {0} /\ a <= Len(f) + 1
  BY DEF Got
<1>3. Carries(q, f, a .. Len(f))
  BY DEF Whole
<1>. HIDE DEF g, a
<1>4. \A k \in a .. Len(f) : g[k] = f[k]
  BY <1>1, <1>2
<1>5. Carries(q, g, a .. Len(f))
  BY <1>3, <1>4, CarriesSame
<1>6. e \in Outbound
  BY DEF Outbound
<1>7. Carries(Append(q, e), g, a .. Len(f) + 1)
  BY <1>1, <1>2, <1>5, <1>6, CarriesNext
<1>. QED  BY <1>1, <1>7 DEF Whole, g, a

\* ... and to everybody else.
LEMMA FeedGrows ==
    ASSUME NEW f \in Seq(Events), NEW j \in Nat, NEW rec \in Seq(Events), NEW e \in Events,
           Got(f, j, rec)
    PROVE  /\ Got(Append(f, e), j, rec)
           /\ \A q : Part(f, j, rec, q) => Part(Append(f, e), j, rec, q)
<1>. DEFINE g == Append(f, e)
            l == Len(rec)
<1>1. /\ Len(g) = Len(f) + 1 /\ Len(f) \in Nat
      /\ \A k \in 1 .. Len(f) : g[k] = f[k]
      /\ l \in Nat /\ DOMAIN rec = 1 .. l
  OBVIOUS
<1>2. j + l <= Len(f) /\ \A i \in DOMAIN rec : rec[i] = f[j + i]
  BY DEF Got
<1>. HIDE DEF g, l
<1>3. \A i \in DOMAIN rec : rec[i] = g[j + i]
  <2>1. \A i \in 1 .. l : j + i \in 1 .. Len(f)
    BY <1>1, <1>2
  <2>. QED  BY <1>1, <1>2, <2>1
<1>4. ASSUME NEW q, Part(f, j, rec, q) PROVE Part(g, j, rec, q)
  <2>1. PICK n \in j + l .. Len(f) : Carries(q, f, j + l + 1 .. n)
    BY <1>4 DEF Part, l
  <2>2. \A k \in j + l + 1 .. n : g[k] = f[k]
    BY <1>1, <2>1
  <2>3. Carries(q, g, j + l + 1 .. n)
    BY <2>1, <2>2, CarriesSame
  <2>4. n \in j + l .. Len(g)
    BY <1>1, <2>1
  <2>. QED  BY <2>3, <2>4 DEF Part, l
<1>5. Got(g, j, rec)
  BY <1>1, <1>2, <1>3 DEF Got, l
<1>. QED  BY <1>4, <1>5 DEF g

\* WritePump takes the first message of the channel: if it is an event, it is
\* the next entry of the feed.
LEMMA Written ==
    ASSUME NEW f \in Seq(Events), NEW j \in Nat, NEW rec \in Seq(Events),
           NEW q \in Seq(Outbound), q # <<>>, Got(f, j, rec), Part(f, j, rec, q)
    PROVE  /\ Head(q) \notin Events =>
                /\ Part(f, j, rec, Tail(q))
                /\ Whole(f, j, rec, q) => Whole(f, j, rec, Tail(q))
           /\ Head(q) \in Events =>
                /\ Got(f, j, Append(rec, Head(q)))
                /\ Part(f, j, Append(rec, Head(q)), Tail(q))
                /\ Whole(f, j, rec, q) => Whole(f, j, Append(rec, Head(q)), Tail(q))
<1>. DEFINE a == j + Len(rec) + 1
<1>1. Len(f) \in Nat /\ Len(rec) \in Nat /\ a \in Nat \ {0}
  OBVIOUS
<1>2. PICK n \in j + Len(rec) .. Len(f) : Carries(q, f, a .. n)
  BY DEF Part
<1>3. n \in Nat
  BY <1>1, <1>2
<1>. HIDE DEF a
<1>4. \A m \in Nat : Carries(q, f, a .. m) =>
         /\ Head(q) \notin Events => Carries(Tail(q), f, a .. m)
         /\ Head(q) \in Events => /\ a <= m /\ Head(q) = f[a]
                                  /\ Carries(Tail(q), f, a + 1 .. m)
  BY <1>1, CarriesTail
<1>5. ASSUME Head(q) \notin Events
      PROVE  /\ Part(f, j, rec, Tail(q))
             /\ Whole(f, j, rec, q) => Whole(f, j, rec, Tail(q))
  BY <1>1, <1>2, <1>3, <1>4, <1>5 DEF Part, Whole, a
<1>6. ASSUME Head(q) \in Events
      PROVE  /\ Got(f, j, Append(rec, Head(q)))
             /\ Part(f, j, Append(rec, Head(q)), Tail(q))
             /\ Whole(f, j, rec, q) => Whole(f, j, Append(rec, Head(q)), Tail(q))
  <2>1. a <= n /\ Head(q) = f[a] /\ Carries(Tail(q), f, a + 1 .. n)
    BY <1>2, <1>3, <1>4, <1>6
  <2>2. PICK e \in Events : e = Head(q)
    BY <1>6
  <2>. DEFINE next == Append(rec, e)
  <2>3. /\ Len(next) = Len(rec) + 1 /\ DOMAIN next = 1 .. Len(rec) + 1
        /\ next[Len(rec) + 1] = e /\ DOMAIN rec = 1 .. Len(rec)
        /\ \A i \in DOMAIN rec : next[i] = rec[i]
    OBVIOUS
  <2>. HIDE DEF next
  <2>4. j + Len(next) + 1 = a + 1 /\ j + Len(next) = a /\ j + Len(rec) + 1 = a
    BY <1>1, <2>3 DEF a
  <2>5. Got(f, j, next)
    <3>1. j + Len(next) <= Len(f)
      BY <1>1, <1>2, <2>1, <2>4
    <3>2. \A i \in DOMAIN rec : rec[i] = f[j + i]
      BY DEF Got
    <3>3. ASSUME NEW i \in DOMAIN next PROVE next[i] = f[j + i]
      <4>1. CASE i = Len(rec) + 1
        <5>1. j + i = a
          BY <1>1, <2>4, <4>1
        <5>. QED  BY <2>1, <2>2, <2>3, <4>1, <5>1
      <4>2. CASE i # Len(rec) + 1
        BY <1>1, <2>3, <3>2, <4>2
      <4>. QED  BY <4>1, <4>2
    <3>. QED  BY <3>1, <3>3 DEF Got
  <2>6. Part(f, j, next, Tail(q))
    <3>1. n \in a .. Len(f)
      BY <1>1, <1>2, <1>3, <2>1
    <3>. QED  BY <2>1, <2>4, <3>1 DEF Part
  <2>7. Whole(f, j, rec, q) => Whole(f, j, next, Tail(q))
    BY <1>1, <1>4, <1>6, <2>4 DEF Whole
  <2>. QED  BY <2>2, <2>5, <2>6, <2>7 DEF next
<1>. QED  BY <1>5, <1>6

-----------------------------------------------------------------------------
(* The feed reaches every member without a gap.                            *)

Fed(c) ==
    LET f == feed[myRoom[c]] IN
    IF Unregistered(c) THEN send[c] = <<>> /\ received[c] = <<>>
    ELSE /\ Got(f, joinedAt[c], received[c])
         /\ conn[c] = "open" =>
               /\ Part(f, joinedAt[c], received[c], send[c])
               /\ c \in clients[myRoom[c]] => Whole(f, joinedAt[c], received[c], send[c])

Gapless == \A c \in Clients : Fed(c)

\* The types of one connection and of its room.
LEMMA ConnectionType ==
    ASSUME Typed, NEW c \in Clients
    PROVE  /\ send[c] \in Seq(Outbound) /\ received[c] \in Seq(Events) /\ joinedAt[c] \in Nat
           /\ ~Unregistered(c) => myRoom[c] \in Rooms /\ feed[myRoom[c]] \in Seq(Events)
<1>1. pc[c] \in PcStates
  BY DEF Typed, HandlerTyped
<1>2. ~Unregistered(c) => myRoom[c] \in Rooms
  BY <1>1 DEF Typed, HandlerTyped, Unregistered
<1>. QED  BY <1>2 DEF Typed, HubTyped, ChannelTyped

\* A step that does not concern a connection, or only breaks it or lets go of it.
LEMMA FedKept ==
    ASSUME NEW c \in Clients, Fed(c), Unregistered(c)' = Unregistered(c),
           send'[c] = send[c], received'[c] = received[c], joinedAt'[c] = joinedAt[c],
           ~Unregistered(c) =>
               /\ myRoom'[c] = myRoom[c] /\ feed'[myRoom[c]] = feed[myRoom[c]]
               /\ conn'[c] = "open" => conn[c] = "open"
               /\ c \in clients'[myRoom[c]] => c \in clients[myRoom[c]]
    PROVE  Fed(c)'
BY DEF Fed

\* WritePump, on its own connection.
LEMMA FedWritten ==
    ASSUME Typed, NEW c \in Clients, Fed(c), WritePump(c)
    PROVE  Fed(c)'
<1>. DEFINE f == feed[myRoom[c]]
            j == joinedAt[c]
            rec == received[c]
            q == send[c]
<1>1. /\ UNCHANGED <<feed, joinedAt, myRoom, clients, pc>>
      /\ conn' = conn \/ conn'[c] = "broken"
  BY DEF WritePump, WriteMessage, WriteFails, WriteCloseOrPing, PumpExits, roomVars,
         connVars, ghostVars, Typed, ChannelTyped
<1>2. Unregistered(c)' = Unregistered(c)
  BY <1>1 DEF Unregistered
<1>3. CASE WriteCloseOrPing(c)
  <2>1. UNCHANGED <<send, received>>
    BY <1>3 DEF WriteCloseOrPing, sendVars
  <2>. QED  BY <1>1, <1>2, <2>1, FedKept
<1>4. CASE WriteFails(c) \/ WriteMessage(c)
  <2>1. q # <<>> /\ send'[c] = Tail(q)
    BY <1>4 DEF WriteFails, WriteMessage, Typed, ChannelTyped
  <2>2. ~Unregistered(c)
    BY <2>1 DEF Fed
  <2>3. /\ f \in Seq(Events) /\ j \in Nat /\ rec \in Seq(Events) /\ q \in Seq(Outbound)
    BY <2>2, ConnectionType
  <2>4. /\ Got(f, j, rec)
        /\ conn[c] = "open" => Part(f, j, rec, q)
        /\ conn[c] = "open" /\ c \in clients[myRoom[c]] => Whole(f, j, rec, q)
    BY <2>2 DEF Fed
  <2>5. CASE conn'[c] # "open" /\ received'[c] = rec
    BY <1>1, <1>2, <2>2, <2>4, <2>5 DEF Fed
  <2>6. CASE conn[c] = "open" /\ WriteMessage(c)
    <3>1. received'[c] = IF Head(q) \in Events THEN Append(rec, Head(q)) ELSE rec
      BY <2>6 DEF WriteMessage, Typed, ChannelTyped
    <3>. HIDE DEF f, j, rec, q
    <3>2. /\ Head(q) \notin Events =>
                /\ Part(f, j, rec, Tail(q))
                /\ Whole(f, j, rec, q) => Whole(f, j, rec, Tail(q))
          /\ Head(q) \in Events =>
                /\ Got(f, j, Append(rec, Head(q)))
                /\ Part(f, j, Append(rec, Head(q)), Tail(q))
                /\ Whole(f, j, rec, q) => Whole(f, j, Append(rec, Head(q)), Tail(q))
      BY <2>1, <2>3, <2>4, <2>6, Written
    <3>3. /\ feed'[myRoom'[c]] = f /\ joinedAt'[c] = j
          /\ c \in clients'[myRoom'[c]] => c \in clients[myRoom[c]]
      BY <1>1 DEF f, j
    <3>4. CASE Head(q) \in Events
      BY <1>2, <2>1, <2>2, <2>4, <2>6, <3>1, <3>2, <3>3, <3>4 DEF Fed
    <3>5. CASE Head(q) \notin Events
      BY <1>2, <2>1, <2>2, <2>4, <2>6, <3>1, <3>2, <3>3, <3>5 DEF Fed
    <3>. QED  BY <3>4, <3>5
  <2>7. CASE WriteFails(c) \/ conn[c] # "open"
    <3>1. conn'[c] # "open" /\ received'[c] = rec
      BY <1>4, <2>7 DEF WriteFails, WriteMessage, PumpExits, Typed, ChannelTyped, connVars
    <3>. QED  BY <2>5, <3>1
  <2>. QED  BY <1>4, <2>6, <2>7
<1>. QED  BY <1>3, <1>4 DEF WritePump

\* A client that registers starts at the end of the feed, the others get a
\* message that is no event.
LEMMA FedRegister ==
    ASSUME Typed, Ownership, NEW r \in Rooms, NEW d \in Clients, RunRegister(r, d),
           NEW c \in Clients, Fed(c)
    PROVE  Fed(c)'
<1>. DEFINE f == feed[r]
<1>1. /\ UNCHANGED <<feed, conn, received, myRoom>>
      /\ pc' = [pc EXCEPT ![d] = "registered"] /\ pc[d] = "registering" /\ myRoom[d] = r
      /\ clients' = [clients EXCEPT ![r] = @ \cup {d}]
      /\ joinedAt' = [joinedAt EXCEPT ![d] = Len(f)]
      /\ send' = Offer(clients[r] \ {d}, UserJoined)
  BY DEF RunRegister, connVars, pumpVars
<1>2. /\ pc \in [Clients -> PcStates] /\ joinedAt \in [Clients -> Nat]
      /\ clients \in [Rooms -> SUBSET Clients] /\ f \in Seq(Events)
  BY DEF Typed, HubTyped, HandlerTyped, ChannelTyped
<1>3. CASE c = d
  <2>1. Unregistered(c) /\ ~Unregistered(c)'
    BY <1>1, <1>2, <1>3 DEF Unregistered
  <2>2. send'[c] = <<>> /\ received'[c] = <<>> /\ joinedAt'[c] = Len(f) /\ feed'[myRoom'[c]] = f
    BY <1>1, <1>2, <1>3, <2>1 DEF Offer, Fed
  <2>3. Len(f) \in Nat /\ Len(<<>>) = 0 /\ <<>> \in Seq(Events)
    BY <1>2
  <2>4. Got(f, Len(f), <<>>)
    BY <2>3 DEF Got
  <2>5. Len(f) + Len(<<>>) + 1 .. Len(f) = {}
    BY <2>3
  <2>6. Whole(f, Len(f), <<>>, <<>>)
    BY <2>5, CarriesNothing DEF Whole
  <2>7. Part(f, Len(f), <<>>, <<>>)
    BY <1>2, <2>3, <2>4, <2>6, WholeIsPart
  <2>. QED  BY <2>1, <2>2, <2>4, <2>6, <2>7 DEF Fed
<1>4. CASE c # d
  <2>1. Unregistered(c)' = Unregistered(c) /\ joinedAt'[c] = joinedAt[c]
    BY <1>1, <1>2, <1>4 DEF Unregistered
  <2>2. c \in clients'[myRoom'[c]] => c \in clients[myRoom[c]]
    BY <1>1, <1>2, <1>4 DEF Typed, HandlerTyped
  <2>3. CASE send'[c] = send[c]
    BY <1>1, <2>1, <2>2, <2>3, FedKept
  <2>4. CASE c \in clients[r] /\ send'[c] = Append(send[c], UserJoined)
    <3>1. ~Unregistered(c) /\ myRoom[c] = r
      BY <2>4 DEF Ownership
    <3>2. UserJoined \in Outbound /\ UserJoined \notin Events
      BY BoardDistinctAssumption DEF Outbound
    <3>3. /\ send[c] \in Seq(Outbound) /\ received[c] \in Seq(Events) /\ joinedAt[c] \in Nat
      BY ConnectionType
    <3>4. /\ Got(f, joinedAt[c], received[c])
          /\ conn[c] = "open" => Whole(f, joinedAt[c], received[c], send[c])
      BY <2>4, <3>1 DEF Fed
    <3>5. conn[c] = "open" => Whole(f, joinedAt[c], received[c], Append(send[c], UserJoined))
      BY <3>2, <3>3, <3>4, NoiseKeeps
    <3>6. conn[c] = "open" => Part(f, joinedAt[c], received[c], Append(send[c], UserJoined))
      BY <1>2, <3>3, <3>4, <3>5, WholeIsPart
    <3>. QED  BY <1>1, <2>1, <2>4, <3>1, <3>4, <3>5, <3>6 DEF Fed
  <2>5. send'[c] = send[c] \/ (c \in clients[r] /\ send'[c] = Append(send[c], UserJoined))
    BY <1>1 DEF Offer
  <2>. QED  BY <2>3, <2>4, <2>5
<1>. QED  BY <1>3, <1>4

\* The fan-out of an event: members get it, slow ones are no longer members.
LEMMA FedBroadcast ==
    ASSUME Typed, Ownership, NEW r \in Rooms, RunBroadcast(r), NEW c \in Clients, Fed(c)
    PROVE  Fed(c)'
<1>. DEFINE f == feed[r]
            g == feed'[r]
            j == joinedAt[c]
            rec == received[c]
            q == send[c]
<1>1. /\ broadcast[r] # <<>>
      /\ send' = Offer(clients[r], Head(broadcast[r]))
      /\ clients' = [clients EXCEPT ![r] = @ \ Full(clients[r])]
      /\ feed' = [feed EXCEPT ![r] = Append(@, Head(broadcast[r]))]
      /\ UNCHANGED <<pc, conn, received, myRoom, joinedAt>>
  BY DEF RunBroadcast, HasEvent, Dropped, connVars, pumpVars
<1>2. /\ broadcast \in [Rooms -> Seq(Events)] /\ feed \in [Rooms -> Seq(Events)]
      /\ clients \in [Rooms -> SUBSET Clients]
  BY DEF Typed, HubTyped
<1>3. PICK e \in Events : e = Head(broadcast[r])
  BY <1>1, <1>2, TailAt
<1>4. /\ \A s \in Rooms : s # r => feed'[s] = feed[s]
      /\ g = Append(f, e)
  BY <1>1, <1>2, <1>3
<1>5. Unregistered(c)' = Unregistered(c)
  BY <1>1 DEF Unregistered
<1>6. /\ send[c] \in Seq(Outbound) /\ rec \in Seq(Events) /\ j \in Nat /\ f \in Seq(Events)
      /\ ~Unregistered(c) => myRoom[c] \in Rooms
  BY <1>2, ConnectionType
<1>7. \A s \in Rooms : clients'[s] \subseteq clients[s]
  BY <1>1, <1>2
<1>8. CASE c \in clients[r]
  <2>1. ~Unregistered(c) /\ myRoom[c] = r
    BY <1>8 DEF Ownership
  <2>2. /\ Got(f, j, rec)
        /\ conn[c] = "open" => Part(f, j, rec, q) /\ Whole(f, j, rec, q)
    BY <1>8, <2>1 DEF Fed
  <2>. HIDE DEF f, j, rec, q
  <2>3. /\ Got(Append(f, e), j, rec)
        /\ conn[c] = "open" => Part(Append(f, e), j, rec, q)
    BY <1>6, <2>2, FeedGrows
  <2>4. feed'[myRoom'[c]] = Append(f, e) /\ joinedAt'[c] = j /\ received'[c] = rec
        /\ conn'[c] = conn[c] /\ ~Unregistered(c)'
    BY <1>1, <1>4, <1>5, <2>1 DEF j, rec
  <2>5. CASE c \in Full(clients[r])
    <3>1. send'[c] = q /\ c \notin clients'[myRoom'[c]]
      BY <1>1, <1>2, <2>1, <2>5 DEF Offer, q
    <3>. QED  BY <2>3, <2>4, <3>1 DEF Fed
  <2>6. CASE c \notin Full(clients[r])
    <3>1. send'[c] = Append(q, e)
      BY <1>1, <1>3, <1>8, <2>6 DEF Offer, q
    <3>2. conn[c] = "open" => Whole(Append(f, e), j, rec, Append(q, e))
      <4>1. q \in Seq(Outbound)
        BY <1>6 DEF q
      <4>. QED  BY <1>6, <2>2, <4>1, EventKeeps
    <3>3. conn[c] = "open" => Part(Append(f, e), j, rec, Append(q, e))
      <4>1. Append(f, e) \in Seq(Events)
        BY <1>6
      <4>. QED  BY <1>6, <2>3, <3>2, <4>1, WholeIsPart
    <3>. QED  BY <2>3, <2>4, <3>1, <3>2, <3>3 DEF Fed
  <2>. QED  BY <2>5, <2>6
<1>9. CASE c \notin clients[r] /\ ~Unregistered(c) /\ myRoom[c] = r
  <2>1. send'[c] = q
    BY <1>1, <1>9 DEF Offer
  <2>2. /\ Got(f, j, rec)
        /\ conn[c] = "open" => Part(f, j, rec, q)
    BY <1>9 DEF Fed
  <2>. HIDE DEF f, j, rec, q
  <2>3. /\ Got(Append(f, e), j, rec)
        /\ conn[c] = "open" => Part(Append(f, e), j, rec, q)
    BY <1>6, <2>2, FeedGrows
  <2>4. feed'[myRoom'[c]] = Append(f, e) /\ joinedAt'[c] = j /\ received'[c] = rec
        /\ conn'[c] = conn[c] /\ ~Unregistered(c)' /\ c \notin clients'[myRoom'[c]]
    BY <1>1, <1>4, <1>5, <1>7, <1>9 DEF j, rec
  <2>. QED  BY <2>1, <2>3, <2>4 DEF Fed
<1>10. CASE c \notin clients[r] /\ (Unregistered(c) \/ myRoom[c] # r)
  <2>1. send'[c] = q
    BY <1>1, <1>10 DEF Offer
  <2>. QED  BY <1>1, <1>4, <1>5, <1>6, <1>7, <1>10, <2>1, FedKept
<1>. QED  BY <1>8, <1>9, <1>10

\* Every step.
LEMMA GaplessStep == Typed /\ Ownership /\ Gapless /\ [Next]_vars => Gapless'
<1>. SUFFICES ASSUME Typed, Ownership, [Next]_vars, NEW c \in Clients, Fed(c)
              PROVE  Fed(c)'
  BY DEF Gapless
<1>. USE DEF hubVars, roomVars, connVars, sendVars, pumpVars, pubVars, ghostVars
<1>t. /\ clients \in [Rooms -> SUBSET Clients] /\ pc \in [Clients -> PcStates]
      /\ myRoom \in [Clients -> Rooms \cup {NoRoom}] /\ conn \in [Clients -> {"open", "broken"}]
      /\ ~Unregistered(c) => myRoom[c] \in Rooms
  BY ConnectionType DEF Typed, HubTyped, HandlerTyped, ChannelTyped
<1>1. ASSUME NEW d \in Clients, Handler(d) PROVE Fed(c)'
  <2>1. UNCHANGED <<clients, send, received, joinedAt, feed, conn>>
    BY <1>1 DEF Handler, LookupFast, LookupAgain, CreateRoom, StartPumps, ReadError
  <2>2. /\ Unregistered(c)' = Unregistered(c)
        /\ ~Unregistered(c) => myRoom'[c] = myRoom[c]
    BY <1>1, <1>t DEF Handler, LookupFast, LookupAgain, CreateRoom, StartPumps,
                ReadError, TakeRoom, Unregistered
  <2>. QED  BY <2>1, <2>2, FedKept
<1>2. ASSUME NEW d \in Clients, Peer(d) PROVE Fed(c)'
  <2>1. /\ UNCHANGED <<clients, send, received, joinedAt, feed, myRoom>>
        /\ conn'[c] = "open" => conn[c] = "open"
    BY <1>2, <1>t DEF Peer, Upgrade, ConnectionBreaks
  <2>2. Unregistered(c)' = Unregistered(c)
    BY <1>2, <1>t DEF Peer, Upgrade, ConnectionBreaks, Unregistered
  <2>. QED  BY <2>1, <2>2, FedKept
<1>3. ASSUME NEW d \in Clients, WritePump(d) PROVE Fed(c)'
  <2>1. CASE c = d
    BY <1>3, <2>1, FedWritten
  <2>2. CASE c # d
    <3>1. /\ UNCHANGED <<clients, joinedAt, feed, myRoom, pc>>
          /\ send'[c] = send[c] /\ received'[c] = received[c] /\ conn'[c] = conn[c]
      BY <1>3, <2>2 DEF WritePump, WriteMessage, WriteFails, WriteCloseOrPing, PumpExits,
                        Typed, ChannelTyped
    <3>. QED  BY <3>1, FedKept DEF Unregistered
  <2>. QED  BY <2>1, <2>2
<1>4. ASSUME NEW r \in Rooms, NEW d \in Clients, RunUnregister(r, d) PROVE Fed(c)'
  <2>1. /\ UNCHANGED <<send, received, joinedAt, feed, myRoom, conn>>
        /\ Unregistered(c)' = Unregistered(c)
        /\ \A s \in Rooms : clients'[s] \subseteq clients[s]
    BY <1>4, <1>t DEF RunUnregister, Unregistered
  <2>. QED  BY <1>t, <2>1, FedKept
<1>5. ASSUME NEW r \in Rooms, RunShutdown(r) PROVE Fed(c)'
  <2>1. /\ UNCHANGED <<send, received, joinedAt, feed, myRoom, conn, pc>>
        /\ \A s \in Rooms : clients'[s] \subseteq clients[s]
    BY <1>5, <1>t DEF RunShutdown
  <2>. QED  BY <1>t, <2>1, FedKept DEF Unregistered
<1>6. ASSUME NEW r \in Rooms, Run(r) PROVE Fed(c)'
  BY <1>4, <1>5, <1>6, FedRegister, FedBroadcast DEF Run
<1>7. ASSUME UNCHANGED <<clients, send, received, joinedAt, feed, myRoom, conn, pc>>
      PROVE  Fed(c)'
  BY <1>7, FedKept DEF Unregistered
<1>8. ASSUME NEW r \in Rooms, Reap(r) PROVE Fed(c)'
  BY <1>7, <1>8 DEF Reap
<1>9. ASSUME NEW e \in Events, WriteChange(e) \/ BroadcastToBoard(e) PROVE Fed(c)'
  BY <1>7, <1>9 DEF WriteChange, BroadcastToBoard, FindRoom, Publish
<1>10. CASE Main \/ UNCHANGED vars
  BY <1>7, <1>10 DEF Main, StopHTTP, HubShutdown, WaitReturns, vars
<1>. QED
  BY <1>1, <1>2, <1>3, <1>6, <1>8, <1>9, <1>10 DEF Next

\* A member of a board room gets every event its room sends out from the moment
\* it registered, in order and once; what it has received is always a beginning
\* of that, however slow it or others are and whatever connects, ends or is
\* replaced meanwhile.
THEOREM NoEventIsSkipped == Spec => []FeedWithoutGap
<1>1. Init => Ownership /\ Gapless
  BY DEF Init, Ownership, Gapless, Fed, Unregistered
<1>2. Gapless => FeedWithoutGap
  BY DEF Gapless, Fed, FeedWithoutGap, Got, Whole, Reached
<1>. QED  BY <1>1, <1>2, TypedInvariant, OwnershipStep, GaplessStep, PTL DEF Spec

=============================================================================
