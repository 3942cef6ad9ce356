---------------------------- MODULE DocRoomProofs ----------------------------
(***************************************************************************)
(* Theorems about DocRoom, for any number of connections, rooms and edits  *)
(* and any channel capacities.                                             *)
(*                                                                         *)
(* The invariants are proved in layers: types (with where Run() holds a    *)
(* message), then who owns a send channel, then the single event loop,     *)
(* then persistence before delivery, then where an edit is on its way and  *)
(* what of the log a channel holds; each layer uses the ones before.  The  *)
(* last one carries the steps of DocRoom to steps of DocLog.               *)
(***************************************************************************)
EXTENDS DocRoom, SequenceTheorems, TLAPS

-----------------------------------------------------------------------------
\* Run() has a message in hand exactly while it persists it or sends it out.
TaskHeld ==
    \A r \in Rooms : run[r] \in {"persist", "fanout"} => task[r] \in RoomMessage

\* Past GetOrCreateDocRoom a handler has a room.
RoomChosen ==
    \A c \in Clients :
        pc[c] \notin {"idle", "upgraded", "creating"} => myRoom[c] \in Rooms

\* The layer of types.
Typed == TypeOK /\ TaskHeld /\ RoomChosen

\* A client's channel is open until its room lets go of it, and it is in no
\* room but its own.
Ownership ==
    /\ ~panicked
    /\ \A c \in Clients : Unregistered(c) => sendOpen[c]
    /\ \A r \in Rooms : \A c \in clients[r] :
          sendOpen[c] /\ myRoom[c] = r /\ ~Unregistered(c)

Logged == {e \in Edits : \E k \in DOMAIN db : db[k] = e}
Shown == Logged \cup {SyncStep1, Presence}

\* Channels and peers hold logged edits only, and so does Run() when it is
\* about to send one out.
PersistedFirst ==
    /\ send \in [Clients -> Seq(Shown)]
    /\ received \in [Clients -> Seq(Logged)]
    /\ \A r \in Rooms : run[r] = "fanout" => task[r].data \in Logged

-----------------------------------------------------------------------------
\* A non-blocking send keeps the channels well formed.
LEMMA OfferType ==
    ASSUME NEW X, send \in [Clients -> Seq(X)], NEW S, NEW m \in X
    PROVE  Offer(S, m) \in [Clients -> Seq(X)]
<1>1. \A c \in Clients : Append(send[c], m) \in Seq(X)
  OBVIOUS
<1>. QED  BY <1>1 DEF Offer

\* So does a blocking send to, or a receive from, one channel of a family.
LEMMA AppendAt ==
    ASSUME NEW S, NEW D, NEW f \in [D -> Seq(S)], NEW x \in D, NEW m \in S
    PROVE  [f EXCEPT ![x] = Append(@, m)] \in [D -> Seq(S)]
<1>1. Append(f[x], m) \in Seq(S)
  OBVIOUS
<1>. QED  BY <1>1

\* The initial state is well typed.
LEMMA TypedInit == Init => Typed
<1>. SUFFICES ASSUME Init PROVE Typed
  OBVIOUS
<1>. USE CapAssumption, DistinctAssumption DEF Init
<1>1. TypeOK
  <2>1. /\ broadcast \in [Rooms -> Seq(RoomMessage)]
        /\ awareness \in [Rooms -> Seq(Clients)]
    OBVIOUS
  <2>2. /\ send \in [Clients -> Seq(Outbound)]
        /\ received \in [Clients -> Seq(Edits)]
        /\ db \in Seq(Edits)
    OBVIOUS
  <2>3. cursorMoves \in 0..MaxCursorMoves /\ joinedAt \in [Clients -> Nat]
    OBVIOUS
  <2>. QED  BY <2>1, <2>2, <2>3 DEF TypeOK, RunStates, PcStates, MainStates
<1>2. TaskHeld /\ RoomChosen
  BY DEF TaskHeld, RoomChosen
<1>. QED  BY <1>1, <1>2 DEF Typed

\* Every step keeps the state well typed.
LEMMA TypedStep == Typed /\ [Next]_vars => Typed'
<1>. SUFFICES ASSUME Typed, [Next]_vars PROVE Typed'
  OBVIOUS
<1>. USE CapAssumption, DistinctAssumption
     DEF Typed, TypeOK, TaskHeld, RoomChosen, RunStates, PcStates, MainStates,
         hubVars, queueVars, roomVars, connVars, sendVars, pumpVars, logVars
<1>1. ASSUME NEW c \in Clients, Upgrade(c) PROVE Typed'
  BY <1>1 DEF Upgrade
<1>2. ASSUME NEW c \in Clients, LookupFast(c) PROVE Typed'
  <2>1. CASE docRoom # NoRoom
    <3>1. TakeRoom(c, docRoom)
      BY <1>2, <2>1 DEF LookupFast
    <3>2. UNCHANGED <<hubVars, queueVars, roomVars, held, conn, sendVars,
                      pumpVars, logVars>>
      BY <1>2 DEF LookupFast
    <3>. QED  BY <2>1, <3>1, <3>2 DEF TakeRoom
  <2>2. CASE docRoom = NoRoom
    BY <1>2, <2>2 DEF LookupFast, TakeRoom
  <2>. QED  BY <2>1, <2>2
<1>3. ASSUME NEW c \in Clients, LookupAgain(c) PROVE Typed'
  BY <1>3 DEF LookupAgain, TakeRoom
<1>4. ASSUME NEW c \in Clients, NEW r \in Rooms, CreateRoom(c, r) PROVE Typed'
  BY <1>4 DEF CreateRoom, TakeRoom
<1>5. ASSUME NEW c \in Clients, StartPumps(c) PROVE Typed'
  BY <1>5 DEF StartPumps
<1>6. ASSUME NEW c \in Clients, NEW e \in Edits, ReadEdit(c, e) PROVE Typed'
  BY <1>6 DEF ReadEdit
<1>7. ASSUME NEW c \in Clients, ReadPresence(c) PROVE Typed'
  BY <1>7 DEF ReadPresence
<1>8. ASSUME NEW c \in Clients, ReadError(c) PROVE Typed'
  BY <1>8 DEF ReadError
<1>9. ASSUME NEW c \in Clients, SendEdit(c) PROVE Typed'
  <2>1. [sender |-> c, data |-> held[c]] \in RoomMessage
    BY <1>9 DEF SendEdit, RoomMessage
  <2>2. broadcast' \in [Rooms -> Seq(RoomMessage)]
    <3>1. PICK m \in RoomMessage :
            broadcast' = [broadcast EXCEPT ![myRoom[c]] = Append(@, m)]
      BY <1>9, <2>1, Zenon DEF SendEdit
    <3>2. myRoom[c] \in Rooms
      BY <1>9 DEF SendEdit
    <3>. QED  BY <3>1, <3>2, AppendAt
  <2>. QED  BY <1>9, <2>2 DEF SendEdit
<1>10. ASSUME NEW c \in Clients, SendPresence(c) PROVE Typed'
  <2>1. awareness' \in [Rooms -> Seq(Clients)]
    BY <1>10, AppendAt DEF SendPresence
  <2>. QED  BY <1>10, <2>1 DEF SendPresence
<1>11. ASSUME NEW c \in Clients, ConnectionBreaks(c) PROVE Typed'
  BY <1>11 DEF ConnectionBreaks
<1>12. ASSUME NEW c \in Clients, WriteMessage(c) PROVE Typed'
  BY <1>12 DEF WriteMessage
<1>13. ASSUME NEW c \in Clients, WriteFails(c) PROVE Typed'
  BY <1>13 DEF WriteFails, PumpExits
<1>14. ASSUME NEW c \in Clients, WriteClose(c) PROVE Typed'
  BY <1>14 DEF WriteClose, PumpExits
<1>15. ASSUME NEW c \in Clients, PingFails(c) PROVE Typed'
  BY <1>15 DEF PingFails, PumpExits
<1>16. ASSUME NEW r \in Rooms, NEW c \in Clients, RunRegister(r, c) PROVE Typed'
  <2>1. Offer(clients[r] \ {c}, Presence) \in [Clients -> Seq(Outbound)]
    BY OfferType DEF Outbound
  <2>2. send' \in [Clients -> Seq(Outbound)]
    <3>1. SyncStep1 \in Outbound
      BY DEF Outbound
    <3>2. PICK f \in [Clients -> Seq(Outbound)] :
            send' = [f EXCEPT ![c] = Append(@, SyncStep1)]
      BY <1>16, <2>1, Zenon DEF RunRegister
    <3>. QED  BY <3>1, <3>2, AppendAt
  <2>3. sendOpen' \in [Clients -> BOOLEAN] /\ panicked' \in BOOLEAN
    BY <1>16 DEF RunRegister, CloseAndUse
  <2>4. /\ pc' = [pc EXCEPT ![c] = "registered"] /\ myRoom[c] = r
        /\ clients' = [clients EXCEPT ![r] = @ \cup {c}]
        /\ joinedAt' = [joinedAt EXCEPT ![c] = Len(db)]
        /\ UNCHANGED <<hubVars, queueVars, run, shutdown, task, myRoom, held,
                       conn, pumpVars, db, author, cursorMoves>>
    BY <1>16 DEF RunRegister
  <2>. QED  BY <2>2, <2>3, <2>4
<1>17. ASSUME NEW r \in Rooms, NEW c \in Clients, RunUnregister(r, c) PROVE Typed'
  <2>1. Offer(clients[r] \ {c}, Presence) \in [Clients -> Seq(Outbound)]
    BY OfferType DEF Outbound
  <2>2. send' \in [Clients -> Seq(Outbound)]
    BY <1>17, <2>1 DEF RunUnregister
  <2>3. sendOpen' \in [Clients -> BOOLEAN] /\ panicked' \in BOOLEAN
    BY <1>17 DEF RunUnregister, CloseAndUse
  <2>4. CASE ~IsMember(r, c)
    <3>1. UNCHANGED <<clients, run, send, sendOpen, panicked>>
      BY <1>17, <2>4 DEF RunUnregister
    <3>2. /\ pc' = [pc EXCEPT ![c] = "returned"]
          /\ pc[c] = "unregistering"
          /\ UNCHANGED <<hubVars, queueVars, shutdown, task, myRoom, held, conn,
                         pumpVars, logVars>>
      BY <1>17 DEF RunUnregister
    <3>. QED  BY <3>1, <3>2
  <2>5. CASE IsMember(r, c)
    <3>1. /\ clients' = [clients EXCEPT ![r] = @ \ {c}]
          /\ run' \in {run, [run EXCEPT ![r] = "done"]}
      BY <1>17, <2>5 DEF RunUnregister
    <3>2. /\ pc' = [pc EXCEPT ![c] = "returned"]
          /\ pc[c] = "unregistering"
          /\ UNCHANGED <<hubVars, queueVars, shutdown, task, myRoom, held, conn,
                         pumpVars, logVars>>
      BY <1>17 DEF RunUnregister
    <3>. QED  BY <2>2, <2>3, <3>1, <3>2
  <2>. QED  BY <2>4, <2>5
<1>18. ASSUME NEW r \in Rooms, RunBroadcast(r) PROVE Typed'
  <2>1. Head(broadcast[r]) \in RoomMessage /\ Tail(broadcast[r]) \in Seq(RoomMessage)
    BY <1>18 DEF RunBroadcast
  <2>. QED  BY <1>18, <2>1 DEF RunBroadcast
<1>19. ASSUME NEW r \in Rooms, PersistOK(r) PROVE Typed'
  <2>1. task[r].data \in Edits
    BY <1>19 DEF PersistOK, RoomMessage
  <2>. QED  BY <1>19, <2>1 DEF PersistOK
<1>20. ASSUME NEW r \in Rooms, PersistFails(r) PROVE Typed'
  BY <1>20 DEF PersistFails
<1>21. ASSUME NEW r \in Rooms, RunFanout(r) PROVE Typed'
  <2>1. task[r].data \in Outbound
    BY <1>21 DEF RunFanout, RoomMessage, Outbound
  <2>2. send' \in [Clients -> Seq(Outbound)]
    BY <1>21, <2>1, OfferType DEF RunFanout
  <2>3. sendOpen' \in [Clients -> BOOLEAN] /\ panicked' \in BOOLEAN
    BY <1>21 DEF RunFanout, CloseAndUse
  <2>. QED  BY <1>21, <2>2, <2>3 DEF RunFanout
<1>22. ASSUME NEW r \in Rooms, RunAwareness(r) PROVE Typed'
  <2>1. send' \in [Clients -> Seq(Outbound)]
    BY <1>22, OfferType DEF RunAwareness, Outbound
  <2>2. sendOpen' \in [Clients -> BOOLEAN] /\ panicked' \in BOOLEAN
    BY <1>22 DEF RunAwareness, CloseAndUse
  <2>3. awareness' \in [Rooms -> Seq(Clients)]
    BY <1>22 DEF RunAwareness
  <2>. QED  BY <1>22, <2>1, <2>2, <2>3 DEF RunAwareness
<1>23. ASSUME NEW r \in Rooms, RunShutdown(r) PROVE Typed'
  <2>1. sendOpen' \in [Clients -> BOOLEAN] /\ panicked' \in BOOLEAN
    BY <1>23 DEF RunShutdown, CloseAndUse
  <2>. QED  BY <1>23, <2>1 DEF RunShutdown
<1>24. ASSUME NEW r \in Rooms, Reap(r) PROVE Typed'
  BY <1>24 DEF Reap, Forget
<1>25. ASSUME StopHTTP \/ WaitReturns \/ ClosePool PROVE Typed'
  BY <1>25 DEF StopHTTP, WaitReturns, ClosePool
<1>26. ASSUME HubShutdown PROVE Typed'
  BY <1>26 DEF HubShutdown
<1>27. CASE UNCHANGED vars
  BY <1>27 DEF vars
<1>. QED
  BY <1>1, <1>2, <1>3, <1>4, <1>5, <1>6, <1>7, <1>8, <1>9, <1>10, <1>11, <1>12,
     <1>13, <1>14, <1>15, <1>16, <1>17, <1>18, <1>19, <1>20, <1>21, <1>22,
     <1>23, <1>24, <1>25, <1>26, <1>27
  DEF Next, Handler, Peer, WritePump, Run, Serve, Persist, Main

\* The state of the hub is always well typed, a message is in Run()'s hands
\* whenever it persists or sends one, and a handler past the lookup has a room.
THEOREM TypedInvariant == Spec => []Typed
<1>. QED  BY TypedInit, TypedStep, PTL DEF Spec

\* Type correctness of the hub.
THEOREM TypeCorrect == Spec => []TypeOK
<1>1. Typed => TypeOK
  BY DEF Typed
<1>. QED  BY <1>1, TypedInvariant, PTL

-----------------------------------------------------------------------------
(* The send channel of a client: closed once, never used afterwards.       *)

\* A step of Run(r) that closes the channels of S and uses those of T, all of
\* them members of r, and lets go of S.
LEMMA LetGo ==
    ASSUME Ownership, NEW r \in Rooms, NEW S, NEW T,
           S \subseteq clients[r], T \subseteq clients[r],
           clients \in [Rooms -> SUBSET Clients],
           sendOpen \in [Clients -> BOOLEAN],
           clients' = [clients EXCEPT ![r] = @ \ S],
           CloseAndUse(S, T),
           myRoom' = myRoom,
           \A c \in Clients : Unregistered(c)' = Unregistered(c)
    PROVE  Ownership'
<1>. USE DEF Ownership, CloseAndUse
<1>1. ~panicked'
  OBVIOUS
<1>2. ASSUME NEW c \in Clients, Unregistered(c)' PROVE sendOpen'[c]
  BY <1>2
<1>3. ASSUME NEW q \in Rooms, NEW c \in clients'[q]
      PROVE  sendOpen'[c] /\ myRoom'[c] = q /\ ~Unregistered(c)'
  <2>1. c \in clients[q] /\ c \in Clients
    OBVIOUS
  <2>2. sendOpen[c] /\ myRoom[c] = q /\ ~Unregistered(c)
    BY <2>1
  <2>3. c \notin S
    BY <2>2
  <2>. QED  BY <2>1, <2>2, <2>3
<1>. QED  BY <1>1, <1>2, <1>3

\* A step that touches neither the rooms nor the channels, and takes no handler
\* back before Register or to another room once registered.
LEMMA OwnershipKept ==
    ASSUME Ownership, Typed, UNCHANGED <<clients, sendOpen, panicked>>,
           \A c \in Clients : Unregistered(c)' = Unregistered(c),
           \A c \in Clients : ~Unregistered(c) => myRoom'[c] = myRoom[c]
    PROVE  Ownership'
<1>1. \A r \in Rooms : clients[r] \subseteq Clients
  BY DEF Typed, TypeOK
<1>. QED  BY <1>1 DEF Ownership

\* Every step keeps the ownership of send channels.
LEMMA OwnershipStep == Typed /\ Ownership /\ [Next]_vars => Ownership'
<1>. SUFFICES ASSUME Typed, Ownership, [Next]_vars PROVE Ownership'
  OBVIOUS
<1>. USE DEF hubVars, queueVars, roomVars, connVars, sendVars, pumpVars, logVars
<1>t. /\ clients \in [Rooms -> SUBSET Clients]
      /\ sendOpen \in [Clients -> BOOLEAN]
      /\ pc \in [Clients -> PcStates]
      /\ myRoom \in [Clients -> Rooms \cup {NoRoom}]
  BY DEF Typed, TypeOK
<1>1. ASSUME NEW c \in Clients, Handler(c) PROVE Ownership'
  <2>1. UNCHANGED <<clients, sendOpen, panicked>>
    BY <1>1 DEF Handler, LookupFast, LookupAgain, CreateRoom, StartPumps,
                ReadError, SendEdit, SendPresence
  <2>2. \A d \in Clients : Unregistered(d)' = Unregistered(d)
    BY <1>1, <1>t DEF Handler, LookupFast, LookupAgain, CreateRoom, StartPumps,
                ReadError, SendEdit, SendPresence, TakeRoom, Unregistered
  <2>3. \A d \in Clients : ~Unregistered(d) => myRoom'[d] = myRoom[d]
    BY <1>1, <1>t DEF Handler, LookupFast, LookupAgain, CreateRoom, StartPumps,
                ReadError, SendEdit, SendPresence, TakeRoom, Unregistered
  <2>. QED  BY <2>1, <2>2, <2>3, OwnershipKept
<1>2. ASSUME NEW c \in Clients, Peer(c) \/ WritePump(c) PROVE Ownership'
  <2>1. UNCHANGED <<clients, sendOpen, panicked, myRoom>>
    BY <1>2 DEF Peer, WritePump, Upgrade, ReadEdit, ReadPresence,
                ConnectionBreaks, WriteMessage, WriteFails, WriteClose, PingFails
  <2>2. \A d \in Clients : Unregistered(d)' = Unregistered(d)
    BY <1>2, <1>t DEF Peer, WritePump, Upgrade, ReadEdit, ReadPresence,
                ConnectionBreaks, WriteMessage, WriteFails, WriteClose, PingFails,
                Unregistered
  <2>. QED  BY <2>1, <2>2, OwnershipKept
<1>3. ASSUME NEW r \in Rooms, NEW c \in Clients, RunRegister(r, c)
      PROVE  Ownership'
  <2>1. /\ Unregistered(c) /\ sendOpen[c] /\ myRoom[c] = r
        /\ clients' = [clients EXCEPT ![r] = @ \cup {c}]
        /\ pc' = [pc EXCEPT ![c] = "registered"] /\ myRoom' = myRoom
    BY <1>3 DEF RunRegister, Unregistered, Ownership
  <2>2. sendOpen' = sendOpen /\ panicked' = FALSE
    BY <1>3, <1>t, <2>1 DEF RunRegister, CloseAndUse, Ownership
  <2>. QED  BY <1>t, <2>1, <2>2 DEF Ownership, Unregistered
<1>4. ASSUME NEW r \in Rooms, NEW c \in Clients, RunUnregister(r, c)
      PROVE  Ownership'
  <2>1. myRoom' = myRoom /\ \A d \in Clients : Unregistered(d)' = Unregistered(d)
    BY <1>4, <1>t DEF RunUnregister, Unregistered
  <2>2. CASE ~IsMember(r, c)
    <3>1. UNCHANGED <<clients, sendOpen, panicked>>
      BY <1>4, <2>2 DEF RunUnregister
    <3>. QED  BY <2>1, <3>1, OwnershipKept
  <2>3. CASE IsMember(r, c)
    <3>1. /\ clients' = [clients EXCEPT ![r] = @ \ {c}]
          /\ CloseAndUse({c}, clients[r] \ {c})
      BY <1>4, <2>3 DEF RunUnregister
    <3>2. {c} \subseteq clients[r] /\ clients[r] \ {c} \subseteq clients[r]
      BY <2>3 DEF IsMember
    <3>. QED  BY <1>t, <2>1, <3>1, <3>2, LetGo
  <2>. QED  BY <2>2, <2>3
<1>5. ASSUME NEW r \in Rooms, RunBroadcast(r) \/ Persist(r) \/ Reap(r)
      PROVE  Ownership'
  <2>1. UNCHANGED <<clients, sendOpen, panicked, myRoom, pc>>
    BY <1>5 DEF RunBroadcast, Persist, PersistOK, PersistFails, Reap
  <2>. QED  BY <2>1, OwnershipKept DEF Unregistered
<1>6. ASSUME NEW r \in Rooms, RunFanout(r) PROVE Ownership'
  <2>. DEFINE targets == clients[r] \ {task[r].sender}
              slow == Dropped(targets)
  <2>1. /\ clients' = [clients EXCEPT ![r] = @ \ slow]
        /\ CloseAndUse(slow, targets)
        /\ UNCHANGED <<myRoom, pc>>
    BY <1>6 DEF RunFanout
  <2>2. slow \subseteq clients[r] /\ targets \subseteq clients[r]
    BY DEF Dropped, Full
  <2>3. \A d \in Clients : Unregistered(d)' = Unregistered(d)
    BY <2>1 DEF Unregistered
  <2>. HIDE DEF targets, slow
  <2>. QED  BY <1>t, <2>1, <2>2, <2>3, LetGo
<1>7. ASSUME NEW r \in Rooms, RunAwareness(r) PROVE Ownership'
  <2>1. UNCHANGED <<clients, myRoom, pc>>
    BY <1>7 DEF RunAwareness
  <2>2. sendOpen' = sendOpen /\ panicked' = FALSE
    BY <1>7, <1>t DEF RunAwareness, CloseAndUse, Ownership
  <2>. QED  BY <2>1, <2>2, OwnershipKept DEF Unregistered, Ownership
<1>8. ASSUME NEW r \in Rooms, RunShutdown(r) PROVE Ownership'
  <2>1. /\ clients' = [clients EXCEPT ![r] = @ \ clients[r]]
        /\ CloseAndUse(clients[r], {})
        /\ UNCHANGED <<myRoom, pc>>
    BY <1>8, <1>t DEF RunShutdown
  <2>2. \A d \in Clients : Unregistered(d)' = Unregistered(d)
    BY <2>1 DEF Unregistered
  <2>. QED  BY <1>t, <2>1, <2>2, LetGo
<1>9. CASE Main
  <2>1. UNCHANGED <<clients, sendOpen, panicked, myRoom, pc>>
    BY <1>9 DEF Main, StopHTTP, HubShutdown, WaitReturns, ClosePool
  <2>. QED  BY <2>1, OwnershipKept DEF Unregistered
<1>10. CASE UNCHANGED vars
  <2>1. UNCHANGED <<clients, sendOpen, panicked, myRoom, pc>>
    BY <1>10 DEF vars
  <2>. QED  BY <2>1, OwnershipKept DEF Unregistered
<1>. QED
  BY <1>1, <1>2, <1>3, <1>4, <1>5, <1>6, <1>7, <1>8, <1>9, <1>10 DEF Next, Run, Serve

\* No send channel is closed twice or used after it was closed, whatever the
\* order of disconnects, slow fanouts, failed writes and shutdown.
THEOREM NeverPanics == Spec => []NoPanic
<1>1. Init => Ownership
  BY DEF Init, Ownership, Unregistered
<1>2. Ownership => NoPanic
  BY DEF Ownership, NoPanic
<1>. QED  BY <1>1, <1>2, TypedInvariant, OwnershipStep, PTL DEF Spec

-----------------------------------------------------------------------------
(* At most one event loop.                                                 *)

\* A room's event loop runs only while the hub's map holds the room.
LEMMA OneLiveRoomStep == Typed /\ OneLiveRoom /\ [Next]_vars => OneLiveRoom'
<1>. SUFFICES ASSUME Typed, OneLiveRoom, [Next]_vars,
                     NEW q \in Rooms, Running(q)'
              PROVE  docRoom' = q
  BY DEF OneLiveRoom
<1>. USE DistinctAssumption
     DEF OneLiveRoom, Running, hubVars, queueVars, roomVars, connVars, sendVars,
         pumpVars, logVars
<1>t. run \in [Rooms -> RunStates]
  BY DEF Typed, TypeOK
<1>1. ASSUME NEW c \in Clients, NEW r \in Rooms, CreateRoom(c, r)
      PROVE  docRoom' = q
  BY <1>1, <1>t DEF CreateRoom, NotCreatedYet
<1>2. ASSUME NEW c \in Clients,
             \/ Peer(c) \/ WritePump(c) \/ LookupFast(c) \/ LookupAgain(c)
             \/ StartPumps(c) \/ ReadError(c) \/ SendEdit(c) \/ SendPresence(c)
      PROVE  docRoom' = q
  <2>1. UNCHANGED <<docRoom, run>>
    BY <1>2 DEF LookupFast, LookupAgain, StartPumps, ReadError, SendEdit,
                SendPresence, Peer, WritePump, Upgrade, ReadEdit, ReadPresence,
                ConnectionBreaks, WriteMessage, WriteFails, WriteClose, PingFails
  <2>. QED  BY <2>1
<1>3. ASSUME NEW r \in Rooms, Run(r) PROVE docRoom' = q
  <2>1. docRoom' = docRoom
    BY <1>3 DEF Run, Serve, RunRegister, RunUnregister, RunBroadcast, Persist,
                PersistOK, PersistFails, RunFanout, RunAwareness, RunShutdown
  <2>2. Running(r) /\ \A p \in Rooms : p # r => run'[p] = run[p]
    BY <1>3, <1>t
       DEF Run, Serve, RunRegister, RunUnregister, RunBroadcast, Persist,
           PersistOK, PersistFails, RunFanout, RunAwareness, RunShutdown
  <2>. QED  BY <2>1, <2>2
<1>4. ASSUME NEW r \in Rooms, Reap(r) PROVE docRoom' = q
  BY <1>4, <1>t DEF Reap, Forget
<1>5. CASE Main \/ UNCHANGED vars
  <2>1. UNCHANGED <<docRoom, run>>
    BY <1>5 DEF Main, StopHTTP, HubShutdown, WaitReturns, ClosePool, vars
  <2>. QED  BY <2>1
<1>. QED  BY <1>1, <1>2, <1>3, <1>4, <1>5 DEF Next, Handler

\* However lookups, creations, exits and watchers interleave, at most one room
\* serves the document and it is the one the hub hands out.
THEOREM AtMostOneLiveRoom == Spec => []OneLiveRoom
<1>1. Init => OneLiveRoom
  BY DEF Init, OneLiveRoom, Running
<1>. QED  BY <1>1, TypedInvariant, OneLiveRoomStep, PTL DEF Spec

-----------------------------------------------------------------------------
(* Persist first, then broadcast.                                          *)

\* The log only grows, so what was logged stays logged.
LEMMA LoggedGrows ==
    ASSUME Typed, db' = db \/ \E e \in Edits : db' = Append(db, e)
    PROVE  Logged \subseteq Logged' /\ Shown \subseteq Shown'
<1>1. db \in Seq(Edits)
  BY DEF Typed, TypeOK
<1>2. ASSUME NEW k \in DOMAIN db PROVE k \in DOMAIN db' /\ db'[k] = db[k]
  <2>1. CASE db' = db
    BY <2>1
  <2>2. ASSUME NEW e \in Edits, db' = Append(db, e)
        PROVE  k \in DOMAIN db' /\ db'[k] = db[k]
    <3>1. k \in 1..Len(db)
      BY <1>1
    <3>. QED  BY <1>1, <2>2, <3>1
  <2>. QED  BY <2>1, <2>2
<1>3. Logged \subseteq Logged'
  BY <1>2 DEF Logged
<1>. QED  BY <1>3 DEF Shown

\* Families of channels grow with the set they draw from.
LEMMA SeqsGrow ==
    ASSUME NEW S, NEW T, S \subseteq T, NEW f \in [Clients -> Seq(S)]
    PROVE  f \in [Clients -> Seq(T)]
<1>1. ASSUME NEW c \in Clients PROVE f[c] \in Seq(T)
  <2>1. f[c] \in Seq(S)
    OBVIOUS
  <2>2. \A i \in 1..Len(f[c]) : f[c][i] \in T
    BY <2>1
  <2>. QED  BY <2>1, <2>2
<1>. QED  BY <1>1

\* Removing the head of one channel.
LEMMA TailAt ==
    ASSUME NEW S, NEW D, NEW f \in [D -> Seq(S)], NEW x \in D, f[x] # <<>>
    PROVE  /\ [f EXCEPT ![x] = Tail(@)] \in [D -> Seq(S)]
           /\ Head(f[x]) \in S
<1>1. Tail(f[x]) \in Seq(S) /\ Head(f[x]) \in S
  OBVIOUS
<1>. QED  BY <1>1

\* A step that leaves log, channels and peers alone and brings no message to
\* the fanout.
LEMMA NothingSent ==
    ASSUME PersistedFirst, UNCHANGED <<db, send, received>>,
           \A r \in Rooms : run'[r] = "fanout" =>
               run[r] = "fanout" /\ task'[r] = task[r]
    PROVE  PersistedFirst'
BY DEF PersistedFirst, Logged, Shown

\* Every step persists an edit before anybody is shown it.
LEMMA PersistedFirstStep == Typed /\ PersistedFirst /\ [Next]_vars => PersistedFirst'
<1>. SUFFICES ASSUME Typed, PersistedFirst, [Next]_vars PROVE PersistedFirst'
  OBVIOUS
<1>. USE DEF hubVars, queueVars, roomVars, connVars, sendVars, pumpVars, logVars
<1>t. /\ run \in [Rooms -> RunStates]
      /\ task \in [Rooms -> RoomMessage \cup {NoMsg}]
      /\ db \in Seq(Edits)
  BY DEF Typed, TypeOK
<1>p. Presence \in Shown /\ SyncStep1 \in Shown /\ Logged \subseteq Shown
  BY DEF Shown
<1>1. ASSUME NEW c \in Clients,
             Handler(c) \/ Peer(c) \/ WriteClose(c) \/ PingFails(c)
      PROVE  PersistedFirst'
  <2>1. /\ UNCHANGED <<db, send, received, task>>
        /\ \A r \in Rooms : run'[r] = "fanout" => run[r] = "fanout"
    BY <1>1, <1>t
       DEF Handler, LookupFast, LookupAgain, CreateRoom, StartPumps,
           ReadError, SendEdit, SendPresence, Peer, Upgrade, ReadEdit,
           ReadPresence, ConnectionBreaks, WriteClose, PingFails
  <2>. QED  BY <2>1, NothingSent
<1>2. ASSUME NEW c \in Clients, WriteMessage(c) PROVE PersistedFirst'
  <2>1. /\ send' = [send EXCEPT ![c] = Tail(@)] /\ send[c] # <<>>
        /\ UNCHANGED <<db, run, task>>
    BY <1>2 DEF WriteMessage
  <2>2. Logged' = Logged /\ Shown' = Shown
    BY <2>1 DEF Logged, Shown
  <2>3. send' \in [Clients -> Seq(Shown)] /\ Head(send[c]) \in Shown
    BY <2>1, TailAt DEF PersistedFirst
  <2>4. received' \in [Clients -> Seq(Logged)]
    <3>1. CASE conn[c] = "open" /\ Head(send[c]) \in Edits
      <4>1. Head(send[c]) \in Logged
        BY <2>3, <3>1, DistinctAssumption DEF Shown
      <4>2. PICK m \in Logged : received' = [received EXCEPT ![c] = Append(@, m)]
        BY <1>2, <3>1, <4>1 DEF WriteMessage
      <4>. QED  BY <4>2, AppendAt DEF PersistedFirst
    <3>2. CASE ~(conn[c] = "open" /\ Head(send[c]) \in Edits)
      BY <1>2, <3>2 DEF WriteMessage, PersistedFirst
    <3>. QED  BY <3>1, <3>2
  <2>. QED  BY <2>1, <2>2, <2>3, <2>4 DEF PersistedFirst
<1>3. ASSUME NEW c \in Clients, WriteFails(c) PROVE PersistedFirst'
  <2>1. /\ send' = [send EXCEPT ![c] = Tail(@)] /\ send[c] # <<>>
        /\ UNCHANGED <<db, run, task, received>>
    BY <1>3 DEF WriteFails
  <2>2. Logged' = Logged /\ Shown' = Shown
    BY <2>1 DEF Logged, Shown
  <2>3. send' \in [Clients -> Seq(Shown)]
    BY <2>1, TailAt DEF PersistedFirst
  <2>. QED  BY <2>1, <2>2, <2>3 DEF PersistedFirst
<1>4. ASSUME NEW r \in Rooms, NEW c \in Clients, RunRegister(r, c)
      PROVE  PersistedFirst'
  <2>1. UNCHANGED <<db, run, task, received>>
    BY <1>4 DEF RunRegister
  <2>2. Logged' = Logged /\ Shown' = Shown
    BY <2>1 DEF Logged, Shown
  <2>3. Offer(clients[r] \ {c}, Presence) \in [Clients -> Seq(Shown)]
    BY <1>p, OfferType DEF PersistedFirst
  <2>4. PICK f \in [Clients -> Seq(Shown)] :
          send' = [f EXCEPT ![c] = Append(@, SyncStep1)]
    BY <1>4, <2>3, Zenon DEF RunRegister
  <2>5. send' \in [Clients -> Seq(Shown)]
    BY <1>p, <2>4, AppendAt
  <2>. QED  BY <2>1, <2>2, <2>5 DEF PersistedFirst
<1>5. ASSUME NEW r \in Rooms, NEW c \in Clients, RunUnregister(r, c)
      PROVE  PersistedFirst'
  <2>1. UNCHANGED <<db, task, received>>
    BY <1>5 DEF RunUnregister
  <2>2. \A q \in Rooms : run'[q] = "fanout" => run[q] = "fanout"
    BY <1>5, <1>t DEF RunUnregister
  <2>3. Logged' = Logged /\ Shown' = Shown
    BY <2>1 DEF Logged, Shown
  <2>4. send' = send \/ send' = Offer(clients[r] \ {c}, Presence)
    BY <1>5 DEF RunUnregister
  <2>5. send' \in [Clients -> Seq(Shown)]
    BY <1>p, <2>4, OfferType DEF PersistedFirst
  <2>. QED  BY <2>1, <2>2, <2>3, <2>5 DEF PersistedFirst
<1>6. ASSUME NEW r \in Rooms, RunBroadcast(r) \/ PersistFails(r) \/ RunShutdown(r)
      PROVE  PersistedFirst'
  <2>1. /\ UNCHANGED <<db, send, received>>
        /\ \A q \in Rooms : run'[q] = "fanout" => run[q] = "fanout" /\ task'[q] = task[q]
    BY <1>6, <1>t DEF RunBroadcast, PersistFails, RunShutdown
  <2>. QED  BY <2>1, NothingSent
<1>7. ASSUME NEW r \in Rooms, PersistOK(r) PROVE PersistedFirst'
  <2>1. /\ db' = Append(db, task[r].data) /\ run[r] = "persist"
        /\ run' = [run EXCEPT ![r] = "fanout"]
        /\ UNCHANGED <<send, received, task>>
    BY <1>7 DEF PersistOK
  <2>2. task[r].data \in Edits
    BY <2>1 DEF Typed, TaskHeld, RoomMessage
  <2>3. Logged \subseteq Logged' /\ Shown \subseteq Shown'
    BY <2>1, <2>2, LoggedGrows
  <2>4. task[r].data \in Logged'
    <3>1. Len(db) + 1 \in DOMAIN db' /\ db'[Len(db) + 1] = task[r].data
      BY <1>t, <2>1, <2>2
    <3>. QED  BY <2>2, <3>1 DEF Logged
  <2>5. send \in [Clients -> Seq(Shown')] /\ received \in [Clients -> Seq(Logged')]
    BY <2>3, SeqsGrow DEF PersistedFirst
  <2>6. ASSUME NEW q \in Rooms, run'[q] = "fanout" PROVE task'[q].data \in Logged'
    <3>1. CASE q = r
      BY <2>1, <2>4, <3>1
    <3>2. CASE q # r
      BY <1>t, <2>1, <2>3, <2>6, <3>2 DEF PersistedFirst
    <3>. QED  BY <3>1, <3>2
  <2>. QED  BY <2>1, <2>5, <2>6 DEF PersistedFirst
<1>8. ASSUME NEW r \in Rooms, RunFanout(r) PROVE PersistedFirst'
  <2>1. UNCHANGED <<db, received>>
    BY <1>8 DEF RunFanout
  <2>2. \A q \in Rooms : run'[q] = "fanout" => run[q] = "fanout" /\ task'[q] = task[q]
    BY <1>8, <1>t DEF RunFanout
  <2>3. Logged' = Logged /\ Shown' = Shown
    BY <2>1 DEF Logged, Shown
  <2>4. task[r].data \in Shown
    BY <1>8, <1>p DEF RunFanout, PersistedFirst
  <2>5. send' = Offer(clients[r] \ {task[r].sender}, task[r].data)
    BY <1>8 DEF RunFanout
  <2>6. send' \in [Clients -> Seq(Shown)]
    BY <2>4, <2>5, OfferType DEF PersistedFirst
  <2>. QED  BY <2>1, <2>2, <2>3, <2>6 DEF PersistedFirst
<1>9. ASSUME NEW r \in Rooms, RunAwareness(r) PROVE PersistedFirst'
  <2>1. UNCHANGED <<db, run, task, received>>
    BY <1>9 DEF RunAwareness
  <2>2. Logged' = Logged /\ Shown' = Shown
    BY <2>1 DEF Logged, Shown
  <2>3. send' \in [Clients -> Seq(Shown)]
    BY <1>9, <1>p, OfferType DEF RunAwareness, PersistedFirst
  <2>. QED  BY <2>1, <2>2, <2>3 DEF PersistedFirst
<1>10. ASSUME NEW r \in Rooms, Reap(r) PROVE PersistedFirst'
  <2>1. /\ UNCHANGED <<db, send, received, task>>
        /\ \A q \in Rooms : run'[q] = "fanout" => run[q] = "fanout"
    BY <1>10, <1>t DEF Reap
  <2>. QED  BY <2>1, NothingSent
<1>11. CASE Main \/ UNCHANGED vars
  <2>1. UNCHANGED <<db, send, received, task, run>>
    BY <1>11 DEF Main, StopHTTP, HubShutdown, WaitReturns, ClosePool, vars
  <2>. QED  BY <2>1, NothingSent
<1>. QED
  BY <1>1, <1>2, <1>3, <1>4, <1>5, <1>6, <1>7, <1>8, <1>9, <1>10, <1>11
  DEF Next, WritePump, Run, Serve, Persist

\* Whatever a peer is sent or was sent is in document_updates, also when
\* persisting fails, a slow client is dropped or the pool is closed.
THEOREM PersistedBeforeDelivered == Spec => []DeliveredIsPersisted
<1>1. Init => PersistedFirst
  <2>. SUFFICES ASSUME Init PROVE PersistedFirst
    OBVIOUS
  <2>1. send \in [Clients -> Seq(Shown)] /\ received \in [Clients -> Seq(Logged)]
    BY DEF Init
  <2>. QED  BY <2>1 DEF Init, PersistedFirst
<1>2. PersistedFirst => DeliveredIsPersisted
  <2>. SUFFICES ASSUME PersistedFirst, NEW c \in Clients, NEW e \in Edits
                PROVE  /\ (\E i \in DOMAIN send[c] : send[c][i] = e) => e \in Logged
                       /\ (\E i \in DOMAIN received[c] : received[c][i] = e) => e \in Logged
    BY DEF DeliveredIsPersisted, Logged
  <2>1. send[c] \in Seq(Shown) /\ received[c] \in Seq(Logged)
    BY DEF PersistedFirst
  <2>2. \A i \in DOMAIN send[c] : send[c][i] \in Shown
    BY <2>1
  <2>3. \A i \in DOMAIN received[c] : received[c][i] \in Logged
    BY <2>1
  <2>. QED  BY <2>2, <2>3, DistinctAssumption DEF Shown
<1>. QED  BY <1>1, <1>2, TypedInvariant, PersistedFirstStep, PTL DEF Spec

-----------------------------------------------------------------------------
(* An edit is in one place at a time: in the hands of the connection that  *)
(* read it, in the channel of that connection's room, in the hands of that *)
(* room's Run(), or in the log, where it gets one clock.                   *)

Sending(c) == pc[c] = "sending" /\ held[c] \in Edits
Holding(r) == run[r] \in {"persist", "fanout"}

\* m was read by a connection of room r.
Honest(m, r) ==
    /\ author[m.data] = m.sender
    /\ myRoom[m.sender] = r /\ ~Unregistered(m.sender)

\* Who has an edit got it from the connection that read it.
Origins ==
    /\ \A c \in Clients : Sending(c) => author[held[c]] = c
    /\ \A r \in Rooms : \A i \in DOMAIN broadcast[r] : Honest(broadcast[r][i], r)
    /\ \A r \in Rooms : Holding(r) => Honest(task[r], r)
    /\ \A k \in DOMAIN db : author[db[k]] \in Clients

InChannel(e) == \E r \in Rooms : \E i \in DOMAIN broadcast[r] : broadcast[r][i].data = e
InTask(e) == \E r \in Rooms : run[r] = "persist" /\ task[r].data = e
InLog(e) == \E k \in DOMAIN db : db[k] = e

\* No copy of an edit is left behind.
OnePlace ==
    /\ \A c \in Clients : Sending(c) =>
          ~InChannel(held[c]) /\ ~InTask(held[c]) /\ ~InLog(held[c])
    /\ \A r \in Rooms : \A i, j \in DOMAIN broadcast[r] :
          broadcast[r][i].data = broadcast[r][j].data => i = j
    /\ \A e \in Edits : InChannel(e) => ~InTask(e) /\ ~InLog(e)
    /\ \A e \in Edits : InTask(e) => ~InLog(e)
    /\ \A k, l \in DOMAIN db : db[k] = db[l] => k = l

Travels == Origins /\ OnePlace

\* A step that hands no edit on, and takes no handler back or elsewhere.
LEMMA NothingHandedOn ==
    ASSUME Travels, Typed, UNCHANGED <<db, author, broadcast>>,
           \A c \in Clients : Sending(c)' => Sending(c) /\ held'[c] = held[c],
           \A r \in Rooms : Holding(r)' => Holding(r) /\ task'[r] = task[r],
           \A r \in Rooms : run'[r] = "persist" => run[r] = "persist",
           \A c \in Clients : ~Unregistered(c) =>
               ~Unregistered(c)' /\ myRoom'[c] = myRoom[c]
    PROVE  Travels'
<1>1. /\ \A r \in Rooms : \A i \in DOMAIN broadcast[r] : broadcast[r][i].sender \in Clients
      /\ \A r \in Rooms : Holding(r) => task[r].sender \in Clients
  <2>1. \A r \in Rooms : \A i \in DOMAIN broadcast[r] : broadcast[r][i] \in RoomMessage
    BY DEF Typed, TypeOK
  <2>2. \A r \in Rooms : Holding(r) => task[r] \in RoomMessage
    BY DEF Typed, TaskHeld, Holding
  <2>. QED  BY <2>1, <2>2 DEF RoomMessage
<1>2. Origins'
  BY <1>1 DEF Travels, Origins, Honest
<1>3. \A e : InChannel(e)' = InChannel(e) /\ (InTask(e)' => InTask(e)) /\ InLog(e)' = InLog(e)
  BY DEF InChannel, InTask, InLog, Holding
<1>4. OnePlace'
  BY <1>3 DEF Travels, OnePlace
<1>. QED  BY <1>2, <1>4 DEF Travels

\* Every step keeps edits in one place.
LEMMA TravelsStep == Typed /\ OneLiveRoom /\ Travels /\ [Next]_vars => Travels'
<1>. SUFFICES ASSUME Typed, OneLiveRoom, Travels, [Next]_vars PROVE Travels'
  OBVIOUS
<1>. USE DistinctAssumption
     DEF hubVars, queueVars, roomVars, connVars, sendVars, pumpVars, logVars
<1>t. /\ run \in [Rooms -> RunStates]
      /\ task \in [Rooms -> RoomMessage \cup {NoMsg}]
      /\ pc \in [Clients -> PcStates]
      /\ myRoom \in [Clients -> Rooms \cup {NoRoom}]
      /\ held \in [Clients -> Edits \cup {Presence, NoMsg}]
      /\ author \in [Edits -> Clients \cup {Nobody}]
      /\ broadcast \in [Rooms -> Seq(RoomMessage)]
      /\ db \in Seq(Edits)
  BY DEF Typed, TypeOK
<1>m. /\ \A r \in Rooms : \A i \in DOMAIN broadcast[r] :
            broadcast[r][i].sender \in Clients /\ broadcast[r][i].data \in Edits
      /\ \A r \in Rooms : Holding(r) => task[r].sender \in Clients /\ task[r].data \in Edits
      /\ \A k \in DOMAIN db : db[k] \in Edits
  <2>1. \A r \in Rooms : \A i \in DOMAIN broadcast[r] : broadcast[r][i] \in RoomMessage
    BY <1>t
  <2>2. \A r \in Rooms : Holding(r) => task[r] \in RoomMessage
    BY DEF Typed, TaskHeld, Holding
  <2>. QED  BY <1>t, <2>1, <2>2 DEF RoomMessage
<1>1. ASSUME NEW c \in Clients,
             \/ LookupFast(c) \/ LookupAgain(c) \/ (\E r \in Rooms : CreateRoom(c, r))
             \/ StartPumps(c) \/ ReadError(c) \/ SendPresence(c)
             \/ Upgrade(c) \/ ReadPresence(c) \/ ConnectionBreaks(c) \/ WritePump(c)
      PROVE  Travels'
  <2>1. UNCHANGED <<db, author, broadcast, task>>
    BY <1>1 DEF LookupFast, LookupAgain, CreateRoom, StartPumps, ReadError,
                SendPresence, Upgrade, ReadPresence, ConnectionBreaks, WritePump,
                WriteMessage, WriteFails, WriteClose, PingFails
  <2>2. \A d \in Clients : Sending(d)' => Sending(d) /\ held'[d] = held[d]
    BY <1>1, <1>t
       DEF LookupFast, LookupAgain, CreateRoom, StartPumps, ReadError,
           SendPresence, Upgrade, ReadPresence, ConnectionBreaks, WritePump,
           WriteMessage, WriteFails, WriteClose, PingFails, TakeRoom, Sending
  <2>3. \A r \in Rooms : run'[r] \in {"persist", "fanout"} => run'[r] = run[r]
    BY <1>1, <1>t
       DEF LookupFast, LookupAgain, CreateRoom, StartPumps, ReadError,
           SendPresence, Upgrade, ReadPresence, ConnectionBreaks, WritePump,
           WriteMessage, WriteFails, WriteClose, PingFails
  <2>4. \A d \in Clients : ~Unregistered(d) =>
            ~Unregistered(d)' /\ myRoom'[d] = myRoom[d]
    BY <1>1, <1>t
       DEF LookupFast, LookupAgain, CreateRoom, StartPumps, ReadError,
           SendPresence, Upgrade, ReadPresence, ConnectionBreaks, WritePump,
           WriteMessage, WriteFails, WriteClose, PingFails, TakeRoom, Unregistered
  <2>. QED  BY <2>1, <2>2, <2>3, <2>4, NothingHandedOn DEF Holding
<1>2. ASSUME NEW r \in Rooms, NEW c \in Clients, RunRegister(r, c) \/ RunUnregister(r, c)
      PROVE  Travels'
  <2>1. UNCHANGED <<db, author, broadcast, task, held, myRoom>>
    BY <1>2 DEF RunRegister, RunUnregister
  <2>2. \A d \in Clients : Sending(d)' => Sending(d)
    BY <1>2, <1>t DEF RunRegister, RunUnregister, Sending
  <2>3. \A q \in Rooms : run'[q] \in {"persist", "fanout"} => run'[q] = run[q]
    BY <1>2, <1>t DEF RunRegister, RunUnregister
  <2>4. \A d \in Clients : ~Unregistered(d) => ~Unregistered(d)'
    BY <1>2, <1>t DEF RunRegister, RunUnregister, Unregistered
  <2>. QED  BY <2>1, <2>2, <2>3, <2>4, NothingHandedOn DEF Holding
<1>3. ASSUME NEW r \in Rooms,
             \/ PersistFails(r) \/ RunFanout(r) \/ RunAwareness(r) \/ RunShutdown(r)
             \/ Reap(r)
      PROVE  Travels'
  <2>1. UNCHANGED <<db, author, broadcast, held, myRoom, pc>>
    BY <1>3 DEF PersistFails, RunFanout, RunAwareness, RunShutdown, Reap
  <2>2. \A q \in Rooms : run'[q] \in {"persist", "fanout"} =>
            run'[q] = run[q] /\ task'[q] = task[q]
    BY <1>3, <1>t DEF PersistFails, RunFanout, RunAwareness, RunShutdown, Reap
  <2>. QED  BY <2>1, <2>2, NothingHandedOn DEF Holding, Sending, Unregistered
<1>4. CASE Main \/ UNCHANGED vars
  <2>1. UNCHANGED <<db, author, broadcast, held, myRoom, pc, run, task>>
    BY <1>4 DEF Main, StopHTTP, HubShutdown, WaitReturns, ClosePool, vars
  <2>. QED  BY <2>1, NothingHandedOn DEF Holding, Sending, Unregistered
<1>5. ASSUME NEW c \in Clients, NEW e \in Edits, ReadEdit(c, e) PROVE Travels'
  <2>1. /\ author[e] = Nobody /\ author' = [author EXCEPT ![e] = c]
        /\ held' = [held EXCEPT ![c] = e] /\ pc' = [pc EXCEPT ![c] = "sending"]
        /\ pc[c] = "reading"
        /\ UNCHANGED <<db, broadcast, run, task, myRoom>>
    BY <1>5 DEF ReadEdit
  <2>2. ~InChannel(e) /\ ~InTask(e) /\ ~InLog(e)
    BY <1>m, <2>1 DEF Travels, Origins, Honest, InChannel, InTask, InLog, Holding
  <2>3. /\ \A d \in Clients : Sending(d)' => (d = c /\ held'[d] = e)
                                          \/ (d # c /\ Sending(d) /\ held'[d] = held[d])
        /\ \A d \in Clients : Unregistered(d)' = Unregistered(d)
    BY <1>t, <2>1 DEF Sending, Unregistered
  <2>4. \A x \in Edits : x # e => author'[x] = author[x]
    BY <1>t, <2>1
  <2>5. author'[e] = c
    BY <1>t, <2>1
  <2>6. Origins'
    <3>1. \A d \in Clients : Sending(d)' => author'[held'[d]] = d
      <4>1. \A d \in Clients : Sending(d) => held[d] \in Edits /\ held[d] # e
        BY <2>1 DEF Sending, Travels, Origins
      <4>. QED  BY <2>3, <2>4, <2>5, <4>1 DEF Travels, Origins
    <3>2. \A r \in Rooms : \A i \in DOMAIN broadcast[r] : Honest(broadcast[r][i], r)'
      BY <1>m, <2>1, <2>2, <2>3, <2>4 DEF Travels, Origins, Honest, InChannel
    <3>3. \A r \in Rooms : Holding(r) => Honest(task[r], r)'
      <4>. SUFFICES ASSUME NEW r \in Rooms, Holding(r) PROVE Honest(task[r], r)'
        OBVIOUS
      <4>1. author[task[r].data] = task[r].sender /\ task[r].sender \in Clients
        BY <1>m DEF Travels, Origins, Honest
      <4>2. task[r].data # e
        BY <2>1, <4>1
      <4>. QED  BY <1>m, <2>1, <2>3, <2>4, <4>2 DEF Travels, Origins, Honest
    <3>4. \A k \in DOMAIN db : author'[db[k]] \in Clients
      BY <1>m, <2>1, <2>4 DEF Travels, Origins
    <3>. QED  BY <2>1, <3>1, <3>2, <3>3, <3>4 DEF Origins, Holding
  <2>7. \A x : /\ InChannel(x)' = InChannel(x) /\ InTask(x)' = InTask(x)
               /\ InLog(x)' = InLog(x)
    BY <2>1 DEF InChannel, InTask, InLog
  <2>8. OnePlace'
    BY <2>1, <2>2, <2>3, <2>7 DEF Travels, OnePlace
  <2>. QED  BY <2>6, <2>8 DEF Travels
<1>6. ASSUME NEW c \in Clients, SendEdit(c) PROVE Travels'
  <2>0. PICK q \in Rooms, e \in Edits : q = myRoom[c] /\ e = held[c] /\ Sending(c)
    BY <1>6 DEF SendEdit, Sending, Typed, RoomChosen
  <2>2. PICK m \in RoomMessage : m = [sender |-> c, data |-> e] /\ m.sender = c /\ m.data = e
    <3>1. [sender |-> c, data |-> e] \in RoomMessage
      BY DEF RoomMessage
    <3>. QED  BY <3>1
  <2>1. /\ broadcast' = [broadcast EXCEPT ![q] = Append(@, m)]
        /\ held' = [held EXCEPT ![c] = NoMsg]
        /\ pc' = [pc EXCEPT ![c] = "reading"]
        /\ UNCHANGED <<db, author, run, task, myRoom>>
    BY <1>6, <2>0, <2>2 DEF SendEdit
  <2>3. /\ DOMAIN broadcast'[q] = 1..(Len(broadcast[q]) + 1)
        /\ \A i \in 1..Len(broadcast[q]) : broadcast'[q][i] = broadcast[q][i]
        /\ broadcast'[q][Len(broadcast[q]) + 1] = m
        /\ DOMAIN broadcast[q] = 1..Len(broadcast[q]) /\ Len(broadcast[q]) \in Nat
        /\ \A r \in Rooms \ {q} : broadcast'[r] = broadcast[r]
    BY <1>t, <2>1, <2>2
  <2>4. /\ \A d \in Clients : Sending(d)' => d # c /\ Sending(d) /\ held'[d] = held[d]
        /\ \A d \in Clients : Unregistered(d)' = Unregistered(d)
    <3>1. \A d \in Clients : /\ pc'[d] = IF d = c THEN "reading" ELSE pc[d]
                             /\ d # c => held'[d] = held[d]
      BY <1>t, <2>1
    <3>. QED  BY <2>0, <3>1 DEF Sending, Unregistered
  <2>5. author[e] = c /\ ~Unregistered(c) /\ pc[c] = "sending"
    BY <2>0 DEF Travels, Origins, Sending, Unregistered
  <2>6. /\ Honest(m, q)'
        /\ \A x \in RoomMessage, r \in Rooms : Honest(x, r) => Honest(x, r)'
    BY <2>0, <2>1, <2>2, <2>4, <2>5 DEF Honest, RoomMessage
  <2>7. Origins'
    <3>1. ASSUME NEW r \in Rooms, NEW i \in DOMAIN broadcast'[r], NEW x,
                 x = broadcast'[r][i]
          PROVE  Honest(x, r)'
      <4>1. CASE r = q /\ i = Len(broadcast[q]) + 1
        BY <2>3, <2>6, <3>1, <4>1
      <4>2. CASE ~(r = q /\ i = Len(broadcast[q]) + 1)
        <5>1. i \in DOMAIN broadcast[r] /\ broadcast'[r][i] = broadcast[r][i]
          BY <2>3, <4>2
        <5>2. Honest(broadcast[r][i], r) /\ broadcast[r][i] \in RoomMessage
          BY <1>t, <5>1 DEF Travels, Origins
        <5>. QED  BY <2>6, <3>1, <5>1, <5>2
      <4>. QED  BY <4>1, <4>2
    <3>2. \A r \in Rooms : Holding(r)' => Holding(r) /\ task'[r] = task[r] /\ task[r] \in RoomMessage
      BY <2>1 DEF Holding, Typed, TaskHeld
    <3>3. \A r \in Rooms : \A x : Holding(r)' /\ x = task'[r] => Honest(x, r)'
      BY <2>6, <3>2 DEF Travels, Origins
    <3>4. \A d \in Clients : Sending(d)' => author'[held'[d]] = d
      BY <2>1, <2>4 DEF Travels, Origins
    <3>5. \A k \in DOMAIN db' : author'[db'[k]] \in Clients
      BY <2>1 DEF Travels, Origins
    <3>. QED  BY <3>1, <3>3, <3>4, <3>5 DEF Origins
  <2>8. \A x : /\ InChannel(x)' => InChannel(x) \/ x = e
               /\ InTask(x)' = InTask(x) /\ InLog(x)' = InLog(x)
    BY <2>1, <2>2, <2>3 DEF InChannel, InTask, InLog
  <2>9. ~InChannel(e) /\ ~InTask(e) /\ ~InLog(e)
    BY <2>0 DEF Travels, OnePlace
  <2>10. \A r \in Rooms : \A i, j \in DOMAIN broadcast'[r] :
            broadcast'[r][i].data = broadcast'[r][j].data => i = j
    <3>. SUFFICES ASSUME NEW r \in Rooms, NEW i \in DOMAIN broadcast'[r],
                         NEW j \in DOMAIN broadcast'[r],
                         broadcast'[r][i].data = broadcast'[r][j].data
                  PROVE  i = j
      OBVIOUS
    <3>1. \A k \in DOMAIN broadcast[r] : broadcast[r][k].data # e
      BY <2>9 DEF InChannel
    <3>2. \A k, l \in DOMAIN broadcast[r] :
             broadcast[r][k].data = broadcast[r][l].data => k = l
      BY DEF Travels, OnePlace
    <3>3. CASE r # q
      BY <2>3, <3>2, <3>3
    <3>4. CASE r = q
      <4>1. \A k \in DOMAIN broadcast'[q] :
               \/ k = Len(broadcast[q]) + 1 /\ broadcast'[q][k].data = e
               \/ k \in DOMAIN broadcast[q] /\ broadcast'[q][k] = broadcast[q][k]
        BY <2>2, <2>3
      <4>. QED  BY <3>1, <3>2, <3>4, <4>1
    <3>. QED  BY <3>3, <3>4
  <2>11a. \A k, l \in DOMAIN db' : db'[k] = db'[l] => k = l
    BY <2>1 DEF Travels, OnePlace
  <2>11. OnePlace'
    <3>1. ASSUME NEW d \in Clients, NEW x, Sending(d)', x = held'[d]
          PROVE  ~InChannel(x)' /\ ~InTask(x)' /\ ~InLog(x)'
      <4>1. x = held[d] /\ Sending(d) /\ d # c
        BY <2>4, <3>1
      <4>2. x # e
        BY <2>5, <4>1 DEF Travels, Origins
      <4>. QED  BY <2>8, <4>1, <4>2 DEF Travels, OnePlace
    <3>2. \A x \in Edits : /\ InChannel(x)' => ~InTask(x)' /\ ~InLog(x)'
                           /\ InTask(x)' => ~InLog(x)'
      BY <2>8, <2>9 DEF Travels, OnePlace
    <3>. QED  BY <2>10, <2>11a, <3>1, <3>2 DEF OnePlace
  <2>. QED  BY <2>7, <2>11 DEF Travels
<1>7. ASSUME NEW r \in Rooms, RunBroadcast(r) PROVE Travels'
  <2>0. PICK m \in RoomMessage : m = Head(broadcast[r])
    BY <1>t, <1>7 DEF RunBroadcast
  <2>1. /\ run[r] = "select" /\ broadcast[r] # <<>>
        /\ task' = [task EXCEPT ![r] = m]
        /\ broadcast' = [broadcast EXCEPT ![r] = Tail(@)]
        /\ run' = [run EXCEPT ![r] = "persist"]
        /\ UNCHANGED <<db, author, pc, held, myRoom>>
    BY <1>7, <2>0 DEF RunBroadcast
  <2>2. /\ DOMAIN broadcast'[r] = 1..(Len(broadcast[r]) - 1)
        /\ \A i \in DOMAIN broadcast'[r] : broadcast'[r][i] = broadcast[r][i + 1]
        /\ DOMAIN broadcast[r] = 1..Len(broadcast[r]) /\ Len(broadcast[r]) \in Nat \ {0}
        /\ m = broadcast[r][1]
        /\ \A q \in Rooms \ {r} : broadcast'[q] = broadcast[q]
    BY <1>t, <2>0, <2>1
  <2>3. \A q \in Rooms : \A i \in DOMAIN broadcast'[q] :
           \E j \in DOMAIN broadcast[q] : /\ broadcast'[q][i] = broadcast[q][j]
                                          /\ q = r => j = i + 1
    BY <2>2
  <2>4. \A q \in Rooms : /\ run'[q] = IF q = r THEN "persist" ELSE run[q]
                         /\ task'[q] = IF q = r THEN m ELSE task[q]
    BY <1>t, <2>1
  <2>5. Honest(m, r) /\ m.data \in Edits /\ InChannel(m.data)
    BY <1>m, <2>2 DEF Travels, Origins, InChannel
  <2>a. \A x, q : Honest(x, q)' = Honest(x, q)
    BY <2>1 DEF Honest, Unregistered
  <2>6. Origins'
    <3>1. \A q \in Rooms : \A i \in DOMAIN broadcast'[q] : \A x :
             x = broadcast'[q][i] => Honest(x, q)'
      BY <2>a, <2>3 DEF Travels, Origins
    <3>2. \A q \in Rooms : \A x : Holding(q)' /\ x = task'[q] => Honest(x, q)'
      BY <2>a, <2>4, <2>5 DEF Travels, Origins, Holding
    <3>3. \A d \in Clients : Sending(d)' => author'[held'[d]] = d
      BY <2>1 DEF Travels, Origins, Sending
    <3>4. \A k \in DOMAIN db' : author'[db'[k]] \in Clients
      BY <2>1 DEF Travels, Origins
    <3>. QED  BY <3>1, <3>2, <3>3, <3>4 DEF Origins
  <2>7. \A x : x = m.data => ~InChannel(x)'
    <3>. SUFFICES ASSUME NEW q \in Rooms, NEW i \in DOMAIN broadcast'[q],
                         broadcast'[q][i].data = m.data
                  PROVE  FALSE
      BY DEF InChannel
    <3>1. PICK j \in DOMAIN broadcast[q] : /\ broadcast'[q][i] = broadcast[q][j]
                                           /\ q = r => j = i + 1
      BY <2>3
    <3>2. author[m.data] = broadcast[q][j].sender /\ myRoom[broadcast[q][j].sender] = q
      BY <3>1 DEF Travels, Origins, Honest
    <3>3. q = r
      BY <2>5, <3>2 DEF Honest
    <3>4. j = 1
      BY <2>2, <3>1, <3>3 DEF Travels, OnePlace
    <3>. QED  BY <2>2, <3>1, <3>3, <3>4
  <2>8. \A x : /\ InChannel(x)' => InChannel(x)
               /\ InTask(x)' => InTask(x) \/ x = m.data
               /\ InLog(x)' = InLog(x)
    BY <2>1, <2>3, <2>4 DEF InChannel, InTask, InLog
  <2>9. \A q \in Rooms : \A i, j \in DOMAIN broadcast'[q] :
            broadcast'[q][i].data = broadcast'[q][j].data => i = j
    <3>. SUFFICES ASSUME NEW q \in Rooms, NEW i \in DOMAIN broadcast'[q],
                         NEW j \in DOMAIN broadcast'[q],
                         broadcast'[q][i].data = broadcast'[q][j].data
                  PROVE  i = j
      OBVIOUS
    <3>1. CASE q # r
      BY <2>2, <3>1 DEF Travels, OnePlace
    <3>2. CASE q = r
      <4>1. i + 1 \in DOMAIN broadcast[r] /\ j + 1 \in DOMAIN broadcast[r]
        BY <2>2, <3>2
      <4>2. \A k, l \in DOMAIN broadcast[r] :
               broadcast[r][k].data = broadcast[r][l].data => k = l
        BY DEF Travels, OnePlace
      <4>3. i + 1 = j + 1
        BY <2>2, <3>2, <4>1, <4>2
      <4>. QED  BY <2>2, <3>2, <4>3
    <3>. QED  BY <3>1, <3>2
  <2>10. OnePlace'
    <3>1. ASSUME NEW d \in Clients, NEW x, Sending(d)', x = held'[d]
          PROVE  ~InChannel(x)' /\ ~InTask(x)' /\ ~InLog(x)'
      <4>1. x = held[d] /\ Sending(d)
        BY <2>1, <3>1 DEF Sending
      <4>2. x # m.data
        BY <2>5, <4>1 DEF Travels, OnePlace
      <4>. QED  BY <2>8, <4>1, <4>2 DEF Travels, OnePlace
    <3>2. \A x \in Edits : /\ InChannel(x)' => ~InTask(x)' /\ ~InLog(x)'
                           /\ InTask(x)' => ~InLog(x)'
      BY <2>5, <2>7, <2>8 DEF Travels, OnePlace
    <3>3. \A k, l \in DOMAIN db' : db'[k] = db'[l] => k = l
      BY <2>1 DEF Travels, OnePlace
    <3>. QED  BY <2>9, <3>1, <3>2, <3>3 DEF OnePlace
  <2>. QED  BY <2>6, <2>10 DEF Travels
<1>8. ASSUME NEW r \in Rooms, PersistOK(r) PROVE Travels'
  <2>. DEFINE e == task[r].data
  <2>1. /\ run[r] = "persist" /\ Holding(r) /\ InTask(e) /\ e \in Edits
        /\ db' = Append(db, e)
        /\ run' = [run EXCEPT ![r] = "fanout"]
        /\ UNCHANGED <<author, pc, held, myRoom, broadcast, task>>
    BY <1>8, <1>m DEF PersistOK, Holding, InTask
  <2>2. /\ DOMAIN db = 1..Len(db) /\ Len(db) \in Nat
        /\ DOMAIN db' = 1..(Len(db) + 1)
        /\ \A k \in DOMAIN db : db'[k] = db[k]
        /\ db'[Len(db) + 1] = e
    BY <1>t, <2>1
  <2>. HIDE DEF e
  <2>3. \A q \in Rooms : q # r => run'[q] = run[q] /\ run[q] # "persist"
    BY <1>t, <2>1 DEF OneLiveRoom, Running
  <2>4. /\ \A q \in Rooms : Holding(q)' => Holding(q)
        /\ \A x : ~InTask(x)'
    BY <1>t, <2>1, <2>3 DEF Holding, InTask
  <2>5. author[e] \in Clients
    BY <1>m, <2>1 DEF Travels, Origins, Honest, e
  <2>6. Origins'
    BY <2>1, <2>2, <2>4, <2>5 DEF Travels, Origins, Honest, Unregistered, Sending
  <2>7. \A x : /\ InChannel(x)' = InChannel(x)
               /\ InLog(x)' => InLog(x) \/ x = e
    BY <2>1, <2>2 DEF InChannel, InLog
  <2>8. \A k, l \in DOMAIN db' : db'[k] = db'[l] => k = l
    <3>1. \A k \in DOMAIN db : db[k] # e
      BY <2>1 DEF Travels, OnePlace, InLog
    <3>. QED  BY <2>2, <3>1 DEF Travels, OnePlace
  <2>9. OnePlace'
    BY <2>1, <2>4, <2>7, <2>8 DEF Travels, OnePlace, Sending
  <2>. QED  BY <2>6, <2>9 DEF Travels
<1>. QED
  BY <1>1, <1>2, <1>3, <1>4, <1>5, <1>6, <1>7, <1>8
  DEF Next, Handler, Peer, Run, Serve, Persist

-----------------------------------------------------------------------------
(* What members are shown: the log from where they joined, without a gap.  *)

\* Messages that are no edits change nothing of what a stream shows.
LEMMA ShowsNoise ==
    ASSUME NEW K, NEW s \in Seq(Outbound), NEW m \in Outbound \ Edits, Shows(s, K),
           \A k \in K : db[k] \in Edits
    PROVE  Shows(Append(s, m), K)
<1>1. /\ DOMAIN s = 1..Len(s) /\ Len(s) \in Nat
      /\ DOMAIN Append(s, m) = 1..(Len(s) + 1)
      /\ \A i \in DOMAIN s : Append(s, m)[i] = s[i]
      /\ Append(s, m)[Len(s) + 1] = m
  OBVIOUS
<1>. DEFINE t == Append(s, m)
<1>2. \A i \in DOMAIN t : t[i] \in Edits => i \in DOMAIN s /\ t[i] = s[i]
  BY <1>1
<1>3. DOMAIN s \subseteq DOMAIN t /\ \A i \in DOMAIN s : t[i] = s[i]
  BY <1>1
<1>. HIDE DEF t
<1>4. Shows(t, K)
  BY <1>2, <1>3 DEF Shows
<1>. QED  BY <1>4 DEF t

\* The next clock is shown by the next message.
LEMMA ShowsNext ==
    ASSUME NEW K \in SUBSET Nat, NEW s \in Seq(Outbound), Shows(s, K),
           NEW n \in Nat, db[n] \in Edits, \A k \in K : k < n /\ db[k] # db[n]
    PROVE  Shows(Append(s, db[n]), K \cup {n})
<1>. DEFINE t == Append(s, db[n])
<1>1. /\ DOMAIN s = 1..Len(s) /\ Len(s) \in Nat
      /\ DOMAIN t = 1..(Len(s) + 1)
      /\ \A i \in DOMAIN s : t[i] = s[i]
      /\ t[Len(s) + 1] = db[n]
  BY DEF Outbound
<1>. HIDE DEF t
<1>2. \A i \in DOMAIN s : s[i] # db[n]
  BY DEF Shows
<1>3. \A i \in DOMAIN t : t[i] \in Edits => \E k \in K \cup {n} : t[i] = db[k]
  BY <1>1 DEF Shows
<1>4. \A k \in K \cup {n} : \E i \in DOMAIN t : t[i] = db[k]
  BY <1>1 DEF Shows
<1>5. ASSUME NEW i \in DOMAIN t, NEW j \in DOMAIN t, NEW k \in K \cup {n},
             NEW l \in K \cup {n}, i < j, t[i] = db[k], t[j] = db[l]
      PROVE  k < l
  <2>1. i \in DOMAIN s /\ t[i] = s[i]
    BY <1>1, <1>5
  <2>2. k \in K
    BY <1>2, <1>5, <2>1
  <2>3. CASE j \in DOMAIN s
    <3>1. l \in K
      BY <1>1, <1>2, <1>5, <2>3
    <3>2. s[i] = db[k] /\ s[j] = db[l]
      BY <1>1, <1>5, <2>1, <2>3
    <3>. QED  BY <1>5, <2>1, <2>2, <2>3, <3>1, <3>2 DEF Shows
  <2>4. CASE j \notin DOMAIN s
    <3>1. l = n
      BY <1>1, <1>5, <2>4
    <3>. QED  BY <2>2, <3>1
  <2>. QED  BY <2>3, <2>4
<1>6. Shows(t, K \cup {n})
  BY <1>3, <1>4, <1>5 DEF Shows
<1>. QED  BY <1>6 DEF t

\* A message that is no edit may be lost.
LEMMA ShowsSkip ==
    ASSUME NEW K, NEW s \in Seq(Outbound), NEW p \in DOMAIN s, s[p] \notin Edits,
           NEW t \in Seq(Outbound), Len(s) = Len(t) + 1,
           \A i \in DOMAIN t : t[i] = IF i < p THEN s[i] ELSE s[i + 1],
           Shows(s, K), \A k \in K : db[k] \in Edits
    PROVE  Shows(t, K)
<1>1. /\ DOMAIN s = 1..Len(s) /\ Len(s) \in Nat
      /\ DOMAIN t = 1..Len(t) /\ Len(t) \in Nat
  OBVIOUS
<1>. DEFINE was(i) == IF i < p THEN i ELSE i + 1
<1>2. \A i \in DOMAIN t : was(i) \in DOMAIN s /\ t[i] = s[was(i)]
  BY <1>1
<1>3. \A i, j \in DOMAIN t : i < j => was(i) < was(j)
  BY <1>1
<1>4. \A i \in DOMAIN s : i # p => \E j \in DOMAIN t : i = was(j)
  <2>. SUFFICES ASSUME NEW i \in DOMAIN s, i # p PROVE \E j \in DOMAIN t : i = was(j)
    OBVIOUS
  <2>1. CASE i < p
    <3>1. i \in DOMAIN t /\ i = was(i)
      BY <1>1, <2>1
    <3>. QED  BY <3>1
  <2>2. CASE ~(i < p)
    <3>1. i - 1 \in DOMAIN t /\ i = was(i - 1)
      BY <1>1, <2>2
    <3>. QED  BY <3>1
  <2>. QED  BY <2>1, <2>2
<1>. HIDE DEF was
<1>5. \A i \in DOMAIN t : t[i] \in Edits => \E k \in K : t[i] = db[k]
  BY <1>2 DEF Shows
<1>6. \A k \in K : \E i \in DOMAIN t : t[i] = db[k]
  <2>. SUFFICES ASSUME NEW k \in K PROVE \E i \in DOMAIN t : t[i] = db[k]
    OBVIOUS
  <2>1. PICK i \in DOMAIN s : s[i] = db[k]
    BY DEF Shows
  <2>2. i # p
    BY <2>1
  <2>. QED  BY <1>2, <1>4, <2>1, <2>2
<1>7. \A i, j \in DOMAIN t : \A k, l \in K :
         (i < j /\ t[i] = db[k] /\ t[j] = db[l]) => k < l
  BY <1>2, <1>3 DEF Shows
<1>. QED  BY <1>5, <1>6, <1>7 DEF Shows

\* A message put into a channel continues the stream.
LEMMA ConcatAppend ==
    ASSUME NEW X, NEW p \in Seq(X), NEW q \in Seq(X), NEW m \in X
    PROVE  p \o Append(q, m) = Append(p \o q, m)
<1>1. Append(q, m) \in Seq(X) /\ Len(Append(q, m)) = Len(q) + 1 /\ p \o q \in Seq(X)
  OBVIOUS
<1>2. p \o Append(q, m) \in Seq(X) /\ Append(p \o q, m) \in Seq(X)
  BY <1>1
<1>3. /\ Len(p \o Append(q, m)) = Len(p) + Len(q) + 1
      /\ Len(Append(p \o q, m)) = Len(p) + Len(q) + 1
  BY <1>1
<1>4. \A i \in 1..(Len(p) + Len(q) + 1) :
         (p \o Append(q, m))[i] = Append(p \o q, m)[i]
  BY <1>1
<1>. QED  BY <1>2, <1>3, <1>4, SeqEqual

\* A message changes from the channel to the peer, or gets lost.
LEMMA StreamWritten ==
    ASSUME NEW X, NEW p \in Seq(X), NEW q \in Seq(X), q # <<>>
    PROVE  /\ Append(p, Head(q)) \o Tail(q) = p \o q
           /\ p \o q \in Seq(X) /\ p \o Tail(q) \in Seq(X)
           /\ Len(p \o q) = Len(p \o Tail(q)) + 1
           /\ Len(p) + 1 \in DOMAIN (p \o q) /\ (p \o q)[Len(p) + 1] = Head(q)
           /\ \A i \in DOMAIN (p \o Tail(q)) :
                 (p \o Tail(q))[i] = IF i < Len(p) + 1 THEN (p \o q)[i]
                                                       ELSE (p \o q)[i + 1]
<1>1. Tail(q) \in Seq(X) /\ Head(q) \in X /\ Len(q) \in Nat \ {0} /\ Len(p) \in Nat
      /\ Len(Tail(q)) = Len(q) - 1 /\ Append(p, Head(q)) \in Seq(X)
  OBVIOUS
<1>2. p \o q \in Seq(X) /\ p \o Tail(q) \in Seq(X) /\ Append(p, Head(q)) \o Tail(q) \in Seq(X)
  BY <1>1
<1>3. Len(p \o q) = Len(p) + Len(q) /\ Len(p \o Tail(q)) = Len(p) + Len(q) - 1
      /\ Len(Append(p, Head(q)) \o Tail(q)) = Len(p) + Len(q)
  BY <1>1
<1>4. Len(p) + 1 \in DOMAIN (p \o q) /\ (p \o q)[Len(p) + 1] = Head(q)
  BY <1>1, <1>2, <1>3
<1>5. \A i \in 1..(Len(p) + Len(q)) :
         (Append(p, Head(q)) \o Tail(q))[i] = (p \o q)[i]
  BY <1>1
<1>6. Append(p, Head(q)) \o Tail(q) = p \o q
  BY <1>2, <1>3, <1>5
<1>7. \A i \in 1..(Len(p) + Len(q) - 1) :
         (p \o Tail(q))[i] = IF i < Len(p) + 1 THEN (p \o q)[i] ELSE (p \o q)[i + 1]
  BY <1>1
<1>8. DOMAIN (p \o Tail(q)) = 1..(Len(p) + Len(q) - 1)
  BY <1>1, <1>2, <1>3
<1>9. Len(p \o q) = Len(p \o Tail(q)) + 1
  BY <1>1, <1>3
<1>. QED  BY <1>2, <1>4, <1>6, <1>7, <1>8, <1>9

\* Nobody is sent anything before it registered, only a room that runs has
\* members, and what a room sends out is the last entry of the log.
Quiet ==
    /\ \A c \in Clients : Unregistered(c) => send[c] = <<>> /\ received[c] = <<>>
    /\ \A r \in Rooms : ~Running(r) => clients[r] = {}
    /\ \A r \in Rooms : run[r] = "fanout" => Len(db) > 0 /\ db[Len(db)] = task[r].data

\* What an Offer does to the channels.
LEMMA OfferSends ==
    ASSUME NEW S, NEW m, NEW c \in Clients
    PROVE  /\ c \notin S => Offer(S, m)[c] = send[c]
           /\ Offer(S, m)[c] \in {send[c], Append(send[c], m)}
           /\ c \in S /\ c \notin Full(S) => Offer(S, m)[c] = Append(send[c], m)
BY DEF Offer

LEMMA QuietStep ==
    Typed /\ Ownership /\ OneLiveRoom /\ Quiet /\ [Next]_vars => Quiet'
<1>. SUFFICES ASSUME Typed, Ownership, OneLiveRoom, Quiet, [Next]_vars PROVE Quiet'
  OBVIOUS
<1>. USE DistinctAssumption
     DEF hubVars, queueVars, roomVars, connVars, sendVars, pumpVars, logVars
<1>t. /\ run \in [Rooms -> RunStates]
      /\ task \in [Rooms -> RoomMessage \cup {NoMsg}]
      /\ pc \in [Clients -> PcStates]
      /\ clients \in [Rooms -> SUBSET Clients]
      /\ send \in [Clients -> Seq(Outbound)]
      /\ received \in [Clients -> Seq(Edits)]
      /\ db \in Seq(Edits)
  BY DEF Typed, TypeOK
<1>m. \A r \in Rooms : \A c \in clients[r] : ~Unregistered(c)
  BY DEF Ownership
<1>p. ASSUME NEW c \in Clients, pump[c] = "running", send[c] # <<>>
      PROVE  ~Unregistered(c)
  BY <1>p DEF Quiet
<1>1. ASSUME NEW c \in Clients, Handler(c) PROVE Quiet'
  <2>1. UNCHANGED <<send, received, clients, db, task>>
    BY <1>1 DEF Handler, LookupFast, LookupAgain, CreateRoom, StartPumps,
                ReadError, SendEdit, SendPresence
  <2>2. \A d \in Clients : Unregistered(d)' => Unregistered(d)
    BY <1>1, <1>t DEF Handler, LookupFast, LookupAgain, CreateRoom, StartPumps,
                ReadError, SendEdit, SendPresence, TakeRoom, Unregistered
  <2>3. \A r \in Rooms : Running(r) => Running(r)'
    BY <1>1, <1>t DEF Handler, LookupFast, LookupAgain, CreateRoom, StartPumps,
                ReadError, SendEdit, SendPresence, Running
  <2>4. \A r \in Rooms : run'[r] = "fanout" => run[r] = "fanout"
    BY <1>1, <1>t DEF Handler, LookupFast, LookupAgain, CreateRoom, StartPumps,
                ReadError, SendEdit, SendPresence
  <2>. QED  BY <2>1, <2>2, <2>3, <2>4 DEF Quiet
<1>2. ASSUME NEW c \in Clients, Peer(c) \/ WritePump(c) PROVE Quiet'
  <2>1. /\ UNCHANGED <<clients, db, task, run>>
        /\ \A d \in Clients : d # c => send'[d] = send[d] /\ received'[d] = received[d]
    BY <1>2, <1>t DEF Peer, WritePump, Upgrade, ReadEdit, ReadPresence,
                ConnectionBreaks, WriteMessage, WriteFails, WriteClose, PingFails
  <2>2. \A d \in Clients : Unregistered(d)' => Unregistered(d)
    BY <1>2, <1>t DEF Peer, WritePump, Upgrade, ReadEdit, ReadPresence,
                ConnectionBreaks, WriteMessage, WriteFails, WriteClose, PingFails,
                Unregistered
  <2>3. Unregistered(c) => send'[c] = send[c] /\ received'[c] = received[c]
    BY <1>2, <1>p DEF Peer, WritePump, Upgrade, ReadEdit, ReadPresence,
                ConnectionBreaks, WriteMessage, WriteFails, WriteClose, PingFails
  <2>. QED  BY <2>1, <2>2, <2>3 DEF Quiet, Running
<1>3. ASSUME NEW r \in Rooms, NEW c \in Clients, RunRegister(r, c) PROVE Quiet'
  <2>1. /\ run[r] = "select" /\ UNCHANGED <<db, task, run, received>>
        /\ pc' = [pc EXCEPT ![c] = "registered"]
        /\ clients' = [clients EXCEPT ![r] = @ \cup {c}]
        /\ send' = [Offer(clients[r] \ {c}, Presence) EXCEPT ![c] = Append(@, SyncStep1)]
    BY <1>3 DEF RunRegister
  <2>2. \A d \in Clients : Unregistered(d)' => d # c /\ Unregistered(d)
    BY <1>t, <2>1 DEF Unregistered
  <2>3. \A d \in Clients : Unregistered(d)' => send'[d] = send[d]
    BY <1>m, <2>1, <2>2, OfferSends DEF Offer
  <2>4. \A q \in Rooms : ~Running(q) => clients'[q] = clients[q]
    BY <1>t, <2>1 DEF Running
  <2>. QED  BY <2>1, <2>2, <2>3, <2>4 DEF Quiet, Running
<1>4. ASSUME NEW r \in Rooms, NEW c \in Clients, RunUnregister(r, c) PROVE Quiet'
  <2>1. /\ run[r] = "select" /\ UNCHANGED <<db, task, received>>
        /\ pc' = [pc EXCEPT ![c] = "returned"]
        /\ send' \in {send, Offer(clients[r] \ {c}, Presence)}
    BY <1>4 DEF RunUnregister
  <2>2. \A d \in Clients : Unregistered(d)' => Unregistered(d)
    BY <1>t, <2>1 DEF Unregistered
  <2>3. \A d \in Clients : Unregistered(d)' => send'[d] = send[d]
    BY <1>m, <2>1, <2>2, OfferSends
  <2>4. \A q \in Rooms : q # r => clients'[q] = clients[q] /\ run'[q] = run[q]
    BY <1>4, <1>t DEF RunUnregister
  <2>5. Running(r)' \/ clients'[r] = {}
    BY <1>4, <1>t DEF RunUnregister, Running
  <2>6. run'[r] # "fanout"
    BY <1>4, <1>t DEF RunUnregister
  <2>. QED  BY <2>1, <2>2, <2>3, <2>4, <2>5, <2>6 DEF Quiet, Running
<1>5. ASSUME NEW r \in Rooms, RunBroadcast(r) \/ PersistFails(r) PROVE Quiet'
  <2>1. /\ UNCHANGED <<db, received, send, clients, pc>>
        /\ \A q \in Rooms : /\ Running(q)' = Running(q)
                            /\ run'[q] = "fanout" => run[q] = "fanout" /\ task'[q] = task[q]
    BY <1>5, <1>t DEF RunBroadcast, PersistFails, Running
  <2>. QED  BY <2>1 DEF Quiet, Unregistered
<1>6. ASSUME NEW r \in Rooms, PersistOK(r) PROVE Quiet'
  <2>1. /\ run[r] = "persist" /\ UNCHANGED <<received, send, clients, pc, task>>
        /\ db' = Append(db, task[r].data) /\ run' = [run EXCEPT ![r] = "fanout"]
    BY <1>6 DEF PersistOK
  <2>2. \A q \in Rooms : q # r => ~Running(q) /\ run'[q] = run[q]
    BY <1>t, <2>1 DEF OneLiveRoom, Running
  <2>3. task[r].data \in Edits
    BY <2>1 DEF Typed, TaskHeld, RoomMessage
  <2>4. Len(db)' > 0 /\ db'[Len(db)'] = task[r].data
    BY <1>t, <2>1, <2>3
  <2>. QED  BY <1>t, <2>1, <2>2, <2>4 DEF Quiet, Running, Unregistered
<1>7. ASSUME NEW r \in Rooms, RunFanout(r) \/ RunAwareness(r) PROVE Quiet'
  <2>1. /\ UNCHANGED <<received, pc, db>> /\ Running(r)
        /\ \A q \in Rooms : clients'[q] \subseteq clients[q] /\ Running(q)' = Running(q)
        /\ \E m : \E S \in SUBSET clients[r] : send' = Offer(S, m)
    BY <1>7, <1>t DEF RunFanout, RunAwareness, Running
  <2>2. \A q \in Rooms : run'[q] = "fanout" => run[q] = "fanout" /\ task'[q] = task[q]
    BY <1>7, <1>t DEF RunFanout, RunAwareness
  <2>3. \A d \in Clients : Unregistered(d) => send'[d] = send[d]
    BY <1>m, <2>1, OfferSends
  <2>. QED  BY <2>1, <2>2, <2>3 DEF Quiet, Unregistered
<1>8. ASSUME NEW r \in Rooms, RunShutdown(r) \/ Reap(r) PROVE Quiet'
  <2>1. /\ UNCHANGED <<received, pc, db, send, task>>
        /\ \A q \in Rooms : /\ run'[q] = "fanout" => run[q] = "fanout"
                            /\ ~Running(q)' => ~Running(q) \/ clients'[q] = {}
                            /\ clients'[q] \subseteq clients[q]
    BY <1>8, <1>t DEF RunShutdown, Reap, Running
  <2>. QED  BY <2>1 DEF Quiet, Unregistered
<1>9. CASE Main \/ UNCHANGED vars
  <2>1. UNCHANGED <<received, pc, db, send, task, run, clients>>
    BY <1>9 DEF Main, StopHTTP, HubShutdown, WaitReturns, ClosePool, vars
  <2>. QED  BY <2>1 DEF Quiet, Running, Unregistered
<1>. QED
  BY <1>1, <1>2, <1>3, <1>4, <1>5, <1>6, <1>7, <1>8, <1>9 DEF Next, Run, Serve, Persist

\* c was sent the edits of others up to clock n, and no others.
Follows(c, n) == Shows(Stream(c), Foreign(c, n))

\* Who is connected was sent the log up to some clock, also when its room has let
\* go of it; a member up to the clock that was sent last, which is one since it
\* joined.
Gapless ==
    /\ \A c \in Clients : ~Unregistered(c) /\ conn[c] = "open" =>
          \E n \in 0..Len(db) : Follows(c, n)
    /\ StreamsFollowLog
    /\ \A r \in Rooms : \A c \in clients[r] : joinedAt[c] <= SentUpTo(r)

\* The log and its authors stay.
LogKept ==
    /\ Len(db)' \in Nat /\ Len(db) <= Len(db)'
    /\ \A k \in 1..Len(db) : db'[k] = db[k] /\ author'[db[k]] = author[db[k]]

LEMMA LogKeptStep == Typed /\ Travels /\ [Next]_vars => LogKept
<1>. SUFFICES ASSUME Typed, Travels, [Next]_vars PROVE LogKept
  OBVIOUS
<1>. USE DistinctAssumption
     DEF hubVars, queueVars, roomVars, connVars, sendVars, pumpVars, logVars
<1>t. db \in Seq(Edits) /\ author \in [Edits -> Clients \cup {Nobody}]
  BY DEF Typed, TypeOK
<1>1. CASE UNCHANGED <<db, author>>
  BY <1>t, <1>1 DEF LogKept
<1>2. ASSUME NEW c \in Clients, NEW e \in Edits, ReadEdit(c, e) PROVE LogKept
  <2>1. db' = db /\ author[e] = Nobody /\ author' = [author EXCEPT ![e] = c]
    BY <1>2 DEF ReadEdit
  <2>2. \A k \in 1..Len(db) : db[k] \in Edits /\ author[db[k]] \in Clients
    BY <1>t DEF Travels, Origins
  <2>. QED  BY <1>t, <2>1, <2>2 DEF LogKept
<1>3. ASSUME NEW r \in Rooms, PersistOK(r) PROVE LogKept
  <2>1. db' = Append(db, task[r].data) /\ author' = author /\ run[r] = "persist"
    BY <1>3 DEF PersistOK
  <2>2. task[r].data \in Edits
    BY <2>1 DEF Typed, TaskHeld, RoomMessage
  <2>. QED  BY <1>t, <2>1, <2>2 DEF LogKept
<1>4. ASSUME NEW c \in Clients, Handler(c) \/ Peer(c) \/ WritePump(c) PROVE LogKept
  <2>1. \/ UNCHANGED <<db, author>> \/ \E e \in Edits : ReadEdit(c, e)
    BY <1>4 DEF Handler, Peer, WritePump, LookupFast, LookupAgain, CreateRoom,
                StartPumps, ReadError, SendEdit, SendPresence, Upgrade, ReadPresence,
                ConnectionBreaks, WriteMessage, WriteFails, WriteClose, PingFails
  <2>. QED  BY <1>1, <1>2, <2>1
<1>5. ASSUME NEW r \in Rooms, Run(r) \/ Reap(r) PROVE LogKept
  <2>1. \/ UNCHANGED <<db, author>> \/ PersistOK(r)
    BY <1>5 DEF Run, Serve, Persist, RunRegister, RunUnregister, RunBroadcast, PersistFails,
                RunFanout, RunAwareness, RunShutdown, Reap
  <2>. QED  BY <1>1, <1>3, <2>1
<1>6. CASE Main \/ UNCHANGED vars
  BY <1>1, <1>6 DEF Main, StopHTTP, HubShutdown, WaitReturns, ClosePool, vars
<1>. QED  BY <1>4, <1>5, <1>6 DEF Next

\* A log that keeps its entries is still shown.
LEMMA ShowsSame ==
    ASSUME NEW K, NEW s, Shows(s, K), \A k \in K : db'[k] = db[k]
    PROVE  Shows(s, K)'
<1>1. \A i \in DOMAIN s : s[i] \in Edits => \E k \in K : s[i] = db'[k]
  BY DEF Shows
<1>2. \A k \in K : \E i \in DOMAIN s : s[i] = db'[k]
  BY DEF Shows
<1>3. \A i, j \in DOMAIN s : \A k, l \in K :
         (i < j /\ s[i] = db'[k] /\ s[j] = db'[l]) => k < l
  BY DEF Shows
<1>. QED  BY <1>1, <1>2, <1>3 DEF Shows

LEMMA StreamType ==
    ASSUME Typed, NEW c \in Clients
    PROVE  /\ db \in Seq(Edits) /\ joinedAt[c] \in Nat
           /\ send[c] \in Seq(Outbound) /\ received[c] \in Seq(Outbound)
           /\ received[c] \in Seq(Edits) /\ Stream(c) \in Seq(Outbound)
<1>1. /\ db \in Seq(Edits) /\ joinedAt[c] \in Nat
      /\ send[c] \in Seq(Outbound) /\ received[c] \in Seq(Edits)
  BY DEF Typed, TypeOK
<1>2. Edits \subseteq Outbound
  BY DEF Outbound
<1>3. received[c] \in Seq(Outbound)
  BY <1>1, <1>2, SeqMonotonic
<1>. QED  BY <1>1, <1>3 DEF Stream

LEMMA ForeignType ==
    ASSUME Typed, NEW c \in Clients, NEW n \in 0..Len(db)
    PROVE  /\ Foreign(c, n) \subseteq 1..Len(db)
           /\ \A k \in Foreign(c, n) : db[k] \in Edits
<1>1. db \in Seq(Edits) /\ joinedAt[c] \in Nat
  BY StreamType
<1>. QED  BY <1>1 DEF Foreign

\* The clocks of others are the same ones after a step.
LEMMA ForeignSame ==
    ASSUME Typed, LogKept, NEW c \in Clients, joinedAt'[c] = joinedAt[c],
           NEW n \in 0..Len(db)
    PROVE  Foreign(c, n)' = Foreign(c, n)
<1>t. db \in Seq(Edits) /\ joinedAt[c] \in Nat
  BY StreamType
<1>1. \A k \in joinedAt[c] + 1 .. n : k \in 1..Len(db)
  BY <1>t
<1>2. \A k \in joinedAt[c] + 1 .. n : author'[db'[k]] = author[db[k]]
  BY <1>1 DEF LogKept
<1>. QED  BY <1>2 DEF Foreign

\* What shows the log now, shows it after a step.
LEMMA FollowsBy ==
    ASSUME Typed, LogKept, NEW c \in Clients, joinedAt'[c] = joinedAt[c],
           NEW n \in 0..Len(db), NEW s, s = Stream(c)', Shows(s, Foreign(c, n))
    PROVE  Follows(c, n)'
<1>1. \A k \in Foreign(c, n) : db'[k] = db[k]
  BY ForeignType DEF LogKept
<1>2. PICK L : L = Foreign(c, n)
  OBVIOUS
<1>3. Shows(s, L)'
  BY <1>1, <1>2, ShowsSame
<1>4. Foreign(c, n)' = L
  BY <1>2, ForeignSame
<1>. QED  BY <1>3, <1>4 DEF Follows

\* A stream that stays, or gets a message that is no edit.
LEMMA FollowsKept ==
    ASSUME Typed, LogKept, NEW c \in Clients, joinedAt'[c] = joinedAt[c],
           \/ UNCHANGED <<send[c], received[c]>>
           \/ /\ received'[c] = received[c]
              /\ \E m \in Outbound \ Edits : send'[c] = Append(send[c], m),
           NEW n \in 0..Len(db), Follows(c, n)
    PROVE  Follows(c, n)'
<1>t. /\ send[c] \in Seq(Outbound) /\ received[c] \in Seq(Outbound)
      /\ Stream(c) \in Seq(Outbound) /\ Shows(Stream(c), Foreign(c, n))
  BY StreamType DEF Follows
<1>1. CASE UNCHANGED <<send[c], received[c]>>
  <2>1. Stream(c)' = Stream(c)
    BY <1>1 DEF Stream
  <2>. QED  BY <1>t, <2>1, FollowsBy
<1>2. ASSUME NEW m \in Outbound \ Edits, received'[c] = received[c],
             send'[c] = Append(send[c], m)
      PROVE  Follows(c, n)'
  <2>1. Stream(c)' = Append(Stream(c), m)
    <3>1. \A p, q \in Seq(Outbound) : p \o Append(q, m) = Append(p \o q, m)
      BY <1>2, ConcatAppend
    <3>2. Stream(c)' = received[c] \o Append(send[c], m)
      BY <1>2 DEF Stream
    <3>. QED  BY <1>t, <3>1, <3>2 DEF Stream
  <2>2. PICK K : K = Foreign(c, n) /\ \A k \in K : db[k] \in Edits
    BY ForeignType
  <2>3. PICK s \in Seq(Outbound) : s = Stream(c)
    BY <1>t
  <2>4. Shows(Append(s, m), K)
    BY <1>t, <2>2, <2>3, ShowsNoise
  <2>5. PICK t : t = Append(s, m)
    OBVIOUS
  <2>6. t = Stream(c)' /\ Shows(t, Foreign(c, n))
    BY <2>1, <2>2, <2>3, <2>4, <2>5
  <2>. QED  BY <1>2, <2>6, FollowsBy
<1>. QED  BY <1>1, <1>2

\* A message WritePump wrote to an open connection, an edit or not.
LEMMA FollowsWritten ==
    ASSUME Typed, LogKept, NEW c \in Clients, WriteMessage(c), conn[c] = "open",
           NEW n \in 0..Len(db), Follows(c, n)
    PROVE  Follows(c, n)'
<1>t. /\ send[c] \in Seq(Outbound) /\ received[c] \in Seq(Outbound)
      /\ Stream(c) \in Seq(Outbound) /\ Shows(Stream(c), Foreign(c, n))
      /\ send \in [Clients -> Seq(Outbound)] /\ received \in [Clients -> Seq(Edits)]
  BY StreamType DEF Follows, Typed, TypeOK
<1>1. /\ send[c] # <<>> /\ send'[c] = Tail(send[c]) /\ joinedAt'[c] = joinedAt[c]
      /\ received'[c] = IF Head(send[c]) \in Edits THEN Append(received[c], Head(send[c]))
                                                   ELSE received[c]
  BY <1>t DEF WriteMessage, logVars
<1>. DEFINE p == received[c]
            q == send[c]
<1>2. /\ Append(p, Head(q)) \o Tail(q) = p \o q
      /\ p \o q \in Seq(Outbound) /\ p \o Tail(q) \in Seq(Outbound)
      /\ Len(p \o q) = Len(p \o Tail(q)) + 1
      /\ Len(p) + 1 \in DOMAIN (p \o q) /\ (p \o q)[Len(p) + 1] = Head(q)
      /\ \A i \in DOMAIN (p \o Tail(q)) :
            (p \o Tail(q))[i] = IF i < Len(p) + 1 THEN (p \o q)[i]
                                                  ELSE (p \o q)[i + 1]
  <2>1. p \in Seq(Outbound) /\ q \in Seq(Outbound) /\ q # <<>>
    BY <1>t, <1>1
  <2>. HIDE DEF p, q
  <2>. QED  BY <2>1, StreamWritten
<1>3. CASE Head(q) \in Edits
  <2>1. Stream(c)' = Append(p, Head(q)) \o Tail(q)
    BY <1>1, <1>3 DEF Stream
  <2>2. Stream(c)' = Stream(c)
    BY <1>2, <2>1 DEF Stream
  <2>. QED  BY <1>t, <1>1, <2>2, FollowsBy
<1>4. CASE Head(q) \notin Edits
  <2>1. Stream(c)' = p \o Tail(q)
    BY <1>1, <1>4 DEF Stream
  <2>2. Stream(c) = p \o q
    BY DEF Stream
  <2>. HIDE DEF p, q
  <2>3. \A k \in Foreign(c, n) : db[k] \in Edits
    BY ForeignType
  <2>4. PICK s : s = p \o q
    OBVIOUS
  <2>5. PICK t : t = p \o Tail(q)
    OBVIOUS
  <2>6. PICK l : l = Len(p) + 1
    OBVIOUS
  <2>7. /\ s \in Seq(Outbound) /\ t \in Seq(Outbound) /\ Len(s) = Len(t) + 1
        /\ l \in DOMAIN s /\ s[l] \notin Edits /\ Shows(s, Foreign(c, n))
        /\ \A i \in DOMAIN t : t[i] = IF i < l THEN s[i] ELSE s[i + 1]
    BY <1>t, <1>2, <1>4, <2>2, <2>4, <2>5, <2>6
  <2>8. Shows(t, Foreign(c, n))
    BY <2>3, <2>7, ShowsSkip
  <2>9. t = Stream(c)'
    BY <2>1, <2>5
  <2>. QED  BY <1>1, <2>8, <2>9, FollowsBy
<1>. QED  BY <1>3, <1>4

\* A step after which who is connected still has the stream he had, and members
\* still have all that was sent.
LEMMA GaplessKept ==
    ASSUME Gapless, Typed, Quiet, LogKept,
           \A c \in Clients : ~Unregistered(c)' /\ conn'[c] = "open" =>
              /\ ~Unregistered(c) /\ conn[c] = "open"
              /\ \A n \in 0..Len(db) : Follows(c, n) => Follows(c, n)',
           \A r \in Rooms : \A c \in clients'[r] :
              /\ c \in clients[r] /\ ~Unregistered(c)'
              /\ SentUpTo(r)' = SentUpTo(r) /\ joinedAt'[c] = joinedAt[c]
    PROVE  Gapless'
<1>t. db \in Seq(Edits) /\ Len(db) \in Nat
  BY DEF Typed, TypeOK
<1>1. \A c \in Clients : ~Unregistered(c)' /\ conn'[c] = "open" =>
          \E n \in 0..Len(db)' : Follows(c, n)'
  <2>1. \A n \in 0..Len(db) : n \in 0..Len(db)'
    BY <1>t DEF LogKept
  <2>. QED  BY <2>1 DEF Gapless
<1>2. ASSUME NEW r \in Rooms, NEW c \in clients'[r], conn'[c] = "open", NEW n,
             n = SentUpTo(r)
      PROVE  Follows(c, n)'
  <2>1. c \in clients[r] /\ c \in Clients /\ ~Unregistered(c)'
    BY DEF Typed, TypeOK
  <2>2. SentUpTo(r) \in 0..Len(db)
    BY <1>t DEF Quiet, SentUpTo
  <2>3. conn[c] = "open"
    BY <1>2, <2>1
  <2>4. Follows(c, n)
    BY <1>2, <2>1, <2>3 DEF Gapless, StreamsFollowLog, Follows
  <2>. QED  BY <1>2, <2>1, <2>2, <2>4
<1>3. StreamsFollowLog'
  <2>. SUFFICES ASSUME NEW r \in Rooms, NEW c \in clients'[r], conn'[c] = "open",
                       NEW n, n = SentUpTo(r)'
                PROVE  Follows(c, n)'
    BY DEF StreamsFollowLog, Follows
  <2>1. n = SentUpTo(r)
    OBVIOUS
  <2>. QED  BY <1>2, <2>1
<1>4. \A r \in Rooms : \A c \in clients'[r] : joinedAt'[c] <= SentUpTo(r)'
  BY DEF Gapless
<1>. QED  BY <1>1, <1>3, <1>4 DEF Gapless

\* The next entry of the log, sent to somebody else than its author.
LEMMA FollowsNext ==
    ASSUME Typed, Travels, LogKept, NEW c \in Clients, joinedAt'[c] = joinedAt[c],
           NEW n \in 1..Len(db), Follows(c, n - 1), joinedAt[c] < n,
           author[db[n]] # c, received'[c] = received[c],
           send'[c] = Append(send[c], db[n])
    PROVE  Follows(c, n)'
<1>t. /\ send[c] \in Seq(Outbound) /\ received[c] \in Seq(Outbound)
      /\ db \in Seq(Edits) /\ joinedAt[c] \in Nat
      /\ Stream(c) \in Seq(Outbound) /\ Shows(Stream(c), Foreign(c, n - 1))
  BY StreamType DEF Follows
<1>1. n \in Nat /\ n - 1 \in 0..Len(db) /\ db[n] \in Edits /\ db[n] \in Outbound
  BY <1>t DEF Outbound
<1>2. Foreign(c, n) = Foreign(c, n - 1) \cup {n}
  BY <1>t DEF Foreign
<1>3. \A k \in Foreign(c, n - 1) : k < n /\ db[k] # db[n] /\ k \in Nat
  <2>1. \A k, l \in DOMAIN db : db[k] = db[l] => k = l
    BY DEF Travels, OnePlace
  <2>. QED  BY <1>t, <2>1 DEF Foreign
<1>4. Stream(c)' = Append(Stream(c), db[n])
  <2>1. \A p, q \in Seq(Outbound) : p \o Append(q, db[n]) = Append(p \o q, db[n])
    BY <1>1, ConcatAppend
  <2>2. Stream(c)' = received[c] \o Append(send[c], db[n])
    BY DEF Stream
  <2>. QED  BY <1>t, <2>1, <2>2 DEF Stream
<1>5. \A s \in Seq(Outbound), K \in SUBSET Nat :
         (Shows(s, K) /\ \A k \in K : k < n /\ db[k] # db[n])
            => Shows(Append(s, db[n]), K \cup {n})
  BY <1>1, ShowsNext
<1>6. Shows(Append(Stream(c), db[n]), Foreign(c, n))
  BY <1>t, <1>2, <1>3, <1>5
<1>7. PICK t : t = Append(Stream(c), db[n])
  OBVIOUS
<1>8. n \in 0..Len(db) /\ t = Stream(c)' /\ Shows(t, Foreign(c, n))
  BY <1>t, <1>4, <1>6, <1>7
<1>. QED  BY <1>8, FollowsBy

\* ... and to its author, who is not sent it.
LEMMA FollowsOwn ==
    ASSUME Typed, LogKept, NEW c \in Clients, joinedAt'[c] = joinedAt[c],
           NEW n \in 1..Len(db), Follows(c, n - 1), author[db[n]] = c,
           UNCHANGED <<received[c], send[c]>>
    PROVE  Follows(c, n)'
<1>t. db \in Seq(Edits) /\ joinedAt[c] \in Nat
  BY StreamType
<1>1. Foreign(c, n) = Foreign(c, n - 1)
  BY <1>t DEF Foreign
<1>2. Follows(c, n)
  BY <1>1 DEF Follows
<1>. QED  BY <1>2, FollowsKept

\* What a new member was sent is its SYNC_STEP_1.
LEMMA FollowsNew ==
    ASSUME Typed, NEW c \in Clients, received'[c] = <<>>, send'[c] = <<SyncStep1>>,
           NEW n \in Nat, joinedAt'[c] = n
    PROVE  Follows(c, n)'
<1>1. Foreign(c, n)' = {}
  BY DEF Foreign
<1>2. Stream(c)' = <<SyncStep1>>
  BY DEF Stream
<1>3. DOMAIN <<SyncStep1>> = {1} /\ <<SyncStep1>>[1] \notin Edits
  BY DistinctAssumption
<1>4. PICK s : s = <<SyncStep1>>
  OBVIOUS
<1>5. PICK K : K = {}
  OBVIOUS
<1>6. Shows(s, K)'
  BY <1>3, <1>4, <1>5 DEF Shows
<1>7. s = Stream(c)' /\ K = Foreign(c, n)'
  BY <1>1, <1>2, <1>4, <1>5
<1>. QED  BY <1>6, <1>7 DEF Follows

LEMMA GaplessStep ==
    /\ Typed /\ Ownership /\ OneLiveRoom /\ Travels /\ Quiet /\ Gapless
    /\ [Next]_vars
    => Gapless'
<1>. SUFFICES ASSUME Typed, Ownership, OneLiveRoom, Travels, Quiet, Gapless,
                     [Next]_vars
              PROVE  Gapless'
  OBVIOUS
<1>. USE DistinctAssumption
     DEF hubVars, queueVars, roomVars, connVars, sendVars, pumpVars, logVars
<1>t. /\ run \in [Rooms -> RunStates]
      /\ pc \in [Clients -> PcStates]
      /\ conn \in [Clients -> {"open", "broken"}]
      /\ clients \in [Rooms -> SUBSET Clients]
      /\ send \in [Clients -> Seq(Outbound)]
      /\ received \in [Clients -> Seq(Edits)]
      /\ db \in Seq(Edits) /\ Len(db) \in Nat
      /\ joinedAt \in [Clients -> Nat]
  BY DEF Typed, TypeOK
<1>k. LogKept
  BY LogKeptStep
<1>m. \A r \in Rooms : \A c \in clients[r] : c \in Clients /\ ~Unregistered(c)
  BY <1>t DEF Ownership
<1>n. Presence \in Outbound \ Edits
  BY DEF Outbound
\* Streams that stay or get noise, rooms that have sent what they had.
<1>q. ASSUME \A c \in Clients : ~Unregistered(c)' /\ conn'[c] = "open" =>
                /\ ~Unregistered(c) /\ conn[c] = "open" /\ joinedAt'[c] = joinedAt[c]
                /\ received'[c] = received[c]
                /\ \/ send'[c] = send[c]
                   \/ send'[c] = Append(send[c], Presence),
             joinedAt' = joinedAt,
             \A c \in Clients : Unregistered(c)' => Unregistered(c),
             \A r \in Rooms : clients'[r] \subseteq clients[r],
             \A r \in Rooms : \A c \in clients'[r] : SentUpTo(r)' = SentUpTo(r)
      PROVE  Gapless'
  <2>1. ASSUME NEW c \in Clients, ~Unregistered(c)', conn'[c] = "open"
        PROVE  /\ ~Unregistered(c) /\ conn[c] = "open"
               /\ \A n \in 0..Len(db) : Follows(c, n) => Follows(c, n)'
    <3>1. /\ ~Unregistered(c) /\ conn[c] = "open" /\ joinedAt'[c] = joinedAt[c]
          /\ received'[c] = received[c]
          /\ send'[c] = send[c] \/ send'[c] = Append(send[c], Presence)
      BY <1>q, <2>1
    <3>2. ASSUME NEW n \in 0..Len(db), Follows(c, n) PROVE Follows(c, n)'
      BY <1>k, <1>n, <3>1, <3>2, FollowsKept
    <3>. QED  BY <3>1, <3>2
  <2>2. ASSUME NEW r \in Rooms, NEW c \in clients'[r]
        PROVE  /\ c \in clients[r] /\ ~Unregistered(c)'
               /\ SentUpTo(r)' = SentUpTo(r) /\ joinedAt'[c] = joinedAt[c]
    BY <1>m, <1>q
  <2>. QED  BY <1>k, <2>1, <2>2, GaplessKept
<1>1. ASSUME NEW c \in Clients, Handler(c) \/ Peer(c) PROVE Gapless'
  <2>1. /\ UNCHANGED <<send, received, clients, db, joinedAt>>
        /\ \A d \in Clients : conn'[d] = conn[d] \/ conn'[d] = "broken"
    BY <1>1, <1>t DEF Handler, LookupFast, LookupAgain, CreateRoom, StartPumps,
                ReadError, SendEdit, SendPresence, Peer, Upgrade, ReadEdit,
                ReadPresence, ConnectionBreaks
  <2>2. \A d \in Clients : Unregistered(d)' = Unregistered(d)
    BY <1>1, <1>t DEF Handler, LookupFast, LookupAgain, CreateRoom, StartPumps,
                ReadError, SendEdit, SendPresence, TakeRoom, Peer, Upgrade, ReadEdit,
                ReadPresence, ConnectionBreaks, Unregistered
  <2>3. \A r \in Rooms : run'[r] = "fanout" <=> run[r] = "fanout"
    BY <1>1, <1>t DEF Handler, LookupFast, LookupAgain, CreateRoom, StartPumps,
                ReadError, SendEdit, SendPresence, Peer, Upgrade, ReadEdit,
                ReadPresence, ConnectionBreaks
  <2>4. \A r \in Rooms : SentUpTo(r)' = SentUpTo(r)
    BY <2>1, <2>3 DEF SentUpTo
  <2>. QED  BY <1>q, <2>1, <2>2, <2>4
<1>2. ASSUME NEW c \in Clients, WritePump(c) PROVE Gapless'
  <2>1. /\ UNCHANGED <<clients, db, joinedAt, run, pc>>
        /\ \A d \in Clients : d # c => send'[d] = send[d] /\ received'[d] = received[d]
        /\ \A d \in Clients : conn'[d] = conn[d] \/ conn'[d] = "broken"
        /\ conn'[c] = "open" => WriteMessage(c) /\ conn[c] = "open"
    BY <1>2, <1>t DEF WritePump, WriteMessage, WriteFails, WriteClose, PingFails,
                      PumpExits
  <2>2. \A d \in Clients : Unregistered(d)' = Unregistered(d)
    BY <2>1 DEF Unregistered
  <2>3. \A r \in Rooms : SentUpTo(r)' = SentUpTo(r)
    BY <2>1 DEF SentUpTo
  <2>4. ASSUME NEW d \in Clients, ~Unregistered(d)', conn'[d] = "open"
        PROVE  /\ ~Unregistered(d) /\ conn[d] = "open"
               /\ \A n \in 0..Len(db) : Follows(d, n) => Follows(d, n)'
    <3>1. ~Unregistered(d) /\ conn[d] = "open"
      BY <2>1, <2>2, <2>4
    <3>2. ASSUME NEW n \in 0..Len(db), Follows(d, n) PROVE Follows(d, n)'
      <4>1. CASE d = c
        BY <1>k, <2>1, <2>4, <3>1, <3>2, <4>1, FollowsWritten
      <4>2. CASE d # c
        BY <1>k, <2>1, <3>2, <4>2, FollowsKept
      <4>. QED  BY <4>1, <4>2
    <3>. QED  BY <3>1, <3>2
  <2>5. \A r \in Rooms : \A d \in clients'[r] :
            /\ d \in clients[r] /\ ~Unregistered(d)'
            /\ SentUpTo(r)' = SentUpTo(r) /\ joinedAt'[d] = joinedAt[d]
    BY <1>m, <2>1, <2>2, <2>3
  <2>. QED  BY <1>k, <2>4, <2>5, GaplessKept
<1>3. ASSUME NEW r \in Rooms, NEW c \in Clients, RunRegister(r, c) PROVE Gapless'
  <2>1. /\ UNCHANGED <<db, run, received, conn>> /\ run[r] = "select" /\ Unregistered(c)
        /\ pc' = [pc EXCEPT ![c] = "registered"]
        /\ clients' = [clients EXCEPT ![r] = @ \cup {c}]
        /\ send' = [Offer(clients[r] \ {c}, Presence) EXCEPT ![c] = Append(@, SyncStep1)]
        /\ joinedAt' = [joinedAt EXCEPT ![c] = Len(db)]
    BY <1>3 DEF RunRegister, Unregistered
  <2>2. Follows(c, Len(db))'
    <3>1. received'[c] = <<>> /\ send[c] = <<>>
      BY <2>1 DEF Quiet
    <3>2. send'[c] = <<SyncStep1>>
      <4>1. send'[c] = Append(send[c], SyncStep1)
        BY <2>1 DEF Offer
      <4>2. \A x : Append(<<>>, x) = <<x>>
        OBVIOUS
      <4>. QED  BY <3>1, <4>1, <4>2
    <3>3. PICK n \in Nat : n = Len(db)
      BY <1>t
    <3>4. Follows(c, n)'
      BY <1>t, <2>1, <3>1, <3>2, <3>3, FollowsNew
    <3>5. n = Len(db)'
      BY <2>1, <3>3
    <3>. QED  BY <3>4, <3>5 DEF Follows
  <2>3. ASSUME NEW d \in Clients, d # c
        PROVE  /\ Unregistered(d)' = Unregistered(d)
               /\ \A n \in 0..Len(db) : Follows(d, n) => Follows(d, n)'
    <3>1. Unregistered(d)' = Unregistered(d)
      BY <1>t, <2>1, <2>3 DEF Unregistered
    <3>2. /\ joinedAt'[d] = joinedAt[d] /\ received'[d] = received[d]
          /\ send'[d] = send[d] \/ send'[d] = Append(send[d], Presence)
      BY <1>t, <2>1, <2>3 DEF Offer
    <3>3. ASSUME NEW n \in 0..Len(db), Follows(d, n) PROVE Follows(d, n)'
      BY <1>k, <1>n, <3>2, <3>3, FollowsKept
    <3>. QED  BY <3>1, <3>3
  <2>4. \A d \in Clients : ~Unregistered(d)' /\ conn'[d] = "open" =>
            \E n \in 0..Len(db)' : Follows(d, n)'
    <3>1. \E n \in 0..Len(db)' : Follows(c, n)'
      <4>1. PICK n : n = Len(db)'
        OBVIOUS
      <4>2. n \in 0..Len(db)' /\ Follows(c, n)'
        BY <1>t, <2>1, <2>2, <4>1 DEF Follows
      <4>. QED  BY <4>2
    <3>2. Len(db)' = Len(db)
      BY <2>1
    <3>. QED  BY <2>1, <2>3, <3>1, <3>2 DEF Gapless
  <2>5. \A q \in Rooms : SentUpTo(q)' = SentUpTo(q)
    BY <2>1 DEF SentUpTo
  <2>6. ASSUME NEW q \in Rooms, NEW d \in clients'[q], conn'[d] = "open",
               NEW n, n = SentUpTo(q)'
        PROVE  Follows(d, n)'
    <3>1. CASE d = c
      <4>1. ~(\E p \in Rooms : c \in clients[p])
        BY <1>m, <2>1
      <4>2. q = r
        BY <1>t, <2>1, <3>1, <4>1
      <4>3. n = Len(db)'
        BY <2>1, <2>6, <4>2 DEF SentUpTo
      <4>. QED  BY <2>2, <3>1, <4>3 DEF Follows
    <3>2. CASE d # c
      <4>1. d \in clients[q] /\ d \in Clients
        BY <1>t, <2>1, <3>2
      <4>2. n \in 0..Len(db) /\ n = SentUpTo(q)
        BY <1>t, <2>5, <2>6 DEF Quiet, SentUpTo
      <4>3. Follows(d, n)
        BY <2>1, <2>6, <4>1, <4>2 DEF Gapless, StreamsFollowLog, Follows
      <4>. QED  BY <2>3, <3>2, <4>1, <4>2, <4>3
    <3>. QED  BY <3>1, <3>2
  <2>7. StreamsFollowLog'
    <3>. SUFFICES ASSUME NEW q \in Rooms, NEW d \in clients'[q], conn'[d] = "open",
                         NEW n, n = SentUpTo(q)'
                  PROVE  Follows(d, n)'
      BY DEF StreamsFollowLog, Follows
    <3>. QED  BY <2>6
  <2>8. \A q \in Rooms : \A d \in clients'[q] : joinedAt'[d] <= SentUpTo(q)'
    <3>1. \A q \in Rooms : \A d \in clients[q] : d # c
      BY <1>m, <2>1
    <3>2. SentUpTo(r)' = Len(db)
      BY <2>1 DEF SentUpTo
    <3>. QED  BY <1>t, <2>1, <2>5, <3>1, <3>2 DEF Gapless
  <2>. QED  BY <2>4, <2>7, <2>8 DEF Gapless
<1>4. ASSUME NEW r \in Rooms, NEW c \in Clients, RunUnregister(r, c) PROVE Gapless'
  <2>1. /\ UNCHANGED <<db, received, conn, joinedAt>> /\ run[r] = "select"
        /\ pc[c] = "unregistering" /\ pc' = [pc EXCEPT ![c] = "returned"]
        /\ send' \in {send, Offer(clients[r] \ {c}, Presence)}
        /\ \A q \in Rooms : /\ clients'[q] \subseteq clients[q]
                            /\ run'[q] = "fanout" <=> run[q] = "fanout"
    BY <1>4, <1>t DEF RunUnregister
  <2>2. \A d \in Clients : Unregistered(d)' = Unregistered(d)
    BY <1>t, <2>1 DEF Unregistered
  <2>3. \A q \in Rooms : SentUpTo(q)' = SentUpTo(q)
    BY <2>1 DEF SentUpTo
  <2>4. \A d \in Clients : send'[d] = send[d] \/ send'[d] = Append(send[d], Presence)
    BY <2>1, OfferSends
  <2>. QED  BY <1>q, <2>1, <2>2, <2>3, <2>4
<1>5. ASSUME NEW r \in Rooms, RunBroadcast(r) \/ PersistFails(r) PROVE Gapless'
  <2>1. /\ UNCHANGED <<db, received, conn, joinedAt, pc, send, clients>>
        /\ \A q \in Rooms : run'[q] = "fanout" <=> run[q] = "fanout"
    BY <1>5, <1>t DEF RunBroadcast, PersistFails
  <2>2. \A q \in Rooms : SentUpTo(q)' = SentUpTo(q)
    BY <2>1 DEF SentUpTo
  <2>. QED  BY <1>q, <2>1, <2>2 DEF Unregistered
<1>6. ASSUME NEW r \in Rooms, PersistOK(r) PROVE Gapless'
  <2>1. /\ run[r] = "persist" /\ UNCHANGED <<received, conn, joinedAt, pc, send, clients>>
        /\ db' = Append(db, task[r].data) /\ run' = [run EXCEPT ![r] = "fanout"]
    BY <1>6 DEF PersistOK
  <2>2. \A q \in Rooms : q # r => clients[q] = {}
    BY <1>t, <2>1 DEF OneLiveRoom, Quiet, Running
  <2>3. task[r].data \in Edits
    BY <2>1 DEF Typed, TaskHeld, RoomMessage
  <2>4. Len(db)' = Len(db) + 1
    BY <1>t, <2>1, <2>3
  <2>5. SentUpTo(r)' = SentUpTo(r)
    BY <1>t, <2>1, <2>4 DEF SentUpTo
  <2>6. \A q \in Rooms : \A c \in clients'[q] : SentUpTo(q)' = SentUpTo(q)
    BY <2>1, <2>2, <2>5
  <2>. QED  BY <1>q, <2>1, <2>6 DEF Unregistered
<1>7. ASSUME NEW r \in Rooms, RunFanout(r) PROVE Gapless'
  <2>. DEFINE e == task[r].data
              s == task[r].sender
              n == Len(db)
  <2>1. /\ run[r] = "fanout" /\ UNCHANGED <<db, received, conn, joinedAt, pc, author>>
        /\ send' = Offer(clients[r] \ {s}, e)
        /\ clients' = [clients EXCEPT ![r] = @ \ Full(clients[r] \ {s})]
        /\ run' = [run EXCEPT ![r] = "select"]
    BY <1>7 DEF RunFanout, Dropped
  <2>2. n \in 1..Len(db) /\ e = db[n] /\ author[e] = s
    <3>1. Holding(r)
      BY <2>1 DEF Holding, Typed, TaskHeld
    <3>. QED  BY <1>t, <2>1, <3>1 DEF Quiet, Travels, Origins, Honest
  <2>3. \A q \in Rooms : q # r => clients[q] = {} /\ clients'[q] = {}
    BY <1>t, <2>1 DEF OneLiveRoom, Quiet, Running
  <2>4. SentUpTo(r) = n - 1 /\ SentUpTo(r)' = n
    BY <1>t, <2>1 DEF SentUpTo
  <2>5. ASSUME NEW c \in Clients, c \notin clients'[r], ~Unregistered(c), conn[c] = "open"
        PROVE  \E k \in 0..n : Follows(c, k)'
    <3>1. send'[c] = send[c]
      BY <1>t, <2>1, <2>5 DEF Offer
    <3>2. PICK k \in 0..n : Follows(c, k)
      BY <2>5 DEF Gapless
    <3>. QED  BY <1>k, <2>1, <3>1, <3>2, FollowsKept
  <2>6. ASSUME NEW c \in clients'[r], conn[c] = "open" PROVE Follows(c, n)'
    <3>1. c \in Clients /\ c \in clients[r] /\ (c # s => c \notin Full(clients[r] \ {s}))
      BY <1>t, <2>1, <2>6
    <3>2. Follows(c, n - 1) /\ joinedAt[c] < n
      BY <1>t, <2>2, <2>4, <2>6, <3>1 DEF Gapless, StreamsFollowLog, Follows
    <3>3. CASE c = s
      <4>1. send'[c] = send[c]
        BY <2>1, <3>1, <3>3 DEF Offer
      <4>. QED  BY <1>k, <2>1, <2>2, <3>1, <3>2, <3>3, <4>1, FollowsOwn
    <3>4. CASE c # s
      <4>1. send'[c] = Append(send[c], db[n])
        BY <2>1, <2>2, <3>1, <3>4 DEF Offer
      <4>. QED  BY <1>k, <2>1, <2>2, <3>1, <3>2, <3>4, <4>1, FollowsNext
    <3>. QED  BY <3>3, <3>4
  <2>7. \A c \in Clients : ~Unregistered(c)' /\ conn'[c] = "open" =>
            \E k \in 0..Len(db)' : Follows(c, k)'
    <3>1. n \in 0..n /\ Len(db)' = n /\ \A c \in Clients : Unregistered(c)' = Unregistered(c)
      BY <1>t, <2>1 DEF Unregistered
    <3>. QED  BY <2>1, <2>5, <2>6, <3>1
  <2>8. StreamsFollowLog'
    <3>. SUFFICES ASSUME NEW q \in Rooms, NEW c \in clients'[q], conn'[c] = "open",
                         NEW k, k = SentUpTo(q)'
                  PROVE  Follows(c, k)'
      BY DEF StreamsFollowLog, Follows
    <3>1. q = r /\ k = n
      BY <2>3, <2>4
    <3>. QED  BY <2>1, <2>6, <3>1
  <2>9. \A q \in Rooms : \A c \in clients'[q] : joinedAt'[c] <= SentUpTo(q)'
    <3>1. \A c \in clients'[r] : c \in clients[r] /\ c \in Clients
      BY <1>t, <2>1
    <3>2. \A c \in clients[r] : joinedAt[c] <= n - 1
      BY <2>4 DEF Gapless
    <3>3. \A c \in clients'[r] : joinedAt'[c] <= n
      BY <1>t, <2>1, <3>1, <3>2
    <3>. QED  BY <2>3, <2>4, <3>3
  <2>. QED  BY <2>7, <2>8, <2>9 DEF Gapless
<1>8. ASSUME NEW r \in Rooms, RunAwareness(r) PROVE Gapless'
  <2>1. /\ UNCHANGED <<db, received, conn, joinedAt, pc, clients, run>>
        /\ \E S : send' = Offer(S, Presence)
    BY <1>8 DEF RunAwareness
  <2>2. \A c \in Clients : send'[c] = send[c] \/ send'[c] = Append(send[c], Presence)
    BY <2>1, OfferSends
  <2>. QED  BY <1>q, <2>1, <2>2 DEF Unregistered, SentUpTo
<1>9. ASSUME NEW r \in Rooms, RunShutdown(r) \/ Reap(r) PROVE Gapless'
  <2>1. /\ UNCHANGED <<db, received, conn, joinedAt, pc, send>>
        /\ \A q \in Rooms : /\ clients'[q] \subseteq clients[q]
                            /\ run'[q] = "fanout" <=> run[q] = "fanout"
    BY <1>9, <1>t DEF RunShutdown, Reap
  <2>2. \A q \in Rooms : SentUpTo(q)' = SentUpTo(q)
    BY <2>1 DEF SentUpTo
  <2>. QED  BY <1>q, <2>1, <2>2 DEF Unregistered
<1>10. CASE Main \/ UNCHANGED vars
  <2>1. UNCHANGED <<db, received, conn, joinedAt, pc, send, clients, run>>
    BY <1>10 DEF Main, StopHTTP, HubShutdown, WaitReturns, ClosePool, vars
  <2>. QED  BY <1>q, <2>1 DEF Unregistered, SentUpTo
<1>. QED
  BY <1>1, <1>2, <1>3, <1>4, <1>5, <1>6, <1>7, <1>8, <1>9, <1>10
  DEF Next, Run, Serve, Persist

\* All the layers together.
Delivery == Typed /\ Ownership /\ OneLiveRoom /\ Travels /\ Quiet /\ Gapless

LEMMA DeliveryInvariant == Spec => []Delivery
<1>1. Init => Delivery
  <2>. SUFFICES ASSUME Init PROVE Delivery
    OBVIOUS
  <2>1. Typed
    BY TypedInit
  <2>2. Ownership /\ OneLiveRoom /\ Quiet
    BY DEF Init, Ownership, Unregistered, OneLiveRoom, Running, Quiet
  <2>3. Travels
    BY DEF Init, Travels, Origins, OnePlace, Sending, Holding, InChannel, InTask, InLog
  <2>4. Gapless
    BY DEF Init, Gapless, Unregistered, StreamsFollowLog
  <2>. QED  BY <2>1, <2>2, <2>3, <2>4 DEF Delivery
<1>2. Delivery /\ [Next]_vars => Delivery'
  BY TypedStep, OwnershipStep, OneLiveRoomStep, TravelsStep, QuietStep, GaplessStep
  DEF Delivery
<1>. QED  BY <1>1, <1>2, PTL DEF Spec

\* A connected member misses no edit and sees them in the order of their clocks,
\* whatever persists, whatever other members are dropped, and in however many
\* rooms the document has been.
THEOREM MembersFollowTheLog == Spec => []StreamsFollowLog
<1>1. Delivery => StreamsFollowLog
  BY DEF Delivery, Gapless
<1>. QED  BY <1>1, DeliveryInvariant, PTL

-----------------------------------------------------------------------------
(* The hub implements DocLog.                                              *)

\* An edit that WritePump hands to the peer is the next one of somebody else.
LEMMA WritesTheNext ==
    ASSUME Delivery, NEW c \in Clients, WriteMessage(c), conn[c] = "open",
           Head(send[c]) \in Edits
    PROVE  Log!Show(c)
<1>t. /\ send \in [Clients -> Seq(Outbound)] /\ received \in [Clients -> Seq(Edits)]
      /\ db \in Seq(Edits) /\ joinedAt[c] \in Nat
      /\ send[c] \in Seq(Outbound) /\ received[c] \in Seq(Outbound)
      /\ received[c] \in Seq(Edits) /\ Stream(c) \in Seq(Outbound)
  BY StreamType DEF Delivery, Typed, TypeOK
<1>. DEFINE e == Head(send[c])
            p == Len(received[c]) + 1
            l == Log!ShownUpTo(c)
<1>1. /\ send[c] # <<>> /\ received' = [received EXCEPT ![c] = Append(@, e)]
      /\ UNCHANGED <<db, author, joinedAt, pc>>
  BY DEF WriteMessage, logVars, connVars
<1>2. ~Unregistered(c)
  BY <1>1 DEF Delivery, Quiet
<1>3. PICK n \in 0..Len(db) : Shows(Stream(c), Foreign(c, n))
  BY <1>2 DEF Delivery, Gapless, Follows
<1>. DEFINE K == Foreign(c, n)
<1>4. /\ p \in DOMAIN Stream(c) /\ Stream(c)[p] = e
      /\ \A i \in DOMAIN received[c] : i \in DOMAIN Stream(c) /\ Stream(c)[i] = received[c][i]
      /\ p \in Nat /\ DOMAIN received[c] = 1 .. p - 1
  <2>1. \A a, b \in Seq(Outbound) : b # <<>> =>
           /\ Len(a) + 1 \in DOMAIN (a \o b) /\ (a \o b)[Len(a) + 1] = Head(b)
           /\ \A i \in DOMAIN a : i \in DOMAIN (a \o b) /\ (a \o b)[i] = a[i]
    OBVIOUS
  <2>. QED  BY <1>t, <1>1, <2>1 DEF Stream
<1>5. \A i, j \in DOMAIN db : db[i] = db[j] => i = j
  BY DEF Delivery, Travels, OnePlace
<1>6. PICK k \in K : e = db[k]
  BY <1>3, <1>4 DEF Shows
<1>7. K = {j \in joinedAt[c] + 1 .. n : author[db[j]] # c} /\ K \subseteq DOMAIN db
  BY <1>t DEF Foreign
<1>8. l \in Nat /\ joinedAt[c] <= l /\ l < k
      /\ \A j \in K : l < j => \A i \in DOMAIN received[c] : received[c][i] # db[j]
  <2>1. CASE received[c] = <<>>
    <3>1. l = joinedAt[c]
      BY <2>1 DEF Log!ShownUpTo
    <3>. QED  BY <1>t, <1>6, <1>7, <2>1, <3>1
  <2>2. CASE received[c] # <<>>
    <3>1. p - 1 \in DOMAIN received[c] /\ Len(received[c]) = p - 1
          /\ received[c][p - 1] \in Edits
      BY <1>t, <2>2
    <3>2. PICK q \in K : received[c][p - 1] = db[q]
      BY <1>3, <1>4, <3>1 DEF Shows
    <3>3. l = q
      <4>1. l = CHOOSE j \in DOMAIN db : db[j] = db[q]
        BY <2>2, <3>1, <3>2 DEF Log!ShownUpTo
      <4>. QED  BY <1>5, <1>7, <3>2, <4>1
    <3>4. q < k
      <4>1. /\ p - 1 \in DOMAIN Stream(c) /\ p \in DOMAIN Stream(c) /\ p - 1 < p
            /\ Stream(c)[p - 1] = db[q] /\ Stream(c)[p] = db[k]
        BY <1>4, <1>6, <3>1, <3>2
      <4>. HIDE DEF p, K
      <4>. QED  BY <1>3, <1>6, <3>2, <4>1 DEF Shows, K
    <3>5. \A j \in K : q < j => \A i \in DOMAIN received[c] : received[c][i] # db[j]
      <4>. SUFFICES ASSUME NEW j \in K, NEW i \in DOMAIN received[c],
                           q < j, received[c][i] = db[j]
                    PROVE  FALSE
        OBVIOUS
      <4>1. CASE i = p - 1
        BY <1>5, <1>7, <3>2, <4>1
      <4>2. CASE i < p - 1
        <5>1. j < q
          BY <1>3, <1>4, <3>1, <3>2, <4>2 DEF Shows
        <5>. QED  BY <1>t, <1>7, <5>1
      <4>. QED  BY <1>4, <4>1, <4>2
    <3>. QED  BY <1>t, <1>7, <3>2, <3>3, <3>4, <3>5
  <2>. QED  BY <2>1, <2>2
<1>. HIDE DEF l, p, K, e
<1>9. \A j \in l + 1 .. k - 1 : author[db[j]] = c
  <2>. SUFFICES ASSUME NEW j \in l + 1 .. k - 1, author[db[j]] # c PROVE FALSE
    OBVIOUS
  <2>1. j \in K /\ l < j /\ j < k
    BY <1>t, <1>6, <1>7, <1>8
  <2>2. PICK i \in DOMAIN Stream(c) : Stream(c)[i] = db[j]
    BY <1>3, <2>1 DEF Shows, K
  <2>3. i \in Nat
    BY <1>t
  <2>4. CASE i < p
    <3>1. i \in DOMAIN received[c]
      BY <1>t, <1>4, <2>3, <2>4
    <3>. QED  BY <1>4, <1>8, <2>1, <2>2, <3>1
  <2>5. CASE i = p
    BY <1>4, <1>5, <1>6, <1>7, <2>1, <2>2, <2>5
  <2>6. CASE p < i
    <3>1. k < j
      BY <1>3, <1>4, <1>6, <2>1, <2>2, <2>6 DEF Shows, K
    <3>2. k \in Int /\ j \in Int
      BY <1>t, <1>6, <1>7, <2>1
    <3>. QED  BY <2>1, <3>1, <3>2
  <2>. QED  BY <1>4, <2>3, <2>4, <2>5, <2>6
<1>10. k \in l + 1 .. Len(db) /\ author[db[k]] # c
  BY <1>t, <1>6, <1>7, <1>8
<1>. QED
  BY <1>1, <1>2, <1>6, <1>9, <1>10 DEF Log!Show, Unregistered, l

\* Every step of the hub is a step of the log, or changes nothing of it.
LEMMA StepRefines == Delivery /\ [Next]_vars => [Log!Next]_(Log!vars)
<1>. SUFFICES ASSUME Delivery, [Next]_vars PROVE [Log!Next]_(Log!vars)
  OBVIOUS
<1>. USE DEF hubVars, queueVars, roomVars, connVars, sendVars, pumpVars, logVars
<1>t. /\ pc \in [Clients -> PcStates] /\ db \in Seq(Edits)
      /\ task \in [Rooms -> RoomMessage \cup {NoMsg}]
  BY DEF Delivery, Typed, TypeOK
<1>. DEFINE Members == {c \in Clients : ~Unregistered(c)}
\* Nothing that is part of the log changes.
<1>s. ASSUME UNCHANGED <<db, author, joinedAt, received>>,
             \A c \in Clients : Unregistered(c)' = Unregistered(c)
      PROVE  UNCHANGED Log!vars
  <2>1. Members' = Members
    BY <1>s
  <2>. QED  BY <1>s, <2>1 DEF Log!vars
<1>1. ASSUME NEW c \in Clients, Handler(c) PROVE UNCHANGED Log!vars
  <2>1. UNCHANGED <<db, author, joinedAt, received>>
    BY <1>1 DEF Handler, LookupFast, LookupAgain, CreateRoom, StartPumps,
                ReadError, SendEdit, SendPresence
  <2>2. \A d \in Clients : Unregistered(d)' = Unregistered(d)
    BY <1>1, <1>t DEF Handler, LookupFast, LookupAgain, CreateRoom, StartPumps,
                ReadError, SendEdit, SendPresence, TakeRoom, Unregistered
  <2>. QED  BY <1>s, <2>1, <2>2
<1>2. ASSUME NEW c \in Clients, NEW e \in Edits, ReadEdit(c, e) PROVE Log!Submit(c, e)
  <2>1. /\ ~Unregistered(c) /\ author[e] = Nobody /\ author' = [author EXCEPT ![e] = c]
        /\ UNCHANGED <<db, joinedAt, received>>
        /\ \A d \in Clients : Unregistered(d)' = Unregistered(d)
    BY <1>2, <1>t DEF ReadEdit, Unregistered
  <2>2. Members' = Members
    BY <2>1
  <2>. QED  BY <2>1, <2>2 DEF Log!Submit
<1>3. ASSUME NEW c \in Clients, Upgrade(c) \/ ReadPresence(c) \/ ConnectionBreaks(c)
      PROVE  UNCHANGED Log!vars
  <2>1. UNCHANGED <<db, author, joinedAt, received>>
    BY <1>3 DEF Upgrade, ReadPresence, ConnectionBreaks
  <2>2. \A d \in Clients : Unregistered(d)' = Unregistered(d)
    BY <1>3, <1>t DEF Upgrade, ReadPresence, ConnectionBreaks, Unregistered
  <2>. QED  BY <1>s, <2>1, <2>2
<1>4. ASSUME NEW c \in Clients, WritePump(c) PROVE Log!Show(c) \/ UNCHANGED Log!vars
  <2>1. UNCHANGED <<db, author, joinedAt, pc>>
    BY <1>4 DEF WritePump, WriteMessage, WriteFails, WriteClose, PingFails
  <2>2. \/ received' = received
        \/ WriteMessage(c) /\ conn[c] = "open" /\ Head(send[c]) \in Edits
    BY <1>4 DEF WritePump, WriteMessage, WriteFails, WriteClose, PingFails
  <2>. QED  BY <1>s, <2>1, <2>2, WritesTheNext DEF Unregistered
<1>5. ASSUME NEW r \in Rooms, NEW c \in Clients, RunRegister(r, c) PROVE Log!Join(c)
  <2>1. /\ Unregistered(c) /\ pc' = [pc EXCEPT ![c] = "registered"]
        /\ UNCHANGED <<db, author, received>>
        /\ joinedAt' = [joinedAt EXCEPT ![c] = Len(db)]
    BY <1>5 DEF RunRegister, Unregistered
  <2>2. \A d \in Clients : Unregistered(d)' = (Unregistered(d) /\ d # c)
    BY <1>t, <2>1 DEF Unregistered
  <2>3. Members' = Members \cup {c} /\ c \notin Members
    BY <2>1, <2>2
  <2>. QED  BY <2>1, <2>3 DEF Log!Join
<1>6. ASSUME NEW r \in Rooms, NEW c \in Clients, RunUnregister(r, c)
      PROVE  UNCHANGED Log!vars
  <2>1. /\ pc[c] = "unregistering" /\ pc' = [pc EXCEPT ![c] = "returned"]
        /\ UNCHANGED <<db, author, joinedAt, received>>
    BY <1>6 DEF RunUnregister
  <2>2. \A d \in Clients : Unregistered(d)' = Unregistered(d)
    BY <1>t, <2>1 DEF Unregistered
  <2>. QED  BY <1>s, <2>1, <2>2
<1>7. ASSUME NEW r \in Rooms, PersistOK(r) PROVE Log!Commit(task[r].data)
  <2>. DEFINE e == task[r].data
  <2>1. /\ run[r] = "persist" /\ db' = Append(db, e)
        /\ UNCHANGED <<author, joinedAt, received, pc>>
    BY <1>7 DEF PersistOK
  <2>2. e \in Edits /\ task[r].sender \in Clients
    BY <2>1 DEF Delivery, Typed, TaskHeld, RoomMessage
  <2>3. author[e] # Nobody
    BY <2>1, <2>2, DistinctAssumption DEF Delivery, Travels, Origins, Holding, Honest
  <2>4. ~InLog(e)
    BY <2>1, <2>2 DEF Delivery, Travels, OnePlace, InTask
  <2>5. Members' = Members
    BY <2>1 DEF Unregistered
  <2>. QED  BY <2>1, <2>3, <2>4, <2>5 DEF Log!Commit, Log!Committed, InLog
<1>8. ASSUME NEW r \in Rooms,
             \/ RunBroadcast(r) \/ PersistFails(r) \/ RunFanout(r) \/ RunAwareness(r)
             \/ RunShutdown(r) \/ Reap(r)
      PROVE  UNCHANGED Log!vars
  <2>1. UNCHANGED <<db, author, joinedAt, received, pc>>
    BY <1>8 DEF RunBroadcast, PersistFails, RunFanout, RunAwareness, RunShutdown, Reap
  <2>. QED  BY <1>s, <2>1 DEF Unregistered
<1>9. CASE Main \/ UNCHANGED vars
  <2>1. UNCHANGED <<db, author, joinedAt, received, pc>>
    BY <1>9 DEF Main, StopHTTP, HubShutdown, WaitReturns, ClosePool, vars
  <2>. QED  BY <1>s, <2>1 DEF Unregistered
<1>10. ASSUME NEW r \in Rooms, PersistOK(r) PROVE \E e \in Edits : Log!Commit(e)
  <2>1. task[r].data \in Edits
    BY <1>10 DEF PersistOK, Delivery, Typed, TaskHeld, RoomMessage
  <2>. QED  BY <1>7, <1>10, <2>1
<1>11. ASSUME NEW c \in Clients, Handler(c) \/ Peer(c) \/ WritePump(c)
       PROVE  Log!Next \/ UNCHANGED Log!vars
  BY <1>1, <1>2, <1>3, <1>4, <1>11 DEF Peer, Log!Next
<1>12. ASSUME NEW r \in Rooms, Run(r) \/ Reap(r)
       PROVE  Log!Next \/ UNCHANGED Log!vars
  BY <1>5, <1>6, <1>8, <1>10, <1>12 DEF Run, Serve, Persist, Log!Next
<1>. QED  BY <1>9, <1>11, <1>12 DEF Next

\* Whatever peer drops, write fails or room is replaced, the hub is one log with
\* ordered, gapless delivery: an edit is committed at most once, and what a peer
\* gets continues the log where it was.
THEOREM HubImplementsLog == Spec => ImplementsDocLog
<1>1. Init => Log!Init
  BY DEF Init, Log!Init, Unregistered
<1>. QED
  BY <1>1, DeliveryInvariant, StepRefines, PTL DEF Spec, ImplementsDocLog, Log!Spec

=============================================================================
