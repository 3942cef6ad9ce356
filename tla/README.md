# docflow-core: models, checks and proofs

docflow-core is the Go back end of a collaborative board: workspaces with
members, boards with columns and cards, and one shared document per card that
several browsers edit at once over WebSockets (Yjs updates). This directory
holds TLA+ modules for the parts of it in which the order of things matters,
TLC configurations that check them on small instances, and TLAPS proofs of all
the checked safety properties for every value of the constants. `PROJECT.json`
lists runs, findings, hazards and theorems, and maps definitions to source lines.

Contents: 1 inventory, 2 conventions, 3 modules, 4 runs, 5 fairness,
6 proofs, 7 disagreements between code and comments, 8 limits, 9 plan.

## 1. Inventory

Everything the server knows is either in PostgreSQL or in the memory of one
process: the hub's rooms and the rate limiter's buckets. (Redis is connected
and pinged; nothing is kept there.) An HTTP request is one goroutine that runs
a chain handler - middleware - service - repository; **almost every repository
call is one statement on the pool, with no transaction around a request**, so
that what an early statement read may be stale when a later one writes. A
WebSocket connection has two goroutines, every room has an event loop, and they
talk over channels.

| component | source | state | operations | what is hard |
|---|---|---|---|---|
| document rooms | `ws/hub.go`, `ws/room.go`, `ws/client.go`, `handlers/ws.go` | `docRooms` map, per room: members, four channels; per connection: send channel, two goroutines | look up or create, register, read, persist, fan out, drop a slow client, unregister, reap | a send channel is closed from three places; a room may end while somebody is about to register; bounded channels; a room and its replacement side by side |
| ordered shutdown | `cmd/api/main.go`, `ws/hub.go` | the phase of `main` | stop HTTP, close the rooms of the map, wait, close the pool | hijacked connections are not waited for by `server.Shutdown`; the wait has a timeout, the database calls it waits for have none |
| document store | `repositories/documents.go`, `services/documents.go` | rows `documents` and `document_updates` | append an update under the next clock, load, read since a clock, compact | row lock between two statements, a COMMIT whose reply is lost, compaction next to writers |
| roles | `services/boards.go`, `services/workspaces.go`, their repositories, `middleware/board.go`, `middleware/workspace.go` | `workspace_members`, `board_members`, visibility | invite, remove, promote, transfer ownership, create and delete boards | check, then write: roles may change in between |
| cards | `services/cards.go`, `repositories/cards.go`, `utils/fractional.go` | `cards`: column, position, archived | create, move, archive, delete, rebalance; events to open boards | neighbours read one by one, a rebalance that reads and then writes, stale positions from clients, rounding, a failure between a write and its event |
| columns | `services/columns.go`, `repositories/columns.go` | `columns` | create, rename, move, delete with cards | as cards, without rebalancing; two requests whose events arrive in the other order than their writes |
| invitations | `services/invitations.go`, `repositories/invitations.go` | `workspace_invitations` | send, accept, cancel, expire | three tables in separate statements, mail that is lost, a partial unique index |
| accounts and sessions | `services/auth.go`, `repositories/refresh_tokens.go`, `users.go` | `users`, `refresh_tokens` | register, login, refresh (rotation, theft detection), logout | two refreshes of one token, a failure half-way, one whose error is discarded |
| board rooms | `ws/hub.go`, `handlers/ws.go` | `boardRooms` map, members, channels | register, unregister, broadcast of events from HTTP handlers | an HTTP handler that sends to a room that has ended |
| rate limiter | `middleware/ratelimit.go` | bucket per address | take a token, refill, clean up | a bucket deleted between lookup and use, or created twice; fractions of tokens and of seconds |
| the rest | router, handlers, config, email, JWT, hashing, validation | none | decode, encode, one call | nothing that interleaves |

How they interact: `HandleDocumentWS` checks a token, takes a room from the hub
and registers; the room calls the document store for every edit and only then
fans it out. Handlers of cards and columns change rows and then send an event
through the hub to a board room. Deleting a card deletes its document by
cascade, deleting a column its cards, removing a workspace member does not touch
his board rows. Invitations and direct adding write the same member rows. All
HTTP endpoints below a workspace or board go through the role checks.

What makes each component correct:

- *Document rooms*: no panic on a closed channel, one event loop per document,
  nothing is shown that is not stored, every member sees the log in its order
  without a gap, or is disconnected; dead rooms are forgotten; nothing waits
  forever.
- *Shutdown*: its wait ends, rooms drain, the pool is closed, and nobody uses it
  after that.
- *Document store*: clocks are dense and unique, a reconnecting client misses
  nothing, compaction loses nothing.
- *Roles*: a board that exists has exactly one owner, a workspace its founder;
  board members are workspace members when added.
- *Cards and columns*: a card lies in a column of its own board; moves land where
  they were asked, and others keep their order; a client that loads the board
  and applies the events shows what is stored.
- *Board rooms*: no panic on a closed channel; who publishes finds the room the
  members are in; a member gets every event or is disconnected; no handler is
  held up by a room that runs.
- *Rate limiter*: never more requests than burst and refill allow; a client is
  refused only when it used up its share, and not again after the time it was
  told to wait.
- *Invitations*: only addressees of an invitation join, with its role, once; at
  most one is pending per address; one that cannot be used does not block the
  next.
- *Sessions*: a token is exchanged once, a replaced one stays revoked, one
  session per user, theft ends all of them, and nobody ends somebody else's.

## 2. Conventions

- One module per component, constants as parameters, one action per handler
  step, statement or `select` case, `MC*` modules with definitions for TLC.
  A definition keeps the name of the Go function it models.
- A request of the HTTP components occupies a *slot*; `stage[s]` says which
  statement comes next and `call[s]` what it remembers. `Abandon(s)` is a
  failing statement or a cancelled context; what was written before stays.
- Ghost variables, which the code does not have, are marked in their comments.
- A definition named `X_Y` is `X` with the mistake `Y` (a dropped guard, a
  missing reset). No action uses it: replacing `X` by `X_Y` must make the
  property it is listed with in `PROJECT.json` fail, which shows that the
  property looks at this code.
- Most configurations say `CHECK_DEADLOCK FALSE`, because their supplies of
  connections, edits, cards, tokens or requests are bounded and get used up, or
  because the subject can be deleted (a workspace, a document): then nothing is
  left to do, in the program as in the model. Real waiting for ever is looked
  for with the liveness properties of `DocRoom` and `BoardRoom`.

## 3. Modules

### DocRoom, DocLog, DocRoomProofs: the hub's document side and the shutdown

`DocRoom` has one document, with `Rooms` as identities of `*Room` values, so that
a room which has ended and its replacement exist side by side, and `Clients` as
connections, each used once.

| code | model |
|---|---|
| `Hub.docRooms[id]` under `mu` | `docRoom` |
| goroutine `HandleDocumentWS` ... `ReadPump` | `pc[c]`, actions of `Handler(c)`; the read-locked lookup and the re-check under the write lock are two actions |
| goroutine `WritePump` | `pump[c]`, actions of `WritePump(c)` |
| goroutine `Room.Run` | `run[r]`, one action per `select` case; the broadcast case is three (take, persist, fan out), because `PersistUpdate` waits for the database. `Run(r)` is `Serve(r)`, what the loop does of itself, or `Persist(r)`, the answer of the database |
| unbuffered `register`, `unregister` | one joint action of `Run(r)` and the handler |
| `broadcast`, `awareness`, `client.send` | sequences with the capacities `BroadcastCap`, `AwarenessCap`, `SendCap` |
| `close(client.send)` and sends on it | `CloseAndUse(S, T)`: a second close or a send after a close sets `panicked` |
| `watchDocRoom` | `Reap(r)` |
| `main.go` after the signal, `Hub.Shutdown` | `StopHTTP`, `HubShutdown`, `WaitReturns`, `ClosePool` (which waits for connections in use) |

`DocLog` is what this machinery promises: a log to which each submitted edit is
committed at most once, and members that are shown the others' edits in the
order of the log, from where they joined, without a gap. `ImplementsDocLog`
states that `DocRoom` implements it, with `log <- db`, `seen <- received`; a
member that is cut off just sees no more. What a connection was sent and has not
lost is its `Stream`; `Foreign(c, n)` are the clocks up to `n` that it should show,
and `Shows` relates the two: those edits, each once, in the order of the clocks.

### DocumentStore, DocumentStoreProofs: the rows of one document

`IncrementClock` is `SelectForUpdate` (takes the row lock), then `Commit`,
`CommitConflicts` (the unique index) or `Rollback`; a COMMIT whose reply is lost
is a commit that is not acknowledged. `Load` is `GetSnapshot` of the service,
`Reconnect` a client that has a clock from an earlier time. A Yjs state is the
set of edits merged into it, which is what Yjs guarantees about merging.
`CompactSnapshot` and `GetUpdatesSinceClock` exist but have no caller in the
repository: without compactors the module is the program as it runs, with one it
checks what these functions' comments promise. The ghost `compacted` tells the
two apart in one run: what holds of the clocks is stated until a compaction has
been stored, and `NoEditLost` at any time.

### BoardRoles, BoardRolesProofs: who may do what

One workspace and one board. A request goes through `Arrive` (middleware reads
the workspace role), `ResolveRole` (board role: the row, or admin for workspace
owners and admins), `CheckAccess` (visibility), `Approve` (the service's rule,
which reads the target's row) and one writing action per repository method.
All eleven endpoints that write are there; renaming has no effect on this state
except through `updateBoard`'s visibility. The constant `Overlaps` says which
endpoints may be in flight at the same time; the proofs do not depend on it.
Two ghosts follow what a committed transfer makes stale: `overtaken` are the
requests that had read what they need of the owner it replaces (`ReliesOn`:
another transfer by him, an approved removal or demotion of who takes his place),
`contested` says that one of them wrote nevertheless.

### CardOrder, CardOrderProofs: cards, columns, positions and events

`MoveChecks`, `ReadBelow`, `ReadAbove`, `Decide`, then either `Move`, or
`SelectOrder` and `RewritePositions` (the two halves of `RebalanceColumn`'s
transaction) and the neighbours again. `UpdateCard`, `SetStatus`, `DeleteColumn`
and `UpdateColumn` are one statement each (their lookups only choose an error);
`Create` and `CreateColumn` come after a separate read of the highest position.
A `title` stands for all that the two updates overwrite.

Positions are doubles in the code (`DOUBLE PRECISION`, `float64`) and members of
the constant `Positions` in the model, the numbers a double can be: every sum and
midpoint is rounded to the nearest of them (`RoundedHalf`). The runs take a set
that is dense at first and has gaps wider than the threshold further up (`Doubles`
in `MCCardOrder`), the proofs any set of natural numbers with 0 and the multiples
of `Step` in it that a rebalance writes. `Step` stands for 1000 and `MinGap` for
0.001. With the values of the code a gap of 1000 is used up after about 20 moves
into it (`fractional.go:5` says about 30), in the runs after one or two, so that
rebalancing happens in all of them. The threshold of `NeedsRebalance` is absolute:
far up, where neighbouring doubles are further apart than 0.001, a gap can pass
the test and its midpoint round onto one of its ends (`MidpointIsBetween`, which fails). For a
move that is harmless as long as the requested position lies strictly between the
neighbours: it is a double, and nearer to the midpoint than either of them, so that the
midpoint is rounded onto neither. Only when `ref + 1000` rounds to `ref` and no
card lies above, the gap ends at `ref`, and the card may get the position of the card
below. `PlacedWhereAsked` says just that. Rows with
equal positions may be read in any order (`Numberings`), as `ORDER BY position`
allows.

`view` and `columnView` are a browser's: `GetBoardDetail` loads them, at any
time, and `Notify` applies the event of a request (`CardsAfter`, `ColumnsAfter`),
a statement or more after its write. In between, `Reload` reads the card again
where the code does; of an `UnarchiveCard` the row read then (`loaded`) is what the
event says later. `EventLost` ends a request after its write and before its event:
the reply to the statement is lost, the context is cancelled, or a query after it
fails. Three ghosts remember what events cannot repair: `silent`, cards a
rebalance rewrote without telling; `lost`, cards and columns whose event was never
sent; `crossed`, cards and columns of which two requests were both written and not
yet published, so that their events may come in either order. A whole event
(archived, unarchived, deleted) clears the first two, except that what an
unarchived card was read as may be rewritten before its event is sent; a load with
nothing in flight clears all.

The ghost `disturbed` are the requests whose column another request changed (a card
of it added, taken away or moved) since they began, or since their own rebalance
read it. What `MoveCard` promises of places and order is stated of all the others.

### BoardRoom, BoardRoomProofs: the hub's board side

The counterpart of `DocRoom` for `/ws/boards/:id`, with the same state per room
and connection (`pc`, `pump`, `run`, `clients`, `send`) but without a log, and
with publishers: an HTTP handler has committed its change (`WriteChange`), looks
the room up under the read lock (`FindRoom`) and sends to it after the lock is
released (`Publish`), when the room may have ended. A case of this `Run()` never
waits for anything, so it is one action. `feed` (ghost) is what a room sent out,
`joinedAt` where in it a member started, `Reached` how far it has received it;
`Carries` says that a channel holds the given entries of the feed, once and in
order, whatever `USER_JOINED` messages lie between them.

### RateLimit, RateLimitProofs: the token bucket of one address

`Lookup`, `LookupAgain`, `Create` (all under `rl.mu`) and `Use` (under the
bucket's own mutex, after `rl.mu` was released) next to `CleanupLooks` and
`CleanupEnds`, which hold `rl.mu` for the whole loop. `Tick` is the clock. The
code computes with doubles; here `Token = Window * Second` parts are a token, so
that a tick refills a whole number of parts and nothing has to be rounded, except
`Retry-After`, which is rounded as in the code. `from` is any point of time, chosen
at the beginning; `taken` counts the requests admitted since, so that a property
of `[from, now]` is one of every window. `late` are requests that hold a bucket
which the cleanup found idle, `lateTaken` those of them that were admitted.

### Invitations, InvitationsProofs: joining by e-mail

`SendChecksMember`, `SendChecksPending`, `CreateInvitation`; `AcceptFinds`,
`AcceptGetsMember`, `AddMember`, `MarkAccepted`; `CancelInvitation`, `Expire`,
next to `Register`, `InviteMember` (adding somebody directly) and
`RemoveMember`; the ghost `joined` remembers who was ever in. A person is a
lower-case address; `MixedCase` are those who registered with capitals, whom the
case-sensitive `FindByEmail` does not find.
`PendingFor` is what the partial unique index sees, `LivePendingFor` what the
service asks for.

### Sessions, SessionsProofs: accounts and refresh tokens

`Register`, `Login`, `Refresh`, `Logout` statement by statement. A token in
`held` reached a client and can be presented at any later time, by whoever has a
copy. When reuse is detected theft is reported, whether `RevokeAllForUser` did
its work or failed (`auth.go:125` discards its error); `RefreshRevokesAll` has both
outcomes. Ghosts: `parent` remembers what a token was exchanged for, `locked` whose
reuse was detected, `spared` those of them whose revocation failed the last time,
`shared` the tokens which two refreshes found good at the
same time, and `raced` the users two of whose own requests were in flight at the
same time since their last undisturbed login.

## 4. Runs

Bounds are in the `.cfg` files; the reasons are here. Three runs also cut the search
with a CONSTRAINT defined in their MC module (`OneSubject`, `FourOnOneBoard`,
`TokensSuffice`); all their properties are safety properties, so that what is cut off
hides no violation in what is explored.

| run | shows | bounds and why they are enough |
|---|---|---|
| `docroom_safety` | `NoPanic`, `OneLiveRoom`, `DeliveredIsPersisted`, `StreamsFollowLog`, `ImplementsDocLog` | 2 connections, 2 rooms, 2 edits of either author, buffers of 1, one cursor message, shutdown with timeout: every pair of closers of a channel meets, an ended room is replaced while the old one is still there, SYNC_STEP_1 alone fills a buffer so that slow clients are dropped. All are proved for all values (section 6) |
| `docroom_liveness` | `DroppedClientDisconnects`, `EditReachesPeers`, `DeadRoomForgotten`, `ShutdownEnds`, `RoomTakesWhatItIsSent` | 2 connections, 1 edit, 1 room, buffers of 1, the wait of the shutdown may time out, and a database call may never return: `ShutdownEnds` asks that the wait returns in any case, and that rooms drain and the pool is closed unless a call hangs. One room is enough: what each property asks of a room does not depend on another one, and replacement is in the safety run |
| `docroom_edits_abandoned` | fails `NoEditAbandoned` | as above; see section 7 |
| `roles` | `FounderOwnsWorkspace`, `ExactlyOneOwner` | founder and two others (an actor, a target and a bystander), all eleven endpoints, and two at once where one decides on a row that the other writes (`Rivals`): on workspace roles, or transfers with transfers, removals, role changes, additions and the deletion of the board. Two overlap while there is no board or while the members of the workspace are those of the beginning (`OneSubject`); a request alone may follow anything. Both are proved for any overlap, users and slots |
| `roles_two_owners` | fails `AtMostOneOwner` | two requests at once on the board; see section 7 |
| `document_store` | `ClocksAreDense`, `NoClockConflict`, `ReconnectMissesNothing`, `NoEditLost` | two writers, four edits, one reader, one compactor: lost replies, rollbacks, deletion of the card and a compaction in every order. The first three are proved for all values, `NoEditLost` for at most one compactor; with two it is false |
| `cards_moves` | `TypeOK`, `PlacedWhereAsked`, `RebalanceMakesRoom`, `OrderOfOthersKept` | one column, two cards (one moves, one is its neighbour), two requests at once, four in all: two to create, one that needs a rebalance and one that disturbs it; positions where doubles are dense, sparse, and so sparse that adding `Step` is lost. All are proved for any cards, columns, positions and overlap |
| `cards_boards` | `CardsStayOnBoard`, `ViewFollowsEvents` | two boards, three columns (one created later), two cards, two requests at once, any endpoint, each of which may fail before or after its write, and loads at any time; three requests on both boards, four on one (`FourOnOneBoard`): a card and a column to act on, a change of each that crosses another one, a rebalance between reload and event. Both are proved for all values |
| `board_room` | `NoPanic`, `PublishersReachMembers`, `FeedWithoutGap`, `ChangeReachesMembers`, `DroppedClientDisconnects`, `HeldOnlyByDeadRoom` | two connections, two rooms, two events, buffers of 1, shutdown without timeout: a second event finds a buffer full, a slow client is dropped, a room ends while a publisher holds it and is replaced. The first three, the safety properties, are proved for all values |
| `rate_limit` | `WindowBound`, `RetryAfterSuffices`, `DeniedOnlyWhenUsedUp` | two requests at once; three buckets (the current one and one that either request still holds); 2 tokens per 2 seconds of 2 ticks, so that a tick refills half a token; pruned after 4 ticks, 10 ticks: time to use a bucket up, to be pruned and to use up the next. All are proved for all values |
| `invitations` | `MembersWereInvited`, `OnePendingPerPerson`, `AcceptedHasJoined`, `AcceptKeepsRole` | two people, one of whom registered with capital letters and one of whom may be added directly, two invitations, two requests at once, members who are removed and come back. All are proved for all values |
| `sessions` | `ReplacedIsRevoked`, `SingleSession`, `ExchangedOnce`, `ReuseEndsEverySession`, `OthersKeepTheirSession` | two users, two requests at once, failing at any statement; three tokens for one user (a login, a refresh and a third), two when both have an account (`TokensSuffice`). All are proved for all values |

The type invariants (`TypeOK`) of all modules are proved for all values (section 6).
Only that of `CardOrder` is also part of a run, because what makes it hold is the
reading of highest and lowest positions, where a mistake is easily made.

Some properties hold only as long as requests do not overlap, or do not fail. A
ghost then tells whom that concerns, the property excludes just those, and the
run has overlapping and failing requests: `raced`, `shared` and `spared` in
`Sessions`, `crossed`, `lost`, `silent` and `disturbed` in `CardOrder`, `contested` in
`BoardRoles`, `late` in `RateLimit`, `compacted` in `DocumentStore`. What happens to
those who are excluded is stated by the properties that fail (section 7). No run
and no theorem keeps requests apart to make a property hold.

To run one: `tlc -config MCDocRoom_Live.cfg MCDocRoom`.

## 5. Fairness

`DocRoom` and `BoardRoom` have liveness properties. Their `FairSpec` asks for weak
fairness of each goroutine: `Handler(c)`, `WritePump(c)`, the event loop (`Serve(r)`
in `DocRoom`, `Run(r)` in `BoardRoom`), `Reap(r)`, `BroadcastToBoard(e)` of a handler
that has changed a row, and the steps of `main` after the signal (`HubShutdown`,
`WaitReturns`, `ClosePool`). This is what the Go scheduler gives: a goroutine that can
go on is run eventually. It is fairness of the goroutine as a whole, not of a
`select` case, since Go picks ready cases at random but promises none of them.
Writes to a socket end, with success or an error, because they have a deadline
(`client.go:149`), and so does the wait of `Hub.Shutdown` (`main.go:171`).

`PersistUpdate` has none: `room.go:150` passes `context.Background()`, and neither the
service nor the repository sets a limit. So nothing is assumed of the database:
`PersistOK` and `PersistFails` (`Persist(r)`) are under no fairness, and a call that is
never answered keeps its room in `persist` for good (`Hangs(r)`). The properties name
it where it matters: `RoomTakesWhatItIsSent` and the second and third part of
`ShutdownEnds` hold unless it happens, everything else also then. `PoolCloses`, which
does not except it, fails.

Nothing is assumed of browsers (`Peer(c)`: they may never connect, read, write or
leave), of users (`WriteChange`) or of the operator (`StopHTTP`) either. A failing
ping or write is an alternative of `WritePump`, never owed while the connection is
open.

## 6. Proofs

| theorem | says |
|---|---|
| `DocRoomProofs!TypeCorrect` | types |
| `DocRoomProofs!NeverPanics` | no second close of a send channel and no send on a closed one |
| `DocRoomProofs!AtMostOneLiveRoom` | every running event loop is the hub's |
| `DocRoomProofs!PersistedBeforeDelivered` | what is queued for or was sent to a peer is stored |
| `DocRoomProofs!MembersFollowTheLog` | a connected member was sent the log since it joined, in order, without a gap |
| `DocRoomProofs!HubImplementsLog` | `DocRoom` implements `DocLog`, step by step |
| `BoardRoomProofs!TypeCorrect` | types |
| `BoardRoomProofs!NeverPanics` | as in document rooms |
| `BoardRoomProofs!MembersAreReachable` | publishers find the room the members are in |
| `BoardRoomProofs!NoEventIsSkipped` | a member gets its room's feed from where it joined, without a gap |
| `RateLimitProofs!TypeCorrect` | types: no bucket holds more than its capacity |
| `RateLimitProofs!RateIsLimited` | no window admits more than capacity and refill |
| `RateLimitProofs!RetryAfterIsEnough` | after `Retry-After` there is a token |
| `RateLimitProofs!DenialsAreEarned` | nobody is refused who has not used up the window's requests |
| `BoardRolesProofs!FounderStaysOwner` | the founder is the workspace's one owner while it exists |
| `BoardRolesProofs!BoardKeepsOneOwner` | a board has one owner until a request writes what a transfer made stale |
| `DocumentStoreProofs!UpdatesAreDense` | clocks 1..n, each once |
| `DocumentStoreProofs!NoTwoWritesOneClock` | no writer runs into the unique index |
| `DocumentStoreProofs!ReconnectIsComplete` | a reconnect misses nothing |
| `DocumentStoreProofs!AcknowledgedEditsStay` | with at most one compactor, compaction loses no acknowledged edit |
| `SessionsProofs!TypeCorrect`, `InvitationsProofs!TypeCorrect`, `BoardRolesProofs!TypeCorrect`, `DocumentStoreProofs!TypeCorrect`, `CardOrderProofs!TypeCorrect` | types |
| `SessionsProofs!RotatedTokensStayRevoked` | an exchanged token is never good again |
| `SessionsProofs!OnlyOwnRequestsEndASession` | no user's request ends another user's session |
| `SessionsProofs!OneSession` | one session per user from an undisturbed login on |
| `SessionsProofs!OneExchange` | a token is exchanged once, unless two refreshes found it good |
| `SessionsProofs!NoSessionAfterReuse` | no session is left after a reuse, unless requests of the user overlapped or the revocation failed |
| `InvitationsProofs!OnlyAddresseesJoin` | members have the role of an invitation sent to them |
| `InvitationsProofs!AtMostOnePending` | one pending invitation per address |
| `InvitationsProofs!AcceptedMeansJoined` | accepted invitations let their addressee in |
| `InvitationsProofs!RolesAreKept` | accepting overwrites no role |
| `CardOrderProofs!CardsKeepTheirBoard` | a card lies in an existing column of its own board |
| `CardOrderProofs!ClientFollowsEvents` | a client that applies the events shows what is stored |
| `CardOrderProofs!MovesGoWhereAsked` | an undisturbed move ends between the cards it was dropped between |
| `CardOrderProofs!OneRebalanceSuffices` | the second look at the neighbours of an undisturbed move finds room |
| `CardOrderProofs!OrderIsKept` | only a move, or a rebalance that was disturbed, changes the order of two cards |

They hold for any sets of connections, rooms, edits, users, slots and writers
and any capacities, from the named assumptions of the modules (capacities are
positive, special values are distinct from the members of the sets, the window of
the rate limiter is no longer than the time after which a bucket is pruned, a
board has finitely many cards and columns, which are rows of different tables).
One assumption is part of a theorem, because without it the property is false:
`AcknowledgedEditsStay` is about at most one compactor. What the first three store
theorems say holds until a compaction has been stored; after one it is false
(section 7).

*NeverPanics.* `NoPanic` is not inductive: that a channel of a member is open
has to be known. `Ownership` says who may close what: a channel is closed only
for connections that are past registration and are members of no room, members
of a room are connections that got that very room and are past registration, and
nobody is panicked. A closer always removes the connection from the members in
the same step, and `IsMember` guards the unregister that comes after. Since a
connection belongs to the one room it got (`myRoom`), no other room can close
its channel. `Typed`, the type invariant with two facts about what a waiting
goroutine holds (`TaskHeld`, `RoomChosen`), carries all of it.

*AtMostOneLiveRoom.* Inductive on top of `Typed`: a room starts running only
when the map has no room, in the step that enters it, and `Reap` forgets only a
room that has returned.

*PersistedBeforeDelivered.* `PersistedFirst`: whatever is in a send channel or
was received is in the log or is no edit, and a room in its fan-out holds an edit
that is in the log. The log only grows (`LoggedGrows`), so what was shown stays
stored.

*MembersFollowTheLog.* Three layers. `Travels`: an edit is in one place, its
author's hand, the room's channel, the event loop's hand or the log, so that no
edit is stored twice and the author of an entry does not change. `Quiet`: nobody
is sent anything before registering, and what a room fans out is the last entry of
the log. `Gapless`: whoever is connected was sent the log up to some clock, also
when its room has let go of it, and a member up to the last fan-out. The first
half is what makes it inductive: a client that is dropped and stays connected
must still hold a beginning of the log when `Run()` forgets it. The lemmas
`ShowsNext`, `ShowsSkip` and `ShowsNoise` say what one more message does to
`Shows`: the next foreign edit, an own one, or none.

*HubImplementsLog.* `StepRefines` carries each action to one of `DocLog`:
`Register` to a join, `Persist` to a commit, the hand-over of an edit to its
submission, `WritesTheNext` (a write to the socket delivers exactly the next
foreign entry, by `Gapless`) to showing it, and the rest to a stutter.

*FounderStaysOwner.* Roles read by a request may be stale, so the invariant says
nothing about them. It says what an approved request may be about (`Requests`):
no request that removes or changes a member and got past its check has the
founder as its target, because the founder's role was `owner` whenever it was
read; and no request carries `owner` as its role. For the types, `Arguments` keeps that
a request carries what the validators of its endpoint let through.

*BoardKeepsOneOwner.* The rows themselves name one owner (`OneOwner`); what makes
that inductive is what stale checks are still worth. `Spared`: a removal or change
of role that got past its check is not aimed at the owner, unless it is in
`overtaken`, since nobody becomes owner but by a transfer, and a transfer overtakes
the approved ones that are aimed at the new owner. `StillOwned`: a transfer that saw
its caller own the board writes while he does, unless it was overtaken. A request
that writes without having been overtaken therefore keeps `Sound`; the first one
that was overtaken sets `contested`, and from then on the invariant says nothing.

*Store.* `Locked`: the writer between its two statements holds the row lock, and
the clock it read is still the document's. From this `ClocksAreDense` is
inductive; with `AllStored` and `Reachable` (what a reader has and its clock
cover what was committed then) `ReconnectMissesNothing` follows.
`AcknowledgedEditsStay` needs `MergeCovers`: what a compactor has in hand covers
every acknowledged edit up to the clock it is about to delete up to.

*Sessions.* `Callers` says what a request in flight may rely on although it read
it several statements ago: accounts are never deleted, a token keeps its owner,
and a revoked token stays revoked, so the request between `Revoke` and `Create`
still has a revoked token in hand. `Owners` adds that whoever owns a token has
an account.

*OneSession* and *NoSessionAfterReuse* have one invariant, `Serial`, about the
users who are not in `raced`: between the statements of such a user's request
nobody else writes their tokens, so that what `Undisturbed` says of each stage
(after `RevokeAll` no good token is left, before `Revoke` at most the one that is
presented) is still true when the next statement writes. `Requests` is why: a
user with two requests in flight is in `raced`. `Ended` are the users with a detected
reuse whose revocation did not fail, which is all that a later refresh relies on.
*OneExchange* follows a token instead of a user: `Once` says that outside `shared`
one refresh at a time has found it good, and none once it was exchanged.

*Invitations.* `Callers` again: the addressee and the role of an invitation never
change after it was created, only its status does, so what `AcceptFinds` read is
still true of them when `AddMember` inserts. `Addresses` types what an existing
invitation holds, `Joined` says that members have joined at some time, and
`Unique` is `OnePendingPerPerson` without counting; the unique index, which
`CreateInvitation` asks in the same statement, makes it inductive.

*Cards.* `Requests` keeps what a move or a creation checked: the column it goes
to is on the card's board, which holds whatever happens to the column or the
card meanwhile, since a column never changes its board and a card that is gone
never returns. `OneCreator` says that two creations in flight are of different
cards. Positions play no part in it. `Requests` has a conjunct for columns being created
(`Adding`), which may not belong to the board yet. For the types, `HasHighest` and
`HasLowest` say that the positions read have a highest and a lowest one, so that a
neighbour is a number (in place of an induction: a finite set without one would
have a smallest subset without one).

*Moves* have an invariant per request, `Serial`, for any number of them: what it
says of a slot holds while the slot is not in `disturbed`. `Aiming` says at each stage
that the cards below and above the requested place still are there, and that the
neighbours read so far lie between them; `MidpointInside` then puts the card
between, with rounding, because the requested position is one of the numbers a
rounded midpoint may be. `Renumbering` follows a rebalance: the plan numbers the
shown cards of the column in their order (`NumberingRenumbers`), after it is written
they lie `Step` apart (`Spaced`), and between two neighbours of such a column there
is room (`RoomAtSteps`), below the first and above the last too. Two lemmas carry
it: the step of another slot leaves the request and, unless it disturbs it, the
column's cards and positions as they were (`OtherSerial`, `SameShape`), and an own
step goes as if it were alone. `OrderKept` is a step property on top of it: the only
step that writes positions of other cards is `RewritePositions`, and the plan of one
that was not disturbed keeps the order.

*ClientFollowsEvents*, for any overlap. `Followed(c)` says of each card that
nothing has crossed: with no event of it pending the client shows it as it is, but
for a position a rebalance wrote (`Agrees`); with one pending, the event will make
it so, both from what the client shows and from what it would show after loading
the board first. A request that fails after its write takes its card out of the first two parts
(`lost`) until a whole event, and with `Reload` (`Rereads`) an unarchived card is pending as it
was read. The third part is what makes `GetBoardDetail` keep the invariant,
and what an archived or deleted card needs when its event is applied.
`ColumnFollowed(k)` says the same of columns. A step that writes a row makes an event
pending (`CardDue`, `ColumnDue`; the deletion of a column is pending for every
card), one that publishes ends it (`Published`), and if another event of the same
row is pending then, the row is in `crossed` from that step on. Why that suffices:
events and writes of a row that do not overlap come in the same order. `Untitled`
keeps that a card or column has no title before it is created and that a column
is created once.

*Board rooms.* `NeverPanics` goes as for document rooms, with `Ownership` in
`BoardRoom`'s terms. `MembersAreReachable` needs that a room with members runs,
and that a room that runs is the one in the map. `NoEventIsSkipped` goes like
`MembersFollowTheLog` without a log: `Fed` says that who is connected has received a
beginning of the feed since `joinedAt` and has a further piece of it in its
channel, a member all the rest (`Part`, `Whole`).

*Rate limiter.* `Holding` says what the requests in flight have in hand: the
current bucket, or a bucket the cleanup found idle, and then they are `late`.
`Bound` adds the tokens that are still there to those taken since `from`: their
sum never exceeds capacity and refill. A new bucket is full, which breaks this
unless the old one would be full by now; `IdleIsFull` shows that it is, because
it was not used for a whole window. `Promises` follows a refused client's bucket:
at the time promised the refill makes up for what is missing
(`RetryAfterRefills`). `Accounts` is `Bound` the other way round: what is missing
from a bucket was taken within the window, so an empty one means `MaxTokens`
requests.

Only model-checked: liveness, which is out of the prover's reach (`DocRoom`'s and
`BoardRoom`'s properties under `FairSpec`). The statements of `StreamsFollowLog`
and `FeedWithoutGap` pick messages out of a channel by a relation between places
instead of a recursive function, so that they could be proved.

## 7. Where code and comments disagree

Two are kept as runs that end in a counterexample, with the quoted line in
`PROJECT.json`:

- *Edits abandoned* (`docroom_edits_abandoned`). The room's loop returns when the
  last member is unregistered, with edits of that member still in its channel;
  they are not stored.
- *Two owners* (`roles_two_owners`). `TransferOwnership` reads the old owner's
  role under a lock and does not look at it: two transfers at once by one owner
  to two people leave two owners.

Other promises are stated at the end of the modules, under "What comments say
and the code does not do", each with the comment it quotes. They are not part of
a run; adding one to a configuration of its module, with two slots where it
needs an overlap (and `Overlaps <- AnyTwo` in `BoardRoles`), gives the
counterexample:

- `DocRoom`: `RegisterReturns` (a handler that got a room just before it ended),
  `UnregisterReturns` (after a shutdown), `EmptyRoomExits` (the last members were
  dropped as slow), `PoolQuiet` (a room created late, or that did not drain),
  `PoolCloses` (a database call that never returns, under `FairSpec`).
- `BoardRoom`: `PublisherReturns` (a handler whose room ended before it sent).
- `DocumentStore`: `BootstrapMissesNothing` (`snapshot_clock` counts edits the
  snapshot does not have), `CompactionKeepsDocumentWritable` (a compaction next
  to a writer sets the clock back).
- `BoardRoles`: `BoardHasOwner` (`RemoveBoardMember` checks that the target is not the
  owner in one statement and deletes the row in another; a transfer to the target in
  between makes it the owner's), `AddedIsWorkspaceMember` (removed between check and
  INSERT).
- `CardOrder`: `DistinctPositions` (two creations read the same highest position),
  `PlacedAfterRebalance`, `ViewIsCurrent` (a rebalance sends no event),
  `MidpointIsBetween` (the threshold is absolute, the spacing of doubles is not, and a
  client may ask for any position above 0, `models/card.go:34`). A rebalance
  that overwrites a concurrent move, which `OrderOfOthersKept` leaves out, changes
  the order of cards that nobody moved at that time.
- `Invitations`: `JoinIsAtomic`, `JoinedWhilePending` (accepting is not one
  transaction), `ExpiredDoesNotBlock`, `UndeliveredDoesNotBlock` (the unique
  index counts them), `InvitedIsNotMember` (capital letters).
- `Sessions`: `AlwaysSingleSession`, `NeverExchangedTwice` (finding, revoking and
  issuing are separate statements), `NothingLiveAfterReuse` (`Refresh` discards the
  error of `RevokeAllForUser` and reports theft all the same, so that no overlap is
  needed), `AccountHasWorkspace` (two statements without a transaction).

## 8. Limits

- *Data.* Messages, titles, addresses and tokens are atoms; hashing,
  JSON, SQL wording, status codes and e-mail text are left out.
- *Isolation.* Statements are atomic and see committed data, as PostgreSQL's
  READ COMMITTED gives for single statements; the row lock of `SELECT ... FOR
  UPDATE` is modelled where it is held across statements.
- *One of each.* One document, one workspace with one board, at most two boards
  of cards, one address of the rate limiter. Others share no rows, rooms or
  buckets with these.
- *Positions.* Sums that overflow to infinity are left out, and so are halves below
  the smallest double. `GetNeighborPositions` computes `$2 + 1000` in SQL; it is
  taken for a sum of doubles, as its result is read.
- *Loading a board.* `GetBoardDetail` is one step: columns and cards come from one
  query. The board's own row and its members, which it reads before, are not in
  what the properties compare.
- *Events of boards.* `CardOrder` delivers every published event to its client;
  that a client gets all of a room's events, or is disconnected and loads again,
  is `BoardRoom`.
- *Rate limiter.* `WindowAssumption`: the window is at most the 10 minutes after
  which a bucket is pruned. With a longer one, which the configuration allows, an
  address that waits for 10 minutes gets a full bucket early. `WindowBound` leaves
  out requests that were about to use a bucket while the cleanup found it idle: at
  most one per such request comes on top.
- *Shutdown.* `hub.Shutdown` waits for document and board rooms together; `DocRoom`
  and `BoardRoom` each have their own half.
- *Not modelled.* Share links (one UPDATE each, and a public read), the profile,
  renaming a workspace or board, and endpoints that only read (such as the list
  of boards, whose SQL repeats the rule of `checkAccess`): single statements on
  columns that no other statement decides on. Handlers and router, middleware,
  configuration, tokens, passwords, validation, mail text: no state that
  outlives a call. `Hub.RoomSize` reads a map's length without synchronisation;
  it picks a colour.
- *Several servers.* `DocumentStore` allows writers of several processes;
  `DocRoom` is one process, as the program is deployed today.

## 9. Plan

Order of work, the most important behaviour first:

1. done: `DocRoom` with `DocLog`, runs, findings, `DocRoomProofs`
2. done: `DocumentStore`, `DocumentStoreProofs`
3. done: `BoardRoles`, `BoardRolesProofs`
4. done: `CardOrder`, `Invitations`, `Sessions` with their runs
5. done: `SessionsProofs`, `InvitationsProofs`, `CardOrderProofs`
6. done: `BoardRoom`, `BoardRoomProofs`
7. done: `RateLimit`, `RateLimitProofs`
8. done: columns, updates and loads in `CardOrder`
9. done: proofs of the remaining safety properties: sessions, board owner,
   positions, the client's view, the order of delivery, `DocRoom` => `DocLog`
10. done: rounding of positions, lost events, requests that overlap a move, a
    database call that hangs, a revocation that fails
11. `DocRoom` composed with `DocumentStore`, so that a reconnecting client is
    followed across rooms
