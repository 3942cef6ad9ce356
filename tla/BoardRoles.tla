----------------------------- MODULE BoardRoles -----------------------------
(***************************************************************************)
(* Who may do what in one workspace and on one of its boards, under        *)
(* concurrent HTTP requests.  A request is a chain of separate statements: *)
(* the middleware reads the caller's workspace role and board role, the    *)
(* service checks visibility and the target, and only then one statement   *)
(* (or transaction) writes.  Nothing is locked in between, so every check  *)
(* may be stale when the write happens.                                    *)
(*                                                                         *)
(* Not covered: other boards and workspaces (they share no rows), renames, *)
(* share links, and joining by e-mail invitation (module Invitations).     *)
(*                                                                         *)
(* A definition named X_Y is X with a mistake Y; no action uses it.  It is *)
(* there to show that a property would notice.                             *)
(***************************************************************************)
EXTENDS Naturals, FiniteSets

CONSTANTS
    Users,
    Founder,   \* created the workspace
    Joined,    \* invited before the run starts
    Slots,     \* requests in flight at the same time (bound)
    Ops,       \* the endpoints the run calls
    Overlaps,  \* sets {a, b} of endpoints that may be in flight together (bound)
    None

WorkspaceOps == {"inviteMember", "updateMemberRole", "removeMember",
                 "deleteWorkspace", "createBoard"}
BoardOps == {"updateBoard", "deleteBoard", "addBoardMember",
             "removeBoardMember", "updateBoardMemberRole", "transferOwnership"}

ASSUME RolesAssumption ==
    /\ Founder \in Users
    /\ Joined \subseteq Users
    /\ Ops \subseteq WorkspaceOps \cup BoardOps
    /\ None \notin {"owner", "admin", "member", "editor", "workspace", "private"}
    /\ None \notin WorkspaceOps \cup BoardOps

VARIABLES
    workspace,  \* the workspaces row: TRUE until it is deleted
    wsRole,     \* workspace_members.role, None without a row
    boardRole,  \* board_members.role, None without a row
    board,      \* boards.visibility; "absent" before creation, "deleted" after
    stage,      \* how far the request of a slot is
    call,       \* its endpoint, caller and arguments
    wsSeen,     \* member_role read by the middleware
    boardSeen,  \* board_role resolved by the middleware
    overtaken,  \* requests that decided on an owner a transfer has since replaced
    contested   \* did such a request write nevertheless?

tables == <<workspace, wsRole, boardRole, board>>
request == <<stage, call, wsSeen, boardSeen>>
ghosts == <<overtaken, contested>>
vars == <<tables, request, ghosts>>

-----------------------------------------------------------------------------
WsRoles    == {"owner", "admin", "member", None}
BoardRole  == {"owner", "admin", "editor", None}
Boards     == {"workspace", "private", "absent", "deleted"}
Stages     == {"idle", "member", "resolved", "visible", "approved"}
Args       == {"admin", "editor", "member", "workspace", "private", None}
NoCall     == [op |-> None, by |-> Founder, to |-> Founder, arg |-> None]
Calls      == [op : WorkspaceOps \cup BoardOps \cup {None}, by : Users, to : Users, arg : Args]

TypeOK ==
    /\ workspace \in BOOLEAN
    /\ wsRole \in [Users -> WsRoles]
    /\ boardRole \in [Users -> BoardRole]
    /\ board \in Boards
    /\ stage \in [Slots -> Stages]
    /\ call \in [Slots -> Calls]
    /\ wsSeen \in [Slots -> WsRoles]
    /\ boardSeen \in [Slots -> BoardRole]
    /\ overtaken \subseteq Slots
    /\ contested \in BOOLEAN

Init ==
    /\ workspace = TRUE
    /\ wsRole = [u \in Users |-> IF u = Founder THEN "owner"
                                 ELSE IF u \in Joined THEN "member" ELSE None]
    /\ boardRole = [u \in Users |-> None]
    /\ board = "absent"
    /\ stage = [s \in Slots |-> "idle"]
    /\ call = [s \in Slots |-> NoCall]
    /\ wsSeen = [s \in Slots |-> None]
    /\ boardSeen = [s \in Slots |-> None]
    /\ overtaken = {}
    /\ contested = FALSE

BoardExists == board \in {"workspace", "private"}

\* The arguments the request validators let through.
ArgsOf(op) ==
    CASE op \in {"createBoard", "updateBoard"} -> {"workspace", "private"}
      [] op \in {"addBoardMember", "updateBoardMemberRole"} -> {"admin", "editor"}
      [] op = "updateMemberRole" -> {"admin", "member"}
      [] OTHER -> {None}

\* Endpoints without a :uid or user_id.
TargetsOf(op, by) ==
    IF op \in {"createBoard", "updateBoard", "deleteBoard", "deleteWorkspace"}
    THEN {by} ELSE Users

-----------------------------------------------------------------------------
(* Pure rules.                                                             *)

ManagesWorkspace(role) == role \in {"owner", "admin"}

\* resolveBoardRole: the caller's effective board role.
Resolve(ws, explicit) ==
    IF explicit = "owner" THEN "owner"
    ELSE IF ManagesWorkspace(ws) THEN "admin"
    ELSE IF explicit # None THEN explicit
    ELSE "editor"

\* checkAccess: may a user with workspace role ws see the board?
HasAccess(u, ws) ==
    \/ board = "workspace"
    \/ board = "private" /\ (ManagesWorkspace(ws) \/ boardRole[u] # None)

-----------------------------------------------------------------------------
(* A request.                                                              *)

Finish(s) ==
    /\ stage' = [stage EXCEPT ![s] = "idle"]
    /\ call' = [call EXCEPT ![s] = NoCall]
    /\ wsSeen' = [wsSeen EXCEPT ![s] = None]
    /\ boardSeen' = [boardSeen EXCEPT ![s] = None]

\* A request ends without having written.
GiveUp(s) ==
    /\ Finish(s)
    /\ overtaken' = overtaken \ {s}
    /\ UNCHANGED <<tables, contested>>

\* middleware.Workspace and middleware.Board: GetMember finds the caller.
Arrive(s, op, by, to, arg) ==
    /\ stage[s] = "idle"
    /\ \A t \in Slots : stage[t] # "idle" => {op, call[t].op} \in Overlaps
    /\ op \in BoardOps => BoardExists
    /\ wsRole[by] # None
    /\ call' = [call EXCEPT ![s] = [op |-> op, by |-> by, to |-> to, arg |-> arg]]
    /\ wsSeen' = [wsSeen EXCEPT ![s] = wsRole[by]]
    /\ stage' = [stage EXCEPT ![s] = "member"]
    /\ UNCHANGED <<tables, boardSeen, ghosts>>

\* middleware.Board: GetBoardMemberRole, then resolveBoardRole.
ResolveRole(s) ==
    /\ stage[s] = "member" /\ call[s].op \in BoardOps
    /\ boardSeen' = [boardSeen EXCEPT ![s] = Resolve(wsSeen[s], boardRole[call[s].by])]
    /\ stage' = [stage EXCEPT ![s] = "resolved"]
    /\ UNCHANGED <<tables, call, wsSeen, ghosts>>

\* The service starts with checkAccess.
CheckAccess(s) ==
    /\ stage[s] = "resolved"
    /\ IF HasAccess(call[s].by, wsSeen[s])
       THEN /\ stage' = [stage EXCEPT ![s] = "visible"]
            /\ UNCHANGED <<tables, call, wsSeen, boardSeen, ghosts>>
       ELSE GiveUp(s)

\* The permission rules of services/workspaces.go, at the time they are read.
MayRemoveMember_AnyTarget(ws, target) == ManagesWorkspace(ws) /\ target # None
MayRemoveMember(ws, target) ==
    /\ ManagesWorkspace(ws)
    /\ target \notin {None, "owner"}
    /\ ~(ws = "admin" /\ target = "admin")

WorkspaceRule(op, ws, by, to) ==
    CASE op = "createBoard" -> TRUE
      [] op = "deleteWorkspace" -> ws = "owner"
      [] op = "inviteMember" -> ManagesWorkspace(ws) /\ wsRole[to] = None
      [] op = "removeMember" -> MayRemoveMember(ws, wsRole[to])
      [] op = "updateMemberRole" -> ws = "owner" /\ by # to /\ wsRole[to] # None
      [] OTHER -> FALSE

\* The permission rules of services/boards.go.
MayRemoveBoardMember_AnyTarget(role, target) ==
    role \in {"owner", "admin"} /\ target # None
MayRemoveBoardMember(role, target) ==
    /\ role \in {"owner", "admin"}
    /\ target \notin {None, "owner"}
    /\ target = "admin" => role = "owner"

BoardRule(op, ws, role, by, to, arg) ==
    CASE op = "updateBoard" -> role = "owner"   \* changing the visibility
      [] op = "deleteBoard" -> role = "owner" \/ ws = "owner"
      [] op = "addBoardMember" ->
             /\ role \in (IF arg = "admin" THEN {"owner"} ELSE {"owner", "admin"})
             /\ wsRole[to] # None /\ boardRole[to] = None
      [] op = "removeBoardMember" -> MayRemoveBoardMember(role, boardRole[to])
      [] op = "updateBoardMemberRole" -> role = "owner" /\ boardRole[to] \notin {None, "owner"}
      [] op = "transferOwnership" -> role = "owner" /\ by # to
      [] OTHER -> FALSE

\* The service's role checks and its lookups of the target.
Approve(s) ==
    LET c == call[s] IN
    /\ \/ stage[s] = "member" /\ c.op \in WorkspaceOps
       \/ stage[s] = "visible"
    /\ IF \/ c.op \in WorkspaceOps /\ WorkspaceRule(c.op, wsSeen[s], c.by, c.to)
          \/ /\ c.op \in BoardOps /\ BoardExists
             /\ BoardRule(c.op, wsSeen[s], boardSeen[s], c.by, c.to, c.arg)
       THEN /\ stage' = [stage EXCEPT ![s] = "approved"]
            /\ wsSeen' = [wsSeen EXCEPT ![s] = None]
            /\ boardSeen' = [boardSeen EXCEPT ![s] = None]
            /\ UNCHANGED <<tables, call, ghosts>>
       ELSE GiveUp(s)

-----------------------------------------------------------------------------
(* The write of an approved request.  A statement that matches no row, or  *)
(* that a constraint rejects, changes nothing.                             *)

CreateBoard(s) ==
    /\ call[s].op = "createBoard"
    /\ IF board = "absent" /\ workspace
       THEN /\ board' = call[s].arg
            /\ boardRole' = [boardRole EXCEPT ![call[s].by] = "owner"]
       ELSE UNCHANGED <<board, boardRole>>
    /\ UNCHANGED <<workspace, wsRole>>

UpdateBoard(s) ==
    /\ call[s].op = "updateBoard"
    /\ board' = IF BoardExists THEN call[s].arg ELSE board
    /\ UNCHANGED <<workspace, wsRole, boardRole>>

DeleteBoard(s) ==
    /\ call[s].op = "deleteBoard"
    /\ board' = IF BoardExists THEN "deleted" ELSE board
    /\ boardRole' = [u \in Users |-> None]
    /\ UNCHANGED <<workspace, wsRole>>

\* INSERT ... ON CONFLICT DO NOTHING.
AddBoardMember(s) ==
    LET to == call[s].to IN
    /\ call[s].op = "addBoardMember"
    /\ boardRole' = IF BoardExists /\ boardRole[to] = None
                    THEN [boardRole EXCEPT ![to] = call[s].arg] ELSE boardRole
    /\ UNCHANGED <<workspace, wsRole, board>>

RemoveBoardMember(s) ==
    /\ call[s].op = "removeBoardMember"
    /\ boardRole' = [boardRole EXCEPT ![call[s].to] = None]
    /\ UNCHANGED <<workspace, wsRole, board>>

UpdateBoardMemberRole(s) ==
    LET to == call[s].to IN
    /\ call[s].op = "updateBoardMemberRole"
    /\ boardRole' = IF boardRole[to] # None
                    THEN [boardRole EXCEPT ![to] = call[s].arg] ELSE boardRole
    /\ UNCHANGED <<workspace, wsRole, board>>

\* What the transfer writes once both rows are locked; the caller's role, read
\* again under the lock, is not looked at.
Transferred_KeepsOwner(from, to) == [boardRole EXCEPT ![to] = "owner"]
Transferred(from, to) == [boardRole EXCEPT ![from] = "admin", ![to] = "owner"]

\* One transaction; the database may also abort it (deadlock of two transfers).
TransferOwnership(s) ==
    LET from == call[s].by
        to   == call[s].to
    IN
    /\ call[s].op = "transferOwnership"
    /\ \/ /\ boardRole[from] # None /\ boardRole[to] # None
          /\ boardRole' = Transferred(from, to)
       \/ UNCHANGED boardRole
    /\ UNCHANGED <<workspace, wsRole, board>>

\* INSERT; fails on the primary key when somebody else added the user.
InviteMember(s) ==
    LET to == call[s].to IN
    /\ call[s].op = "inviteMember"
    /\ wsRole' = IF wsRole[to] = None /\ workspace
                 THEN [wsRole EXCEPT ![to] = "member"] ELSE wsRole
    /\ UNCHANGED <<workspace, boardRole, board>>

UpdateMemberRole(s) ==
    LET to == call[s].to IN
    /\ call[s].op = "updateMemberRole"
    /\ wsRole' = IF wsRole[to] # None
                 THEN [wsRole EXCEPT ![to] = call[s].arg] ELSE wsRole
    /\ UNCHANGED <<workspace, boardRole, board>>

\* The rows in board_members stay.
RemoveMember(s) ==
    /\ call[s].op = "removeMember"
    /\ wsRole' = [wsRole EXCEPT ![call[s].to] = None]
    /\ UNCHANGED <<workspace, boardRole, board>>

\* Foreign keys cascade to members, boards and board members.
DeleteWorkspace(s) ==
    /\ call[s].op = "deleteWorkspace"
    /\ workspace' = FALSE
    /\ wsRole' = [u \in Users |-> None]
    /\ boardRole' = [u \in Users |-> None]
    /\ board' = "deleted"

\* Requests that have read what they need of the owner a transfer replaces:
\* another transfer by him, a removal or demotion of who takes his place.
Demotions == {"removeBoardMember", "updateBoardMemberRole"}
ReliesOn(q, from, to) ==
    \/ /\ call[q].op = "transferOwnership" /\ call[q].by = from
       /\ stage[q] \in {"resolved", "visible", "approved"}
    \/ call[q].op \in Demotions /\ call[q].to = to /\ stage[q] = "approved"

OvertakenBy(s) ==
    IF call[s].op = "transferOwnership" /\ boardRole' # boardRole
    THEN {q \in Slots \ {s} : ReliesOn(q, call[s].by, call[s].to)}
    ELSE {}

Write(s) ==
    /\ stage[s] = "approved"
    /\ \/ CreateBoard(s) \/ UpdateBoard(s) \/ DeleteBoard(s)
       \/ AddBoardMember(s) \/ RemoveBoardMember(s) \/ UpdateBoardMemberRole(s)
       \/ TransferOwnership(s)
       \/ InviteMember(s) \/ UpdateMemberRole(s) \/ RemoveMember(s)
       \/ DeleteWorkspace(s)
    /\ Finish(s)
    /\ overtaken' = (overtaken \ {s}) \cup OvertakenBy(s)
    /\ contested' = (contested \/ s \in overtaken)

\* The connection to the client or the database is lost before the write.
Abandon(s) ==
    /\ stage[s] # "idle"
    /\ GiveUp(s)

Next ==
    \E s \in Slots :
        \/ \E op \in Ops, by \in Users : \E to \in TargetsOf(op, by), arg \in ArgsOf(op) :
               Arrive(s, op, by, to, arg)
        \/ ResolveRole(s)
        \/ CheckAccess(s)
        \/ Approve(s)
        \/ Write(s)
        \/ Abandon(s)

Spec == Init /\ [][Next]_vars

-----------------------------------------------------------------------------
(* Safety.                                                                 *)

Owners == {u \in Users : boardRole[u] = "owner"}

\* services/workspaces.go: the owner can be neither removed nor demoted and
\* nobody else becomes owner, however stale the checks of a request are.
FounderOwnsWorkspace ==
    \A u \in Users : wsRole[u] = "owner" <=> (u = Founder /\ workspace)

\* "Every board always has exactly one owner row in board_members"
\* (repositories/boards.go 24).  Whatever overlaps, it holds until a request
\* writes that was decided before a transfer replaced the owner it relied on:
\* the next two statements, which fail, are what such a write does.
ExactlyOneOwner == BoardExists /\ ~contested => Cardinality(Owners) = 1

\* "The board owner cannot be removed" (services/boards.go 236): the board
\* keeps an owner.
BoardHasOwner == BoardExists => Owners # {}

\* repositories/boards.go 470: the transfer uses "row-level locking to prevent
\* races", so that two of them do not make two owners.
AtMostOneOwner == Cardinality(Owners) <= 1

\* services/boards.go 184: "you can't add someone to a board who isn't already
\* in the workspace".
AddedIsWorkspaceMember ==
    [][ \A u \in Users :
            (boardRole[u] = None /\ boardRole'[u] \in {"editor", "admin"})
            => wsRole[u] # None ]_vars

=============================================================================
