-------------------------- MODULE BoardRolesProofs --------------------------
(***************************************************************************)
(* For any number of users and of requests in flight: the founder stays    *)
(* the one owner of the workspace, whatever overlaps; the board has one    *)
(* owner until a request writes what a transfer made stale.                *)
(***************************************************************************)
EXTENDS BoardRoles, FiniteSetTheorems, TLAPS

\* What the stale knowledge of a request in flight is still worth: only the
\* founder was ever seen as owner, an approved removal or change of role is
\* not aimed at the founder, and no validator lets "owner" through.
Requests ==
    \A s \in Slots :
        /\ wsSeen[s] = "owner" => call[s].by = Founder
        /\ (stage[s] = "approved" /\ call[s].op \in {"removeMember", "updateMemberRole"})
           => call[s].to # Founder
        /\ call[s].op = "updateMemberRole" => call[s].arg \in {"admin", "member"}

\* The part of the type invariant the argument needs.
Typed ==
    /\ workspace \in BOOLEAN
    /\ wsRole \in [Users -> WsRoles]
    /\ stage \in [Slots -> Stages]
    /\ call \in [Slots -> Calls]
    /\ wsSeen \in [Slots -> WsRoles]

\* A deleted workspace has no members, and gets none.
Gone == ~workspace => \A u \in Users : wsRole[u] = None

IInv == Typed /\ FounderOwnsWorkspace /\ Requests /\ Gone

\* The founder's workspace as CreateWithOwner leaves it.
LEMMA IInvInit == Init => IInv
<1>. SUFFICES ASSUME Init PROVE IInv
  OBVIOUS
<1>. USE RolesAssumption DEF Init
<1>1. Typed
  BY DEF Typed, WsRoles, Stages, Calls, NoCall, Args
<1>2. FounderOwnsWorkspace
  BY DEF FounderOwnsWorkspace
<1>3. Requests
  BY DEF Requests, NoCall, WorkspaceOps, BoardOps
<1>4. Gone
  BY DEF Gone
<1>. QED  BY <1>1, <1>2, <1>3, <1>4 DEF IInv

\* A request that ends leaves nothing behind.
LEMMA FinishKeeps ==
    ASSUME IInv, NEW s \in Slots, Finish(s),
           workspace' \in BOOLEAN, wsRole' \in [Users -> WsRoles],
           FounderOwnsWorkspace', Gone'
    PROVE  IInv'
<1>. USE RolesAssumption
<1>1. Typed'
  BY DEF IInv, Typed, Finish, NoCall, Calls, Args, WsRoles, Stages
<1>2. Requests'
  <2>1. ASSUME NEW q \in Slots
        PROVE  /\ wsSeen'[q] = "owner" => call'[q].by = Founder
               /\ (stage'[q] = "approved" /\ call'[q].op \in {"removeMember", "updateMemberRole"})
                  => call'[q].to # Founder
               /\ call'[q].op = "updateMemberRole" => call'[q].arg \in {"admin", "member"}
    <3>1. CASE q = s
      <4>1. call'[q] = NoCall /\ wsSeen'[q] = None /\ stage'[q] = "idle"
        BY <3>1 DEF IInv, Typed, Finish
      <4>. QED  BY <4>1 DEF NoCall, WorkspaceOps
    <3>2. CASE q # s
      <4>1. call'[q] = call[q] /\ wsSeen'[q] = wsSeen[q] /\ stage'[q] = stage[q]
        BY <3>2 DEF IInv, Typed, Finish
      <4>. QED  BY <4>1 DEF IInv, Requests
    <3>. QED  BY <3>1, <3>2
  <2>. QED  BY <2>1 DEF Requests
<1>. QED  BY <1>1, <1>2 DEF IInv

\* The same for a request that has not changed the workspace.
LEMMA FinishOnly ==
    ASSUME IInv, NEW s \in Slots, Finish(s), UNCHANGED <<workspace, wsRole>>
    PROVE  IInv'
<1>1. /\ workspace' \in BOOLEAN /\ wsRole' \in [Users -> WsRoles]
      /\ FounderOwnsWorkspace' /\ Gone'
  BY DEF IInv, Typed, FounderOwnsWorkspace, Gone
<1>. QED  BY <1>1, FinishKeeps

\* Every step keeps the founder the only owner, whatever was checked when.
LEMMA IInvStep == IInv /\ [Next]_vars => IInv'
<1>. SUFFICES ASSUME IInv, [Next]_vars PROVE IInv'
  OBVIOUS
<1>. USE RolesAssumption DEF tables, request
<1>1. ASSUME NEW s \in Slots, NEW op \in Ops, NEW by \in Users,
             NEW to \in TargetsOf(op, by), NEW arg \in ArgsOf(op),
             Arrive(s, op, by, to, arg)
      PROVE  IInv'
  <2>. DEFINE c == [op |-> op, by |-> by, to |-> to, arg |-> arg]
  <2>1. to \in Users
    BY DEF TargetsOf
  <2>2. /\ arg \in Args
        /\ op = "updateMemberRole" => arg \in {"admin", "member"}
    BY DEF ArgsOf, Args, WorkspaceOps, BoardOps
  <2>3. c \in Calls
    BY <2>1, <2>2 DEF Calls
  <2>4. /\ call' = [call EXCEPT ![s] = c]
        /\ wsSeen' = [wsSeen EXCEPT ![s] = wsRole[by]]
        /\ stage' = [stage EXCEPT ![s] = "member"]
        /\ UNCHANGED <<workspace, wsRole>>
    BY <1>1 DEF Arrive
  <2>5. wsRole[by] = "owner" => by = Founder
    BY DEF IInv, FounderOwnsWorkspace
  <2>6. Typed'
    BY <2>3, <2>4 DEF IInv, Typed, Stages
  <2>7. FounderOwnsWorkspace'
    BY <2>4 DEF IInv, FounderOwnsWorkspace
  <2>8. ASSUME NEW q \in Slots
        PROVE  /\ wsSeen'[q] = "owner" => call'[q].by = Founder
               /\ (stage'[q] = "approved" /\ call'[q].op \in {"removeMember", "updateMemberRole"})
                  => call'[q].to # Founder
               /\ call'[q].op = "updateMemberRole" => call'[q].arg \in {"admin", "member"}
    <3>1. CASE q = s
      BY <2>2, <2>4, <2>5, <3>1 DEF IInv, Typed
    <3>2. CASE q # s
      BY <2>4, <3>2 DEF IInv, Typed, Requests
    <3>. QED  BY <3>1, <3>2
  <2>9. Gone'
    BY <2>4 DEF IInv, Gone
  <2>. QED  BY <2>6, <2>7, <2>8, <2>9 DEF IInv, Requests
<1>2. ASSUME NEW s \in Slots, ResolveRole(s) PROVE IInv'
  <2>1. /\ stage' = [stage EXCEPT ![s] = "resolved"]
        /\ UNCHANGED <<workspace, wsRole, call, wsSeen>>
    BY <1>2 DEF ResolveRole
  <2>. QED  BY <2>1 DEF IInv, Typed, FounderOwnsWorkspace, Requests, Gone, Stages
<1>3. ASSUME NEW s \in Slots, CheckAccess(s) PROVE IInv'
  <2>1. UNCHANGED <<workspace, wsRole>>
    BY <1>3 DEF CheckAccess, GiveUp
  <2>2. CASE Finish(s)
    BY <2>1, <2>2, FinishOnly
  <2>3. CASE stage' = [stage EXCEPT ![s] = "visible"] /\ UNCHANGED <<call, wsSeen>>
    BY <2>1, <2>3 DEF IInv, Typed, FounderOwnsWorkspace, Requests, Gone, Stages
  <2>. QED  BY <1>3, <2>2, <2>3 DEF CheckAccess, GiveUp
<1>4. ASSUME NEW s \in Slots, Approve(s) PROVE IInv'
  <2>1. UNCHANGED <<workspace, wsRole>>
    BY <1>4 DEF Approve, GiveUp
  <2>2. CASE Finish(s)
    BY <2>1, <2>2, FinishOnly
  <2>3. CASE ~Finish(s)
    <3>1. /\ stage' = [stage EXCEPT ![s] = "approved"]
          /\ wsSeen' = [wsSeen EXCEPT ![s] = None]
          /\ call' = call
      BY <1>4, <2>3 DEF Approve, GiveUp
    <3>2. call[s].op \in {"removeMember", "updateMemberRole"}
          => WorkspaceRule(call[s].op, wsSeen[s], call[s].by, call[s].to)
      BY <1>4, <2>3 DEF Approve, GiveUp, BoardOps
    <3>3. call[s].op \in {"removeMember", "updateMemberRole"} => call[s].to # Founder
      <4>1. ASSUME call[s].op = "removeMember", call[s].to = Founder PROVE FALSE
        <5>1. wsRole[Founder] \notin {None, "owner"}
          BY <3>2, <4>1 DEF WorkspaceRule, MayRemoveMember
        <5>2. wsRole[Founder] = "owner" \/ ~workspace
          BY DEF IInv, FounderOwnsWorkspace
        <5>. QED  BY <5>1, <5>2 DEF IInv, Gone
      <4>2. ASSUME call[s].op = "updateMemberRole" PROVE call[s].to # Founder
        BY <3>2, <4>2 DEF WorkspaceRule, IInv, Requests
      <4>. QED  BY <4>1, <4>2
    <3>. QED  BY <2>1, <3>1, <3>3 DEF IInv, Typed, FounderOwnsWorkspace, Requests, Gone, Stages, WsRoles
  <2>. QED  BY <2>2, <2>3
<1>5. ASSUME NEW s \in Slots, Write(s) PROVE IInv'
  <2>. DEFINE to == call[s].to
  <2>1. Finish(s) /\ stage[s] = "approved"
    BY <1>5 DEF Write
  <2>2. call[s] \in Calls /\ to \in Users
    BY DEF IInv, Typed, Calls
  <2>3. CASE \/ CreateBoard(s) \/ UpdateBoard(s) \/ DeleteBoard(s)
             \/ AddBoardMember(s) \/ RemoveBoardMember(s)
             \/ UpdateBoardMemberRole(s) \/ TransferOwnership(s)
    <3>1. UNCHANGED <<workspace, wsRole>>
      BY <2>3 DEF CreateBoard, UpdateBoard, DeleteBoard, AddBoardMember,
                  RemoveBoardMember, UpdateBoardMemberRole, TransferOwnership
    <3>. QED  BY <2>1, <3>1, FinishOnly
  <2>4. CASE InviteMember(s)
    <3>1. /\ workspace' = workspace
          /\ \/ wsRole' = wsRole
             \/ /\ workspace /\ wsRole[to] = None
                /\ wsRole' = [wsRole EXCEPT ![to] = "member"]
      BY <2>4 DEF InviteMember
    <3>2. workspace /\ wsRole[to] = None => to # Founder
      BY <2>2 DEF IInv, FounderOwnsWorkspace
    <3>3. /\ wsRole' \in [Users -> WsRoles] /\ FounderOwnsWorkspace' /\ Gone'
      BY <3>1, <3>2 DEF IInv, Typed, FounderOwnsWorkspace, Gone, WsRoles
    <3>. QED  BY <2>1, <3>1, <3>3, FinishKeeps DEF IInv, Typed
  <2>5. CASE UpdateMemberRole(s)
    <3>1. /\ workspace' = workspace
          /\ \/ wsRole' = wsRole
             \/ /\ wsRole[to] # None
                /\ wsRole' = [wsRole EXCEPT ![to] = call[s].arg]
      BY <2>5 DEF UpdateMemberRole
    <3>2. to # Founder /\ call[s].arg \in {"admin", "member"}
      BY <2>1, <2>5 DEF UpdateMemberRole, IInv, Requests
    <3>3. /\ wsRole' \in [Users -> WsRoles] /\ FounderOwnsWorkspace' /\ Gone'
      BY <2>2, <3>1, <3>2 DEF IInv, Typed, FounderOwnsWorkspace, Gone, WsRoles
    <3>. QED  BY <2>1, <3>1, <3>3, FinishKeeps DEF IInv, Typed
  <2>6. CASE RemoveMember(s)
    <3>1. workspace' = workspace /\ wsRole' = [wsRole EXCEPT ![to] = None]
      BY <2>6 DEF RemoveMember
    <3>2. to # Founder
      BY <2>1, <2>6 DEF RemoveMember, IInv, Requests
    <3>3. /\ wsRole' \in [Users -> WsRoles] /\ FounderOwnsWorkspace' /\ Gone'
      BY <2>2, <3>1, <3>2 DEF IInv, Typed, FounderOwnsWorkspace, Gone, WsRoles
    <3>. QED  BY <2>1, <3>1, <3>3, FinishKeeps DEF IInv, Typed
  <2>7. CASE DeleteWorkspace(s)
    <3>1. workspace' = FALSE /\ wsRole' = [u \in Users |-> None]
      BY <2>7 DEF DeleteWorkspace
    <3>2. /\ wsRole' \in [Users -> WsRoles] /\ FounderOwnsWorkspace' /\ Gone'
      BY <3>1 DEF FounderOwnsWorkspace, Gone, WsRoles
    <3>. QED  BY <2>1, <3>1, <3>2, FinishKeeps
  <2>. QED  BY <1>5, <2>3, <2>4, <2>5, <2>6, <2>7 DEF Write
<1>6. ASSUME NEW s \in Slots, Abandon(s) PROVE IInv'
  BY <1>6, FinishOnly DEF Abandon, GiveUp
<1>7. CASE UNCHANGED vars
  BY <1>7 DEF vars, IInv, Typed, FounderOwnsWorkspace, Requests, Gone
<1>. QED
  BY <1>1, <1>2, <1>3, <1>4, <1>5, <1>6, <1>7 DEF Next

\* However requests overlap and however stale their checks are, the founder is
\* the one owner of the workspace until it is deleted.
THEOREM FounderStaysOwner == Spec => []FounderOwnsWorkspace
<1>1. IInv => FounderOwnsWorkspace
  BY DEF IInv
<1>. QED  BY <1>1, IInvInit, IInvStep, PTL DEF Spec

-----------------------------------------------------------------------------
(* Types.  What is written to the board's rows comes from the arguments,   *)
(* which the validators restricted when the request arrived.               *)

Arguments == \A s \in Slots : call[s].op # None => call[s].arg \in ArgsOf(call[s].op)

BoardTyped ==
    /\ boardRole \in [Users -> BoardRole]
    /\ board \in Boards
    /\ boardSeen \in [Slots -> BoardRole]
    /\ overtaken \subseteq Slots
    /\ contested \in BOOLEAN

LEMMA ArgumentsKept ==
    ASSUME Typed, Arguments, [Next]_vars PROVE Arguments'
<1>. USE RolesAssumption
<1>1. ASSUME NEW s \in Slots, Finish(s) PROVE Arguments'
  BY <1>1 DEF Finish, NoCall, Arguments, Typed
<1>2. ASSUME NEW s \in Slots, NEW op \in Ops, NEW by \in Users,
             NEW to \in Users, NEW arg \in ArgsOf(op), Arrive(s, op, by, to, arg)
      PROVE  Arguments'
  <2>. DEFINE c == [op |-> op, by |-> by, to |-> to, arg |-> arg]
  <2>1. c.op = op /\ c.arg \in ArgsOf(op)
    OBVIOUS
  <2>2. call' = [call EXCEPT ![s] = c]
    BY <1>2 DEF Arrive
  <2>. HIDE DEF c
  <2>. QED  BY <2>1, <2>2 DEF Arguments, Typed
<1>3. ASSUME UNCHANGED call PROVE Arguments'
  BY <1>3 DEF Arguments
<1>4. ASSUME NEW s \in Slots,
             ResolveRole(s) \/ CheckAccess(s) \/ Approve(s) \/ Write(s) \/ Abandon(s)
      PROVE  Finish(s) \/ UNCHANGED call
  BY <1>4 DEF ResolveRole, CheckAccess, Approve, Write, Abandon, GiveUp
<1>5. \A op \in Ops, by \in Users : TargetsOf(op, by) \subseteq Users
  BY DEF TargetsOf
<1>. QED  BY <1>1, <1>2, <1>3, <1>4, <1>5 DEF Next, vars, request

LEMMA BoardTypedKept ==
    ASSUME Typed, Arguments, BoardTyped, [Next]_vars PROVE BoardTyped'
<1>. USE RolesAssumption DEF BoardTyped, BoardRole, Boards
<1>1. ASSUME NEW s \in Slots, Finish(s) PROVE boardSeen' \in [Slots -> BoardRole]
  BY <1>1 DEF Finish
<1>2. ASSUME NEW s \in Slots, Write(s)
      PROVE  boardRole' \in [Users -> BoardRole] /\ board' \in Boards
  <2>1. /\ call[s].by \in Users /\ call[s].to \in Users
        /\ call[s].op # None => call[s].arg \in ArgsOf(call[s].op)
    BY DEF Typed, Calls, Arguments
  <2>2. CASE CreateBoard(s) \/ UpdateBoard(s)
    <3>1. call[s].op \in {"createBoard", "updateBoard"}
      BY <2>2 DEF CreateBoard, UpdateBoard
    <3>2. call[s].arg \in {"workspace", "private"}
      BY <2>1, <3>1 DEF ArgsOf, WorkspaceOps, BoardOps
    <3>. QED  BY <2>1, <2>2, <3>2 DEF CreateBoard, UpdateBoard
  <2>3. CASE AddBoardMember(s) \/ UpdateBoardMemberRole(s)
    <3>1. call[s].op \in {"addBoardMember", "updateBoardMemberRole"}
      BY <2>3 DEF AddBoardMember, UpdateBoardMemberRole
    <3>2. call[s].arg \in {"admin", "editor"}
      BY <2>1, <3>1 DEF ArgsOf, WorkspaceOps, BoardOps
    <3>. QED  BY <2>1, <2>3, <3>2 DEF AddBoardMember, UpdateBoardMemberRole
  <2>4. CASE DeleteBoard(s) \/ RemoveBoardMember(s) \/ DeleteWorkspace(s)
    BY <2>4 DEF DeleteBoard, RemoveBoardMember, DeleteWorkspace
  <2>5. CASE TransferOwnership(s)
    BY <2>5 DEF TransferOwnership, Transferred
  <2>6. CASE InviteMember(s) \/ UpdateMemberRole(s) \/ RemoveMember(s)
    BY <2>6 DEF InviteMember, UpdateMemberRole, RemoveMember
  <2>. QED  BY <1>2, <2>2, <2>3, <2>4, <2>5, <2>6 DEF Write
<1>3. ASSUME NEW s \in Slots, Write(s) PROVE BoardTyped'
  <2>1. overtaken' \subseteq Slots /\ contested' \in BOOLEAN
    BY <1>3 DEF Write, OvertakenBy
  <2>. QED  BY <1>1, <1>2, <1>3, <2>1 DEF Write
<1>4. ASSUME NEW s \in Slots, NEW op \in Ops, NEW by \in Users, NEW to, NEW arg,
             Arrive(s, op, by, to, arg)
      PROVE  BoardTyped'
  BY <1>4 DEF Arrive, tables, ghosts
<1>5. ASSUME NEW s \in Slots, ResolveRole(s) PROVE BoardTyped'
  <2>1. call[s].by \in Users
    BY DEF Typed, Calls
  <2>2. Resolve(wsSeen[s], boardRole[call[s].by]) \in BoardRole
    BY <2>1 DEF Resolve
  <2>. QED  BY <1>5, <2>2 DEF ResolveRole, tables, ghosts
<1>6. ASSUME NEW s \in Slots, CheckAccess(s) \/ Approve(s) \/ Abandon(s)
      PROVE  BoardTyped'
  <2>1. UNCHANGED tables /\ overtaken' \subseteq overtaken /\ UNCHANGED contested
    BY <1>6 DEF CheckAccess, Approve, Abandon, GiveUp, ghosts
  <2>2. Finish(s) \/ UNCHANGED boardSeen \/ boardSeen' = [boardSeen EXCEPT ![s] = None]
    BY <1>6 DEF CheckAccess, Approve, Abandon, GiveUp
  <2>. QED  BY <1>1, <2>1, <2>2 DEF tables
<1>7. CASE UNCHANGED vars
  BY <1>7 DEF vars, tables, request, ghosts
<1>. QED  BY <1>3, <1>4, <1>5, <1>6, <1>7 DEF Next

\* The tables hold what their columns allow, and requests what they may carry.
THEOREM TypeCorrect == Spec => []TypeOK
<1>1. Init => Arguments /\ BoardTyped
  <2>1. Init => Arguments
    BY RolesAssumption DEF Init, NoCall, Arguments
  <2>2. Init => BoardTyped
    BY DEF Init, BoardTyped, BoardRole, Boards
  <2>. QED  BY <2>1, <2>2
<1>2. IInv /\ Arguments /\ BoardTyped /\ [Next]_vars => (Arguments /\ BoardTyped)'
  BY ArgumentsKept, BoardTypedKept DEF IInv
<1>3. IInv /\ BoardTyped => TypeOK
  BY DEF IInv, Typed, BoardTyped, TypeOK
<1>. QED  BY <1>1, <1>2, <1>3, IInvInit, IInvStep, PTL DEF Spec

-----------------------------------------------------------------------------
(* The board half: one owner, whatever overlaps, until a request writes     *)
(* that a committed transfer overtook.  What a request found out on its way *)
(* to the write is still true there unless a transfer overtook it.          *)

\* The rows of a board that exists name one owner; of any other there are none.
Held(o) == \A u \in Users : boardRole[u] = "owner" <=> u = o
OneOwner == IF BoardExists THEN \E o \in Users : Held(o)
                           ELSE \A u \in Users : boardRole[u] = None

\* A board somebody was let in to has been created.
Created == \A q \in Slots : stage[q] # "idle" /\ call[q].op \in BoardOps => board # "absent"

\* A request about to lower a role was not aimed at the owner, and still is not
\* unless a transfer made its target the owner.
Demoting(q) == stage[q] = "approved" /\ call[q].op \in Demotions
Spared == \A q \in Slots \ overtaken : Demoting(q) => boardRole[call[q].to] # "owner"

\* A request that transfers ownership and saw its caller own the board: the
\* caller owns it until the write, unless another transfer comes before.
Transferring(q) ==
    /\ call[q].op = "transferOwnership"
    /\ \/ stage[q] \in {"resolved", "visible"} /\ boardSeen[q] = "owner"
       \/ stage[q] = "approved"
StillOwned ==
    \A q \in Slots \ overtaken :
        Transferring(q) /\ BoardExists => boardRole[call[q].by] = "owner"

Sound == OneOwner /\ Created /\ Spared /\ StillOwned
BInv == contested \/ Sound

LEMMA BInvInit == Init => BInv
<1>. SUFFICES ASSUME Init PROVE BInv
  OBVIOUS
<1>1. OneOwner
  BY DEF Init, OneOwner, BoardExists
<1>2. Created /\ Spared /\ StillOwned
  BY DEF Init, Created, Spared, StillOwned, Demoting, Transferring
<1>. QED  BY <1>1, <1>2 DEF BInv, Sound

\* The other requests do not notice that one ends, only what it wrote.
LEMMA FinishBoard ==
    ASSUME Typed, Sound, NEW s \in Slots, Finish(s), OneOwner',
           overtaken \ {s} \subseteq overtaken',
           board # "absent" => board' # "absent",
           \A q \in Slots \ ({s} \cup overtaken') :
               Demoting(q) => boardRole'[call[q].to] # "owner",
           BoardExists' => \A q \in Slots \ ({s} \cup overtaken') :
               Transferring(q) => boardRole'[call[q].by] = "owner",
           boardSeen \in [Slots -> BoardRole]
    PROVE  Sound'
<1>1. \A q \in Slots \ {s} : /\ stage'[q] = stage[q] /\ call'[q] = call[q]
                             /\ boardSeen'[q] = boardSeen[q]
  BY DEF Finish, Typed
<1>2. stage'[s] = "idle"
  BY DEF Finish, Typed
<1>3. Created'
  BY <1>1, <1>2 DEF Sound, Created
<1>4. Spared'
  BY <1>1, <1>2 DEF Spared, Demoting
<1>5. StillOwned'
  BY <1>1, <1>2 DEF StillOwned, Transferring
<1>. QED  BY <1>3, <1>4, <1>5 DEF Sound

LEMMA FinishUnwritten ==
    ASSUME Typed, BoardTyped, Sound, NEW s \in Slots, Finish(s), UNCHANGED boardRole,
           overtaken \ {s} \subseteq overtaken',
           BoardExists' <=> BoardExists, board # "absent" => board' # "absent"
    PROVE  Sound'
<1>1. OneOwner'
  BY DEF Sound, OneOwner, Held
<1>2. \A q \in Slots \ ({s} \cup overtaken') : Demoting(q) => boardRole'[call[q].to] # "owner"
  BY DEF Sound, Spared
<1>3. BoardExists' => \A q \in Slots \ ({s} \cup overtaken') :
          Transferring(q) => boardRole'[call[q].by] = "owner"
  BY DEF Sound, StillOwned
<1>. QED  BY <1>1, <1>2, <1>3, FinishBoard DEF BoardTyped

\* A write no transfer has overtaken keeps the one owner: only a creation and a
\* transfer name one, the first where there was none, the second instead of the
\* caller.
LEMMA WriteKeepsOwner ==
    ASSUME Typed, Arguments, BoardTyped, Sound, NEW s \in Slots, Write(s), s \notin overtaken
    PROVE  Sound'
<1>. USE RolesAssumption
<1>. DEFINE by == call[s].by
            to == call[s].to
            Others == Slots \ ({s} \cup overtaken')
<1>1. Finish(s) /\ stage[s] = "approved" /\ overtaken \ {s} \subseteq overtaken'
  BY DEF Write
<1>2. by \in Users /\ to \in Users
  BY DEF Typed, Calls
<1>3. ASSUME UNCHANGED boardRole, BoardExists' <=> BoardExists,
             board # "absent" => board' # "absent"
      PROVE  Sound'
  BY <1>1, <1>3, FinishUnwritten
<1>4. ASSUME \A u \in Users : boardRole'[u] = None, ~BoardExists',
             board # "absent" => board' # "absent"
      PROVE  Sound'
  <2>1. OneOwner'
    BY <1>4 DEF OneOwner
  <2>2. \A q \in Others : call[q].to \in Users
    BY DEF Typed, Calls
  <2>3. \A q \in Others : Demoting(q) => boardRole'[call[q].to] # "owner"
    BY <1>4, <2>2
  <2>. QED  BY <1>1, <1>4, <2>1, <2>3, FinishBoard DEF BoardTyped
<1>5. \A q \in Others : q \notin overtaken
  BY <1>1
<1>6. \A q \in Others : /\ Demoting(q) => stage[q] # "idle" /\ call[q].op \in Demotions
                        /\ Transferring(q) => stage[q] # "idle" /\ call[q].op = "transferOwnership"
  BY DEF Demoting, Transferring
<1>7. CASE CreateBoard(s)
  <2>1. CASE board = "absent" /\ workspace
    <3>1. call[s].arg \in {"workspace", "private"}
      BY <1>7 DEF CreateBoard, Arguments, ArgsOf, WorkspaceOps
    <3>2. /\ BoardExists' /\ board' # "absent"
          /\ boardRole' = [boardRole EXCEPT ![by] = "owner"]
      BY <1>7, <2>1, <3>1 DEF CreateBoard, BoardExists
    <3>3. \A u \in Users : boardRole[u] = None
      BY <2>1 DEF Sound, OneOwner, BoardExists
    <3>4. OneOwner'
      <4>1. PICK o \in Users : o = by
        BY <1>2
      <4>2. \A u \in Users : boardRole'[u] = "owner" <=> u = o
        BY <1>2, <3>2, <3>3, <4>1 DEF BoardTyped
      <4>. QED  BY <3>2, <4>2 DEF OneOwner, Held
    <3>5. \A q \in Others : ~Demoting(q) /\ ~Transferring(q)
      BY <1>6, <2>1 DEF Sound, Created, Demotions, BoardOps
    <3>. QED  BY <1>1, <2>1, <3>2, <3>4, <3>5, FinishBoard DEF BoardTyped
  <2>2. CASE ~(board = "absent" /\ workspace)
    BY <1>3, <1>7, <2>2 DEF CreateBoard, BoardExists
  <2>. QED  BY <2>1, <2>2
<1>8. CASE UpdateBoard(s)
  <2>1. call[s].arg \in {"workspace", "private"}
    BY <1>8 DEF UpdateBoard, Arguments, ArgsOf, BoardOps
  <2>. QED  BY <1>3, <1>8, <2>1 DEF UpdateBoard, BoardExists
<1>9. CASE DeleteBoard(s) \/ DeleteWorkspace(s)
  BY <1>4, <1>9 DEF DeleteBoard, DeleteWorkspace, BoardExists
<1>10. CASE InviteMember(s) \/ UpdateMemberRole(s) \/ RemoveMember(s)
  BY <1>3, <1>10 DEF InviteMember, UpdateMemberRole, RemoveMember, BoardExists
<1>11. CASE AddBoardMember(s)
  <2>1. CASE BoardExists /\ boardRole[to] = None
    <3>1. call[s].arg \in {"admin", "editor"}
      BY <1>11 DEF AddBoardMember, Arguments, ArgsOf, BoardOps
    <3>2. board' = board /\ boardRole' = [boardRole EXCEPT ![to] = call[s].arg]
      BY <1>11, <2>1 DEF AddBoardMember
    <3>3. \A u \in Users : boardRole'[u] = "owner" <=> boardRole[u] = "owner"
      BY <1>2, <2>1, <3>1, <3>2 DEF BoardTyped
    <3>. HIDE DEF to
    <3>4. OneOwner'
      BY <2>1, <3>2, <3>3 DEF Sound, OneOwner, BoardExists, Held
    <3>5. \A q \in Others : call[q].to \in Users /\ call[q].by \in Users
      BY DEF Typed, Calls
    <3>6. \A q \in Others : Demoting(q) => boardRole'[call[q].to] # "owner"
      BY <1>5, <3>3, <3>5 DEF Sound, Spared
    <3>7. \A q \in Others : Transferring(q) => boardRole'[call[q].by] = "owner"
      BY <1>5, <2>1, <3>3, <3>5 DEF Sound, StillOwned
    <3>. QED  BY <1>1, <3>2, <3>4, <3>6, <3>7, FinishBoard DEF BoardTyped
  <2>2. CASE ~(BoardExists /\ boardRole[to] = None)
    BY <1>3, <1>11, <2>2 DEF AddBoardMember, BoardExists
  <2>. QED  BY <2>1, <2>2
<1>12. CASE RemoveBoardMember(s) \/ UpdateBoardMemberRole(s)
  <2>1. call[s].op \in Demotions /\ UNCHANGED board
    BY <1>12 DEF RemoveBoardMember, UpdateBoardMemberRole, Demotions
  <2>2. boardRole[to] # "owner"
    BY <1>1, <2>1 DEF Sound, Spared, Demoting
  <2>3. call[s].op = "updateBoardMemberRole" => call[s].arg # "owner"
    BY DEF Arguments, ArgsOf, BoardOps
  <2>4. \A u \in Users : boardRole'[u] = "owner" <=> boardRole[u] = "owner"
    BY <1>2, <1>12, <2>2, <2>3 DEF RemoveBoardMember, UpdateBoardMemberRole, BoardTyped
  <2>5. (\A u \in Users : boardRole[u] = None) => \A u \in Users : boardRole'[u] = None
    BY <1>2, <1>12 DEF RemoveBoardMember, UpdateBoardMemberRole, BoardTyped
  <2>6. OneOwner'
    BY <2>1, <2>4, <2>5 DEF Sound, OneOwner, BoardExists, Held
  <2>7. \A q \in Others : call[q].to \in Users /\ call[q].by \in Users
    BY DEF Typed, Calls
  <2>8. \A q \in Others : Demoting(q) => boardRole'[call[q].to] # "owner"
    BY <1>5, <2>4, <2>7 DEF Sound, Spared
  <2>9. BoardExists' => \A q \in Others : Transferring(q) => boardRole'[call[q].by] = "owner"
    BY <1>5, <2>1, <2>4, <2>7 DEF Sound, StillOwned, BoardExists
  <2>. QED  BY <1>1, <2>1, <2>6, <2>8, <2>9, FinishBoard DEF BoardTyped
<1>13. CASE TransferOwnership(s)
  <2>1. call[s].op = "transferOwnership" /\ UNCHANGED board
    BY <1>13 DEF TransferOwnership
  <2>2. CASE UNCHANGED boardRole
    BY <1>3, <2>1, <2>2 DEF BoardExists
  <2>3. CASE /\ boardRole[by] # None
             /\ boardRole' = Transferred(by, to)
    <3>1. BoardExists
      BY <1>2, <2>3 DEF Sound, OneOwner
    <3>2. boardRole[by] = "owner"
      BY <1>1, <2>1, <3>1 DEF Sound, StillOwned, Transferring
    <3>3. \A u \in Users : boardRole[u] = "owner" => u = by
      BY <1>2, <3>1, <3>2 DEF Sound, OneOwner, Held
    <3>4. \A u \in Users : boardRole'[u] = "owner" <=> u = to
      BY <1>2, <2>3, <3>3 DEF Transferred, BoardTyped
    <3>5. OneOwner'
      <4>1. PICK o \in Users : o = to
        BY <1>2
      <4>. HIDE DEF to
      <4>2. \A u \in Users : boardRole'[u] = "owner" <=> u = o
        BY <3>4, <4>1
      <4>. QED  BY <2>1, <3>1, <4>2 DEF OneOwner, Held, BoardExists
    <3>6. CASE UNCHANGED boardRole
      BY <1>3, <2>1, <3>6 DEF BoardExists
    <3>7. CASE boardRole' # boardRole
      <4>1. \A q \in Others : ~ReliesOn(q, by, to)
        BY <2>1, <3>7 DEF Write, OvertakenBy
      <4>2. \A q \in Others : call[q].to \in Users /\ call[q].by \in Users
        BY DEF Typed, Calls
      <4>3. \A q \in Others : Demoting(q) => boardRole'[call[q].to] # "owner"
        BY <3>4, <4>1, <4>2 DEF ReliesOn, Demoting
      <4>4. \A q \in Others : ~Transferring(q)
        <5>1. ASSUME NEW q \in Others, Transferring(q) PROVE FALSE
          <6>1. call[q].by = by
            BY <1>5, <3>1, <3>3, <4>2, <5>1 DEF Sound, StillOwned
          <6>. QED  BY <4>1, <5>1, <6>1 DEF ReliesOn, Transferring
        <5>. QED  BY <5>1
      <4>. QED  BY <1>1, <2>1, <3>5, <4>3, <4>4, FinishBoard DEF BoardTyped
    <3>. QED  BY <3>6, <3>7
  <2>. QED  BY <1>13, <2>2, <2>3 DEF TransferOwnership
<1>. QED
  BY <1>7, <1>8, <1>9, <1>10, <1>11, <1>12, <1>13 DEF Write

\* What a request learns on its way to the write is still true there.
LEMMA SoundStep ==
    ASSUME Typed, Arguments, BoardTyped, Sound, [Next]_vars, ~contested'
    PROVE  Sound'
<1>. USE RolesAssumption DEF tables, request, ghosts
<1>1. ASSUME NEW s \in Slots, GiveUp(s) PROVE Sound'
  BY <1>1, FinishUnwritten DEF BoardExists, GiveUp
<1>2. ASSUME UNCHANGED tables, Created', Spared', StillOwned' PROVE Sound'
  BY <1>2 DEF Sound, OneOwner, Held, BoardExists
<1>3. ASSUME NEW s \in Slots, NEW op \in Ops, NEW by \in Users, NEW to \in Users,
             NEW arg \in ArgsOf(op), Arrive(s, op, by, to, arg)
      PROVE  Sound'
  <2>. DEFINE c == [op |-> op, by |-> by, to |-> to, arg |-> arg]
  <2>1. /\ call' = [call EXCEPT ![s] = c] /\ stage' = [stage EXCEPT ![s] = "member"]
        /\ UNCHANGED <<boardRole, board, boardSeen, workspace, wsRole>>
        /\ op \in BoardOps => BoardExists
        /\ overtaken' = overtaken
    BY <1>3 DEF Arrive
  <2>2. c.op = op
    OBVIOUS
  <2>. HIDE DEF c
  <2>3. /\ call'[s] = c /\ stage'[s] = "member"
        /\ \A q \in Slots \ {s} : call'[q] = call[q] /\ stage'[q] = stage[q]
    BY <2>1 DEF Typed
  <2>5. Created'
    BY <2>1, <2>2, <2>3 DEF Sound, Created, BoardExists
  <2>6. Spared'
    BY <2>1, <2>3 DEF Sound, Spared, Demoting
  <2>7. StillOwned'
    BY <2>1, <2>3 DEF Sound, StillOwned, Transferring, BoardExists
  <2>. QED  BY <1>2, <2>1, <2>5, <2>6, <2>7
<1>4. ASSUME NEW s \in Slots, NEW next \in Stages \ {"idle"}, stage[s] # "idle",
             stage' = [stage EXCEPT ![s] = next], UNCHANGED <<tables, call, ghosts>>,
             boardSeen' = [boardSeen EXCEPT ![s] = boardSeen'[s]],
             next = "approved" /\ call[s].op \in Demotions => boardRole[call[s].to] # "owner",
             s \notin overtaken /\ Transferring(s)' /\ BoardExists
                 => boardRole[call[s].by] = "owner"
      PROVE  Sound'
  <2>1. /\ stage'[s] = next
        /\ \A q \in Slots \ {s} : stage'[q] = stage[q] /\ boardSeen'[q] = boardSeen[q]
    BY <1>4 DEF Typed, BoardTyped
  <2>2. Created'
    BY <1>4, <2>1 DEF Sound, Created
  <2>3. Spared'
    BY <1>4, <2>1 DEF Sound, Spared, Demoting
  <2>4. StillOwned'
    <3>1. ASSUME NEW q \in Slots \ overtaken, Transferring(q)', BoardExists
          PROVE  boardRole[call[q].by] = "owner"
      <4>1. CASE q = s
        BY <1>4, <3>1, <4>1
      <4>2. CASE q # s
        BY <1>4, <2>1, <3>1, <4>2 DEF Sound, StillOwned, Transferring
      <4>. QED  BY <4>1, <4>2
    <3>. QED  BY <1>4, <3>1 DEF StillOwned, BoardExists
  <2>. QED  BY <1>2, <1>4, <2>2, <2>3, <2>4
<1>5. ASSUME NEW s \in Slots, ResolveRole(s) PROVE Sound'
  <2>1. boardSeen'[s] = Resolve(wsSeen[s], boardRole[call[s].by])
    BY <1>5 DEF ResolveRole, BoardTyped
  <2>2. boardSeen'[s] = "owner" => boardRole[call[s].by] = "owner"
    BY <2>1 DEF Resolve
  <2>3. stage'[s] = "resolved" /\ call' = call
    BY <1>5 DEF ResolveRole, Typed
  <2>4. Transferring(s)' => boardRole[call[s].by] = "owner"
    BY <2>2, <2>3 DEF Transferring
  <2>5. /\ stage[s] # "idle" /\ stage' = [stage EXCEPT ![s] = "resolved"]
        /\ UNCHANGED <<tables, call, ghosts>>
        /\ boardSeen' = [boardSeen EXCEPT ![s] = boardSeen'[s]]
    BY <1>5, <2>1 DEF ResolveRole
  <2>. QED  BY <1>4, <2>4, <2>5 DEF Stages
<1>6. ASSUME NEW s \in Slots, CheckAccess(s) PROVE Sound'
  <2>2. CASE GiveUp(s)
    BY <1>1, <2>2
  <2>3. CASE /\ stage' = [stage EXCEPT ![s] = "visible"]
             /\ UNCHANGED <<tables, call, boardSeen, ghosts>>
    <3>1. stage[s] = "resolved" /\ stage'[s] = "visible"
      BY <1>6, <2>3 DEF CheckAccess, Typed
    <3>2. Transferring(s)' => Transferring(s)
      BY <2>3, <3>1 DEF Transferring
    <3>3. s \notin overtaken /\ Transferring(s)' /\ BoardExists
              => boardRole[call[s].by] = "owner"
      BY <3>2 DEF Sound, StillOwned
    <3>4. boardSeen' = [boardSeen EXCEPT ![s] = boardSeen'[s]]
      BY <2>3 DEF BoardTyped
    <3>. QED  BY <1>4, <2>3, <3>1, <3>3, <3>4 DEF Stages
  <2>. QED  BY <1>6, <2>2, <2>3 DEF CheckAccess
<1>7. ASSUME NEW s \in Slots, Approve(s) PROVE Sound'
  <2>1. stage[s] \in {"member", "visible"}
    BY <1>7 DEF Approve
  <2>2. CASE GiveUp(s)
    BY <1>1, <2>2
  <2>3. CASE ~GiveUp(s)
    <3>1. /\ UNCHANGED <<tables, ghosts>>
          /\ stage' = [stage EXCEPT ![s] = "approved"]
          /\ boardSeen' = [boardSeen EXCEPT ![s] = None]
          /\ call' = call
      BY <1>7, <2>3 DEF Approve
    <3>2. call[s].op \in BoardOps =>
              /\ stage[s] = "visible"
              /\ BoardRule(call[s].op, wsSeen[s], boardSeen[s], call[s].by, call[s].to, call[s].arg)
      BY <1>7, <2>3 DEF Approve, WorkspaceOps, BoardOps
    <3>3. call[s].op \in Demotions => boardRole[call[s].to] # "owner"
      BY <3>2 DEF Demotions, BoardOps, BoardRule, MayRemoveBoardMember
    <3>4. call[s].op = "transferOwnership" => Transferring(s)
      BY <3>2 DEF BoardOps, BoardRule, Transferring
    <3>5. s \notin overtaken /\ Transferring(s)' /\ BoardExists
              => boardRole[call[s].by] = "owner"
      BY <3>1, <3>4 DEF Sound, StillOwned, Transferring
    <3>6. boardSeen' = [boardSeen EXCEPT ![s] = boardSeen'[s]]
      BY <3>1 DEF BoardTyped
    <3>. QED  BY <1>4, <2>1, <3>1, <3>3, <3>5, <3>6 DEF Stages
  <2>. QED  BY <2>2, <2>3
<1>8. ASSUME NEW s \in Slots, Abandon(s) PROVE Sound'
  BY <1>1, <1>8 DEF Abandon
<1>9. CASE UNCHANGED vars
  BY <1>9 DEF vars, Sound, OneOwner, Held, BoardExists, Created, Spared, Demoting,
              StillOwned, Transferring
<1>10. \A op \in Ops, by \in Users : TargetsOf(op, by) \subseteq Users
  BY DEF TargetsOf
<1>11. ASSUME NEW s \in Slots, Write(s) PROVE Sound'
  BY <1>11, WriteKeepsOwner DEF Write
<1>. QED
  BY <1>3, <1>5, <1>6, <1>7, <1>8, <1>9, <1>10, <1>11 DEF Next

LEMMA BInvStep ==
    ASSUME Typed, Arguments, BoardTyped, BInv, [Next]_vars
    PROVE  BInv'
<1>1. contested => contested'
  BY DEF Next, Arrive, ResolveRole, CheckAccess, Approve, Write, Abandon, GiveUp, vars, ghosts
<1>. QED  BY <1>1, SoundStep DEF BInv

\* Whatever overlaps and however stale its checks are, a board that exists has
\* one owner until a request writes that was decided before a transfer replaced
\* the owner it relied on.
THEOREM BoardKeepsOneOwner == Spec => []ExactlyOneOwner
<1>1. BInv => ExactlyOneOwner
  <2>1. ASSUME BInv, BoardExists, ~contested PROVE Cardinality(Owners) = 1
    <3>1. PICK o \in Users : Held(o)
      BY <2>1 DEF BInv, Sound, OneOwner
    <3>2. Owners = {o}
      BY <3>1 DEF Owners, Held
    <3>. QED  BY <3>2, FS_Singleton
  <2>. QED  BY <2>1 DEF ExactlyOneOwner
<1>2. Init => Arguments /\ BoardTyped
  <2>1. Init => Arguments
    BY RolesAssumption DEF Init, NoCall, Arguments
  <2>2. Init => BoardTyped
    BY DEF Init, BoardTyped, BoardRole, Boards
  <2>. QED  BY <2>1, <2>2
<1>3. IInv /\ Arguments /\ BoardTyped /\ BInv /\ [Next]_vars => (Arguments /\ BoardTyped /\ BInv)'
  BY ArgumentsKept, BoardTypedKept, BInvStep DEF IInv
<1>. QED  BY <1>1, <1>2, <1>3, IInvInit, IInvStep, BInvInit, PTL DEF Spec

=============================================================================
