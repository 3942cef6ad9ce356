----------------------------- MODULE Invitations -----------------------------
(***************************************************************************)
(* Joining a workspace by e-mail invitation: sending, accepting,           *)
(* cancelling and expiring, next to registration, adding a registered      *)
(* person without an invitation, and removal of members.                   *)
(* SendInvitation and AcceptInvitation are chains of separate statements;  *)
(* any of them may fail and the request is then given up, leaving what it  *)
(* has already written.                                                    *)
(*                                                                         *)
(* One workspace, its founder left out; a person is an e-mail address in   *)
(* lower case.  The roles of the requesting admins, and changes of a       *)
(* member's role, are in BoardRoles and not repeated.  Not covered:        *)
(* deletion of the workspace, the wording of the mail, the read-only       *)
(* endpoints.                                                              *)
(*                                                                         *)
(* A definition named X_Y is X with a mistake Y; no action uses it.        *)
(***************************************************************************)
EXTENDS Naturals, FiniteSets

CONSTANTS
    People,      \* addresses, in lower case
    MixedCase,   \* those of them that register with capital letters
    Direct,      \* those whom an admin may also add without an invitation
    Invites,     \* identities of invitation rows (and of their tokens)
    Slots,       \* requests in flight at the same time (bound)
    None

ASSUME PeopleAssumption == MixedCase \cup Direct \subseteq People /\ None \notin People
ASSUME RoleAssumption == None \notin {"admin", "member"}

VARIABLES
    account,    \* who has registered
    member,     \* workspace_members.role, None without a row
    status,     \* of an invitation; "unborn" before the INSERT
    invited,    \* its invited_email
    role,       \* its role
    expired,    \* invitations past expires_at
    delivered,  \* invitations whose mail, and so whose token, got through
    joined,     \* ghost: who was a member at some time
    stage,      \* how far the request of a slot is
    call        \* who and what it is about

rowVars == <<account, member, status, invited, role, expired, delivered, joined>>
vars == <<rowVars, stage, call>>

-----------------------------------------------------------------------------
Roles  == {"admin", "member"}
NoCall == [who |-> None, inv |-> None, as |-> None]
Calls  == [who : People \cup {None}, inv : Invites \cup {None}, as : Roles \cup {None}]

TypeOK ==
    /\ account \subseteq People
    /\ member \in [People -> Roles \cup {None}]
    /\ status \in [Invites -> {"unborn", "pending", "accepted", "cancelled"}]
    /\ invited \in [Invites -> People \cup {None}]
    /\ role \in [Invites -> Roles \cup {None}]
    /\ expired \subseteq Invites /\ delivered \subseteq Invites
    /\ joined \subseteq People
    /\ stage \in [Slots -> {"idle", "pending?", "insert", "member?", "add", "mark"}]
    /\ call \in [Slots -> Calls]

Init ==
    /\ account = {}
    /\ member = [p \in People |-> None]
    /\ status = [i \in Invites |-> "unborn"]
    /\ invited = [i \in Invites |-> None]
    /\ role = [i \in Invites |-> None]
    /\ expired = {} /\ delivered = {} /\ joined = {}
    /\ stage = [s \in Slots |-> "idle"]
    /\ call = [s \in Slots |-> NoCall]

Goto(s, there) == stage' = [stage EXCEPT ![s] = there] /\ UNCHANGED call
Finish(s) ==
    /\ stage' = [stage EXCEPT ![s] = "idle"]
    /\ call' = [call EXCEPT ![s] = NoCall]
Begin(s, c, there) ==
    /\ stage[s] = "idle"
    /\ stage' = [stage EXCEPT ![s] = there]
    /\ call' = [call EXCEPT ![s] = c]

PendingFor(p) == {i \in Invites : status[i] = "pending" /\ invited[i] = p}

\* HasPendingForEmail
LivePendingFor(p) == PendingFor(p) \ expired

\* FindByEmail compares case-sensitively, and the address was lowered before.
Found(p) == p \in account \ MixedCase

-----------------------------------------------------------------------------
(* SendInvitation.                                                         *)

\* binding:"required,oneof=admin member"
RolesToInvite == {"admin", "member"}

SendChecksMember(s, p, as) ==
    /\ Begin(s, [who |-> p, inv |-> None, as |-> as], "pending?")
    /\ ~(Found(p) /\ member[p] # None)
    /\ UNCHANGED rowVars

SendChecksPending(s) ==
    /\ stage[s] = "pending?"
    /\ IF LivePendingFor(call[s].who) = {} THEN Goto(s, "insert") ELSE Finish(s)
    /\ UNCHANGED rowVars

\* The partial unique index on (workspace_id, invited_email).
IndexAllows_Anything(p) == TRUE
IndexAllows(p) == PendingFor(p) = {}

\* INSERT, then the mail, whose failure leaves the row.
CreateInvitation(s, i) ==
    LET p == call[s].who IN
    /\ stage[s] = "insert"
    /\ status[i] = "unborn"
    /\ IF IndexAllows(p)
       THEN /\ status' = [status EXCEPT ![i] = "pending"]
            /\ invited' = [invited EXCEPT ![i] = p]
            /\ role' = [role EXCEPT ![i] = call[s].as]
            /\ delivered' \in {delivered, delivered \cup {i}}
       ELSE UNCHANGED <<status, invited, role, delivered>>
    /\ Finish(s)
    /\ UNCHANGED <<account, member, expired, joined>>

-----------------------------------------------------------------------------
(* AcceptInvitation.                                                       *)

\* strings.EqualFold(callerEmail, inv.InvitedEmail)
Addressed_Unchecked(p, i) == TRUE
Addressed(p, i) == invited[i] = p

\* Whoever is logged in and has the link; the row is pending and not expired.
AcceptFinds(s, p, i) ==
    /\ Begin(s, [who |-> p, inv |-> i, as |-> role[i]], "member?")
    /\ p \in account /\ i \in delivered
    /\ status[i] = "pending" /\ i \notin expired
    /\ Addressed(p, i)
    /\ UNCHANGED rowVars

\* A member already: only mark the invitation.
AfterGetMember_AlwaysMark(p) == "mark"
AfterGetMember(p) == IF member[p] # None THEN "mark" ELSE "add"

AcceptGetsMember(s) ==
    /\ stage[s] = "member?"
    /\ Goto(s, AfterGetMember(call[s].who))
    /\ UNCHANGED rowVars

\* INSERT; the primary key rejects a second row.
WithMember_Upsert(p, as) == [member EXCEPT ![p] = as]
WithMember(p, as) == IF member[p] = None THEN [member EXCEPT ![p] = as] ELSE member

AddMember(s) ==
    LET c == call[s] IN
    /\ stage[s] = "add"
    /\ member' = WithMember(c.who, c.as)
    /\ joined' = joined \cup {c.who}
    /\ IF member[c.who] = None THEN Goto(s, "mark") ELSE Finish(s)
    /\ UNCHANGED <<account, status, invited, role, expired, delivered>>

\* UPDATE ... SET status = 'accepted' WHERE status = 'pending'
MarkAccepted(s) ==
    LET i == call[s].inv IN
    /\ stage[s] = "mark"
    /\ status' = IF status[i] = "pending" THEN [status EXCEPT ![i] = "accepted"]
                                          ELSE status
    /\ Finish(s)
    /\ UNCHANGED <<account, member, invited, role, expired, delivered, joined>>

-----------------------------------------------------------------------------
(* The other endpoints, and time.                                          *)

CancelInvitation(i) ==
    /\ status[i] = "pending"
    /\ status' = [status EXCEPT ![i] = "cancelled"]
    /\ UNCHANGED <<account, member, invited, role, expired, delivered, joined,
                   stage, call>>

Register(p) ==
    /\ p \notin account
    /\ account' = account \cup {p}
    /\ UNCHANGED <<member, status, invited, role, expired, delivered, joined,
                   stage, call>>

\* WorkspaceService.InviteMember: FindByEmail is given the address as registered.
InviteMember(p) ==
    /\ p \in Direct \cap account /\ member[p] = None
    /\ member' = [member EXCEPT ![p] = "member"]
    /\ joined' = joined \cup {p}
    /\ UNCHANGED <<account, status, invited, role, expired, delivered, stage, call>>

RemoveMember(p) ==
    /\ member[p] # None
    /\ member' = [member EXCEPT ![p] = None]
    /\ UNCHANGED <<account, status, invited, role, expired, delivered, joined,
                   stage, call>>

Expire(i) ==
    /\ status[i] = "pending" /\ i \notin expired
    /\ expired' = expired \cup {i}
    /\ UNCHANGED <<account, member, status, invited, role, delivered, joined,
                   stage, call>>

\* A statement fails, or the request's context ends.
Abandon(s) ==
    /\ stage[s] # "idle"
    /\ Finish(s)
    /\ UNCHANGED rowVars

Send(s) ==
    \/ \E p \in People, as \in RolesToInvite : SendChecksMember(s, p, as)
    \/ SendChecksPending(s)
    \/ \E i \in Invites : CreateInvitation(s, i)

Accept(s) ==
    \/ \E p \in People, i \in Invites : AcceptFinds(s, p, i)
    \/ AcceptGetsMember(s)
    \/ AddMember(s)
    \/ MarkAccepted(s)

Next ==
    \/ \E s \in Slots : Send(s) \/ Accept(s) \/ Abandon(s)
    \/ \E i \in Invites : CancelInvitation(i) \/ Expire(i)
    \/ \E p \in People : Register(p) \/ InviteMember(p) \/ RemoveMember(p)

Spec == Init /\ [][Next]_vars

-----------------------------------------------------------------------------
(* Safety.                                                                 *)

\* "Invitations are non-transferable": everybody in the workspace whom no admin
\* added directly has the role of an invitation that was sent to that person.
MembersWereInvited ==
    \A p \in People \ Direct : member[p] # None =>
        \E i \in Invites :
            status[i] # "unborn" /\ invited[i] = p /\ role[i] = member[p]

\* Two admins who invite the same person at the same time do not both succeed,
\* though each of them saw no invitation pending (HasPendingForEmail).
OnePendingPerPerson == \A p \in People : Cardinality(PendingFor(p)) <= 1

\* Wherever accepting was interrupted and whatever it overlapped with: an
\* invitation is only marked as accepted when its addressee has got in.
AcceptedHasJoined ==
    \A i \in Invites : status[i] = "accepted" => invited[i] \in joined

\* Accepting again, by a second invitation or after being added in the meantime,
\* never changes the role somebody has.
AcceptKeepsRole ==
    [][\A p \in People : member[p] # None => member'[p] \in {member[p], None}]_vars

-----------------------------------------------------------------------------
(* What comments say and the code does not do.                             *)

\* repositories/invitations.go 214: "Cancelled invitations cannot be accepted":
\* nobody joins by an invitation that is not pending any more.
JoinedWhilePending ==
    [][\A s \in Slots :
          (stage[s] = "add" /\ member[call[s].who] = None
           /\ member'[call[s].who] # None /\ stage'[s] = "mark")
          => status[call[s].inv] = "pending"]_vars

\* repositories/invitations.go 196: "Both operations (AddMember + Accept) must
\* run in the same transaction": nobody is in by an invitation that is pending
\* while no request is going on.
JoinIsAtomic ==
    (\A s \in Slots : stage[s] = "idle") =>
        \A p \in People : \A i \in PendingFor(p) : member[p] = None

\* handlers/invitations.go 132: "this invitation has expired; ask the workspace admin
\* to send a new one": the index lets a new one in when none is live.
ExpiredDoesNotBlock ==
    \A p \in People : LivePendingFor(p) = {} => IndexAllows(p)

\* services/invitations.go 156: when the mail fails "the invitation row exists and
\* can be resent": it does not keep the admin from inviting that person again.
UndeliveredDoesNotBlock ==
    \A p \in People : LivePendingFor(p) # {} => LivePendingFor(p) \cap delivered # {}

\* services/invitations.go 59: "Invited email must not already be a member".
InvitedIsNotMember ==
    [][\A i \in Invites : status[i] = "unborn" /\ status'[i] = "pending"
          => member[invited'[i]] = None]_vars

=============================================================================
