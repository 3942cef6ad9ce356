-------------------------- MODULE InvitationsProofs --------------------------
(***************************************************************************)
(* For any number of people, invitations and overlapping requests: only    *)
(* addressees join, at most one invitation is pending per address, an      *)
(* accepted one has let its addressee in, and no role is overwritten.      *)
(***************************************************************************)
EXTENDS Invitations, FiniteSetTheorems, TLAPS

-----------------------------------------------------------------------------
\* An invitation that exists is somebody's.
Addresses ==
    \A i \in Invites : status[i] # "unborn" => invited[i] \in People /\ role[i] \in Roles

\* What a request may rely on although it read it some time ago: whom an
\* invitation is for and with which role never changes, only its status does.
Callers ==
    \A s \in Slots :
        /\ stage[s] \in {"pending?", "insert"} =>
              call[s].who \in People /\ call[s].as \in Roles
        /\ stage[s] \in {"member?", "add", "mark"} =>
              /\ call[s].who \in People /\ call[s].inv \in Invites
              /\ status[call[s].inv] # "unborn"
              /\ invited[call[s].inv] = call[s].who
              /\ role[call[s].inv] = call[s].as
        /\ stage[s] = "mark" => call[s].who \in joined

\* A member was a member at some time, also after being removed.
Joined == \A p \in People : member[p] # None => p \in joined

\* OnePendingPerPerson without counting.
Unique ==
    \A i, j \in Invites :
        status[i] = "pending" /\ status[j] = "pending" /\ invited[i] = invited[j]
        => i = j

Rows == Addresses /\ Joined /\ Unique /\ AcceptedHasJoined /\ MembersWereInvited

IInv == TypeOK /\ Callers /\ Rows

LEMMA IInvInit == Init => IInv
<1> HAVE Init
<1>1. NoCall \in Calls
  BY DEF NoCall, Calls
<1>2. TypeOK
  BY <1>1 DEF Init, TypeOK
<1>3. Callers /\ Rows
  BY DEF Init, Callers, Rows, Addresses, Joined, Unique, AcceptedHasJoined,
         MembersWereInvited
<1> QED
  BY <1>2, <1>3 DEF IInv

-----------------------------------------------------------------------------
(* The three ways a step goes on with the request of a slot.               *)

LEMMA BeginKeeps ==
  ASSUME IInv, NEW s \in Slots, NEW c \in Calls, NEW there \in {"pending?", "member?"},
         Begin(s, c, there), UNCHANGED rowVars, c.who \in People,
         there = "pending?" => c.as \in Roles,
         there = "member?" => /\ c.inv \in Invites /\ status[c.inv] # "unborn"
                              /\ invited[c.inv] = c.who /\ role[c.inv] = c.as
  PROVE  IInv'
<1>1. /\ \A o \in Slots : stage'[o] = IF o = s THEN there ELSE stage[o]
      /\ \A o \in Slots : call'[o] = IF o = s THEN c ELSE call[o]
  BY DEF IInv, TypeOK, Begin
<1>2. TypeOK'
  BY DEF IInv, TypeOK, Begin, rowVars
<1>3. Callers'
  BY <1>1 DEF IInv, Callers, rowVars
<1>4. Rows'
  BY DEF IInv, Rows, Addresses, Joined, Unique, AcceptedHasJoined,
         MembersWereInvited, rowVars
<1> QED
  BY <1>2, <1>3, <1>4 DEF IInv

\* The end of a request: nothing is asked of a slot that is idle.  Callers holds
\* again when invitations kept what they are and joined lost nobody.
LEMMA FinishKeeps ==
  ASSUME IInv, NEW s \in Slots, Finish(s), joined \subseteq joined',
         \A i \in Invites : status[i] # "unborn" =>
             status'[i] # "unborn" /\ invited'[i] = invited[i] /\ role'[i] = role[i]
  PROVE  /\ Callers'
         /\ call' \in [Slots -> Calls]
         /\ stage' \in [Slots -> {"idle", "pending?", "insert", "member?", "add", "mark"}]
<1>1. NoCall \in Calls
  BY DEF NoCall, Calls
<1>2. /\ call' \in [Slots -> Calls]
      /\ stage' \in [Slots -> {"idle", "pending?", "insert", "member?", "add", "mark"}]
      /\ \A o \in Slots : stage'[o] = "idle" \/ (stage'[o] = stage[o] /\ call'[o] = call[o])
  BY <1>1 DEF IInv, TypeOK, Finish
<1> QED
  BY <1>2 DEF IInv, Callers

LEMMA GotoKeeps ==
  ASSUME IInv, NEW s \in Slots, NEW there \in {"insert", "member?", "add", "mark"},
         Goto(s, there), joined \subseteq joined',
         there = "insert" => stage[s] = "pending?",
         there # "insert" => stage[s] \in {"member?", "add"},
         there = "mark" => call[s].who \in joined',
         UNCHANGED <<status, invited, role>>
  PROVE  /\ Callers'
         /\ call' \in [Slots -> Calls]
         /\ stage' \in [Slots -> {"idle", "pending?", "insert", "member?", "add", "mark"}]
<1>1. /\ call' = call
      /\ stage' \in [Slots -> {"idle", "pending?", "insert", "member?", "add", "mark"}]
      /\ \A o \in Slots : stage'[o] = IF o = s THEN there ELSE stage[o]
  BY DEF IInv, TypeOK, Goto
<1> QED
  BY <1>1 DEF IInv, TypeOK, Callers

-----------------------------------------------------------------------------
(* Sending.                                                                *)

LEMMA SendStep ==
  ASSUME IInv, NEW s \in Slots, Send(s)
  PROVE  IInv'
<1>1. ASSUME NEW p \in People, NEW as \in RolesToInvite, SendChecksMember(s, p, as)
      PROVE  IInv'
  <2> DEFINE c == [who |-> p, inv |-> None, as |-> as]
  <2>1. c \in Calls /\ c.who = p /\ c.as \in Roles
    BY DEF Calls, Roles, RolesToInvite
  <2>2. Begin(s, c, "pending?") /\ UNCHANGED rowVars
    BY <1>1 DEF SendChecksMember
  <2> HIDE DEF c
  <2> QED
    BY <2>1, <2>2, BeginKeeps
<1>2. CASE SendChecksPending(s)
  <2>1. /\ stage[s] = "pending?" /\ UNCHANGED rowVars
        /\ Goto(s, "insert") \/ Finish(s)
    BY <1>2 DEF SendChecksPending
  <2>2. /\ Callers' /\ call' \in [Slots -> Calls]
        /\ stage' \in [Slots -> {"idle", "pending?", "insert", "member?", "add", "mark"}]
    <3>1. CASE Goto(s, "insert")
      BY <2>1, <3>1, GotoKeeps DEF rowVars
    <3>2. CASE Finish(s)
      BY <2>1, <3>2, FinishKeeps DEF rowVars
    <3> QED
      BY <2>1, <3>1, <3>2
  <2> QED
    BY <2>1, <2>2 DEF IInv, TypeOK, rowVars, Rows, Addresses, Joined, Unique,
                      AcceptedHasJoined, MembersWereInvited
<1>3. ASSUME NEW i \in Invites, CreateInvitation(s, i) PROVE IInv'
  <2> DEFINE p == call[s].who
  <2>1. /\ stage[s] = "insert" /\ status[i] = "unborn" /\ Finish(s)
        /\ UNCHANGED <<account, member, expired, joined>>
    BY <1>3 DEF CreateInvitation
  <2>2. p \in People /\ call[s].as \in Roles
    BY <2>1 DEF IInv, Callers
  <2>3. CASE IndexAllows(p)
    <3>1. /\ status' = [status EXCEPT ![i] = "pending"]
          /\ invited' = [invited EXCEPT ![i] = p]
          /\ role' = [role EXCEPT ![i] = call[s].as]
          /\ delivered' \in {delivered, delivered \cup {i}}
      BY <1>3, <2>3 DEF CreateInvitation
    <3>2. /\ \A j \in Invites : status'[j] = IF j = i THEN "pending" ELSE status[j]
          /\ \A j \in Invites : invited'[j] = IF j = i THEN p ELSE invited[j]
          /\ \A j \in Invites : role'[j] = IF j = i THEN call[s].as ELSE role[j]
      BY <3>1 DEF IInv, TypeOK
    <3>3. \A j \in Invites : status[j] = "pending" => invited[j] # p
      BY <2>3 DEF IndexAllows, PendingFor
    <3>4. /\ Callers' /\ call' \in [Slots -> Calls]
          /\ stage' \in [Slots -> {"idle", "pending?", "insert", "member?", "add", "mark"}]
      BY <2>1, <3>2, FinishKeeps
    <3>5. TypeOK'
      <4>1. /\ status' \in [Invites -> {"unborn", "pending", "accepted", "cancelled"}]
            /\ invited' \in [Invites -> People \cup {None}]
            /\ role' \in [Invites -> Roles \cup {None}]
        BY <2>2, <3>1 DEF IInv, TypeOK
      <4> QED
        BY <2>1, <3>1, <3>4, <4>1 DEF IInv, TypeOK
    <3>6. Addresses' /\ Joined'
      BY <2>1, <2>2, <3>2 DEF IInv, Rows, Addresses, Joined
    <3>7. Unique'
      BY <3>2, <3>3 DEF IInv, Rows, Unique
    <3>8. AcceptedHasJoined' /\ MembersWereInvited'
      BY <2>1, <3>2 DEF IInv, Rows, AcceptedHasJoined, MembersWereInvited
    <3> QED
      BY <3>4, <3>5, <3>6, <3>7, <3>8 DEF IInv, Rows
  <2>4. CASE ~IndexAllows(p)
    <3>1. UNCHANGED rowVars
      BY <1>3, <2>1, <2>4 DEF CreateInvitation, rowVars
    <3>2. /\ Callers' /\ call' \in [Slots -> Calls]
          /\ stage' \in [Slots -> {"idle", "pending?", "insert", "member?", "add", "mark"}]
      BY <2>1, <3>1, FinishKeeps DEF rowVars
    <3> QED
      BY <3>1, <3>2 DEF IInv, TypeOK, rowVars, Rows, Addresses, Joined, Unique,
                        AcceptedHasJoined, MembersWereInvited
  <2> QED
    BY <2>3, <2>4
<1> QED
  BY <1>1, <1>2, <1>3 DEF Send

-----------------------------------------------------------------------------
(* Accepting.                                                              *)

LEMMA AcceptStep ==
  ASSUME IInv, NEW s \in Slots, Accept(s)
  PROVE  IInv'
<1>1. ASSUME NEW p \in People, NEW i \in Invites, AcceptFinds(s, p, i)
      PROVE  IInv'
  <2> DEFINE c == [who |-> p, inv |-> i, as |-> role[i]]
  <2>1. /\ Begin(s, c, "member?") /\ UNCHANGED rowVars
        /\ status[i] = "pending" /\ invited[i] = p
    BY <1>1 DEF AcceptFinds, Addressed
  <2>2. c \in Calls /\ c.who = p /\ c.inv = i /\ c.as = role[i]
    BY DEF Calls, IInv, TypeOK
  <2> HIDE DEF c
  <2> QED
    BY <2>1, <2>2, BeginKeeps
<1>2. CASE AcceptGetsMember(s)
  <2>1. /\ stage[s] = "member?" /\ UNCHANGED rowVars
        /\ \/ Goto(s, "add")
           \/ Goto(s, "mark") /\ member[call[s].who] # None
    BY <1>2 DEF AcceptGetsMember, AfterGetMember
  <2>2. /\ Callers' /\ call' \in [Slots -> Calls]
        /\ stage' \in [Slots -> {"idle", "pending?", "insert", "member?", "add", "mark"}]
    <3>1. CASE Goto(s, "add")
      BY <2>1, <3>1, GotoKeeps DEF rowVars
    <3>2. CASE Goto(s, "mark") /\ member[call[s].who] # None
      <4>1. call[s].who \in joined
        BY <2>1, <3>2 DEF IInv, Callers, Rows, Joined
      <4> QED
        BY <2>1, <3>2, <4>1, GotoKeeps DEF rowVars
    <3> QED
      BY <2>1, <3>1, <3>2
  <2> QED
    BY <2>1, <2>2 DEF IInv, TypeOK, rowVars, Rows, Addresses, Joined, Unique,
                      AcceptedHasJoined, MembersWereInvited
<1>3. CASE AddMember(s)
  <2> DEFINE p == call[s].who
             i == call[s].inv
  <2>1. /\ stage[s] = "add"
        /\ member' = IF member[p] = None THEN [member EXCEPT ![p] = call[s].as] ELSE member
        /\ joined' = joined \cup {p}
        /\ Goto(s, "mark") \/ Finish(s)
        /\ UNCHANGED <<account, status, invited, role, expired, delivered>>
    BY <1>3 DEF AddMember, WithMember
  <2>2. /\ p \in People /\ i \in Invites /\ status[i] # "unborn"
        /\ invited[i] = p /\ role[i] = call[s].as
    BY <2>1 DEF IInv, Callers
  <2>3. call[s].as \in Roles
    BY <2>2 DEF IInv, Rows, Addresses
  <2>4. \A q \in People : member'[q] = IF q = p /\ member[p] = None THEN call[s].as
                                                                 ELSE member[q]
    BY <2>1 DEF IInv, TypeOK
  <2>5. /\ Callers' /\ call' \in [Slots -> Calls]
        /\ stage' \in [Slots -> {"idle", "pending?", "insert", "member?", "add", "mark"}]
    <3>1. CASE Goto(s, "mark")
      BY <2>1, <3>1, GotoKeeps
    <3>2. CASE Finish(s)
      BY <2>1, <3>2, FinishKeeps
    <3> QED
      BY <2>1, <3>1, <3>2
  <2>6. TypeOK'
    <3>1. member' \in [People -> Roles \cup {None}] /\ joined' \subseteq People
      BY <2>1, <2>2, <2>3 DEF IInv, TypeOK
    <3> QED
      BY <2>1, <2>5, <3>1 DEF IInv, TypeOK
  <2>7. Addresses' /\ Unique' /\ AcceptedHasJoined'
    BY <2>1 DEF IInv, Rows, Addresses, Unique, AcceptedHasJoined
  <2>8. Joined'
    BY <2>1, <2>4 DEF IInv, Rows, Joined
  <2>9. MembersWereInvited'
    BY <2>1, <2>2, <2>4 DEF IInv, Rows, MembersWereInvited
  <2> QED
    BY <2>5, <2>6, <2>7, <2>8, <2>9 DEF IInv, Rows
<1>4. CASE MarkAccepted(s)
  <2> DEFINE i == call[s].inv
  <2>1. /\ stage[s] = "mark" /\ Finish(s)
        /\ status' = IF status[i] = "pending" THEN [status EXCEPT ![i] = "accepted"]
                                              ELSE status
        /\ UNCHANGED <<account, member, invited, role, expired, delivered, joined>>
    BY <1>4 DEF MarkAccepted
  <2>2. i \in Invites /\ invited[i] \in joined
    BY <2>1 DEF IInv, Callers
  <2>3. \A j \in Invites : status'[j] = IF j = i /\ status[i] = "pending" THEN "accepted"
                                                                       ELSE status[j]
    BY <2>1 DEF IInv, TypeOK
  <2>4. /\ Callers' /\ call' \in [Slots -> Calls]
        /\ stage' \in [Slots -> {"idle", "pending?", "insert", "member?", "add", "mark"}]
    BY <2>1, <2>3, FinishKeeps
  <2>5. TypeOK'
    <3>1. status' \in [Invites -> {"unborn", "pending", "accepted", "cancelled"}]
      BY <2>1, <2>2 DEF IInv, TypeOK
    <3> QED
      BY <2>1, <2>4, <3>1 DEF IInv, TypeOK
  <2>6. Rows'
    BY <2>1, <2>2, <2>3 DEF IInv, Rows, Addresses, Joined, Unique, AcceptedHasJoined,
                            MembersWereInvited
  <2> QED
    BY <2>4, <2>5, <2>6 DEF IInv
<1> QED
  BY <1>1, <1>2, <1>3, <1>4 DEF Accept

-----------------------------------------------------------------------------
(* The other endpoints, and time.                                          *)

LEMMA OtherStep ==
  ASSUME IInv,
         \/ \E i \in Invites : CancelInvitation(i) \/ Expire(i)
         \/ \E p \in People : Register(p) \/ InviteMember(p) \/ RemoveMember(p)
  PROVE  IInv'
<1> USE RoleAssumption, PeopleAssumption
<1>1. ASSUME NEW i \in Invites, CancelInvitation(i) PROVE IInv'
  <2>1. /\ status' = [status EXCEPT ![i] = "cancelled"] /\ status[i] = "pending"
        /\ UNCHANGED <<account, member, invited, role, expired, delivered, joined,
                       stage, call>>
    BY <1>1 DEF CancelInvitation
  <2>2. \A j \in Invites : status'[j] = IF j = i THEN "cancelled" ELSE status[j]
    BY <2>1 DEF IInv, TypeOK
  <2>3. TypeOK'
    BY <2>1 DEF IInv, TypeOK
  <2>4. Callers'
    BY <2>1, <2>2 DEF IInv, Callers
  <2>5. Rows'
    BY <2>1, <2>2 DEF IInv, Rows, Addresses, Joined, Unique, AcceptedHasJoined,
                      MembersWereInvited
  <2> QED
    BY <2>3, <2>4, <2>5 DEF IInv
<1>2. ASSUME NEW i \in Invites, Expire(i) PROVE IInv'
  <2>1. /\ expired' = expired \cup {i}
        /\ UNCHANGED <<account, member, status, invited, role, delivered, joined,
                       stage, call>>
    BY <1>2 DEF Expire
  <2> QED
    BY <2>1 DEF IInv, TypeOK, Callers, Rows, Addresses, Joined, Unique,
                AcceptedHasJoined, MembersWereInvited
<1>3. ASSUME NEW p \in People, Register(p) PROVE IInv'
  <2>1. /\ account' = account \cup {p}
        /\ UNCHANGED <<member, status, invited, role, expired, delivered, joined,
                       stage, call>>
    BY <1>3 DEF Register
  <2> QED
    BY <2>1 DEF IInv, TypeOK, Callers, Rows, Addresses, Joined, Unique,
                AcceptedHasJoined, MembersWereInvited
<1>4. ASSUME NEW p \in People, InviteMember(p) PROVE IInv'
  <2>1. /\ p \in Direct /\ member' = [member EXCEPT ![p] = "member"]
        /\ joined' = joined \cup {p}
        /\ UNCHANGED <<account, status, invited, role, expired, delivered, stage, call>>
    BY <1>4 DEF InviteMember
  <2>2. \A q \in People : member'[q] = IF q = p THEN "member" ELSE member[q]
    BY <2>1 DEF IInv, TypeOK
  <2>3. TypeOK'
    BY <2>1 DEF IInv, TypeOK, Roles
  <2>4. Callers'
    BY <2>1 DEF IInv, Callers
  <2>5. Rows'
    BY <2>1, <2>2 DEF IInv, Rows, Addresses, Joined, Unique, AcceptedHasJoined,
                      MembersWereInvited
  <2> QED
    BY <2>3, <2>4, <2>5 DEF IInv
<1>5. ASSUME NEW p \in People, RemoveMember(p) PROVE IInv'
  <2>1. /\ member' = [member EXCEPT ![p] = None]
        /\ UNCHANGED <<account, status, invited, role, expired, delivered, joined,
                       stage, call>>
    BY <1>5 DEF RemoveMember
  <2>2. \A q \in People : member'[q] = IF q = p THEN None ELSE member[q]
    BY <2>1 DEF IInv, TypeOK
  <2>3. TypeOK'
    BY <2>1 DEF IInv, TypeOK
  <2>4. Callers'
    BY <2>1 DEF IInv, Callers
  <2>5. Rows'
    BY <2>1, <2>2 DEF IInv, Rows, Addresses, Joined, Unique, AcceptedHasJoined,
                      MembersWereInvited
  <2> QED
    BY <2>3, <2>4, <2>5 DEF IInv
<1> QED
  BY <1>1, <1>2, <1>3, <1>4, <1>5

-----------------------------------------------------------------------------
LEMMA IInvStep == IInv /\ [Next]_vars => IInv'
<1> SUFFICES ASSUME IInv, [Next]_vars PROVE IInv'
  OBVIOUS
<1>1. ASSUME NEW s \in Slots, Abandon(s) PROVE IInv'
  <2>1. Finish(s) /\ UNCHANGED rowVars
    BY <1>1 DEF Abandon
  <2>2. /\ Callers' /\ call' \in [Slots -> Calls]
        /\ stage' \in [Slots -> {"idle", "pending?", "insert", "member?", "add", "mark"}]
    BY <2>1, FinishKeeps DEF rowVars
  <2> QED
    BY <2>1, <2>2 DEF IInv, TypeOK, rowVars, Rows, Addresses, Joined, Unique,
                      AcceptedHasJoined, MembersWereInvited
<1>2. CASE UNCHANGED vars
  BY <1>2 DEF vars, rowVars, IInv, TypeOK, Callers, Rows, Addresses, Joined, Unique,
              AcceptedHasJoined, MembersWereInvited
<1> QED
  BY <1>1, <1>2, SendStep, AcceptStep, OtherStep DEF Next

LEMMA Invariant == Spec => []IInv
<1> QED
  BY IInvInit, IInvStep, PTL DEF Spec

-----------------------------------------------------------------------------
\* The tables and the requests in flight stay in their types.
THEOREM TypeCorrect == Spec => []TypeOK
<1>1. IInv => TypeOK
  BY DEF IInv
<1> QED
  BY <1>1, Invariant, PTL

\* Whoever is a member and was not added directly has the role of an invitation
\* addressed to that person, wherever requests overlapped or failed.
THEOREM OnlyAddresseesJoin == Spec => []MembersWereInvited
<1>1. IInv => MembersWereInvited
  BY DEF IInv, Rows
<1> QED
  BY <1>1, Invariant, PTL

\* However many admins invite a person at the same time, one invitation is pending.
THEOREM AtMostOnePending == Spec => []OnePendingPerPerson
<1>1. IInv => OnePendingPerPerson
  <2> SUFFICES ASSUME IInv, NEW p \in People
               PROVE  Cardinality(PendingFor(p)) <= 1
    BY DEF OnePendingPerPerson
  <2>1. CASE PendingFor(p) = {}
    BY <2>1, FS_EmptySet
  <2>2. CASE PendingFor(p) # {}
    <3>1. PICK i \in Invites : i \in PendingFor(p)
      BY <2>2 DEF PendingFor
    <3>2. PendingFor(p) = {i}
      BY <3>1 DEF IInv, Rows, Unique, PendingFor
    <3> QED
      BY <3>2, FS_Singleton
  <2> QED
    BY <2>1, <2>2
<1> QED
  BY <1>1, Invariant, PTL

\* An invitation that is marked as accepted has let its addressee in.
THEOREM AcceptedMeansJoined == Spec => []AcceptedHasJoined
<1>1. IInv => AcceptedHasJoined
  BY DEF IInv, Rows
<1> QED
  BY <1>1, Invariant, PTL

\* No endpoint of this module overwrites the role of a member.
THEOREM RolesAreKept == Spec => AcceptKeepsRole
<1> DEFINE Kept == \A p \in People : member[p] # None => member'[p] \in {member[p], None}
<1>1. IInv /\ [Next]_vars => [Kept]_vars
  <2> SUFFICES ASSUME IInv, Next, NEW p \in People, member[p] # None
               PROVE  member'[p] \in {member[p], None}
    OBVIOUS
  <2>1. CASE member' = member
    BY <2>1
  <2>2. ASSUME NEW s \in Slots, AddMember(s) PROVE member'[p] = member[p]
    BY <2>2 DEF AddMember, WithMember, IInv, TypeOK
  <2>3. ASSUME NEW q \in People, InviteMember(q) PROVE member'[p] = member[p]
    BY <2>3 DEF InviteMember, IInv, TypeOK
  <2>4. ASSUME NEW q \in People, RemoveMember(q) PROVE member'[p] \in {member[p], None}
    BY <2>4 DEF RemoveMember, IInv, TypeOK
  <2> QED
    BY <2>1, <2>2, <2>3, <2>4
       DEF Next, Send, Accept, Abandon, SendChecksMember, SendChecksPending,
           CreateInvitation, AcceptFinds, AcceptGetsMember, MarkAccepted,
           CancelInvitation, Expire, Register, rowVars
<1> QED
  BY <1>1, Invariant, PTL DEF Spec, AcceptKeepsRole

=============================================================================
