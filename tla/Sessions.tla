------------------------------- MODULE Sessions -------------------------------
(***************************************************************************)
(* Accounts and refresh tokens: Register, Login, Refresh and Logout of     *)
(* AuthService, each a chain of separate statements on users, workspaces   *)
(* and refresh_tokens.  A request may fail, or its client go away, between *)
(* two of them.                                                            *)
(*                                                                         *)
(* Passwords are right, hashes do not collide, and the access token, which *)
(* no table records, is left out, as are the profile endpoints and         *)
(* DeleteExpired, which nothing calls.  A token that was sent to a client  *)
(* may be presented at any later time, by whoever has a copy.              *)
(*                                                                         *)
(* A definition named X_Y is X with a mistake Y; no action uses it.        *)
(***************************************************************************)
EXTENDS Naturals, FiniteSets

CONSTANTS
    Users,
    Tokens,   \* refresh tokens that may be issued (bound)
    Slots,    \* requests in flight at the same time (bound)
    None

ASSUME NoneAssumption == None \notin Users \cup Tokens

VARIABLES
    account,    \* rows of users
    workspace,  \* users with their personal workspace
    token,      \* refresh_tokens.revoked; "unborn" before the INSERT
    owner,      \* refresh_tokens.user_id
    expired,    \* tokens past expires_at
    held,       \* tokens that reached a client
    parent,     \* ghost: the token a token was exchanged for
    locked,     \* ghost: users with a reuse detected and no login since
    spared,     \* ghost: users whose tokens it should have revoked and did not
    raced,      \* ghost: users two requests of whom were in flight at some time
                \* since the last login that no other request of theirs overlapped
    shared,     \* ghost: tokens that two refreshes found good at the same time
    stage,      \* how far the request of a slot is
    call        \* whose it is, the token it presented, whether it is a login

tokenVars == <<token, owner, expired, held, parent, locked, spared>>
rowVars == <<account, workspace, tokenVars>>
vars == <<rowVars, raced, shared, stage, call>>

-----------------------------------------------------------------------------
Stages == {"idle", "user", "workspace", "revoke all", "reused", "revoke", "logout", "issue"}
NoCall == [user |-> None, token |-> None, login |-> FALSE]
Calls  == [user : Users \cup {None}, token : Tokens \cup {None}, login : BOOLEAN]

TypeOK ==
    /\ workspace \subseteq account /\ account \subseteq Users
    /\ token \in [Tokens -> {"unborn", "live", "revoked"}]
    /\ owner \in [Tokens -> Users \cup {None}]
    /\ \A t \in Tokens : token[t] = "unborn" <=> owner[t] = None
    /\ expired \cup held \subseteq {t \in Tokens : token[t] # "unborn"}
    /\ parent \in [Tokens -> Tokens \cup {None}]
    /\ locked \cup spared \subseteq account
    /\ raced \subseteq Users /\ shared \subseteq Tokens
    /\ stage \in [Slots -> Stages]
    /\ call \in [Slots -> Calls]

Init ==
    /\ account = {} /\ workspace = {}
    /\ token = [t \in Tokens |-> "unborn"]
    /\ owner = [t \in Tokens |-> None]
    /\ expired = {} /\ held = {}
    /\ parent = [t \in Tokens |-> None]
    /\ locked = {} /\ spared = {} /\ raced = {} /\ shared = {}
    /\ stage = [s \in Slots |-> "idle"]
    /\ call = [s \in Slots |-> NoCall]

Goto(s, there) ==
    stage' = [stage EXCEPT ![s] = there] /\ UNCHANGED <<call, raced, shared>>
Finish(s) ==
    /\ stage' = [stage EXCEPT ![s] = "idle"]
    /\ call' = [call EXCEPT ![s] = NoCall]
    /\ UNCHANGED <<raced, shared>>
Begin(s, c, there) ==
    /\ stage[s] = "idle"
    /\ stage' = [stage EXCEPT ![s] = there]
    /\ call' = [call EXCEPT ![s] = c]
    /\ raced' = raced \cup {u \in {c.user} : \E o \in Slots : call[o].user = u}
    /\ shared' = shared \cup
          {t \in Tokens : /\ t = c.token /\ there = "revoke"
                         /\ \E o \in Slots : call[o].token = t /\ stage[o] = "revoke"}

TokensOf(u) == {t \in Tokens : owner[t] = u}
Live(u) == {t \in TokensOf(u) : token[t] = "live"}

-----------------------------------------------------------------------------
(* The statements on refresh_tokens.                                       *)

\* RevokeAllForUser: UPDATE ... WHERE user_id = $1 AND revoked = FALSE
AllRevoked_Everybody(u) ==
    [t \in Tokens |-> IF token[t] = "unborn" THEN "unborn" ELSE "revoked"]
AllRevoked_RevokedOnes(u) == token
AllRevoked(u) ==
    [t \in Tokens |-> IF t \in TokensOf(u) THEN "revoked" ELSE token[t]]

\* Revoke: UPDATE ... WHERE id = $1
Revoked_Nothing(t) == token
Revoked(t) == [token EXCEPT ![t] = "revoked"]

\* issueTokenPair, and the reply, which may not arrive.
Issue(s, t) ==
    LET c == call[s] IN
    /\ stage[s] = "issue"
    /\ token[t] = "unborn"
    /\ token' = [token EXCEPT ![t] = "live"]
    /\ owner' = [owner EXCEPT ![t] = c.user]
    /\ parent' = [parent EXCEPT ![t] = c.token]
    /\ held' \in {held, held \cup {t}}
    /\ locked' = IF c.login THEN locked \ {c.user} ELSE locked
    /\ Finish(s)
    /\ UNCHANGED <<account, workspace, expired, spared>>

-----------------------------------------------------------------------------
(* Register.                                                               *)

\* FindByEmail finds nobody.
RegisterFinds(s, u) ==
    /\ u \notin account
    /\ Begin(s, [user |-> u, token |-> None, login |-> TRUE], "user")
    /\ UNCHANGED rowVars

\* INSERT; the unique index on email rejects a second one.
CreateUser(s) ==
    LET u == call[s].user IN
    /\ stage[s] = "user"
    /\ account' = account \cup {u}
    /\ IF u \in account THEN Finish(s) ELSE Goto(s, "workspace")
    /\ UNCHANGED <<workspace, tokenVars>>

CreateWithOwner(s) ==
    /\ stage[s] = "workspace"
    /\ workspace' = workspace \cup {call[s].user}
    /\ Goto(s, "issue")
    /\ UNCHANGED <<account, tokenVars>>

-----------------------------------------------------------------------------
(* Login.                                                                  *)

LoginFinds(s, u) ==
    /\ u \in account
    /\ Begin(s, [user |-> u, token |-> None, login |-> TRUE], "revoke all")
    /\ UNCHANGED rowVars

LoginRevokesAll(s) ==
    /\ stage[s] = "revoke all"
    /\ token' = AllRevoked(call[s].user)
    /\ stage' = [stage EXCEPT ![s] = "issue"]
    /\ raced' = {u \in raced : u = call[s].user =>
                                 \E o \in Slots \ {s} : call[o].user = u}
    /\ spared' = spared \ {call[s].user}
    /\ UNCHANGED <<call, shared, account, workspace, owner, expired, held, parent, locked>>

-----------------------------------------------------------------------------
(* Refresh.                                                                *)

\* "if storedToken.Revoked", then the check of expires_at
AfterFind_IgnoresRevoked(t) == IF t \in expired THEN "idle" ELSE "revoke"
AfterFind(t) ==
    IF token[t] = "revoked" THEN "reused" ELSE IF t \in expired THEN "idle" ELSE "revoke"

RefreshFinds(s, t) ==
    /\ t \in held /\ AfterFind(t) # "idle"
    /\ Begin(s, [user |-> owner[t], token |-> t, login |-> FALSE], AfterFind(t))
    /\ UNCHANGED rowVars

\* The error of RevokeAllForUser is discarded, also when the client has gone:
\* theft is reported, whether the tokens were revoked or not.
RefreshRevokesAll(s) ==
    LET u == call[s].user IN
    /\ stage[s] = "reused"
    /\ \/ token' = AllRevoked(u) /\ spared' = spared \ {u}
       \/ token' = token /\ spared' = spared \cup {u}
    /\ locked' = locked \cup {u}
    /\ Finish(s)
    /\ UNCHANGED <<account, workspace, owner, expired, held, parent>>

RefreshRevokes(s) ==
    /\ stage[s] = "revoke"
    /\ token' = Revoked(call[s].token)
    /\ Goto(s, "issue")
    /\ UNCHANGED <<account, workspace, owner, expired, held, parent, locked, spared>>

-----------------------------------------------------------------------------
(* Logout.                                                                 *)

LogoutFinds(s, t) ==
    /\ t \in held
    /\ Begin(s, [user |-> owner[t], token |-> t, login |-> FALSE], "logout")
    /\ UNCHANGED rowVars

LogoutRevokes(s) ==
    /\ stage[s] = "logout"
    /\ token' = Revoked(call[s].token)
    /\ Finish(s)
    /\ UNCHANGED <<account, workspace, owner, expired, held, parent, locked, spared>>

-----------------------------------------------------------------------------
\* A statement whose error is looked at fails, or the request's context ends.
Abandon(s) == stage[s] \notin {"idle", "reused"} /\ Finish(s) /\ UNCHANGED rowVars

\* That a revoked token expires, or one that nobody holds, makes no difference.
Expire(t) ==
    /\ token[t] = "live" /\ t \in held \ expired
    /\ expired' = expired \cup {t}
    /\ UNCHANGED <<account, workspace, token, owner, held, parent, locked, spared,
                   raced, shared, stage, call>>

Statement(s) ==
    \/ \E t \in Tokens : Issue(s, t)
    \/ CreateUser(s) \/ CreateWithOwner(s)
    \/ LoginRevokesAll(s)
    \/ RefreshRevokesAll(s) \/ RefreshRevokes(s)
    \/ LogoutRevokes(s)

Request(s) ==
    \/ \E u \in Users : RegisterFinds(s, u) \/ LoginFinds(s, u)
    \/ \E t \in Tokens : RefreshFinds(s, t) \/ LogoutFinds(s, t)

Next ==
    \/ \E s \in Slots : Request(s) \/ Statement(s) \/ Abandon(s)
    \/ \E t \in Tokens : Expire(t)

Spec == Init /\ [][Next]_vars

-----------------------------------------------------------------------------
(* Safety.                                                                 *)

\* Rotation, in whatever order requests interleave and fail: a token that was
\* exchanged for another is never good again.
ReplacedIsRevoked ==
    \A t \in Tokens : parent[t] # None => token[parent[t]] = "revoked"

\* Nobody loses a session but by a request of his own.
OthersKeepTheirSession ==
    [][\A t \in Tokens : token[t] = "live" /\ token'[t] # "live" =>
          \E s \in Slots : stage[s] # "idle" /\ call[s].user = owner[t]]_vars

\* "single active session per login": whatever overlapped before, from a login that
\* no other request of the user overlapped to the next overlap he has at most one
\* good token, wherever his requests fail and whatever others do.
SingleSession == \A u \in Users \ raced : Cardinality(Live(u)) <= 1

\* The tokens t was exchanged for.
Children(t) == {c \in Tokens : parent[c] = t}

\* "a used token can never be used again": no token is exchanged for two others,
\* but one that a refresh found good before an earlier refresh had revoked it.
ExchangedOnce == \A t \in Tokens \ shared : Cardinality(Children(t)) <= 1

\* "Token theft detected -- kill everything": from the detected reuse to the next
\* login no token is good, unless requests of the user overlapped, or the last
\* reuse was reported although its revocation had failed.
ReuseEndsEverySession == \A u \in locked \ (raced \cup spared) : Live(u) = {}

-----------------------------------------------------------------------------
(* What comments say and the code does not do.                             *)

\* services/auth.go 80, 95: "Revoke all existing refresh tokens (single active
\* session per login)": a user has at most one good token, whatever overlaps.
AlwaysSingleSession == \A u \in Users : Cardinality(Live(u)) <= 1

\* repositories/refresh_tokens.go 73: "rotation means a used token can never be
\* used again", also when two refreshes overlap.
NeverExchangedTwice == \A t \in Tokens : Cardinality(Children(t)) <= 1

\* repositories/refresh_tokens.go 89: "Token theft detected -- kill everything
\* immediately": once theft is reported the user has no good token, also when
\* the revocation failed and when another refresh is in flight.
NothingLiveAfterReuse == \A u \in locked : Live(u) = {}

\* services/auth.go 41: "Create the user + personal workspace": whoever has an
\* account has a workspace when no request is going on.
AccountHasWorkspace ==
    (\A s \in Slots : stage[s] = "idle") => account \subseteq workspace

=============================================================================
