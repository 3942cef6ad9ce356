--------------------------- MODULE SessionsProofs ---------------------------
(***************************************************************************)
(* For any number of users, tokens and overlapping requests: the types of  *)
(* Sessions, that a token which was exchanged is never good again, that    *)
(* nobody loses a session by somebody else's request, that a login leaves  *)
(* one session as long as nothing else of the user overlaps it, that a     *)
(* token is exchanged once unless two refreshes found it good, and that no *)
(* session is left after a replaced token came back and was dealt with.    *)
(***************************************************************************)
EXTENDS Sessions, FiniteSetTheorems, TLAPS

-----------------------------------------------------------------------------
\* What a request in flight may rely on although it read it some time ago: an
\* account stays, a token keeps its owner, and a revoked one stays revoked.
Callers ==
    \A s \in Slots : stage[s] # "idle" =>
        /\ call[s].user \in Users
        /\ stage[s] # "user" => call[s].user \in account
        /\ stage[s] \in {"user", "workspace", "revoke all"} => call[s].token = None
        /\ stage[s] \in {"reused", "revoke", "logout"} => call[s].token \in Tokens
        /\ call[s].token # None => owner[call[s].token] = call[s].user
        /\ stage[s] = "issue" /\ call[s].token # None =>
              token[call[s].token] = "revoked"

\* Whoever owns a token has an account.
Owners == \A t \in Tokens : owner[t] # None => owner[t] \in account

IInv == TypeOK /\ Callers /\ Owners /\ ReplacedIsRevoked

LEMMA IInvInit == Init => IInv
<1> USE NoneAssumption
<1> HAVE Init
<1>1. NoCall \in Calls
  BY DEF NoCall, Calls
<1> QED
  BY <1>1 DEF Init, IInv, TypeOK, Callers, Owners, ReplacedIsRevoked, Stages

-----------------------------------------------------------------------------
(* The three ways a step goes on with the request of a slot.               *)

\* A new request, in its first stage.
LEMMA BeginKeeps ==
  ASSUME IInv, UNCHANGED rowVars, NEW s \in Slots, NEW c \in Calls,
         NEW there \in Stages \ {"idle", "workspace", "issue"},
         Begin(s, c, there),
         c.user \in Users, there # "user" => c.user \in account,
         there \in {"user", "revoke all"} => c.token = None,
         there \in {"reused", "revoke", "logout"} => c.token \in Tokens,
         c.token # None => owner[c.token] = c.user
  PROVE  IInv'
<1>1. /\ \A o \in Slots : stage'[o] = IF o = s THEN there ELSE stage[o]
      /\ \A o \in Slots : call'[o] = IF o = s THEN c ELSE call[o]
  BY DEF IInv, TypeOK, Begin
<1>2. TypeOK'
  BY DEF IInv, TypeOK, Begin, rowVars, tokenVars
<1>3. Callers'
  BY <1>1 DEF IInv, Callers, rowVars, tokenVars, Stages
<1>4. Owners' /\ ReplacedIsRevoked'
  BY DEF IInv, Owners, ReplacedIsRevoked, rowVars, tokenVars
<1> QED
  BY <1>2, <1>3, <1>4 DEF IInv

\* The end of a request: nothing is asked of a slot that is idle.
LEMMA FinishKeeps ==
  ASSUME IInv, NEW s \in Slots, Finish(s)
  PROVE  /\ stage' \in [Slots -> Stages] /\ call' \in [Slots -> Calls]
         /\ UNCHANGED <<raced, shared>>
         /\ \A o \in Slots : stage'[o] # "idle" =>
               stage[o] # "idle" /\ stage'[o] = stage[o] /\ call'[o] = call[o]
<1>1. NoCall \in Calls
  BY DEF NoCall, Calls
<1> QED
  BY <1>1 DEF IInv, TypeOK, Finish, Stages

LEMMA CallersAfterFinish ==
  ASSUME IInv, NEW s \in Slots, Finish(s), account \subseteq account',
         \A t \in Tokens : owner[t] # None => owner'[t] = owner[t],
         \A t \in Tokens : token[t] = "revoked" => token'[t] = "revoked"
  PROVE  Callers'
<1> USE NoneAssumption
<1> SUFFICES ASSUME NEW o \in Slots, stage'[o] # "idle"
             PROVE  /\ call'[o].user \in Users
                    /\ stage'[o] # "user" => call'[o].user \in account'
                    /\ stage'[o] \in {"user", "workspace", "revoke all"} =>
                          call'[o].token = None
                    /\ stage'[o] \in {"reused", "revoke", "logout"} =>
                          call'[o].token \in Tokens
                    /\ call'[o].token # None => owner'[call'[o].token] = call'[o].user
                    /\ stage'[o] = "issue" /\ call'[o].token # None =>
                          token'[call'[o].token] = "revoked"
  BY DEF Callers
<1>1. stage[o] # "idle" /\ stage'[o] = stage[o] /\ call'[o] = call[o]
  BY FinishKeeps
<1>2. call[o].token \in Tokens \cup {None}
  BY DEF IInv, TypeOK, Calls
<1> QED
  BY <1>1, <1>2 DEF IInv, Callers

\* Another stage of the same request.
LEMMA GotoKeeps ==
  ASSUME IInv, NEW s \in Slots, NEW there \in Stages, Goto(s, there)
  PROVE  /\ stage' \in [Slots -> Stages] /\ call' = call /\ UNCHANGED <<raced, shared>>
         /\ \A o \in Slots : stage'[o] = IF o = s THEN there ELSE stage[o]
  BY DEF IInv, TypeOK, Goto

\* A statement that revokes some tokens and does nothing else to the rows.
LEMMA RevokeKeeps ==
  ASSUME IInv, NEW R \in SUBSET {t \in Tokens : token[t] # "unborn"},
         token' = [t \in Tokens |-> IF t \in R THEN "revoked" ELSE token[t]],
         UNCHANGED <<account, workspace, owner, expired, held, parent>>
  PROVE  /\ token' \in [Tokens -> {"unborn", "live", "revoked"}]
         /\ \A t \in Tokens : token'[t] = "unborn" <=> owner'[t] = None
         /\ expired' \cup held' \subseteq {t \in Tokens : token'[t] # "unborn"}
         /\ \A t \in Tokens : token[t] = "revoked" => token'[t] = "revoked"
         /\ Owners' /\ ReplacedIsRevoked'
<1>1. \A t \in Tokens : token'[t] = IF t \in R THEN "revoked" ELSE token[t]
  OBVIOUS
<1>2. /\ token' \in [Tokens -> {"unborn", "live", "revoked"}]
      /\ \A t \in Tokens : token[t] = "revoked" => token'[t] = "revoked"
      /\ \A t \in Tokens : token'[t] = "unborn" <=> token[t] = "unborn"
  BY <1>1 DEF IInv, TypeOK
<1>3. \A t \in Tokens : parent[t] # None => parent[t] \in Tokens
  BY DEF IInv, TypeOK
<1> QED
  BY <1>2, <1>3 DEF IInv, TypeOK, Owners, ReplacedIsRevoked

-----------------------------------------------------------------------------
\* Every step keeps the invariant, whatever other requests are in between.
LEMMA IInvStep == IInv /\ [Next]_vars => IInv'
<1> SUFFICES ASSUME IInv, [Next]_vars PROVE IInv'
  OBVIOUS
<1> USE NoneAssumption
<1>1. ASSUME NEW s \in Slots, NEW u \in Users, RegisterFinds(s, u) PROVE IInv'
  <2> DEFINE c == [user |-> u, token |-> None, login |-> TRUE]
  <2>1. c \in Calls /\ c.user = u /\ c.token = None
    BY DEF Calls
  <2>2. Begin(s, c, "user") /\ UNCHANGED rowVars
    BY <1>1 DEF RegisterFinds
  <2> HIDE DEF c
  <2> QED
    BY <2>1, <2>2, BeginKeeps DEF Stages
<1>2. ASSUME NEW s \in Slots, NEW u \in Users, LoginFinds(s, u) PROVE IInv'
  <2> DEFINE c == [user |-> u, token |-> None, login |-> TRUE]
  <2>1. c \in Calls /\ c.user = u /\ c.token = None
    BY DEF Calls
  <2>2. Begin(s, c, "revoke all") /\ UNCHANGED rowVars /\ u \in account
    BY <1>2 DEF LoginFinds
  <2> HIDE DEF c
  <2> QED
    BY <2>1, <2>2, BeginKeeps DEF Stages
<1>3. ASSUME NEW s \in Slots, NEW t \in Tokens, RefreshFinds(s, t) \/ LogoutFinds(s, t)
      PROVE  IInv'
  <2> DEFINE c == [user |-> owner[t], token |-> t, login |-> FALSE]
  <2>1. owner[t] # None /\ owner[t] \in account /\ account \subseteq Users
    BY <1>3 DEF RefreshFinds, LogoutFinds, IInv, TypeOK, Owners
  <2>2. c \in Calls /\ c.user = owner[t] /\ c.token = t
    BY <2>1 DEF Calls
  <2>3. \E there \in {"reused", "revoke", "logout"} : Begin(s, c, there) /\ UNCHANGED rowVars
    BY <1>3 DEF RefreshFinds, LogoutFinds, AfterFind
  <2> HIDE DEF c
  <2> QED
    BY <2>1, <2>2, <2>3, BeginKeeps DEF Stages
<1>4. ASSUME NEW s \in Slots, Abandon(s) PROVE IInv'
  <2>1. Finish(s) /\ UNCHANGED rowVars
    BY <1>4 DEF Abandon
  <2>2. TypeOK'
    BY <2>1, FinishKeeps DEF IInv, TypeOK, rowVars, tokenVars
  <2>3. Callers'
    BY <2>1, CallersAfterFinish DEF rowVars, tokenVars
  <2>4. Owners' /\ ReplacedIsRevoked'
    BY <2>1 DEF IInv, Owners, ReplacedIsRevoked, rowVars, tokenVars
  <2> QED
    BY <2>2, <2>3, <2>4 DEF IInv
<1>5. ASSUME NEW s \in Slots, CreateUser(s) PROVE IInv'
  <2>1. /\ stage[s] = "user" /\ account' = account \cup {call[s].user}
        /\ UNCHANGED <<workspace, tokenVars>>
        /\ Finish(s) \/ Goto(s, "workspace")
    BY <1>5 DEF CreateUser
  <2>2. call[s].user \in Users /\ call[s].token = None
    BY <2>1 DEF IInv, Callers
  <2>3. TypeOK'
    <3>1. stage' \in [Slots -> Stages] /\ call' \in [Slots -> Calls] /\ UNCHANGED <<raced, shared>>
      <4>1. CASE Finish(s)
        BY <4>1, FinishKeeps
      <4>2. CASE Goto(s, "workspace")
        BY <4>2, GotoKeeps DEF Stages, IInv, TypeOK
      <4> QED
        BY <2>1, <4>1, <4>2
    <3> QED
      BY <2>1, <2>2, <3>1 DEF IInv, TypeOK, tokenVars
  <2>4. Callers'
    <3>1. CASE Finish(s)
      BY <2>1, <3>1, CallersAfterFinish DEF tokenVars
    <3>2. CASE Goto(s, "workspace")
      <4>1. /\ call' = call
            /\ \A o \in Slots : stage'[o] = IF o = s THEN "workspace" ELSE stage[o]
        BY <3>2, GotoKeeps DEF Stages
      <4> QED
        BY <2>1, <2>2, <4>1 DEF IInv, Callers, tokenVars
    <3> QED
      BY <2>1, <3>1, <3>2
  <2>5. Owners' /\ ReplacedIsRevoked'
    BY <2>1 DEF IInv, Owners, ReplacedIsRevoked, tokenVars
  <2> QED
    BY <2>3, <2>4, <2>5 DEF IInv
<1>6. ASSUME NEW s \in Slots, CreateWithOwner(s) PROVE IInv'
  <2>1. /\ stage[s] = "workspace" /\ workspace' = workspace \cup {call[s].user}
        /\ UNCHANGED <<account, tokenVars>> /\ Goto(s, "issue")
    BY <1>6 DEF CreateWithOwner
  <2>2. call[s].user \in account /\ call[s].token = None
    BY <2>1 DEF IInv, Callers
  <2>3. /\ call' = call /\ UNCHANGED <<raced, shared>> /\ stage' \in [Slots -> Stages]
        /\ \A o \in Slots : stage'[o] = IF o = s THEN "issue" ELSE stage[o]
    BY <2>1, GotoKeeps DEF Stages
  <2> QED
    BY <2>1, <2>2, <2>3
       DEF IInv, TypeOK, Callers, Owners, ReplacedIsRevoked, tokenVars
<1>7. ASSUME NEW s \in Slots, LoginRevokesAll(s) PROVE IInv'
  <2> DEFINE R == TokensOf(call[s].user)
  <2>1. /\ stage[s] = "revoke all" /\ stage' = [stage EXCEPT ![s] = "issue"]
        /\ UNCHANGED <<call, shared, account, workspace, owner, expired, held, parent,
                       locked>>
        /\ raced' \subseteq raced /\ spared' \subseteq spared
        /\ token' = [t \in Tokens |-> IF t \in R THEN "revoked" ELSE token[t]]
    BY <1>7 DEF LoginRevokesAll, AllRevoked
  <2>2. /\ call[s].user \in account /\ call[s].user \in Users /\ call[s].token = None
    BY <2>1 DEF IInv, Callers
  <2>3. R \in SUBSET {t \in Tokens : token[t] # "unborn"}
    BY <2>2 DEF IInv, TypeOK, TokensOf
  <2>4. /\ stage' \in [Slots -> Stages]
        /\ \A o \in Slots : stage'[o] = IF o = s THEN "issue" ELSE stage[o]
    BY <2>1 DEF IInv, TypeOK, Stages
  <2> HIDE DEF R
  <2>5. TypeOK'
    BY <2>1, <2>3, <2>4, RevokeKeeps DEF IInv, TypeOK
  <2>6. Callers'
    <3>1. \A t \in Tokens : token[t] = "revoked" => token'[t] = "revoked"
      BY <2>1, <2>3, RevokeKeeps
    <3>2. \A o \in Slots : call[o].token \in Tokens \cup {None}
      BY DEF IInv, TypeOK, Calls
    <3> QED
      BY <2>1, <2>2, <2>4, <3>1, <3>2 DEF IInv, Callers
  <2> QED
    BY <2>1, <2>3, <2>5, <2>6, RevokeKeeps DEF IInv
<1>8. ASSUME NEW s \in Slots, RefreshRevokesAll(s) PROVE IInv'
  <2>1. PICK R \in {{}, TokensOf(call[s].user)} :
        /\ stage[s] = "reused" /\ Finish(s)
        /\ UNCHANGED <<account, workspace, owner, expired, held, parent>>
        /\ locked' = locked \cup {call[s].user}
        /\ spared' \subseteq spared \cup {call[s].user}
        /\ token' = [t \in Tokens |-> IF t \in R THEN "revoked" ELSE token[t]]
    <3>1. CASE token' = AllRevoked(call[s].user) /\ spared' = spared \ {call[s].user}
      BY <1>8, <3>1 DEF RefreshRevokesAll, AllRevoked
    <3>2. CASE token' = token /\ spared' = spared \cup {call[s].user}
      <4>1. token = [t \in Tokens |-> IF t \in {} THEN "revoked" ELSE token[t]]
        BY DEF IInv, TypeOK
      <4> QED
        BY <1>8, <3>2, <4>1 DEF RefreshRevokesAll
    <3> QED
      BY <1>8, <3>1, <3>2 DEF RefreshRevokesAll
  <2>2. /\ call[s].user \in account /\ call[s].user \in Users
    BY <2>1 DEF IInv, Callers
  <2>3. R \in SUBSET {t \in Tokens : token[t] # "unborn"}
    BY <2>2 DEF IInv, TypeOK, TokensOf
  <2>4. TypeOK'
    BY <2>1, <2>2, <2>3, FinishKeeps, RevokeKeeps DEF IInv, TypeOK
  <2>5. Callers'
    <3>1. \A t \in Tokens : token[t] = "revoked" => token'[t] = "revoked"
      BY <2>1, <2>3, RevokeKeeps
    <3> QED
      BY <2>1, <3>1, CallersAfterFinish
  <2> QED
    BY <2>1, <2>3, <2>4, <2>5, RevokeKeeps DEF IInv
<1>9. ASSUME NEW s \in Slots, RefreshRevokes(s) PROVE IInv'
  <2> DEFINE R == {call[s].token}
  <2>1. /\ stage[s] = "revoke" /\ Goto(s, "issue")
        /\ UNCHANGED <<account, workspace, owner, expired, held, parent, locked, spared>>
        /\ token' = [token EXCEPT ![call[s].token] = "revoked"]
    BY <1>9 DEF RefreshRevokes, Revoked
  <2>2. /\ call[s].user \in account /\ call[s].user \in Users
        /\ call[s].token \in Tokens /\ owner[call[s].token] = call[s].user
    BY <2>1 DEF IInv, Callers
  <2>3. /\ R \in SUBSET {t \in Tokens : token[t] # "unborn"}
        /\ token' = [t \in Tokens |-> IF t \in R THEN "revoked" ELSE token[t]]
    BY <2>1, <2>2 DEF IInv, TypeOK
  <2>4. /\ call' = call /\ UNCHANGED <<raced, shared>> /\ stage' \in [Slots -> Stages]
        /\ \A o \in Slots : stage'[o] = IF o = s THEN "issue" ELSE stage[o]
    BY <2>1, GotoKeeps DEF Stages
  <2>5. token'[call[s].token] = "revoked"
    BY <2>2, <2>3
  <2> HIDE DEF R
  <2>6. TypeOK'
    BY <2>1, <2>3, <2>4, RevokeKeeps DEF IInv, TypeOK
  <2>7. Callers'
    <3>1. \A t \in Tokens : token[t] = "revoked" => token'[t] = "revoked"
      BY <2>1, <2>3, RevokeKeeps
    <3>2. \A o \in Slots : call[o].token \in Tokens \cup {None}
      BY DEF IInv, TypeOK, Calls
    <3> QED
      BY <2>1, <2>2, <2>4, <2>5, <3>1, <3>2 DEF IInv, Callers
  <2> QED
    BY <2>1, <2>3, <2>6, <2>7, RevokeKeeps DEF IInv
<1>10. ASSUME NEW s \in Slots, LogoutRevokes(s) PROVE IInv'
  <2> DEFINE R == {call[s].token}
  <2>1. /\ stage[s] = "logout" /\ Finish(s)
        /\ UNCHANGED <<account, workspace, owner, expired, held, parent, locked, spared>>
        /\ token' = [token EXCEPT ![call[s].token] = "revoked"]
    BY <1>10 DEF LogoutRevokes, Revoked
  <2>2. /\ call[s].user \in Users
        /\ call[s].token \in Tokens /\ owner[call[s].token] = call[s].user
    BY <2>1 DEF IInv, Callers
  <2>3. /\ R \in SUBSET {t \in Tokens : token[t] # "unborn"}
        /\ token' = [t \in Tokens |-> IF t \in R THEN "revoked" ELSE token[t]]
    BY <2>1, <2>2 DEF IInv, TypeOK
  <2> HIDE DEF R
  <2>4. TypeOK'
    BY <2>1, <2>3, FinishKeeps, RevokeKeeps DEF IInv, TypeOK
  <2>5. Callers'
    <3>1. \A t \in Tokens : token[t] = "revoked" => token'[t] = "revoked"
      BY <2>1, <2>3, RevokeKeeps
    <3> QED
      BY <2>1, <3>1, CallersAfterFinish
  <2> QED
    BY <2>1, <2>3, <2>4, <2>5, RevokeKeeps DEF IInv
<1>11. ASSUME NEW s \in Slots, NEW t \in Tokens, Issue(s, t) PROVE IInv'
  <2>1. /\ stage[s] = "issue" /\ token[t] = "unborn" /\ Finish(s)
        /\ token' = [token EXCEPT ![t] = "live"]
        /\ owner' = [owner EXCEPT ![t] = call[s].user]
        /\ parent' = [parent EXCEPT ![t] = call[s].token]
        /\ held' \in {held, held \cup {t}}
        /\ locked' \subseteq locked
        /\ UNCHANGED <<account, workspace, expired, spared>>
    BY <1>11 DEF Issue
  <2>2. /\ call[s].user \in Users /\ call[s].user \in account
        /\ call[s].token # None => token[call[s].token] = "revoked"
    BY <2>1 DEF IInv, Callers
  <2>3. \A o \in Slots : call[o].token \in Tokens \cup {None}
    BY DEF IInv, TypeOK, Calls
  <2>4. /\ \A x \in Tokens : token'[x] = IF x = t THEN "live" ELSE token[x]
        /\ \A x \in Tokens : owner'[x] = IF x = t THEN call[s].user ELSE owner[x]
        /\ \A x \in Tokens : parent'[x] = IF x = t THEN call[s].token ELSE parent[x]
    BY <2>1 DEF IInv, TypeOK
  <2>5. TypeOK'
    <3>1. /\ token' \in [Tokens -> {"unborn", "live", "revoked"}]
          /\ owner' \in [Tokens -> Users \cup {None}]
          /\ parent' \in [Tokens -> Tokens \cup {None}]
      BY <2>1, <2>2, <2>3 DEF IInv, TypeOK
    <3>2. /\ \A x \in Tokens : token'[x] = "unborn" <=> owner'[x] = None
          /\ expired' \cup held' \subseteq {x \in Tokens : token'[x] # "unborn"}
      BY <2>1, <2>2, <2>4 DEF IInv, TypeOK
    <3>3. /\ stage' \in [Slots -> Stages] /\ call' \in [Slots -> Calls] /\ UNCHANGED <<raced, shared>>
      BY <2>1, FinishKeeps
    <3> QED
      BY <2>1, <3>1, <3>2, <3>3 DEF IInv, TypeOK
  <2>6. Callers'
    <3>1. \A x \in Tokens : owner[x] # None => owner'[x] = owner[x]
      BY <2>1, <2>4 DEF IInv, TypeOK
    <3>2. \A x \in Tokens : token[x] = "revoked" => token'[x] = "revoked"
      BY <2>1, <2>4
    <3> QED
      BY <2>1, <3>1, <3>2, CallersAfterFinish
  <2>7. Owners'
    BY <2>1, <2>2, <2>4 DEF IInv, Owners
  <2>8. ReplacedIsRevoked'
    <3>1. \A x \in Tokens : token[x] = "revoked" => token'[x] = "revoked"
      BY <2>1, <2>4
    <3>2. \A x \in Tokens : parent[x] \in Tokens \cup {None}
      BY DEF IInv, TypeOK
    <3> QED
      BY <2>2, <2>3, <2>4, <3>1, <3>2 DEF IInv, ReplacedIsRevoked
  <2> QED
    BY <2>5, <2>6, <2>7, <2>8 DEF IInv
<1>12. ASSUME NEW t \in Tokens, Expire(t) PROVE IInv'
  <2>1. /\ token[t] = "live" /\ expired' = expired \cup {t}
        /\ UNCHANGED <<account, workspace, token, owner, held, parent, locked,
                       spared, raced, shared, stage, call>>
    BY <1>12 DEF Expire
  <2>2. TypeOK'
    BY <2>1 DEF IInv, TypeOK
  <2>3. Callers' /\ Owners' /\ ReplacedIsRevoked'
    BY <2>1 DEF IInv, Callers, Owners, ReplacedIsRevoked
  <2> QED
    BY <2>2, <2>3 DEF IInv
<1>13. CASE UNCHANGED vars
  <2>1. TypeOK'
    BY <1>13 DEF vars, rowVars, tokenVars, IInv, TypeOK
  <2>2. Callers' /\ Owners' /\ ReplacedIsRevoked'
    BY <1>13 DEF vars, rowVars, tokenVars, IInv, Callers, Owners, ReplacedIsRevoked
  <2> QED
    BY <2>1, <2>2 DEF IInv
<1> QED
  BY <1>1, <1>2, <1>3, <1>4, <1>5, <1>6, <1>7, <1>8, <1>9, <1>10, <1>11, <1>12, <1>13
     DEF Next, Request, Statement

LEMMA Invariant == Spec => []IInv
<1> QED
  BY IInvInit, IInvStep, PTL DEF Spec

-----------------------------------------------------------------------------
\* The tables and the requests in flight stay in their types.
THEOREM TypeCorrect == Spec => []TypeOK
<1>1. IInv => TypeOK
  BY DEF IInv
<1> QED
  BY <1>1, Invariant, PTL

\* Rotation: a token that was exchanged for another is never good again, for any
\* number of overlapping logins, refreshes and logouts that may fail anywhere.
THEOREM RotatedTokensStayRevoked == Spec => []ReplacedIsRevoked
<1>1. IInv => ReplacedIsRevoked
  BY DEF IInv
<1> QED
  BY <1>1, Invariant, PTL

\* A token only stops being good while a request of its owner is in flight.
THEOREM OnlyOwnRequestsEndASession == Spec => OthersKeepTheirSession
<1> DEFINE Own ==
      \A t \in Tokens : token[t] = "live" /\ token'[t] # "live" =>
          \E s \in Slots : stage[s] # "idle" /\ call[s].user = owner[t]
<1>1. IInv /\ [Next]_vars => [Own]_vars
  <2> SUFFICES ASSUME IInv, Next PROVE Own
    OBVIOUS
  <2> SUFFICES ASSUME NEW t \in Tokens, token[t] = "live", token'[t] # "live"
               PROVE  \E s \in Slots : stage[s] # "idle" /\ call[s].user = owner[t]
    OBVIOUS
  <2> USE NoneAssumption
  <2>1. PICK s \in Slots :
           \/ \E x \in Tokens : Issue(s, x)
           \/ LoginRevokesAll(s) \/ RefreshRevokesAll(s)
           \/ RefreshRevokes(s) \/ LogoutRevokes(s)
    BY DEF Next, Request, Statement, Abandon, Expire, RegisterFinds, LoginFinds,
           RefreshFinds, LogoutFinds, CreateUser, CreateWithOwner, rowVars, tokenVars
  <2>2. ASSUME NEW x \in Tokens, Issue(s, x) PROVE FALSE
    BY <2>2 DEF Issue, IInv, TypeOK
  <2>3. CASE LoginRevokesAll(s) \/ RefreshRevokesAll(s)
    <3>1. /\ stage[s] # "idle"
          /\ token' = [x \in Tokens |-> IF x \in TokensOf(call[s].user) THEN "revoked"
                                                                       ELSE token[x]]
      BY <2>3 DEF LoginRevokesAll, RefreshRevokesAll, AllRevoked
    <3> QED
      BY <3>1 DEF TokensOf
  <2>4. CASE RefreshRevokes(s) \/ LogoutRevokes(s)
    <3>1. /\ stage[s] \in {"revoke", "logout"}
          /\ token' = [token EXCEPT ![call[s].token] = "revoked"]
      BY <2>4 DEF RefreshRevokes, LogoutRevokes, Revoked
    <3>2. t = call[s].token
      BY <3>1 DEF IInv, TypeOK
    <3> QED
      BY <3>1, <3>2 DEF IInv, Callers
  <2> QED
    BY <2>1, <2>2, <2>3, <2>4
<1> QED
  BY <1>1, Invariant, PTL DEF Spec, OthersKeepTheirSession

-----------------------------------------------------------------------------
(* One session at a time, and none after a reuse, unless requests overlap. *)

\* A slot without a request has no caller, requests that overlap are known to,
\* and only logins and registrations end a lock.
Requests ==
    /\ \A s \in Slots : stage[s] = "idle" => call[s] = NoCall
    /\ \A s, o \in Slots :
          s # o /\ call[s].user = call[o].user /\ call[s].user \in Users
             => call[s].user \in raced
    /\ \A s \in Slots : stage[s] \in {"user", "workspace", "revoke all"} => call[s].login

\* Users whose sessions a detected reuse has ended.
Ended == locked \ spared

\* What a request that nothing overlapped relies on: there is no good token left
\* when it issues one, and no reuse was detected while it ran.
Undisturbed(s) ==
    /\ stage[s] \in {"workspace", "issue"} => Live(call[s].user) = {}
    /\ stage[s] = "revoke" => Live(call[s].user) \subseteq {call[s].token}
    /\ stage[s] \in {"revoke", "issue"} /\ ~call[s].login => call[s].user \notin Ended

\* The two properties, of one user.
OneOrNone(u) ==
    /\ \A t, x \in Live(u) : t = x
    /\ u \in Ended => Live(u) = {}

Serial ==
    /\ \A s \in Slots : call[s].user \in Users \ raced => Undisturbed(s)
    /\ \A u \in Users \ raced : OneOrNone(u)

SInv == Requests /\ Serial

\* A statement that makes no token good leaves at most the good ones there were.
LEMMA LiveShrinks ==
  ASSUME \A t \in Tokens : token'[t] = "live" => token[t] = "live", owner' = owner
  PROVE  \A u : Live(u)' \subseteq Live(u)
  BY DEF Live, TokensOf

LEMMA NoUser == NoCall.user \notin Users
  BY NoneAssumption DEF NoCall

\* A request begins that found its token good, if it is to exchange it.
LEMMA SerialBegin ==
  ASSUME IInv, SInv, UNCHANGED rowVars, NEW s \in Slots, NEW c \in Calls, NEW there,
         Begin(s, c, there), there \notin {"idle", "workspace", "issue"},
         c.user \in Users, there \in {"user", "revoke all"} => c.login,
         there = "revoke" => c.token \in Live(c.user)
  PROVE  SInv'
<1>1. /\ \A o \in Slots : stage'[o] = IF o = s THEN there ELSE stage[o]
      /\ \A o \in Slots : call'[o] = IF o = s THEN c ELSE call[o]
      /\ raced \subseteq raced'
      /\ \A o \in Slots : call[o].user = c.user => c.user \in raced'
  BY DEF IInv, TypeOK, Begin
<1>2. /\ \A u : Live(u)' = Live(u)
      /\ Ended' = Ended
  BY DEF rowVars, tokenVars, Live, TokensOf, Ended
<1>3. Requests'
  <2>1. \A o \in Slots : stage'[o] = "idle" => call'[o] = NoCall
    BY <1>1 DEF SInv, Requests
  <2>2. \A o, p \in Slots :
           o # p /\ call'[o].user = call'[p].user /\ call'[o].user \in Users
              => call'[o].user \in raced'
    <3> SUFFICES ASSUME NEW o \in Slots, NEW p \in Slots, o # p,
                        call'[o].user = call'[p].user, call'[o].user \in Users
                 PROVE  call'[o].user \in raced'
      OBVIOUS
    <3>1. CASE o = s
      BY <1>1, <3>1
    <3>2. CASE p = s
      BY <1>1, <3>2
    <3>3. CASE o # s /\ p # s
      BY <1>1, <3>3 DEF SInv, Requests
    <3> QED
      BY <3>1, <3>2, <3>3
  <2>3. \A o \in Slots :
           stage'[o] \in {"user", "workspace", "revoke all"} => call'[o].login
    BY <1>1 DEF SInv, Requests
  <2> QED
    BY <2>1, <2>2, <2>3 DEF Requests
<1>4. ASSUME NEW o \in Slots, call'[o].user \in Users \ raced' PROVE Undisturbed(o)'
  <2>1. CASE o = s
    <3>1. stage'[o] = there /\ call'[o] = c /\ c.user \in Users \ raced
      BY <1>1, <1>4, <2>1
    <3>2. there = "revoke" => Live(c.user) \subseteq {c.token} /\ c.user \notin Ended
      BY <3>1 DEF SInv, Serial, OneOrNone
    <3> QED
      BY <1>2, <3>1, <3>2 DEF Undisturbed
  <2>2. CASE o # s
    <3>1. stage'[o] = stage[o] /\ call'[o] = call[o] /\ call[o].user \in Users \ raced
      BY <1>1, <1>4, <2>2
    <3> QED
      BY <1>2, <3>1 DEF SInv, Serial, Undisturbed
  <2> QED
    BY <2>1, <2>2
<1>5. \A u \in Users \ raced' : OneOrNone(u)'
  BY <1>1, <1>2 DEF SInv, Serial, OneOrNone
<1> QED
  BY <1>3, <1>4, <1>5 DEF SInv, Serial

\* A request ends, with a statement that makes no token good; when it ends the
\* sessions of its user, none is good.
LEMMA SerialFinish ==
  ASSUME IInv, SInv, NEW s \in Slots, Finish(s), owner' = owner,
         \A t \in Tokens : token'[t] = "live" => token[t] = "live",
         NEW w, w = call[s].user,
         Ended' \subseteq Ended \cup {w}, w \in Ended' => w \in Ended \/ Live(w)' = {}
  PROVE  SInv'
<1>1. /\ \A o \in Slots : stage'[o] = IF o = s THEN "idle" ELSE stage[o]
      /\ \A o \in Slots : call'[o] = IF o = s THEN NoCall ELSE call[o]
      /\ raced' = raced
  BY DEF IInv, TypeOK, Finish
<1>2. \A u : Live(u)' \subseteq Live(u)
  BY LiveShrinks
<1>3. Requests'
  BY <1>1, NoUser DEF SInv, Requests
<1>4. ASSUME NEW o \in Slots, call'[o].user \in Users \ raced' PROVE Undisturbed(o)'
  <2>1. o # s /\ stage'[o] = stage[o] /\ call'[o] = call[o] /\ call[o].user \in Users \ raced
    BY <1>1, <1>4, NoUser
  <2>2. call[o].user # call[s].user
    BY <2>1 DEF SInv, Requests
  <2>3. call[o].user \in Ended' => call[o].user \in Ended
    BY <2>2
  <2>4. Undisturbed(o)
    BY <2>1 DEF SInv, Serial
  <2> QED
    BY <1>2, <2>1, <2>3, <2>4 DEF Undisturbed
<1>5. ASSUME NEW u \in Users \ raced' PROVE OneOrNone(u)'
  <2>1. OneOrNone(u) /\ Live(u)' \subseteq Live(u)
    BY <1>1, <1>2 DEF SInv, Serial
  <2>2. u \in Ended' => u \in Ended \/ Live(u)' = {}
    OBVIOUS
  <2> QED
    BY <2>1, <2>2 DEF OneOrNone
<1> QED
  BY <1>3, <1>4, <1>5 DEF SInv, Serial

\* A request goes on to a stage in which no token of its user may be good.
LEMMA SerialGoto ==
  ASSUME IInv, SInv, NEW s \in Slots, NEW there \in {"workspace", "issue"}, Goto(s, there),
         stage[s] # "idle", Ended' = Ended, owner' = owner,
         \A t \in Tokens : token'[t] = "live" => token[t] = "live",
         there = "workspace" => call[s].login,
         NEW w, w = call[s].user, w \in Users \ raced => Live(w)' = {},
         there = "issue" /\ ~call[s].login /\ call[s].user \in Users \ raced
            => call[s].user \notin Ended
  PROVE  SInv'
<1>1. /\ \A o \in Slots : stage'[o] = IF o = s THEN there ELSE stage[o]
      /\ call' = call /\ raced' = raced
  BY DEF IInv, TypeOK, Goto
<1>2. \A u : Live(u)' \subseteq Live(u)
  BY LiveShrinks
<1>3. Requests'
  BY <1>1 DEF SInv, Requests
<1>4. ASSUME NEW o \in Slots, call'[o].user \in Users \ raced' PROVE Undisturbed(o)'
  <2>1. CASE o = s
    BY <1>1, <1>4, <2>1 DEF Undisturbed
  <2>2. CASE o # s
    <3>1. stage'[o] = stage[o] /\ call'[o] = call[o] /\ Undisturbed(o)
      BY <1>1, <1>4, <2>2 DEF SInv, Serial
    <3> QED
      BY <1>2, <3>1 DEF Undisturbed
  <2> QED
    BY <2>1, <2>2
<1>5. \A u \in Users \ raced' : OneOrNone(u)'
  BY <1>1, <1>2 DEF SInv, Serial, OneOrNone
<1> QED
  BY <1>3, <1>4, <1>5 DEF SInv, Serial

\* A login that nothing overlaps starts over, whatever overlapped before.
LEMMA SerialLogin ==
  ASSUME IInv, SInv, NEW s \in Slots, LoginRevokesAll(s)
  PROVE  SInv'
<1>1. PICK w : w = call[s].user
  OBVIOUS
<1>2. /\ \A o \in Slots : stage'[o] = IF o = s THEN "issue" ELSE stage[o]
      /\ stage[s] = "revoke all" /\ call' = call /\ owner' = owner
      /\ \A u \in Ended' : u = w \/ u \in Ended
      /\ raced' = {u \in raced : u = w => \E o \in Slots \ {s} : call[o].user = u}
      /\ token' = [t \in Tokens |-> IF t \in TokensOf(w) THEN "revoked" ELSE token[t]]
  BY <1>1 DEF LoginRevokesAll, AllRevoked, IInv, TypeOK, Ended
<1>3. Live(w)' = {}
  BY <1>2 DEF Live, TokensOf
<1>4. \A u : Live(u)' \subseteq Live(u)
  <2>1. \A t \in Tokens : token'[t] = "live" => token[t] = "live"
    BY <1>2
  <2> QED
    BY <1>2, <2>1, LiveShrinks
<1>5. call[s].login /\ \A u \in Users \ raced' : u = w \/ u \in Users \ raced
  BY <1>2 DEF SInv, Requests
<1>6. Requests'
  <2>1. \A o, p \in Slots : o # p /\ call[o].user = call[p].user /\ call[o].user \in Users
                               => call[o].user \in raced'
    <3> SUFFICES ASSUME NEW o \in Slots, NEW p \in Slots, o # p,
                        call[o].user = call[p].user, call[o].user \in Users
                 PROVE  call[o].user \in raced'
      OBVIOUS
    <3>1. call[o].user \in raced
      BY DEF SInv, Requests
    <3>2. o # s \/ p # s
      OBVIOUS
    <3> QED
      BY <1>2, <3>1, <3>2
  <2> QED
    BY <1>2, <2>1 DEF SInv, Requests
<1>7. ASSUME NEW o \in Slots, call'[o].user \in Users \ raced' PROVE Undisturbed(o)'
  <2>1. CASE o = s
    <3>1. stage'[o] = "issue" /\ call'[o].login /\ call'[o].user = w
      BY <1>1, <1>2, <1>5, <2>1
    <3> QED
      BY <1>3, <3>1 DEF Undisturbed
  <2>2. CASE o # s
    <3>1. stage'[o] = stage[o] /\ call'[o] = call[o]
      BY <1>2, <2>2
    <3>2. call[o].user # w
      BY <1>2, <1>7, <2>2, <3>1, <1>1 DEF SInv, Requests
    <3>3. Undisturbed(o)
      BY <1>5, <1>7, <3>1, <3>2 DEF SInv, Serial
    <3>4. PICK u : u = call[o].user
      OBVIOUS
    <3>5. Live(u)' \subseteq Live(u) /\ (u \in Ended' => u \in Ended)
      BY <1>2, <1>4, <3>2, <3>4
    <3> QED
      BY <3>1, <3>3, <3>4, <3>5 DEF Undisturbed
  <2> QED
    BY <2>1, <2>2
<1>8. ASSUME NEW u \in Users \ raced' PROVE OneOrNone(u)'
  <2>1. CASE u = w
    BY <1>3, <2>1 DEF OneOrNone
  <2>2. CASE u # w
    <3>1. OneOrNone(u) /\ Live(u)' \subseteq Live(u)
      BY <1>4, <1>5, <2>2 DEF SInv, Serial
    <3>2. u \in Ended' => u \in Ended
      BY <1>2, <2>2
    <3> QED
      BY <3>1, <3>2 DEF OneOrNone
  <2> QED
    BY <2>1, <2>2
<1> QED
  BY <1>6, <1>7, <1>8 DEF SInv, Serial

\* The new token is the only good one, and no reuse was detected meanwhile.
LEMMA SerialIssue ==
  ASSUME IInv, SInv, NEW s \in Slots, NEW t \in Tokens, Issue(s, t)
  PROVE  SInv'
<1>1. PICK w : w = call[s].user
  OBVIOUS
<1>2. /\ stage[s] = "issue" /\ Finish(s) /\ raced' = raced
      /\ \A o \in Slots : stage'[o] = IF o = s THEN "idle" ELSE stage[o]
      /\ \A o \in Slots : call'[o] = IF o = s THEN NoCall ELSE call[o]
      /\ Ended' = IF call[s].login THEN Ended \ {w} ELSE Ended
      /\ token[t] = "unborn"
      /\ \A x \in Tokens : token'[x] = IF x = t THEN "live" ELSE token[x]
      /\ \A x \in Tokens : owner'[x] = IF x = t THEN w ELSE owner[x]
  BY <1>1 DEF Issue, Finish, IInv, TypeOK, Ended
<1>3. /\ Live(w)' \subseteq Live(w) \cup {t}
      /\ \A u : u # w => Live(u)' \subseteq Live(u)
  BY <1>2 DEF Live, TokensOf
<1>4. w \in Users \ raced => Live(w)' \subseteq {t} /\ w \notin Ended'
  <2>1. w \in Users \ raced => Undisturbed(s)
    BY <1>1 DEF SInv, Serial
  <2> QED
    BY <1>1, <1>2, <1>3, <2>1 DEF Undisturbed
<1>5. Requests'
  <2>1. /\ \A o \in Slots : stage'[o] = IF o = s THEN "idle" ELSE stage[o]
        /\ \A o \in Slots : call'[o] = IF o = s THEN NoCall ELSE call[o]
        /\ raced' = raced
    BY <1>2
  <2> QED
    BY <2>1, NoUser DEF SInv, Requests
<1>6. ASSUME NEW o \in Slots, call'[o].user \in Users \ raced' PROVE Undisturbed(o)'
  <2>1. o # s /\ stage'[o] = stage[o] /\ call'[o] = call[o] /\ call[o].user \in Users \ raced
    BY <1>2, <1>6, NoUser
  <2>2. call[o].user # w
    BY <1>1, <2>1 DEF SInv, Requests
  <2>3. Undisturbed(o)
    BY <2>1 DEF SInv, Serial
  <2>4. PICK u : u = call[o].user
    OBVIOUS
  <2>5. Live(u)' \subseteq Live(u) /\ (u \in Ended' => u \in Ended)
    BY <1>2, <1>3, <2>2, <2>4
  <2> QED
    BY <2>1, <2>3, <2>4, <2>5 DEF Undisturbed
<1>7. ASSUME NEW u \in Users \ raced' PROVE OneOrNone(u)'
  <2>1. CASE u = w
    BY <1>2, <1>4, <2>1 DEF OneOrNone
  <2>2. CASE u # w
    <3>1. OneOrNone(u) /\ Live(u)' \subseteq Live(u) /\ (u \in Ended' => u \in Ended)
      BY <1>2, <1>3, <2>2 DEF SInv, Serial
    <3> QED
      BY <3>1 DEF OneOrNone
  <2> QED
    BY <2>1, <2>2
<1> QED
  BY <1>5, <1>6, <1>7 DEF SInv, Serial

\* Every statement of every request keeps it, and so does the expiry of a token.
LEMMA SerialStep == IInv /\ SInv /\ [Next]_vars => SInv'
<1> SUFFICES ASSUME IInv, SInv, [Next]_vars PROVE SInv'
  OBVIOUS
<1> USE NoneAssumption
<1>1. ASSUME NEW s \in Slots, NEW u \in Users, RegisterFinds(s, u) \/ LoginFinds(s, u)
      PROVE  SInv'
  <2> DEFINE c == [user |-> u, token |-> None, login |-> TRUE]
  <2>1. c \in Calls /\ c.user = u /\ c.login
    BY DEF Calls
  <2>2. PICK there \in {"user", "revoke all"} : Begin(s, c, there) /\ UNCHANGED rowVars
    BY <1>1 DEF RegisterFinds, LoginFinds
  <2> HIDE DEF c
  <2> QED
    BY <2>1, <2>2, SerialBegin
<1>2. ASSUME NEW s \in Slots, NEW t \in Tokens, RefreshFinds(s, t) \/ LogoutFinds(s, t)
      PROVE  SInv'
  <2> DEFINE c == [user |-> owner[t], token |-> t, login |-> FALSE]
  <2>1. owner[t] \in Users /\ token[t] # "unborn"
    BY <1>2 DEF RefreshFinds, LogoutFinds, IInv, TypeOK, Owners
  <2>2. c \in Calls /\ c.user = owner[t] /\ c.token = t
    BY <2>1 DEF Calls
  <2>3. PICK there \in {"reused", "revoke", "logout"} :
           Begin(s, c, there) /\ UNCHANGED rowVars /\ (there = "revoke" => token[t] = "live")
    <3>1. CASE RefreshFinds(s, t)
      <4>1. AfterFind(t) \in {"reused", "revoke"}
            /\ (AfterFind(t) = "revoke" => token[t] = "live")
        BY <2>1, <3>1 DEF RefreshFinds, AfterFind, IInv, TypeOK
      <4> QED
        BY <3>1, <4>1 DEF RefreshFinds
    <3>2. CASE LogoutFinds(s, t)
      BY <3>2 DEF LogoutFinds
    <3> QED
      BY <1>2, <3>1, <3>2
  <2>4. there = "revoke" => c.token \in Live(c.user)
    BY <2>2, <2>3 DEF Live, TokensOf
  <2> HIDE DEF c
  <2> QED
    BY <2>1, <2>2, <2>3, <2>4, SerialBegin
<1>3. ASSUME NEW s \in Slots, Abandon(s) \/ LogoutRevokes(s) PROVE SInv'
  <2>1. Finish(s) /\ owner' = owner /\ Ended' = Ended
    BY <1>3 DEF Abandon, LogoutRevokes, rowVars, tokenVars, Ended
  <2>2. \A t \in Tokens : token'[t] = "live" => token[t] = "live"
    BY <1>3 DEF Abandon, LogoutRevokes, Revoked, rowVars, tokenVars, IInv, TypeOK
  <2> QED
    BY <2>1, <2>2, SerialFinish
<1>4. ASSUME NEW s \in Slots, RefreshRevokesAll(s) PROVE SInv'
  <2>1. PICK w : w = call[s].user
    OBVIOUS
  <2>2. Finish(s) /\ owner' = owner /\ locked' = locked \cup {w}
    BY <1>4, <2>1 DEF RefreshRevokesAll
  <2>3. CASE token' = AllRevoked(w) /\ spared' = spared \ {w}
    <3>1. /\ \A t \in Tokens : token'[t] = "live" => token[t] = "live"
          /\ Live(w)' = {}
      BY <2>2, <2>3 DEF AllRevoked, Live, TokensOf
    <3>2. Ended' \subseteq Ended \cup {w}
      BY <2>2, <2>3 DEF Ended
    <3> QED
      BY <2>1, <2>2, <3>1, <3>2, SerialFinish
  <2>4. CASE token' = token /\ spared' = spared \cup {w}
    <3>1. Ended' \subseteq Ended
      BY <2>2, <2>4 DEF Ended
    <3> QED
      BY <2>1, <2>2, <2>4, <3>1, SerialFinish
  <2> QED
    BY <1>4, <2>1, <2>3, <2>4 DEF RefreshRevokesAll
<1>5. ASSUME NEW s \in Slots, CreateUser(s) PROVE SInv'
  <2>1. /\ stage[s] = "user" /\ UNCHANGED <<token, owner>> /\ Ended' = Ended
        /\ \/ Finish(s)
           \/ call[s].user \notin account /\ Goto(s, "workspace")
    BY <1>5 DEF CreateUser, tokenVars, Ended
  <2>2. CASE Finish(s)
    BY <2>1, <2>2, SerialFinish
  <2>3. CASE call[s].user \notin account /\ Goto(s, "workspace")
    <3>1. PICK w : w = call[s].user
      OBVIOUS
    <3>2. w \in Users /\ call[s].login
      BY <2>1, <3>1 DEF IInv, Callers, SInv, Requests
    <3>3. Live(w)' = {}
      BY <2>1, <2>3, <3>1, <3>2 DEF Live, TokensOf, IInv, Owners
    <3> QED
      BY <2>1, <2>3, <3>1, <3>2, <3>3, SerialGoto
  <2> QED
    BY <2>1, <2>2, <2>3
<1>6. ASSUME NEW s \in Slots, CreateWithOwner(s) PROVE SInv'
  <2>1. /\ stage[s] = "workspace" /\ UNCHANGED <<token, owner>> /\ Goto(s, "issue")
        /\ Ended' = Ended
    BY <1>6 DEF CreateWithOwner, tokenVars, Ended
  <2>2. PICK w : w = call[s].user
    OBVIOUS
  <2>3. call[s].login /\ (w \in Users \ raced => Live(w) = {})
    BY <2>1, <2>2 DEF SInv, Requests, Serial, Undisturbed
  <2>4. Live(w)' = Live(w)
    BY <2>1 DEF Live, TokensOf
  <2> QED
    BY <2>1, <2>2, <2>3, <2>4, SerialGoto
<1>7. ASSUME NEW s \in Slots, RefreshRevokes(s) PROVE SInv'
  <2>1. /\ stage[s] = "revoke" /\ owner' = owner /\ Ended' = Ended /\ Goto(s, "issue")
        /\ \A t \in Tokens : token'[t] = IF t = call[s].token THEN "revoked" ELSE token[t]
    BY <1>7 DEF RefreshRevokes, Revoked, IInv, TypeOK, Ended
  <2>2. PICK w : w = call[s].user
    OBVIOUS
  <2>3. w \in Users \ raced =>
           Live(w) \subseteq {call[s].token} /\ (~call[s].login => w \notin Ended)
    BY <2>1, <2>2 DEF SInv, Serial, Undisturbed
  <2>4. w \in Users \ raced => Live(w)' = {}
    BY <2>1, <2>3 DEF Live, TokensOf
  <2> QED
    BY <2>1, <2>2, <2>3, <2>4, SerialGoto
<1>8. ASSUME UNCHANGED <<token, owner, locked, spared, raced, stage, call>> PROVE SInv'
  <2>1. \A u : Live(u)' = Live(u)
    BY <1>8 DEF Live, TokensOf
  <2>2. \A s \in Slots : Undisturbed(s)' = Undisturbed(s)
    BY <1>8, <2>1 DEF Undisturbed, Ended
  <2>3. \A u : OneOrNone(u)' = OneOrNone(u)
    BY <1>8, <2>1 DEF OneOrNone, Ended
  <2> QED
    BY <1>8, <2>2, <2>3 DEF SInv, Requests, Serial
<1>9. CASE (\E t \in Tokens : Expire(t)) \/ UNCHANGED vars
  BY <1>8, <1>9 DEF Expire, vars, rowVars, tokenVars
<1> QED
  BY <1>1, <1>2, <1>3, <1>4, <1>5, <1>6, <1>7, <1>9, SerialLogin, SerialIssue
     DEF Next, Request, Statement

LEMMA SerialInvariant == Spec => []SInv
<1>1. Init => SInv
  BY NoUser DEF Init, SInv, Requests, Serial, Undisturbed, OneOrNone, Live, TokensOf, Ended
<1> QED
  BY <1>1, Invariant, SerialStep, PTL DEF Spec

LEMMA AtMostOne ==
  ASSUME NEW S, \A t, x \in S : t = x
  PROVE  Cardinality(S) <= 1
<1>1. CASE S = {}
  BY <1>1, FS_EmptySet
<1>2. ASSUME NEW t \in S PROVE Cardinality(S) <= 1
  <2>1. S = {t}
    OBVIOUS
  <2>2. Cardinality({t}) = 1
    BY FS_Singleton
  <2> QED
    BY <2>1, <2>2
<1> QED
  BY <1>1, <1>2

\* "single active session per login": from a login that no other request of the
\* user overlapped to the next overlap he has at most one good token.
THEOREM OneSession == Spec => []SingleSession
<1>1. SInv => SingleSession
  BY AtMostOne DEF SInv, Serial, OneOrNone, SingleSession
<1> QED
  BY <1>1, SerialInvariant, PTL

\* "Token theft detected -- kill everything": from a detected reuse to the next
\* login no token of the user is good, unless his requests overlapped or the last
\* reuse was reported although its revocation had failed.
THEOREM NoSessionAfterReuse == Spec => []ReuseEndsEverySession
<1>1. IInv /\ SInv => ReuseEndsEverySession
  BY DEF IInv, TypeOK, SInv, Serial, OneOrNone, Ended, ReuseEndsEverySession
<1> QED
  BY <1>1, Invariant, SerialInvariant, PTL

-----------------------------------------------------------------------------
(* A token is exchanged once, unless two refreshes found it good.          *)

Exchanging(s, t) == stage[s] \in {"revoke", "issue"} /\ call[s].token = t

\* One refresh at a time has found a token good, none has when the token was
\* exchanged before, and what it was exchanged for is one token.
Once ==
    /\ \A s, o \in Slots : \A t \in Tokens \ shared :
          Exchanging(s, t) /\ Exchanging(o, t) => s = o
    /\ \A t \in Tokens \ shared : \A c \in Children(t) :
          \A s \in Slots : ~Exchanging(s, t)
    /\ \A t \in Tokens \ shared : \A c, d \in Children(t) : c = d

\* A step after which nobody else exchanges a token and no token is new.
LEMMA OnceKept ==
  ASSUME Once, parent' = parent, shared \subseteq shared',
         \A s \in Slots : \A t \in Tokens : Exchanging(s, t)' => Exchanging(s, t)
  PROVE  Once'
<1>1. \A t : Children(t)' = Children(t)
  BY DEF Children
<1>2. \A s, o \in Slots : \A t \in Tokens \ shared' :
         Exchanging(s, t)' /\ Exchanging(o, t)' => s = o
  BY DEF Once
<1>3. \A t \in Tokens \ shared' : \A c \in Children(t)' :
         \A s \in Slots : ~Exchanging(s, t)'
  BY <1>1 DEF Once
<1>4. \A t \in Tokens \ shared' : \A c, d \in Children(t)' : c = d
  BY <1>1 DEF Once
<1> QED
  BY <1>2, <1>3, <1>4 DEF Once

\* A refresh that finds its token good is the first, or known to be a second.
LEMMA OnceFound ==
  ASSUME IInv, Once, NEW s \in Slots, NEW t \in Tokens, RefreshFinds(s, t)
  PROVE  Once'
<1>1. /\ UNCHANGED <<parent, token>> /\ shared \subseteq shared' /\ stage[s] = "idle"
      /\ \A o \in Slots : stage'[o] = IF o = s THEN AfterFind(t) ELSE stage[o]
      /\ \A o \in Slots : o # s => call'[o] = call[o]
      /\ call'[s].token = t
      /\ AfterFind(t) = "revoke" => \A o \in Slots :
            call[o].token = t /\ stage[o] = "revoke" => t \in shared'
  BY DEF RefreshFinds, Begin, rowVars, tokenVars, IInv, TypeOK
<1>2. AfterFind(t) \in {"idle", "reused", "revoke"}
      /\ (AfterFind(t) = "revoke" => token[t] # "revoked")
  BY DEF AfterFind
<1>3. ASSUME NEW o \in Slots, NEW x \in Tokens, Exchanging(o, x)'
      PROVE  Exchanging(o, x) \/ (o = s /\ x = t /\ AfterFind(t) = "revoke")
  BY <1>1, <1>2, <1>3 DEF Exchanging
<1>4. CASE AfterFind(t) # "revoke"
  BY <1>1, <1>3, <1>4, OnceKept
<1>5. CASE AfterFind(t) = "revoke"
  <2>1. Children(t) = {}
    BY <1>2, <1>5, NoneAssumption DEF IInv, ReplacedIsRevoked, Children
  <2>2. \A o \in Slots : Exchanging(o, t) => t \in shared'
    BY <1>1, <1>2, <1>5, NoneAssumption DEF Exchanging, IInv, Callers
  <2>3. \A x : Children(x)' = Children(x)
    BY <1>1 DEF Children
  <2>4. \A o, p \in Slots : \A x \in Tokens \ shared' :
           Exchanging(o, x)' /\ Exchanging(p, x)' => o = p
    BY <1>1, <1>3, <2>2 DEF Once
  <2>5. \A x \in Tokens \ shared' : \A c \in Children(x)' :
           \A o \in Slots : ~Exchanging(o, x)'
    BY <1>1, <1>3, <2>1, <2>3 DEF Once
  <2>6. \A x \in Tokens \ shared' : \A c, d \in Children(x)' : c = d
    BY <1>1, <2>3 DEF Once
  <2> QED
    BY <2>4, <2>5, <2>6 DEF Once
<1> QED
  BY <1>4, <1>5

\* The exchange ends with the one token it was made for.
LEMMA OnceIssued ==
  ASSUME IInv, Once, NEW s \in Slots, NEW t \in Tokens, Issue(s, t)
  PROVE  Once'
<1>1. PICK p : p = call[s].token
  OBVIOUS
<1>2. /\ stage[s] = "issue" /\ shared' = shared
      /\ \A o \in Slots : stage'[o] = IF o = s THEN "idle" ELSE stage[o]
      /\ \A o \in Slots : o # s => call'[o] = call[o]
      /\ \A x \in Tokens : parent'[x] = IF x = t THEN p ELSE parent[x]
  BY <1>1 DEF Issue, Finish, IInv, TypeOK
<1>3. \A o \in Slots : \A x : Exchanging(o, x)' => o # s /\ Exchanging(o, x)
  BY <1>2 DEF Exchanging
<1>4. /\ \A x : x # p => Children(x)' \subseteq Children(x)
      /\ Children(p)' \subseteq Children(p) \cup {t}
  BY <1>2 DEF Children
<1>5. Exchanging(s, p)
  BY <1>1, <1>2 DEF Exchanging
<1>6. p \in Tokens \ shared => /\ Children(p)' \subseteq {t}
                               /\ \A o \in Slots : ~Exchanging(o, p)'
  BY <1>3, <1>4, <1>5 DEF Once
<1>7. \A o, q \in Slots : \A x \in Tokens \ shared' :
         Exchanging(o, x)' /\ Exchanging(q, x)' => o = q
  BY <1>2, <1>3 DEF Once
<1>8. \A x \in Tokens \ shared' : \A c \in Children(x)' : \A o \in Slots : ~Exchanging(o, x)'
  BY <1>2, <1>3, <1>4, <1>6 DEF Once
<1>9. \A x \in Tokens \ shared' : \A c, d \in Children(x)' : c = d
  BY <1>2, <1>4, <1>6 DEF Once
<1> QED
  BY <1>7, <1>8, <1>9 DEF Once

LEMMA OnceStep == IInv /\ Once /\ [Next]_vars => Once'
<1> SUFFICES ASSUME IInv, Once, [Next]_vars PROVE Once'
  OBVIOUS
<1> USE NoneAssumption
\* Every other statement leaves a slot where it was, moves it to a stage in which
\* it exchanges nothing, or on in the exchange it is in.
<1>1. ASSUME NEW s \in Slots, NEW u \in Users, RegisterFinds(s, u) \/ LoginFinds(s, u)
      PROVE  Once'
  <2>1. /\ UNCHANGED parent /\ shared \subseteq shared'
        /\ \E there \in {"user", "revoke all"} : stage' = [stage EXCEPT ![s] = there]
        /\ \A o \in Slots : o # s => call'[o] = call[o]
    BY <1>1 DEF RegisterFinds, LoginFinds, Begin, rowVars, tokenVars, IInv, TypeOK
  <2>2. \A o \in Slots : \A t \in Tokens : Exchanging(o, t)' => Exchanging(o, t)
    BY <2>1 DEF Exchanging, IInv, TypeOK
  <2> QED
    BY <2>1, <2>2, OnceKept
<1>2. ASSUME NEW s \in Slots, NEW t \in Tokens, LogoutFinds(s, t) PROVE Once'
  <2>1. /\ UNCHANGED parent /\ shared \subseteq shared'
        /\ stage' = [stage EXCEPT ![s] = "logout"]
        /\ \A o \in Slots : o # s => call'[o] = call[o]
    BY <1>2 DEF LogoutFinds, Begin, rowVars, tokenVars, IInv, TypeOK
  <2>2. \A o \in Slots : \A x \in Tokens : Exchanging(o, x)' => Exchanging(o, x)
    BY <2>1 DEF Exchanging, IInv, TypeOK
  <2> QED
    BY <2>1, <2>2, OnceKept
<1>3. ASSUME NEW s \in Slots,
             \/ Abandon(s) \/ LogoutRevokes(s) \/ RefreshRevokesAll(s)
             \/ CreateUser(s) /\ Finish(s)
      PROVE  Once'
  <2>1. UNCHANGED <<parent, shared>> /\ Finish(s)
    BY <1>3 DEF Abandon, LogoutRevokes, RefreshRevokesAll, CreateUser, Finish, rowVars,
                tokenVars
  <2>2. \A o \in Slots : \A t \in Tokens : Exchanging(o, t)' => Exchanging(o, t)
    BY <2>1 DEF Exchanging, Finish, IInv, TypeOK
  <2> QED
    BY <2>1, <2>2, OnceKept
<1>4. ASSUME NEW s \in Slots,
             \/ (CreateUser(s) /\ Goto(s, "workspace")) \/ CreateWithOwner(s)
             \/ LoginRevokesAll(s) \/ RefreshRevokes(s)
      PROVE  Once'
  <2>1. /\ UNCHANGED <<parent, shared, call>>
        /\ \E there \in {"workspace", "issue"} : stage' = [stage EXCEPT ![s] = there]
        /\ call[s].token \in Tokens => stage[s] = "revoke"
    BY <1>4 DEF CreateUser, CreateWithOwner, LoginRevokesAll, RefreshRevokes, Goto,
                tokenVars, IInv, Callers
  <2>2. \A o \in Slots : \A t \in Tokens : Exchanging(o, t)' => Exchanging(o, t)
    BY <2>1 DEF Exchanging, IInv, TypeOK
  <2> QED
    BY <2>1, <2>2, OnceKept
<1>5. CASE (\E t \in Tokens : Expire(t)) \/ UNCHANGED vars
  <2>1. UNCHANGED <<parent, shared, stage, call>>
    BY <1>5 DEF Expire, vars, rowVars, tokenVars
  <2>2. \A o \in Slots : \A t \in Tokens : Exchanging(o, t)' => Exchanging(o, t)
    BY <2>1 DEF Exchanging
  <2> QED
    BY <2>1, <2>2, OnceKept
<1>6. ASSUME NEW s \in Slots, CreateUser(s) PROVE Once'
  <2>1. Finish(s) \/ Goto(s, "workspace")
    BY <1>6 DEF CreateUser
  <2> QED
    BY <1>3, <1>4, <1>6, <2>1
<1> QED
  BY <1>1, <1>2, <1>3, <1>4, <1>5, <1>6, OnceFound, OnceIssued
     DEF Next, Request, Statement

\* "a used token can never be used again": no token is exchanged for two others,
\* unless a refresh found it good before an earlier one had revoked it.
THEOREM OneExchange == Spec => []ExchangedOnce
<1>1. Init => Once
  BY NoneAssumption DEF Init, Once, Exchanging, Children
<1>2. Once => ExchangedOnce
  BY AtMostOne DEF Once, ExchangedOnce
<1> QED
  BY <1>1, <1>2, Invariant, OnceStep, PTL DEF Spec

=============================================================================
