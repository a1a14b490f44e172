------------------------------ MODULE Sessions ------------------------------
(***************************************************************************)
(* The refresh sessions of one user of services/api: login, /auth/refresh, *)
(* /auth/logout, and the suspension of the account by an administrator.     *)
(*                                                                         *)
(* A handler awaits each of its statements, so it is a sequence of actions *)
(* with other handlers in between.  A session stands for its refresh token *)
(* (the token's hash is unique).  What precedes the login, the one-time    *)
(* code, is in module OtpCode.                                             *)
(***************************************************************************)
EXTENDS Naturals, FiniteSets

CONSTANTS
    Requests,       \* login and refresh handlers that may be in flight at once
    Admins,         \* status handlers that may be in flight at once
    MaxSessions     \* bound on the sessions that are minted

ASSUME SessionsAssumption ==
    /\ IsFiniteSet(Requests)
    /\ MaxSessions \in Nat

Sessions == 1..MaxSessions
Login == 0          \* the parent of a session that a login minted

VARIABLES
    account,        \* app_user.status
    minted,         \* number of user_session rows, numbered as inserted
    live,           \* sessions neither revoked nor expired
    parent,         \* session a refresh minted each one from
    swept,          \* whether all sessions were revoked since the suspension
    pc, from,       \* of each request: where it is, the session it rotates
    admin           \* where each status handler is

session == <<minted, live, parent>>
request == <<pc, from>>
status == <<account, swept, admin>>
vars == <<session, request, status>>

TypeOK ==
    /\ account \in {"active", "suspended"}
    /\ minted \in 0..MaxSessions
    /\ live \subseteq 1..minted
    /\ parent \in [Sessions -> {Login} \cup Sessions]
    /\ swept \in BOOLEAN
    /\ pc \in [Requests -> {"idle", "found", "checked", "minting"}]
    /\ from \in [Requests -> {Login} \cup 1..minted]
    /\ admin \in [Admins -> {"idle", "sweeping"}]

Init ==
    /\ account = "active"
    /\ minted = 0
    /\ live = {}
    /\ parent = [s \in Sessions |-> Login]
    /\ swept = FALSE
    /\ pc = [r \in Requests |-> "idle"]
    /\ from = [r \in Requests |-> Login]
    /\ admin = [a \in Admins |-> "idle"]

------------------------------------------------------------------------------
(* Login and refresh. *)

Goto(r, where) ==
    /\ pc' = [pc EXCEPT ![r] = where]
    /\ UNCHANGED from

Begin(r, where, s) ==
    /\ pc[r] = "idle"
    /\ pc' = [pc EXCEPT ![r] = where]
    /\ from' = [from EXCEPT ![r] = s]

End(r) ==
    /\ pc' = [pc EXCEPT ![r] = "idle"]
    /\ from' = [from EXCEPT ![r] = Login]

\* findOrCreateUser lets an active account in; a new account is active.
LoginCheck(r) ==
    /\ account = "active"
    /\ Begin(r, "minting", Login)
    /\ UNCHANGED <<session, status>>

\* findLiveSession.
FindSession(r, s) ==
    /\ s \in live
    /\ Begin(r, "found", s)
    /\ UNCHANGED <<session, status>>

\* Slip: the refresh trusts the session and does not look at the user.
CheckUser_anyStatus(r) ==
    /\ pc[r] = "found"
    /\ Goto(r, "checked")
    /\ UNCHANGED <<session, status>>

\* getUserById; a user who is not active is answered 401.
CheckUser(r) ==
    /\ pc[r] = "found"
    /\ IF account = "active" THEN Goto(r, "checked") ELSE End(r)
    /\ UNCHANGED <<session, status>>

\* Slip: the old session is not revoked.
RevokeOld_keeps(r) ==
    /\ pc[r] = "checked"
    /\ Goto(r, "minting")
    /\ UNCHANGED <<session, status>>

\* rotateSession: the UPDATE names the session by id, whatever became of it.
RevokeOld(r) ==
    /\ pc[r] = "checked"
    /\ live' = live \ {from[r]}
    /\ Goto(r, "minting")
    /\ UNCHANGED <<minted, parent, status>>

\* Slip: the token is handed out, and its row is not stored.
MintSession_unstored(r) ==
    /\ pc[r] = "minting"
    /\ minted < MaxSessions
    /\ live' = live \cup {minted + 1}
    /\ End(r)
    /\ UNCHANGED <<minted, parent, status>>

\* issueSession.
MintSession(r) ==
    /\ pc[r] = "minting"
    /\ minted < MaxSessions
    /\ minted' = minted + 1
    /\ live' = live \cup {minted + 1}
    /\ parent' = [parent EXCEPT ![minted + 1] = from[r]]
    /\ End(r)
    /\ UNCHANGED status

\* A statement fails or the process dies: what was done stays.
RequestDies(r) ==
    /\ pc[r] # "idle"
    /\ End(r)
    /\ UNCHANGED <<session, status>>

------------------------------------------------------------------------------
\* A logout revokes the session (revokeSession), or it expires.
SessionEnds(s) ==
    /\ s \in live
    /\ live' = live \ {s}
    /\ UNCHANGED <<minted, parent, request, status>>

------------------------------------------------------------------------------
(* PATCH /admin/merchants/:id/status.  Its first statement writes             *)
(* merchant.status, which no other handler looks at: it is left out.          *)

\* Slip: the sessions are revoked first and the account is suspended last.
SuspendAccount_last(a) ==
    /\ admin[a] = "idle"
    /\ account' = "suspended"
    /\ live' = {}
    /\ swept' = (account = "suspended")
    /\ UNCHANGED <<minted, parent, request, admin>>

SuspendAccount(a) ==
    /\ admin[a] = "idle"
    /\ account' = "suspended"
    /\ admin' = [admin EXCEPT ![a] = "sweeping"]
    /\ UNCHANGED <<session, request, swept>>

\* revokeAllSessions.
RevokeAll(a) ==
    /\ admin[a] = "sweeping"
    /\ live' = {}
    /\ swept' = (account = "suspended")
    /\ admin' = [admin EXCEPT ![a] = "idle"]
    /\ UNCHANGED <<minted, parent, request, account>>

ActivateAccount(a) ==
    /\ admin[a] = "idle"
    /\ account' = "active"
    /\ swept' = FALSE
    /\ UNCHANGED <<session, request, admin>>

------------------------------------------------------------------------------
Refresh(r) ==
    \/ \E s \in Sessions : FindSession(r, s)
    \/ CheckUser(r)
    \/ RevokeOld(r)

SetStatus(a) ==
    \/ SuspendAccount(a)
    \/ RevokeAll(a)
    \/ ActivateAccount(a)

Next ==
    \/ \E r \in Requests : LoginCheck(r) \/ Refresh(r) \/ MintSession(r) \/ RequestDies(r)
    \/ \E s \in Sessions : SessionEnds(s)
    \/ \E a \in Admins : SetStatus(a)

Spec == Init /\ [][Next]_vars

------------------------------------------------------------------------------
(* Safety. *)

\* The requests that have seen an active account and have not minted yet.
Cleared == {r \in Requests : pc[r] \in {"checked", "minting"}}

\* Once the sessions of a suspended account were revoked, the sessions that are
\* live and those still to come are no more than the requests that had passed
\* the check of the account by then: a session kept that way mints no other.
StragglersOnly ==
    swept => Cardinality(live) + Cardinality(Cleared) <= Cardinality(Requests)

\* No order of two administrators' requests leaves an account suspended whose
\* sessions were not revoked afterwards, or are about to be ("Revoke all
\* sessions for a user (e.g. account suspension)", tokenService.ts).
SuspensionSweeps ==
    account = "suspended" => swept \/ \E a \in Admins : admin[a] = "sweeping"

\* The sessions a refresh minted from s, and the refreshes about to mint one.
Successors(s) == {c \in 1..minted : parent[c] = s}
Rotating(s) == {r \in Requests : from[r] = s /\ pc[r] # "idle"}

\* A session mints no more successors than refreshes of it overlapped: its
\* token is of no use once one of them has revoked it ("Rotated on use",
\* tokenService.ts).
BoundedSuccessors ==
    \A s \in 1..minted :
        Cardinality(Successors(s)) + Cardinality(Rotating(s)) <= Cardinality(Requests)
==============================================================================
