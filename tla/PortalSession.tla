--------------------------- MODULE PortalSession ---------------------------
(***************************************************************************)
(* The browser's side of the sessions of module Sessions                   *)
(* (apps/client: services/authApi.ts, services/httpClient.ts,               *)
(* services/tokenStorage.ts, session/SessionProvider.tsx), and the two     *)
(* composed.  Tabs share the refresh token in localStorage; each has read  *)
(* it once, when it was loaded, and goes on with its own copy.             *)
(*                                                                         *)
(* A call of the portal is carried out by a request of Sessions.  Requests *)
(* without a call belong to other devices of the user.                      *)
(***************************************************************************)
EXTENDS Sessions

CONSTANT Tabs

NoToken == 0

VARIABLES
    stored,     \* the refresh token in localStorage
    memory,     \* memory[t]: the variable refreshToken of tab t
    call,       \* call[r]: the portal's call that request r answers, or NoCall
    lost,       \* a tab was reloaded while it refreshed with the stored token
    out         \* out[t]: the user signed out in t, and nothing since brought
                \* the session back

portal == <<stored, memory, call, lost, out>>
allVars == <<vars, portal>>

\* token: what is sent; got: NoToken, or the session minted for the answer;
\* late, of a refresh: the user has signed out since.
Call(t, kind, token) ==
    [tab |-> t, kind |-> kind, token |-> token, at |-> "sent", got |-> NoToken, late |-> FALSE]
NoCall == [kind |-> "none"]

PortalInit ==
    /\ Init
    /\ stored = NoToken
    /\ memory = [t \in Tabs |-> NoToken]
    /\ call = [r \in Requests |-> NoCall]
    /\ lost = FALSE
    /\ out = [t \in Tabs |-> FALSE]

Refreshes(r, s) == call[r].kind = "refresh" /\ call[r].token = s
CallsOf(t) == {r \in Requests : call[r].kind # "none" /\ call[r].tab = t}
Free(r) == pc[r] = "idle" /\ call[r] = NoCall
Post(r, c) == Free(r) /\ call' = [call EXCEPT ![r] = c]

\* setSessionTokens and clearSessionTokens (with NoToken): the tab's copy and
\* the stored one.
Store(s) == stored' = s /\ lost' = (lost /\ s = stored)
SetTokens(t, s) == memory' = [memory EXCEPT ![t] = s] /\ Store(s)

-----------------------------------------------------------------------------
(* What happens in a tab. *)

\* POST /auth/otp/verify, in a tab that shows the login screen.
SignIn(t, r) ==
    /\ memory[t] = NoToken
    /\ Post(r, Call(t, "login", NoToken))
    /\ UNCHANGED <<vars, stored, memory, lost, out>>

\* refreshSession: a request of the tab was answered 401.  Nothing keeps a
\* second one from refreshing with the same token meanwhile.
Unauthorized(t, r) ==
    /\ memory[t] # NoToken
    /\ Post(r, Call(t, "refresh", memory[t]))
    /\ UNCHANGED <<vars, stored, memory, lost, out>>

\* The tab is loaded (again): it reads the storage and restores the session.
\* Answers to its former calls find nobody.
Load(t, r) ==
    LET left == [q \in Requests |-> IF q \in CallsOf(t) THEN NoCall ELSE call[q]]
    IN
    /\ memory' = [memory EXCEPT ![t] = stored]
    /\ lost' = (lost \/ \E q \in CallsOf(t) : Refreshes(q, stored))
    /\ \/ stored = NoToken /\ call' = left
       \/ /\ stored # NoToken /\ Free(r)
          /\ call' = [left EXCEPT ![r] = Call(t, "refresh", stored)]
    /\ out' = [out EXCEPT ![t] = FALSE]
    /\ UNCHANGED <<vars, stored>>

RefreshesOf(t) == {r \in CallsOf(t) : call[r].kind = "refresh"}
Late(t) ==
    [q \in Requests |->
        IF q \in RefreshesOf(t) THEN [call[q] EXCEPT !.late = TRUE] ELSE call[q]]

\* Slip: the tokens are cleared when the server has answered.
SignOut_clearsLast(t, r) ==
    /\ memory[t] # NoToken /\ Free(r)
    /\ call' = [Late(t) EXCEPT ![r] = Call(t, "logout", memory[t])]
    /\ out' = [out EXCEPT ![t] = TRUE]
    /\ UNCHANGED <<vars, stored, memory, lost>>

\* logoutSession: the tokens are cleared at once, then the server is told.
SignOut(t, r) ==
    /\ memory[t] # NoToken /\ Free(r)
    /\ SetTokens(t, NoToken)
    /\ call' = [Late(t) EXCEPT ![r] = Call(t, "logout", memory[t])]
    /\ out' = [out EXCEPT ![t] = TRUE]
    /\ UNCHANGED vars

\* Slip: a refresh keeps the new token to the tab.
Received_inMemory(c, s) ==
    /\ memory' = [memory EXCEPT ![c.tab] = s]
    /\ Store(IF c.kind = "refresh" /\ s # NoToken THEN stored ELSE s)

Received(c, s) == SetTokens(c.tab, s)

\* The answer arrives.  A logout clears the tokens once more, whatever it says.
Deliver(r) ==
    LET c == call[r] IN
    /\ c.kind # "none" /\ c.at = "answered"
    /\ IF c.kind = "login" /\ c.got = NoToken
       THEN UNCHANGED <<memory, stored, lost>>
       ELSE Received(c, c.got)
    /\ out' = [out EXCEPT ![c.tab] = @ /\ (c.got = NoToken \/ (c.kind = "refresh" /\ ~c.late))]
    /\ call' = [call EXCEPT ![r] = NoCall]
    /\ UNCHANGED vars

\* The call fails in the browser, wherever the server is: the tab signs out.
\* (Here and in Load, a request that reaches the server only after its tab gave
\* it up is left out.)
NetworkFails(r) ==
    LET c == call[r] IN
    /\ c.kind # "none"
    /\ IF c.kind = "login" THEN UNCHANGED <<memory, stored, lost>>
       ELSE SetTokens(c.tab, NoToken)
    /\ call' = [call EXCEPT ![r] = NoCall]
    /\ UNCHANGED <<vars, out>>

-----------------------------------------------------------------------------
(* What the server does with a call. *)

Answer(r, s) == call' = [call EXCEPT ![r].at = "answered", ![r].got = s]

Waits(r, kind) == call[r].kind = kind /\ call[r].at = "sent" /\ pc[r] = "idle"

ServeLogin(r) ==
    /\ Waits(r, "login")
    /\ \/ LoginCheck(r) /\ UNCHANGED call
       \/ account # "active" /\ Answer(r, NoToken) /\ UNCHANGED vars
    /\ UNCHANGED <<stored, memory, lost, out>>

ServeRefresh(r) ==
    /\ Waits(r, "refresh")
    /\ \/ FindSession(r, call[r].token) /\ UNCHANGED call
       \/ call[r].token \notin live /\ Answer(r, NoToken) /\ UNCHANGED vars
    /\ UNCHANGED <<stored, memory, lost, out>>

ServeLogout(r) ==
    /\ Waits(r, "logout")
    /\ \/ SessionEnds(call[r].token)
       \/ call[r].token \notin live /\ UNCHANGED vars
    /\ Answer(r, NoToken)
    /\ UNCHANGED <<stored, memory, lost, out>>

\* Where the request ends the call is answered: with the session it minted, or
\* with an error.
Proceed(r) ==
    /\ CheckUser(r) \/ RevokeOld(r) \/ MintSession(r) \/ RequestDies(r)
    /\ IF call[r] # NoCall /\ pc'[r] = "idle"
       THEN Answer(r, IF minted' = minted THEN NoToken ELSE minted')
       ELSE UNCHANGED call
    /\ UNCHANGED <<stored, memory, lost, out>>

\* Tokens the portal holds, has sent or is about to receive.
Held ==
    {stored} \cup {memory[t] : t \in Tabs}
        \cup UNION {{call[r].token, call[r].got} : r \in {q \in Requests : call[q] # NoCall}}

\* Other devices of the user, expiry, and the administrators.
Elsewhere ==
    /\ \/ \E r \in Requests : Free(r) /\ LoginCheck(r)
       \/ \E r \in Requests, s \in Sessions \ Held : Free(r) /\ FindSession(r, s)
       \/ \E s \in Sessions : SessionEnds(s)
       \/ \E a \in Admins : SetStatus(a)
    /\ UNCHANGED portal

PortalNext ==
    \/ \E t \in Tabs, r \in Requests :
          SignIn(t, r) \/ Unauthorized(t, r) \/ Load(t, r) \/ SignOut(t, r)
    \/ \E r \in Requests :
          \/ Deliver(r) \/ NetworkFails(r)
          \/ ServeLogin(r) \/ ServeRefresh(r) \/ ServeLogout(r) \/ Proceed(r)
    \/ Elsewhere

PortalSpec == PortalInit /\ [][PortalNext]_allVars

-----------------------------------------------------------------------------
Tokens == {NoToken} \cup Sessions

PortalTypeOK ==
    /\ TypeOK
    /\ stored \in Tokens /\ memory \in [Tabs -> Tokens] /\ lost \in BOOLEAN
    /\ out \in [Tabs -> BOOLEAN]
    /\ call \in [Requests -> {NoCall} \cup
          [tab : Tabs, kind : {"login", "refresh", "logout"}, token : Tokens,
           at : {"sent", "answered"}, got : Tokens, late : BOOLEAN]]

UsedUp(s) == \E c \in 1..minted : parent[c] = s

\* The token a reload would restore the session with is not one that a refresh
\* has used up, in whichever tab and in whatever order the answers came; only
\* while the answer is still to come, or when the tab was reloaded before it came.
StoredIsUsable ==
    stored # NoToken /\ UsedUp(stored) =>
        lost \/ \E r \in Requests : Refreshes(r, stored)

\* Who signs out in a tab stays signed out there: no call begun afterwards brings
\* tokens back.  (One that was under way can.)
SignedOutStays == \A t \in Tabs : out[t] => memory[t] = NoToken
=============================================================================
