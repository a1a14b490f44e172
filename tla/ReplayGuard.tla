---------------------------- MODULE ReplayGuard ----------------------------
(***************************************************************************)
(* Replay protection of the signed plugin requests                         *)
(* (services/plugin/replayGuard.ts, verifyRequest of http/routes/plugin.ts).*)
(*                                                                         *)
(* A message is one signed request: its timestamp and its nonce are fixed  *)
(* when the plugin signs it, and the network may deliver it any number of  *)
(* times.  The API tests the timestamp when the request arrives, makes     *)
(* several queries, and only then inserts the nonce; expired nonces are    *)
(* deleted meanwhile.  Time is the clock of the API, in any unit.          *)
(***************************************************************************)
EXTENDS Integers

CONSTANTS
    Messages, Handlers,
    None,       \* no message
    Skew,       \* PLUGIN_TIMESTAMP_SKEW_SECONDS
    Ahead,      \* how far a store's clock may be ahead of the API's
    Stall,      \* how long a request may take from its arrival to its nonce
    MaxTime     \* bound of the clock

ASSUME TimesAreNat == {Skew, Ahead, Stall, MaxTime} \subseteq Nat
ASSUME NoneIsNoMessage == None \notin Messages
\* What the retention of twice the skew allows for.
ASSUME SkewCoversDelays == Ahead + Stall <= Skew

VARIABLES
    now,
    stamp,      \* stamp[m]: the timestamp signed, or NoTime before m is sent
    expires,    \* expires[m]: expires_at of m's row in replay_nonce, or NoTime
    holds,      \* holds[h]: the message verifyRequest works on in handler h
    since,      \* since[h]: when it arrived
    accepted    \* accepted[m]: how many times m was let through

guardVars == <<now, stamp, expires, holds, since, accepted>>

NoTime == -1

GuardInit ==
    /\ now = 0
    /\ stamp = [m \in Messages |-> NoTime]
    /\ expires = [m \in Messages |-> NoTime]
    /\ holds = [h \in Handlers |-> None]
    /\ since = [h \in Handlers |-> 0]
    /\ accepted = [m \in Messages |-> 0]

\* The store signs m, by its own clock.
Send(m) ==
    /\ stamp[m] = NoTime
    /\ \E t \in 0 .. now + Ahead : stamp' = [stamp EXCEPT ![m] = t]
    /\ UNCHANGED <<now, expires, holds, since, accepted>>

isTimestampFresh(t) == t - now <= Skew /\ now - t <= Skew

\* A copy of m arrives; a stale one is answered 401 and changes nothing.
Arrive(h, m) ==
    /\ holds[h] = None
    /\ stamp[m] # NoTime
    /\ isTimestampFresh(stamp[m])
    /\ holds' = [holds EXCEPT ![h] = m]
    /\ since' = [since EXCEPT ![h] = now]
    /\ UNCHANGED <<now, stamp, expires, accepted>>

\* The request fails a later test of verifyRequest, or its process dies.
Refuse(h) ==
    /\ holds[h] # None
    /\ holds' = [holds EXCEPT ![h] = None]
    /\ UNCHANGED <<now, stamp, expires, since, accepted>>

\* Slip: a nonce is kept as long as its timestamp may be off.
ExpiryOfNonce_oneSkew == now + Skew

ExpiryOfNonce == now + 2 * Skew

Unseen(m) == expires[m] = NoTime

\* INSERT ... ON CONFLICT DO NOTHING RETURNING id gives a row back.
consumeNonce(h) ==
    LET m == holds[h] IN
    /\ m # None
    /\ Unseen(m)
    /\ expires' = [expires EXCEPT ![m] = ExpiryOfNonce]
    /\ accepted' = [accepted EXCEPT ![m] = @ + 1]
    /\ holds' = [holds EXCEPT ![h] = None]
    /\ UNCHANGED <<now, stamp, since>>

\* Left running by every request let through, of any site: it may come any time.
pruneExpiredNonces ==
    /\ expires' = [m \in Messages |-> IF expires[m] < now THEN NoTime ELSE expires[m]]
    /\ UNCHANGED <<now, stamp, holds, since, accepted>>

\* Time passes; no request is older than Stall.
Tick ==
    /\ now < MaxTime
    /\ \A h \in Handlers : holds[h] # None => now - since[h] < Stall
    /\ now' = now + 1
    /\ UNCHANGED <<stamp, expires, holds, since, accepted>>

GuardNext ==
    \/ \E m \in Messages : Send(m)
    \/ \E h \in Handlers, m \in Messages : Arrive(h, m)
    \/ \E h \in Handlers : Refuse(h) \/ consumeNonce(h)
    \/ pruneExpiredNonces
    \/ Tick

GuardSpec == GuardInit /\ [][GuardNext]_guardVars

-----------------------------------------------------------------------------
GuardTypeOK ==
    /\ now \in 0 .. MaxTime
    /\ stamp \in [Messages -> Nat \cup {NoTime}]
    /\ expires \in [Messages -> Nat \cup {NoTime}]
    /\ holds \in [Handlers -> Messages \cup {None}]
    /\ since \in [Handlers -> Nat]
    /\ accepted \in [Messages -> Nat]

\* However often a signed request is delivered, and although its nonce is
\* deleted in time, it is let through at most once.
ProcessedOnce == \A m \in Messages : accepted[m] <= 1
=============================================================================
