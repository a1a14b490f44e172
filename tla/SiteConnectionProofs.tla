------------------------- MODULE SiteConnectionProofs -------------------------
(* Proofs about SiteConnection and the ReplayGuard it extends, for every      *)
(* number of requests and handlers and every clock.                          *)
EXTENDS SiteConnection, FiniteSetTheorems, TLAPS

------------------------------------------------------------------------------
(* The guard alone: a signed request is let through at most once.            *)

\* What the guard knows of a message.  A number that was recorded and deleted is
\* one whose message no handler can still hold: that is where twice the skew, and
\* SkewCoversDelays, are needed.
StampsBounded ==
    \A m \in Messages : stamp[m] # NoTime => stamp[m] <= now + Ahead

RecordLasts ==
    \A m \in Messages :
        expires[m] # NoTime => expires[m] >= stamp[m] - Ahead + 2 * Skew

DeletedIsPast ==
    \A m \in Messages :
        accepted[m] # 0 /\ expires[m] = NoTime => now > stamp[m] + Skew + Stall

HeldIsRecent ==
    \A h \in Handlers : holds[h] # None =>
        /\ stamp[holds[h]] # NoTime
        /\ since[h] <= stamp[holds[h]] + Skew
        /\ since[h] <= now /\ now <= since[h] + Stall

UnsentIsUnknown ==
    \A m \in Messages : stamp[m] = NoTime => accepted[m] = 0 /\ expires[m] = NoTime

GuardInv ==
    /\ GuardTypeOK /\ ProcessedOnce
    /\ StampsBounded /\ RecordLasts /\ DeletedIsPast /\ HeldIsRecent /\ UnsentIsUnknown

USE TimesAreNat, NoneIsNoMessage, SkewCoversDelays DEF NoTime

LEMMA GuardStarts == GuardInit => GuardInv
BY DEF GuardInit, GuardInv, GuardTypeOK, ProcessedOnce, StampsBounded, RecordLasts,
       DeletedIsPast, HeldIsRecent, UnsentIsUnknown

LEMMA SendKeeps ==
    ASSUME GuardInv, NEW m \in Messages, Send(m) PROVE GuardInv'
<1> USE DEF GuardInv
<1>1. PICK t \in 0 .. now + Ahead : stamp' = [stamp EXCEPT ![m] = t]
  BY DEF Send
<1>2. stamp[m] = NoTime /\ accepted[m] = 0 /\ expires[m] = NoTime
  BY DEF Send, UnsentIsUnknown
<1>3. GuardTypeOK' /\ ProcessedOnce'
  BY <1>1 DEF Send, GuardTypeOK, ProcessedOnce
<1>4. StampsBounded' /\ RecordLasts' /\ DeletedIsPast' /\ UnsentIsUnknown'
  BY <1>1, <1>2 DEF Send, GuardTypeOK, StampsBounded, RecordLasts, DeletedIsPast, UnsentIsUnknown
<1>5. HeldIsRecent'
  <2> SUFFICES ASSUME NEW h \in Handlers, holds[h] # None
               PROVE  /\ stamp'[holds[h]] # NoTime
                      /\ since[h] <= stamp'[holds[h]] + Skew
                      /\ since[h] <= now /\ now <= since[h] + Stall
    BY DEF Send, HeldIsRecent
  <2>1. holds[h] # m
    BY <1>2 DEF HeldIsRecent
  <2> QED
    BY <2>1, <1>1 DEF HeldIsRecent, GuardTypeOK
<1> QED
  BY <1>3, <1>4, <1>5

LEMMA ArriveKeeps ==
    ASSUME GuardInv, NEW h \in Handlers, NEW m \in Messages, Arrive(h, m) PROVE GuardInv'
<1> USE DEF GuardInv, Arrive
<1>1. GuardTypeOK' /\ ProcessedOnce'
  BY DEF GuardTypeOK, ProcessedOnce
<1>2. StampsBounded' /\ RecordLasts' /\ DeletedIsPast' /\ UnsentIsUnknown'
  BY DEF StampsBounded, RecordLasts, DeletedIsPast, UnsentIsUnknown
<1>3. HeldIsRecent'
  BY DEF HeldIsRecent, GuardTypeOK, isTimestampFresh
<1> QED
  BY <1>1, <1>2, <1>3

LEMMA RefuseKeeps ==
    ASSUME GuardInv, NEW h \in Handlers, Refuse(h) PROVE GuardInv'
BY DEF GuardInv, Refuse, GuardTypeOK, ProcessedOnce, StampsBounded, RecordLasts,
       DeletedIsPast, HeldIsRecent, UnsentIsUnknown

\* The step that could let a message through twice.
LEMMA ConsumeKeeps ==
    ASSUME GuardInv, NEW h \in Handlers, consumeNonce(h) PROVE GuardInv'
<1> DEFINE m == holds[h]
<1> USE DEF GuardInv
<1>1. /\ m \in Messages /\ expires[m] = NoTime
      /\ expires' = [expires EXCEPT ![m] = now + 2 * Skew]
      /\ accepted' = [accepted EXCEPT ![m] = @ + 1]
      /\ holds' = [holds EXCEPT ![h] = None]
      /\ UNCHANGED <<now, stamp, since>>
  BY DEF consumeNonce, Unseen, ExpiryOfNonce, GuardTypeOK
<1> HIDE DEF m
<1>2. now <= stamp[m] + Skew + Stall /\ stamp[m] \in Nat /\ stamp[m] <= now + Ahead
  BY <1>1 DEF HeldIsRecent, GuardTypeOK, StampsBounded, m
<1>3. accepted[m] = 0
  BY <1>1, <1>2 DEF DeletedIsPast, GuardTypeOK
<1>4. GuardTypeOK' /\ ProcessedOnce'
  BY <1>1, <1>3 DEF GuardTypeOK, ProcessedOnce
<1>5. StampsBounded' /\ UnsentIsUnknown'
  BY <1>1, <1>2 DEF GuardTypeOK, StampsBounded, UnsentIsUnknown
<1>6. RecordLasts' /\ DeletedIsPast'
  BY <1>1, <1>2 DEF GuardTypeOK, RecordLasts, DeletedIsPast
<1>7. HeldIsRecent'
  BY <1>1 DEF HeldIsRecent, GuardTypeOK
<1> QED
  BY <1>4, <1>5, <1>6, <1>7

LEMMA PruneKeeps ==
    ASSUME GuardInv, pruneExpiredNonces PROVE GuardInv'
<1> USE DEF GuardInv, pruneExpiredNonces
<1>1. GuardTypeOK' /\ ProcessedOnce' /\ StampsBounded' /\ HeldIsRecent'
  BY DEF GuardTypeOK, ProcessedOnce, StampsBounded, HeldIsRecent
<1>2. RecordLasts' /\ UnsentIsUnknown'
  BY DEF RecordLasts, UnsentIsUnknown, GuardTypeOK
<1>3. DeletedIsPast'
  <2> SUFFICES ASSUME NEW m \in Messages, accepted[m] # 0, expires'[m] = NoTime
               PROVE  now > stamp[m] + Skew + Stall
    BY DEF DeletedIsPast
  <2>1. CASE expires[m] = NoTime
    BY <2>1 DEF DeletedIsPast
  <2>2. CASE expires[m] # NoTime
    <3>1. expires[m] < now /\ expires[m] >= stamp[m] - Ahead + 2 * Skew
      BY <2>2 DEF RecordLasts, GuardTypeOK
    <3>2. stamp[m] \in Nat /\ expires[m] \in Nat /\ now \in Nat
      BY <2>2 DEF UnsentIsUnknown, GuardTypeOK
    <3> QED
      BY <3>1, <3>2
  <2> QED
    BY <2>1, <2>2
<1> QED
  BY <1>1, <1>2, <1>3

LEMMA TickKeeps ==
    ASSUME GuardInv, Tick PROVE GuardInv'
<1> USE DEF GuardInv, Tick
<1>1. GuardTypeOK' /\ ProcessedOnce' /\ RecordLasts' /\ UnsentIsUnknown'
  BY DEF GuardTypeOK, ProcessedOnce, RecordLasts, UnsentIsUnknown
<1>2. StampsBounded' /\ DeletedIsPast'
  BY DEF StampsBounded, DeletedIsPast, GuardTypeOK
<1>3. HeldIsRecent'
  BY DEF HeldIsRecent, GuardTypeOK
<1> QED
  BY <1>1, <1>2, <1>3

LEMMA GuardStep == GuardInv /\ [GuardNext]_guardVars => GuardInv'
<1> SUFFICES ASSUME GuardInv, [GuardNext]_guardVars PROVE GuardInv'
  OBVIOUS
<1>1. CASE UNCHANGED guardVars
  BY <1>1 DEF guardVars, GuardInv, GuardTypeOK, ProcessedOnce, StampsBounded, RecordLasts,
              DeletedIsPast, HeldIsRecent, UnsentIsUnknown
<1>2. CASE GuardNext
  BY <1>2, SendKeeps, ArriveKeeps, RefuseKeeps, ConsumeKeeps, PruneKeeps, TickKeeps
     DEF GuardNext
<1> QED
  BY <1>1, <1>2

\* However often a signed request is delivered, delayed and overtaken by the
\* deletion of its number, it is let through at most once, if store clocks run
\* ahead and requests stall by no more than the skew together.
THEOREM OnlyOnce == GuardSpec => []ProcessedOnce
<1>1. GuardInv => ProcessedOnce
  BY DEF GuardInv
<1> QED
  BY GuardStarts, GuardStep, <1>1, PTL DEF GuardSpec

------------------------------------------------------------------------------
(* The site's requests drive the replay guard by its own steps, so what the  *)
(* guard promises holds here as well.                                        *)

LEMMA SiteStepIsGuardStep == [Next]_vars => [GuardNext]_guardVars
<1> SUFFICES ASSUME [Next]_vars PROVE [GuardNext]_guardVars
  OBVIOUS
<1>1. CASE UNCHANGED vars
  BY <1>1 DEF vars
<1>2. ASSUME NEW m \in Messages, Sign(m) PROVE GuardNext
  BY <1>2 DEF Sign, GuardNext
<1>3. ASSUME NEW m \in Messages, NEW h \in Handlers, Receive(h, m) PROVE GuardNext
  BY <1>3 DEF Receive, GuardNext
<1>4. ASSUME NEW h \in Handlers, CheckSite(h) \/ CheckPlugin(h) \/ CheckSignature(h)
      PROVE  GuardNext \/ UNCHANGED guardVars
  BY <1>4 DEF CheckSite, CheckPlugin, CheckSignature, Reject, GuardNext
<1>5. ASSUME NEW h \in Handlers, CheckNonce(h) PROVE GuardNext
  BY <1>5 DEF CheckNonce, Reject, GuardNext
<1>6. ASSUME NEW h \in Handlers,
             \/ Handshake(h) \/ Revoke(h) \/ Insert(h) \/ Rotated(h) \/ Verified(h)
             \/ WriteSettings(h) \/ rotatePluginSigningSecret(h) \/ verifyWooConnection(h)
             \/ updateSiteSettings(h)
      PROVE  UNCHANGED guardVars
  BY <1>6 DEF Handshake, Revoke, Insert, Rotated, Verified, WriteSettings,
              rotatePluginSigningSecret, verifyWooConnection, updateSiteSettings, Begin
<1>7. ASSUME NEW h \in Handlers, RequestDies(h) PROVE GuardNext \/ UNCHANGED guardVars
  BY <1>7 DEF RequestDies, GuardNext
<1>8. CASE disconnectSite \/ AdminDelivers
  BY <1>8 DEF disconnectSite, AdminDelivers
<1>9. CASE Passes
  BY <1>9 DEF Passes, GuardNext
<1> QED
  BY <1>1, <1>2, <1>3, <1>4, <1>5, <1>6, <1>7, <1>8, <1>9 DEF Next

\* The connection of a site implements the replay guard.
THEOREM SiteImplementsGuard == Spec => GuardSpec
<1>1. Init => GuardInit
  BY DEF Init
<1> QED
  BY <1>1, SiteStepIsGuardStep, PTL DEF Spec, GuardSpec

\* A signed request is let through at most once, whatever else the site's
\* requests do meanwhile.
THEOREM SiteOnlyOnce == Spec => []ProcessedOnce
BY SiteImplementsGuard, OnlyOnce, PTL

------------------------------------------------------------------------------
(* Types.  Only a site in plugin mode is sent signed requests.               *)

PluginPCs == {"check_site", "check_plugin", "check_signature", "nonce", "hs_plugin",
              "hs_connection", "hs_site", "rot_revoke", "rot_insert", "rot_plugin", "rot_site"}

PluginModeOnly ==
    /\ \A m \in Messages : stamp[m] # NoTime => mode = "plugin"
    /\ \A h \in Handlers : pc[h] \in PluginPCs => mode = "plugin"

\* Behind ReturnsExplained: while the site is disconnected, a signed request past
\* the test of the site's status was at work when it became so, and so was a
\* settings request that has read another status.
PastTheTest == {"check_plugin", "check_signature", "nonce", "hs_plugin", "hs_connection",
                "hs_site"}

BeforeCovers ==
    status = "disconnected" =>
        \A h \in Handlers \ before :
            /\ pc[h] \notin PastTheTest
            /\ pc[h] = "settings" => read[h] = "disconnected"

SInv == TypeOK /\ PluginModeOnly /\ BeforeCovers

USE SiteAssumption

LEMMA SiteStarts == Init => SInv
<1> SUFFICES ASSUME Init PROVE SInv
  OBVIOUS
<1>1. GuardTypeOK
  BY GuardStarts DEF Init, GuardInv
<1>2. TypeOK
  BY <1>1 DEF Init, TypeOK, PCs, Idle, SiteStatus
<1>3. PluginModeOnly /\ BeforeCovers
  BY DEF Init, GuardInit, PluginModeOnly, BeforeCovers, PluginPCs, PastTheTest, Idle
<1> QED
  BY <1>2, <1>3 DEF SInv

USE DEF SInv, TypeOK, PluginModeOnly, BeforeCovers, PCs, PluginPCs, PastTheTest, Idle,
        SiteStatus, Goto, Finish, Credential, Rows

LEMMA SignKeeps ==
    ASSUME SInv, GuardTypeOK', NEW m \in Messages, Sign(m) PROVE SInv'
BY DEF Sign, Send

LEMMA ReceiveKeeps ==
    ASSUME SInv, GuardTypeOK', NEW h \in Handlers, NEW m \in Messages, Receive(h, m)
    PROVE  SInv'
BY DEF Receive, Arrive

LEMMA ChecksKeep ==
    ASSUME SInv, GuardTypeOK', NEW h \in Handlers,
           CheckSite(h) \/ CheckPlugin(h) \/ CheckSignature(h) \/ CheckNonce(h)
    PROVE  SInv'
<1>1. CASE CheckSite(h)
  BY <1>1 DEF CheckSite, SiteRefuses, Reject, Refuse, guardVars
<1>2. CASE CheckPlugin(h)
  BY <1>2 DEF CheckPlugin, Reject, Refuse, guardVars
<1>3. CASE CheckSignature(h)
  BY <1>3 DEF CheckSignature, Reject, Refuse, guardVars
<1>4. CASE CheckNonce(h)
  BY <1>4 DEF CheckNonce, consumeNonce, Reject, Refuse
<1> QED
  BY <1>1, <1>2, <1>3, <1>4

LEMMA HandshakeKeeps ==
    ASSUME SInv, GuardTypeOK', NEW h \in Handlers, Handshake(h) PROVE SInv'
BY DEF Handshake, guardVars

LEMMA BeginKeeps ==
    ASSUME SInv, GuardTypeOK', NEW h \in Handlers,
           rotatePluginSigningSecret(h) \/ verifyWooConnection(h) \/ updateSiteSettings(h)
    PROVE  SInv'
<1>1. CASE rotatePluginSigningSecret(h)
  BY <1>1 DEF rotatePluginSigningSecret, Begin, guardVars
<1>2. CASE verifyWooConnection(h)
  BY <1>2 DEF verifyWooConnection, Begin, guardVars
<1>3. CASE updateSiteSettings(h)
  BY <1>3 DEF updateSiteSettings, Begin, guardVars
<1> QED
  BY <1>1, <1>2, <1>3

LEMMA CredentialKeeps ==
    ASSUME SInv, GuardTypeOK', NEW h \in Handlers, Revoke(h) \/ Insert(h) PROVE SInv'
<1>1. CASE Revoke(h)
  BY <1>1 DEF Revoke, RevokeOld, guardVars
<1>2. CASE Insert(h)
  BY <1>2 DEF Insert, guardVars
<1> QED
  BY <1>1, <1>2

LEMMA WritesKeep ==
    ASSUME SInv, GuardTypeOK', NEW h \in Handlers,
           Rotated(h) \/ Verified(h) \/ WriteSettings(h)
    PROVE  SInv'
<1>1. CASE Rotated(h)
  BY <1>1 DEF Rotated, RotatedStatus, guardVars
<1>2. CASE Verified(h)
  BY <1>2 DEF Verified, guardVars
<1>3. CASE WriteSettings(h)
  BY <1>3 DEF WriteSettings, Working, guardVars
<1> QED
  BY <1>1, <1>2, <1>3

LEMMA OthersKeep ==
    ASSUME SInv, GuardTypeOK', disconnectSite \/ AdminDelivers \/ Passes PROVE SInv'
<1>1. CASE disconnectSite
  BY <1>1 DEF disconnectSite, RevokedPlugin, Working, guardVars
<1>2. CASE AdminDelivers
  BY <1>2 DEF AdminDelivers, guardVars
<1>3. CASE Passes
  BY <1>3 DEF Passes, Tick, pruneExpiredNonces, siteVars
<1> QED
  BY <1>1, <1>2, <1>3

LEMMA DeathKeeps ==
    ASSUME SInv, GuardTypeOK', NEW h \in Handlers, RequestDies(h) PROVE SInv'
BY DEF RequestDies, Refuse, guardVars

LEMMA SiteStep == SInv /\ GuardTypeOK' /\ [Next]_vars => SInv'
<1> SUFFICES ASSUME SInv, GuardTypeOK', [Next]_vars PROVE SInv'
  OBVIOUS
<1>1. CASE UNCHANGED vars
  BY <1>1 DEF vars, siteVars, guardVars
<1>2. CASE Next
  BY <1>2, SignKeeps, ReceiveKeeps, ChecksKeep, HandshakeKeeps, BeginKeeps, CredentialKeeps,
     WritesKeep, OthersKeep, DeathKeeps DEF Next
<1> QED
  BY <1>1, <1>2

LEMMA GuardTyped == Spec => []GuardTypeOK
<1>1. GuardInv => GuardTypeOK
  BY DEF GuardInv
<1>2. GuardSpec => []GuardTypeOK
  BY GuardStarts, GuardStep, <1>1, PTL DEF GuardSpec
<1> QED
  BY <1>2, SiteImplementsGuard, PTL

LEMMA SiteInvariant == Spec => []SInv
<1> QED
  BY SiteStarts, SiteStep, GuardTyped, PTL DEF Spec

\* Every column and every handler keeps to its type; a site in REST mode has no
\* plugin row.
THEOREM SiteTypeCorrect == Spec => []TypeOK
<1>1. SInv => TypeOK
  OBVIOUS
<1> QED
  BY <1>1, SiteInvariant, PTL

------------------------------------------------------------------------------
\* A disconnected site comes back only in the ways that ReturnExplained lists,
\* for any number of overlapping requests.

LEMMA EveryReturnExplained == SInv /\ [Next]_vars => ReturnExplained
<1> SUFFICES ASSUME SInv, Next, status = "disconnected", status' # "disconnected"
             PROVE  ReturnExplained
  BY DEF ReturnExplained, vars, siteVars
<1>1. ASSUME NEW h \in Handlers, Handshake(h) PROVE ReturnExplained
  BY <1>1 DEF Handshake, ReturnExplained
<1>2. ASSUME NEW h \in Handlers, Rotated(h) PROVE ReturnExplained
  BY <1>2 DEF Rotated, RotatedStatus
<1>3. ASSUME NEW h \in Handlers, Verified(h) PROVE ReturnExplained
  BY <1>3 DEF Verified, ReturnExplained
<1>4. ASSUME NEW h \in Handlers, WriteSettings(h) PROVE ReturnExplained
  BY <1>4 DEF WriteSettings, ReturnExplained
<1>5. CASE AdminDelivers
  BY <1>5 DEF AdminDelivers, ReturnExplained
<1>6. CASE disconnectSite
  BY <1>6 DEF disconnectSite
<1>7. ASSUME NEW h \in Handlers,
             \/ CheckSite(h) \/ CheckPlugin(h) \/ CheckSignature(h) \/ CheckNonce(h)
             \/ Revoke(h) \/ Insert(h) \/ RequestDies(h)
             \/ rotatePluginSigningSecret(h) \/ verifyWooConnection(h) \/ updateSiteSettings(h)
      PROVE  status' = status
  BY <1>7 DEF CheckSite, CheckPlugin, CheckSignature, CheckNonce, Revoke, Insert, RequestDies,
              rotatePluginSigningSecret, verifyWooConnection, updateSiteSettings, Begin
<1>8. ASSUME NEW m \in Messages, Sign(m) \/ \E h \in Handlers : Receive(h, m)
      PROVE  status' = status
  BY <1>8 DEF Sign, Receive
<1>9. CASE Passes
  BY <1>9 DEF Passes, siteVars
<1> QED
  BY <1>1, <1>2, <1>3, <1>4, <1>5, <1>6, <1>7, <1>8, <1>9 DEF Next

\* Only work begun before the disconnection, a new address, the administrator
\* or new credentials bring a disconnected site back (disconnectSite, verifyRequest).
THEOREM ReturnsAreExplained == Spec => ReturnsExplained
<1> QED
  BY EveryReturnExplained, SiteInvariant, PTL DEF Spec, ReturnsExplained

------------------------------------------------------------------------------
\* However requests that replace a credential overlap, no more credentials are
\* active than requests can be under way.

LEMMA InsertingFinite == IsFiniteSet(Inserting) /\ Cardinality(Inserting) \in Nat
BY FS_Subset, FS_CardinalityType DEF Inserting

LEMMA ActiveFinite == SInv => IsFiniteSet(active)
<1> SUFFICES ASSUME SInv PROVE IsFiniteSet(active)
  OBVIOUS
<1>1. minted \in Int /\ active \subseteq 1..minted
  OBVIOUS
<1>2. IsFiniteSet(1..minted)
  BY <1>1, FS_Interval
<1> QED
  BY <1>1, <1>2, FS_Subset

LEMMA FewerAreFew ==
    ASSUME SInv, SecretsBounded, active' \subseteq active, Inserting' \subseteq Inserting
    PROVE  SecretsBounded'
<1>1. IsFiniteSet(active)
  BY ActiveFinite
<1>2. Cardinality(active') <= Cardinality(active)
  BY <1>1, FS_Subset
<1>3. Cardinality(Inserting') <= Cardinality(Inserting)
  BY InsertingFinite, FS_Subset
<1>4. /\ Cardinality(active) \in Nat /\ Cardinality(active') \in Nat
      /\ Cardinality(Inserting) \in Nat /\ Cardinality(Inserting') \in Nat
  BY <1>1, InsertingFinite, FS_Subset, FS_CardinalityType
<1>5. Cardinality(Handlers) \in Nat
  BY FS_CardinalityType
<1> QED
  BY <1>2, <1>3, <1>4, <1>5 DEF SecretsBounded

LEMMA NoneActive ==
    ASSUME active' = {} PROVE SecretsBounded'
<1>1. Inserting' \subseteq Handlers
  BY DEF Inserting
<1>2. IsFiniteSet(Inserting') /\ Cardinality(Inserting') <= Cardinality(Handlers)
  BY <1>1, FS_Subset
<1> QED
  BY <1>2, FS_EmptySet, FS_CardinalityType DEF SecretsBounded

LEMMA InsertKeepsFew ==
    ASSUME SInv, SecretsBounded, NEW h \in Handlers, Insert(h) PROVE SecretsBounded'
<1>1. active' = active \cup {minted + 1} /\ minted \in Nat
  BY DEF Insert
<1>2. h \in Inserting /\ Inserting' = Inserting \ {h}
  BY DEF Insert, Inserting
<1>3. IsFiniteSet(active) /\ minted + 1 \notin active
  BY <1>1, ActiveFinite
<1>4. Cardinality(active') = Cardinality(active) + 1 /\ Cardinality(active) \in Nat
  BY <1>1, <1>3, FS_AddElement, FS_CardinalityType
<1>5. Cardinality(Inserting') = Cardinality(Inserting) - 1
  BY <1>2, InsertingFinite, FS_RemoveElement
<1> QED
  BY <1>4, <1>5, InsertingFinite, FS_CardinalityType DEF SecretsBounded

LEMMA FewStep == SInv /\ SecretsBounded /\ [Next]_vars => SecretsBounded'
<1> SUFFICES ASSUME SInv, SecretsBounded, [Next]_vars PROVE SecretsBounded'
  OBVIOUS
<1>1. CASE UNCHANGED vars
  BY <1>1 DEF SecretsBounded, Inserting, vars, siteVars
<1>2. ASSUME NEW h \in Handlers, Insert(h) PROVE SecretsBounded'
  BY <1>2, InsertKeepsFew
<1>3. ASSUME NEW h \in Handlers, Revoke(h) PROVE SecretsBounded'
  BY <1>3, NoneActive DEF Revoke, RevokeOld
<1>4. CASE disconnectSite
  BY <1>4, NoneActive DEF disconnectSite
<1>5. ASSUME NEW h \in Handlers,
             \/ CheckSite(h) \/ CheckPlugin(h) \/ CheckSignature(h) \/ CheckNonce(h)
             \/ Handshake(h) \/ RequestDies(h)
      PROVE  SecretsBounded'
  BY <1>5, FewerAreFew DEF Inserting, CheckSite, CheckPlugin, CheckSignature, CheckNonce, Reject,
     Handshake, RequestDies
<1>6. ASSUME NEW h \in Handlers,
             \/ rotatePluginSigningSecret(h) \/ verifyWooConnection(h) \/ updateSiteSettings(h)
             \/ Rotated(h) \/ Verified(h) \/ WriteSettings(h)
      PROVE  SecretsBounded'
  BY <1>6, FewerAreFew DEF Inserting, rotatePluginSigningSecret, verifyWooConnection,
     updateSiteSettings, Begin, Rotated, Verified, WriteSettings
<1>7. ASSUME NEW m \in Messages, Sign(m) \/ \E h \in Handlers : Receive(h, m)
      PROVE  SecretsBounded'
  BY <1>7, FewerAreFew DEF Inserting, Sign, Receive
<1>8. CASE AdminDelivers \/ Passes
  BY <1>8, FewerAreFew DEF Inserting, AdminDelivers, Passes, siteVars
<1> QED
  BY <1>1, <1>2, <1>3, <1>4, <1>5, <1>6, <1>7, <1>8 DEF Next

\* No more credentials are active than requests were under way at once
\* (rotatePluginSigningSecret, verifyWooConnection).
THEOREM SecretsStayBounded == Spec => []SecretsBounded
<1>1. Init => SecretsBounded
  <2> SUFFICES ASSUME Init PROVE SecretsBounded
    OBVIOUS
  <2>1. Inserting = {} /\ Cardinality(Inserting) = 0
    BY FS_EmptySet DEF Init, Inserting
  <2>2. active = {} \/ active = {1}
    BY DEF Init
  <2>3. Cardinality(active) <= 1 /\ Cardinality(active) \in Nat
    <3>1. Cardinality({}) = 0 /\ Cardinality({1}) = 1
      BY FS_EmptySet, FS_Singleton
    <3> QED
      BY <2>2, <3>1
  <2>4. Cardinality(Handlers) >= 1 /\ Cardinality(Handlers) \in Nat
    <3>1. Cardinality(Handlers) \in Nat
      BY SiteAssumption, FS_CardinalityType
    <3>2. Cardinality(Handlers) # 0
      BY SiteAssumption, FS_EmptySet
    <3> QED
      BY <3>1, <3>2
  <2> QED
    BY <2>1, <2>3, <2>4 DEF SecretsBounded
<1> QED
  BY <1>1, FewStep, SiteInvariant, PTL DEF Spec
==============================================================================
