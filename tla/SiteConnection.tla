--------------------------- MODULE SiteConnection ---------------------------
(***************************************************************************)
(* The connection of one store and the requests that change it             *)
(* (services/sites.ts, http/routes/plugin.ts).  The site is connected      *)
(* either by the plugin, which holds a signing secret, or by WooCommerce   *)
(* REST credentials.  Every handler is a sequence of statements, each      *)
(* committed on its own, that other handlers interleave with; only the     *)
(* disconnection is a transaction.                                         *)
(***************************************************************************)
EXTENDS ReplayGuard, FiniteSets, FiniteSetsExt

CONSTANTS
    MaxSecrets,     \* bound on the credentials minted
    MaxOps          \* bound on the merchant's requests

ASSUME SiteAssumption ==
    /\ IsFiniteSet(Handlers) /\ Handlers # {}
    /\ MaxSecrets \in Nat \ {0} /\ MaxOps \in Nat

VARIABLES
    mode,       \* site.connection_mode
    status,     \* site.status
    conn,       \* site_connection.status
    plugin,     \* plugin_connection.status; "absent" without a row
    minted,     \* credentials ever inserted, numbered by created_at
    active,     \* those whose status is active
    signed,     \* signed[m]: the secret m is signed with
    pc,         \* pc[h]: the next statement of handler h
    read,       \* read[h]: the site status a settings request read
    before,     \* handlers at work when the site last became disconnected
    ops         \* merchant's requests so far

siteVars == <<mode, status, conn, plugin, minted, active, signed, pc, read, before, ops>>
vars == <<guardVars, siteVars>>

Idle == "idle"
Credential == <<minted, active>>
Rows == <<status, conn, plugin>>

Goto(h, label) == pc' = [pc EXCEPT ![h] = label] /\ UNCHANGED before
Finish(h) == pc' = [pc EXCEPT ![h] = Idle] /\ before' = before \ {h}

\* startConnection: one transaction.
Init ==
    /\ GuardInit
    /\ mode \in {"plugin", "woo_rest"}
    /\ status = "pending" /\ conn = "pending"
    /\ plugin = IF mode = "plugin" THEN "pending" ELSE "absent"
    /\ minted = (IF mode = "plugin" THEN 1 ELSE 0) /\ active = 1 .. minted
    /\ signed = [m \in Messages |-> 0]
    /\ pc = [h \in Handlers |-> Idle]
    /\ read = [h \in Handlers |-> "pending"]
    /\ before = {} /\ ops = 0

-----------------------------------------------------------------------------
(* Signed requests.  The plugin signs with the secret it was given last, or *)
(* with an older one.                                                      *)

Sign(m) ==
    /\ Send(m) /\ mode = "plugin"
    /\ \E s \in 1 .. minted : signed' = [signed EXCEPT ![m] = s]
    /\ UNCHANGED <<mode, Rows, Credential, pc, read, before, ops>>

Receive(h, m) ==
    /\ pc[h] = Idle /\ Arrive(h, m)
    /\ Goto(h, "check_site")
    /\ UNCHANGED <<mode, Rows, Credential, signed, read, ops>>

Reject(h) == Refuse(h) /\ Finish(h)

\* Slip: a disconnected site still takes signed requests.
SiteRefuses_never == FALSE

SiteRefuses == status = "disconnected"

CheckSite(h) ==
    /\ pc[h] = "check_site"
    /\ \/ SiteRefuses /\ Reject(h)
       \/ ~SiteRefuses /\ Goto(h, "check_plugin") /\ UNCHANGED guardVars
    /\ UNCHANGED <<mode, Rows, Credential, signed, read, ops>>

CheckPlugin(h) ==
    /\ pc[h] = "check_plugin"
    /\ \/ plugin = "revoked" /\ Reject(h)
       \/ plugin # "revoked" /\ Goto(h, "check_signature") /\ UNCHANGED guardVars
    /\ UNCHANGED <<mode, Rows, Credential, signed, read, ops>>

\* getPluginSigningSecret takes the newest active secret.
SignatureHolds(m) == active # {} /\ signed[m] = Max(active)

CheckSignature(h) ==
    /\ pc[h] = "check_signature"
    /\ \/ ~SignatureHolds(holds[h]) /\ Reject(h)
       \/ SignatureHolds(holds[h]) /\ Goto(h, "nonce") /\ UNCHANGED guardVars
    /\ UNCHANGED <<mode, Rows, Credential, signed, read, ops>>

\* A handshake goes on to write the connection; the other requests do not.
CheckNonce(h) ==
    /\ pc[h] = "nonce"
    /\ \/ ~Unseen(holds[h]) /\ Reject(h)
       \/ consumeNonce(h) /\ (Goto(h, "hs_plugin") \/ Finish(h))
    /\ UNCHANGED <<mode, Rows, Credential, signed, read, ops>>

Handshake(h) ==
    /\ \/ pc[h] = "hs_plugin" /\ plugin' = "connected" /\ UNCHANGED <<status, conn>>
          /\ Goto(h, "hs_connection")
       \/ pc[h] = "hs_connection" /\ conn' = "verified" /\ UNCHANGED <<status, plugin>>
          /\ Goto(h, "hs_site")
       \/ pc[h] = "hs_site" /\ status' = "connected" /\ UNCHANGED <<conn, plugin>>
          /\ Finish(h)
    /\ UNCHANGED <<guardVars, mode, Credential, signed, read, ops>>

-----------------------------------------------------------------------------
(* The merchant's requests.  None of them looks at site.status first.      *)

Begin(h, label) ==
    /\ pc[h] = Idle /\ ops < MaxOps
    /\ ops' = ops + 1
    /\ Goto(h, label)
    /\ UNCHANGED <<guardVars, mode, Rows, Credential, signed>>

rotatePluginSigningSecret(h) == mode = "plugin" /\ Begin(h, "rot_revoke") /\ UNCHANGED read

\* After the store has answered that the credentials work.
verifyWooConnection(h) == mode = "woo_rest" /\ Begin(h, "woo_revoke") /\ UNCHANGED read

updateSiteSettings(h) == Begin(h, "settings") /\ read' = [read EXCEPT ![h] = status]

\* Slip: the old credential stays active.
RevokeOld_keeps == active' = active

RevokeOld == active' = {}

Revoke(h) ==
    /\ \/ pc[h] = "rot_revoke" /\ Goto(h, "rot_insert")
       \/ pc[h] = "woo_revoke" /\ Goto(h, "woo_insert")
    /\ RevokeOld
    /\ UNCHANGED <<guardVars, mode, Rows, minted, signed, read, ops>>

Insert(h) ==
    /\ minted < MaxSecrets
    /\ \/ pc[h] = "rot_insert" /\ Goto(h, "rot_plugin")
       \/ pc[h] = "woo_insert" /\ Goto(h, "woo_site")
    /\ minted' = minted + 1
    /\ active' = active \cup {minted + 1}
    /\ UNCHANGED <<guardVars, mode, Rows, signed, read, ops>>

\* Slip: the UPDATE of the site has no condition on its status.
RotatedStatus_always == "pending"

RotatedStatus == IF status = "disconnected" THEN status ELSE "pending"

Rotated(h) ==
    /\ \/ pc[h] = "rot_plugin" /\ plugin' = "pending" /\ UNCHANGED status
          /\ Goto(h, "rot_site")
       \/ pc[h] = "rot_site" /\ status' = RotatedStatus /\ UNCHANGED plugin
          /\ Finish(h)
    /\ UNCHANGED <<guardVars, mode, conn, Credential, signed, read, ops>>

Verified(h) ==
    /\ \/ pc[h] = "woo_site" /\ status' = "connected" /\ UNCHANGED conn
          /\ Goto(h, "woo_connection")
       \/ pc[h] = "woo_connection" /\ conn' = "verified" /\ UNCHANGED status
          /\ Finish(h)
    /\ UNCHANGED <<guardVars, mode, plugin, Credential, signed, read, ops>>

Working == {h \in Handlers : pc[h] # Idle}

\* The status read goes back, or "pending" when the host of the address changed:
\* an edit can disconnect a site that was connected again meanwhile.
WriteSettings(h) ==
    /\ pc[h] = "settings"
    /\ status' \in {read[h], "pending"}
    /\ pc' = [pc EXCEPT ![h] = Idle]
    /\ before' = (IF status # status' /\ status' = "disconnected" THEN Working ELSE before) \ {h}
    /\ UNCHANGED <<guardVars, mode, conn, plugin, Credential, signed, read, ops>>

\* Slip: the row is written whether or not it exists.
RevokedPlugin_upsert == "revoked"

RevokedPlugin == IF plugin = "absent" THEN "absent" ELSE "revoked"

disconnectSite ==
    /\ ops < MaxOps /\ ops' = ops + 1
    /\ active' = {}
    /\ conn' = "revoked"
    /\ plugin' = RevokedPlugin
    /\ status' = "disconnected"
    /\ before' = Working
    /\ UNCHANGED <<guardVars, mode, minted, signed, pc, read>>

\* updateOnboardingStatusAdmin: the team marks the request that created the site
\* as delivered; UPDATE site has no other condition.
AdminDelivers ==
    /\ ops < MaxOps /\ ops' = ops + 1
    /\ status' = "connected"
    /\ UNCHANGED <<guardVars, mode, conn, plugin, Credential, signed, pc, read, before>>

\* The process is killed between two statements of h.
RequestDies(h) ==
    /\ pc[h] # Idle
    /\ IF holds[h] # None THEN Refuse(h) ELSE UNCHANGED guardVars
    /\ Finish(h)
    /\ UNCHANGED <<mode, Rows, Credential, signed, read, ops>>

Passes == (Tick \/ pruneExpiredNonces) /\ UNCHANGED siteVars

Next ==
    \/ \E m \in Messages : Sign(m) \/ \E h \in Handlers : Receive(h, m)
    \/ \E h \in Handlers :
        \/ CheckSite(h) \/ CheckPlugin(h) \/ CheckSignature(h) \/ CheckNonce(h)
        \/ Handshake(h)
        \/ rotatePluginSigningSecret(h) \/ verifyWooConnection(h) \/ updateSiteSettings(h)
        \/ Revoke(h) \/ Insert(h) \/ Rotated(h) \/ Verified(h) \/ WriteSettings(h)
        \/ RequestDies(h)
    \/ disconnectSite \/ AdminDelivers \/ Passes

Spec == Init /\ [][Next]_vars

-----------------------------------------------------------------------------
PCs == {Idle, "check_site", "check_plugin", "check_signature", "nonce", "hs_plugin",
        "hs_connection", "hs_site", "rot_revoke", "rot_insert", "rot_plugin", "rot_site",
        "woo_revoke", "woo_insert", "woo_site", "woo_connection", "settings"}

SiteStatus == {"pending", "connected", "disconnected"}

TypeOK ==
    /\ GuardTypeOK
    /\ mode \in {"plugin", "woo_rest"} /\ status \in SiteStatus
    /\ conn \in {"pending", "verified", "revoked"}
    /\ plugin \in IF mode = "plugin" THEN {"pending", "connected", "revoked"} ELSE {"absent"}
    /\ minted \in 0 .. MaxSecrets /\ active \subseteq 1 .. minted
    /\ signed \in [Messages -> 0 .. MaxSecrets]
    /\ pc \in [Handlers -> PCs] /\ read \in [Handlers -> SiteStatus]
    /\ before \subseteq Handlers /\ ops \in 0 .. MaxOps

Inserting == {h \in Handlers : pc[h] \in {"rot_insert", "woo_insert"}}

\* The revocation and the insertion of a credential are two statements, and
\* requests that overlap leave several active.  There are never more than the
\* requests that were under way at once; one at a time leaves one.
SecretsBounded == Cardinality(active) + Cardinality(Inserting) <= Cardinality(Handlers)

\* A disconnected site comes back only by a handler that was at work when it
\* became disconnected, by a new address, by the administrator or by new
\* REST credentials: never by a signed request that arrives afterwards, nor by a
\* rotation or an edit of the name begun afterwards.
ReturnExplained ==
    status = "disconnected" /\ status' # "disconnected" =>
        \/ \E h \in before : pc'[h] # pc[h]
        \/ status' = "pending" /\ \E h \in Handlers : pc[h] = "settings" /\ pc'[h] = Idle
        \/ status' = "connected" /\ pc' = pc /\ ops' = ops + 1
        \/ \E h \in Handlers : pc[h] = "woo_site" /\ pc'[h] = "woo_connection"

ReturnsExplained == [][ReturnExplained]_vars
=============================================================================
