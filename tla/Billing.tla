------------------------------- MODULE Billing -------------------------------
(***************************************************************************)
(* Platform billing of services/api: checkout, /billing/verify, the payment *)
(* webhook and the settlement they share.                                   *)
(*                                                                         *)
(* A request is an Express handler: every await is a point where another   *)
(* request may run, so each action ends at an await.  A row of a table is  *)
(* an entry of a function or a set; the settlement transaction runs under  *)
(* READ COMMITTED, holds its billing_event key and its payment_attempt row *)
(* until it ends, and shows its writes only at COMMIT.                     *)
(*                                                                         *)
(* The plan and the amount of a payment are those of its attempt, so a     *)
(* subscription or a merchant record names the attempt it reflects.  A     *)
(* commission also carries the event that paid it: the column does not     *)
(* exist in the database, nothing reads it, it is there for the properties.*)
(***************************************************************************)
EXTENDS Naturals, FiniteSets, Sequences

CONSTANTS
    Tenants, Attempts, Owner, Referred,
    Requests,       \* handlers that may be in flight at a time
    Provider,       \* BILLING_PROVIDER
    Outcomes,       \* payment outcomes the provider sends webhooks about
    LastMonth,      \* bound on the months that pass
    MaxFailures,    \* bound on the deaths that can be told apart
    NoAttempt

ASSUME BillingAssumption ==
    /\ Owner \in [Attempts -> Tenants]
    /\ Referred \subseteq Tenants
    /\ Provider \in {"manual", "mock", "zarinpal"}
    /\ Outcomes \subseteq {"paid", "failed"}
    /\ LastMonth \in Nat \ {0}
    /\ MaxFailures \in Nat
    /\ NoAttempt \notin Attempts

VARIABLES
    attempt,        \* payment_attempt.status, "absent" before the INSERT
    gateway,        \* what the customer did at the provider
    billingEvent,   \* billing_event rows, by (provider, provider_event_ref)
    webhookEvent,   \* webhook_event.status of the payment's idempotency key
    subscription,   \* subscription rows of a tenant, oldest first
    mrr,            \* payment that merchant.mrr_amount reflects
    commission,     \* commission rows
    month,          \* current calendar month, the commission period
    pc,             \* where each request is
    job,            \* what each request works on
    sawSub,         \* whether its transaction found a subscription row
    died            \* events of which a request died, and whether it owed a commission

database == <<attempt, billingEvent, webhookEvent, subscription, mrr, commission>>
vars == <<database, gateway, month, pc, job, sawSub, died>>

------------------------------------------------------------------------------
EventKeys == [via : {"verify", "webhook"}, attempt : Attempts]
Commissions == [tenant : Tenants, month : 1..LastMonth, event : EventKeys]
NoJob == [via |-> "none", attempt |-> NoAttempt]

AttemptStatus == {"absent", "pending", "requires_action", "paid", "failed"}
WebhookStatus == {"absent", "received", "ignored", "processed"}
InTransaction == {"inserted", "locked"}
PCs == {"idle", "verifying", "overwriting", "ignoring", "matching", "settling",
        "crediting", "finishing"} \cup InTransaction

TypeOK ==
    /\ attempt \in [Attempts -> AttemptStatus]
    /\ gateway \in [Attempts -> {"open", "paid", "failed"}]
    /\ billingEvent \subseteq EventKeys
    /\ webhookEvent \in [Attempts -> WebhookStatus]
    /\ subscription \in [Tenants -> Seq(Attempts)]
    /\ mrr \in [Tenants -> Attempts \cup {NoAttempt}]
    /\ commission \subseteq Commissions
    /\ month \in 1..LastMonth
    /\ pc \in [Requests -> PCs]
    /\ job \in [Requests -> EventKeys \cup {NoJob}]
    /\ sawSub \in [Requests -> BOOLEAN]
    /\ died \subseteq [event : EventKeys, owing : BOOLEAN]

Init ==
    /\ attempt = [a \in Attempts |-> "absent"]
    /\ gateway = [a \in Attempts |-> "open"]
    /\ billingEvent = {}
    /\ webhookEvent = [a \in Attempts |-> "absent"]
    /\ subscription = [t \in Tenants |-> <<>>]
    /\ mrr = [t \in Tenants |-> NoAttempt]
    /\ commission = {}
    /\ month = 1
    /\ pc = [r \in Requests |-> "idle"]
    /\ job = [r \in Requests |-> NoJob]
    /\ sawSub = [r \in Requests |-> FALSE]
    /\ died = {}

------------------------------------------------------------------------------
(* Helpers: moving a request along, and ending it. *)

Goto(r, where) ==
    /\ pc' = [pc EXCEPT ![r] = where]
    /\ UNCHANGED <<job, sawSub>>

Start(r, where, work) ==
    /\ pc[r] = "idle"
    /\ pc' = [pc EXCEPT ![r] = where]
    /\ job' = [job EXCEPT ![r] = work]
    /\ UNCHANGED sawSub

Return(r) ==
    /\ pc' = [pc EXCEPT ![r] = "idle"]
    /\ job' = [job EXCEPT ![r] = NoJob]
    /\ sawSub' = [sawSub EXCEPT ![r] = FALSE]

\* Slip: the webhook handler answers without recording a final status.
SettleReturns_noStatus(r) == Return(r)

\* settlePaidPayment returned: /verify answers, the webhook records its status.
SettleReturns(r) ==
    IF job[r].via = "verify" THEN Return(r) ELSE Goto(r, "finishing")

ExternalUnchanged == UNCHANGED <<gateway, month, died>>

------------------------------------------------------------------------------
(* The world around the API. *)

\* The customer leaves the provider's page having paid, or not.
CustomerDecides(a, outcome) ==
    /\ attempt[a] # "absent"
    /\ gateway[a] = "open"
    /\ gateway' = [gateway EXCEPT ![a] = outcome]
    /\ UNCHANGED <<database, month, pc, job, sawSub, died>>

MonthEnds ==
    /\ month < LastMonth
    /\ month' = month + 1
    /\ UNCHANGED <<database, gateway, pc, job, sawSub, died>>

------------------------------------------------------------------------------
(* Checkout. *)

\* The driver is taken to hand plan.price_minor over as a number:
\* createCheckout refuses an amount that is not a JavaScript integer.
Checkout(a) ==
    /\ attempt[a] = "absent"
    /\ attempt' = [attempt EXCEPT ![a] =
                     IF Provider = "manual" THEN "pending" ELSE "requires_action"]
    /\ UNCHANGED <<gateway, billingEvent, webhookEvent, subscription, mrr,
                   commission, month, pc, job, sawSub, died>>

------------------------------------------------------------------------------
(* POST /billing/verify. *)

VerifyRead(r, a) ==
    /\ attempt[a] \notin {"absent", "paid"}
    /\ Start(r, "verifying", [via |-> "verify", attempt |-> a])
    /\ UNCHANGED <<database, gateway, month, died>>

\* The early return: the attempt is already paid, nothing is written.
VerifyAlreadyPaid(r, a) ==
    /\ pc[r] = "idle"
    /\ attempt[a] = "paid"
    /\ UNCHANGED vars

\* Slip: a payment that is not known as failed is taken for made.
VerifyResults_notFailed(a) == IF gateway[a] = "failed" THEN {"failed"} ELSE {"paid"}

\* What verifyPayment may report of the payment.  Zarinpal's answer is read for
\* its code alone: a payment that is not (yet) made, an error status and a body
\* that cannot be parsed all count as failed.
VerifyResults(a) ==
    CASE Provider = "mock" -> {"paid"}
      [] Provider = "manual" -> {"pending"}
      [] OTHER -> {"failed"} \cup (IF gateway[a] = "paid" THEN {"paid"} ELSE {})

GatewayAnswers(r) ==
    /\ pc[r] = "verifying"
    /\ \E result \in VerifyResults(job[r].attempt) :
          Goto(r, IF result = "paid" THEN "settling" ELSE "overwriting")
    /\ UNCHANGED <<database, gateway, month, died>>

GatewayUnreachable(r) ==
    /\ pc[r] = "verifying"
    /\ Provider = "zarinpal"
    /\ Return(r)
    /\ UNCHANGED <<database, gateway, month, died>>

\* The UPDATE names the attempt by id only; it waits for a settlement that
\* holds the row, and then writes over whatever that settlement left.
VerifyOverwrite(r) ==
    LET a == job[r].attempt
    IN  /\ pc[r] = "overwriting"
        /\ \A q \in Requests : ~(pc[q] = "locked" /\ job[q].attempt = a)
        /\ attempt' = [attempt EXCEPT ![a] =
                         IF Provider = "manual" THEN "pending" ELSE "failed"]
        /\ Return(r)
        /\ ExternalUnchanged
        /\ UNCHANGED <<billingEvent, webhookEvent, subscription, mrr, commission>>

------------------------------------------------------------------------------
(* POST /webhooks/payment/:provider. *)

\* recordEvent inserts the idempotency key, for a signature that does not verify
\* as well; only a new key goes on.  What verifies comes from the provider,
\* about a payment that was decided; the rest may come at any time.
WebhookReceive(r, a, verified) ==
    /\ verified => gateway[a] \in Outcomes
    /\ webhookEvent[a] = "absent"
    /\ Start(r, IF verified THEN "matching" ELSE "ignoring",
             [via |-> "webhook", attempt |-> a])
    /\ webhookEvent' = [webhookEvent EXCEPT ![a] = "received"]
    /\ ExternalUnchanged
    /\ UNCHANGED <<attempt, billingEvent, subscription, mrr, commission>>

\* A key that was seen before is answered "deduped", whatever became of it.
WebhookDeduped(r, a) ==
    /\ pc[r] = "idle"
    /\ webhookEvent[a] # "absent"
    /\ UNCHANGED vars

WebhookFinish(r, where, status) ==
    /\ pc[r] = where
    /\ webhookEvent' = [webhookEvent EXCEPT ![job[r].attempt] = status]
    /\ Return(r)
    /\ ExternalUnchanged
    /\ UNCHANGED <<attempt, billingEvent, subscription, mrr, commission>>

\* Slip: a status outside the table's CHECK constraint.
WebhookIgnored_badStatus(r) == WebhookFinish(r, "ignoring", "skipped")

WebhookIgnored(r) == WebhookFinish(r, "ignoring", "ignored")
WebhookProcessed(r) == WebhookFinish(r, "finishing", "processed")

\* Slip: the webhook is marked processed without being settled when the
\* attempt is not waiting for the customer any more.
WebhookMatch_onlyOpen(r) ==
    /\ pc[r] = "matching"
    /\ Goto(r, IF attempt[job[r].attempt] = "requires_action" THEN "settling" ELSE "finishing")
    /\ UNCHANGED <<database, gateway, month, died>>

\* The attempt is looked up by its reference alone: neither its status nor the
\* outcome the webhook reports is looked at.
WebhookMatch(r) ==
    /\ pc[r] = "matching"
    /\ Goto(r, IF attempt[job[r].attempt] = "absent" THEN "finishing" ELSE "settling")
    /\ UNCHANGED <<database, gateway, month, died>>

------------------------------------------------------------------------------
(* settlePaidPayment. *)

\* Slip: the INSERT does not look for a row with the same key.
SettleInsert_noConflict(r) ==
    /\ pc[r] = "settling"
    /\ Goto(r, "inserted")
    /\ UNCHANGED <<database, gateway, month, died>>

\* BEGIN and INSERT billing_event ON CONFLICT DO NOTHING: the INSERT waits for
\* a transaction that holds the same key, and a committed key ends the work.
SettleInsert(r) ==
    /\ pc[r] = "settling"
    /\ \A q \in Requests : ~(pc[q] \in InTransaction /\ job[q] = job[r])
    /\ IF job[r] \in billingEvent THEN SettleReturns(r) ELSE Goto(r, "inserted")
    /\ UNCHANGED <<database, gateway, month, died>>

\* Slip: the subscription is not looked up, every settlement inserts one.
SettleLock_insertsAlways(r) ==
    LET a == job[r].attempt
    IN  /\ pc[r] = "inserted"
        /\ \A q \in Requests : ~(pc[q] = "locked" /\ job[q].attempt = a)
        /\ Goto(r, "locked")
        /\ UNCHANGED <<database, gateway, month, died>>

\* UPDATE payment_attempt takes the row; then the subscription is looked up.
SettleLock(r) ==
    LET a == job[r].attempt
    IN  /\ pc[r] = "inserted"
        /\ \A q \in Requests : ~(pc[q] = "locked" /\ job[q].attempt = a)
        /\ pc' = [pc EXCEPT ![r] = "locked"]
        /\ sawSub' = [sawSub EXCEPT ![r] = subscription[Owner[a]] # <<>>]
        /\ UNCHANGED <<database, gateway, month, job, died>>

\* A renewal rewrites the newest row the transaction found.  Rows inserted by
\* transactions that overlapped may carry either order of created_at.
Renewed(rows, a, found) ==
    IF found THEN {[rows EXCEPT ![i] = a] : i \in DOMAIN rows}
             ELSE {Append(rows, a)}

\* Slip: the billing event is committed on its own, before the rest.
SettleCommit_eventFirst(r) ==
    /\ pc[r] = "locked"
    /\ billingEvent' = billingEvent \cup {job[r]}
    /\ Goto(r, "crediting")
    /\ ExternalUnchanged
    /\ UNCHANGED <<attempt, webhookEvent, subscription, mrr, commission>>

\* The rest of the transaction and its COMMIT.
SettleCommit(r) ==
    LET a == job[r].attempt
        t == Owner[a]
    IN  /\ pc[r] = "locked"
        /\ billingEvent' = billingEvent \cup {job[r]}
        /\ attempt' = [attempt EXCEPT ![a] = "paid"]
        /\ \E rows \in Renewed(subscription[t], a, sawSub[r]) :
              subscription' = [subscription EXCEPT ![t] = rows]
        /\ mrr' = [mrr EXCEPT ![t] = a]
        /\ Goto(r, "crediting")
        /\ ExternalUnchanged
        /\ UNCHANGED <<webhookEvent, commission>>

\* Slip: only payments confirmed by /verify are credited.
CreditCommission_verifyOnly(r) ==
    LET t == Owner[job[r].attempt]
        due == t \in Referred /\ job[r].via = "verify"
        row == [tenant |-> t, month |-> month, event |-> job[r]]
    IN  /\ pc[r] = "crediting"
        /\ commission' = IF due THEN commission \cup {row} ELSE commission
        /\ SettleReturns(r)
        /\ ExternalUnchanged
        /\ UNCHANGED <<attempt, billingEvent, webhookEvent, subscription, mrr>>

\* generateCommissionForPayment, after the COMMIT and outside the transaction:
\* the period is the month it runs in, one row per referral and period.
CreditCommission(r) ==
    LET t == Owner[job[r].attempt]
        due == t \in Referred /\ \A c \in commission : ~(c.tenant = t /\ c.month = month)
        row == [tenant |-> t, month |-> month, event |-> job[r]]
    IN  /\ pc[r] = "crediting"
        /\ commission' = IF due THEN commission \cup {row} ELSE commission
        /\ SettleReturns(r)
        /\ ExternalUnchanged
        /\ UNCHANGED <<attempt, billingEvent, webhookEvent, subscription, mrr>>

------------------------------------------------------------------------------
\* A statement fails or the process dies: the transaction, if one is open,
\* rolls back; what was committed before stays.
RequestDies(r) ==
    /\ pc[r] # "idle"
    /\ died' = died \cup {[event |-> job[r], owing |-> pc[r] = "crediting"]}
    /\ Cardinality(died') <= MaxFailures
    /\ Return(r)
    /\ UNCHANGED <<database, gateway, month>>

Arrive(r) ==
    \E a \in Attempts :
        \/ VerifyRead(r, a)
        \/ VerifyAlreadyPaid(r, a)
        \/ \E verified \in BOOLEAN : WebhookReceive(r, a, verified)
        \/ WebhookDeduped(r, a)

Proceed(r) ==
    \/ GatewayAnswers(r)
    \/ GatewayUnreachable(r)
    \/ VerifyOverwrite(r)
    \/ WebhookIgnored(r)
    \/ WebhookMatch(r)
    \/ WebhookProcessed(r)
    \/ SettleInsert(r)
    \/ SettleLock(r)
    \/ SettleCommit(r)
    \/ CreditCommission(r)

Next ==
    \/ \E r \in Requests : Arrive(r) \/ Proceed(r) \/ RequestDies(r)
    \/ \E a \in Attempts : Checkout(a)
    \/ \E a \in Attempts, outcome \in {"paid", "failed"} : CustomerDecides(a, outcome)
    \/ MonthEnds

Spec == Init /\ [][Next]_vars

------------------------------------------------------------------------------
(* Safety. *)

\* A billing event pays at most one commission, however often the provider or
\* the merchant retries and whatever month the retry falls in
\* (settlePaidPayment skips the commission of an event it did not insert).
EventPaysOnce ==
    \A c, d \in commission : c.event = d.event => c = d

\* A settlement is all or nothing: an event is on record exactly when its
\* tenant has a subscription and billing figures, and those name a payment
\* that an event on record settled (the transaction of settlePaidPayment).
NoTornSettlement ==
    LET settledAttempts == {k.attempt : k \in billingEvent}
    IN  \A t \in Tenants :
          /\ (\E a \in settledAttempts : Owner[a] = t) <=> subscription[t] # <<>>
          /\ subscription[t] # <<>> <=> mrr[t] # NoAttempt
          /\ \A i \in DOMAIN subscription[t] : subscription[t][i] \in settledAttempts
          /\ mrr[t] \in settledAttempts \cup {NoAttempt}

\* What lets a channel settle an event: the provider's answer that the payment
\* was made, or a webhook about it.
Reported(k) == gateway[k.attempt] \in (IF k.via = "verify" THEN {"paid"} ELSE Outcomes)

\* What /verify settles was paid for; what a webhook settles is a payment of
\* which the provider sends webhooks, paid or not: the handler does not look at
\* the outcome that is reported.  Nothing else makes an attempt paid.
SettledAsReported ==
    /\ \A k \in billingEvent : Reported(k)
    /\ \A a \in Attempts :
          attempt[a] = "paid" => \E k \in billingEvent : k.attempt = a

\* The settlements that have found no subscription of the tenant and insert one.
Inserting(t) ==
    {r \in Requests : pc[r] = "locked" /\ ~sawSub[r] /\ Owner[job[r].attempt] = t}

\* A tenant with a subscription gets another row only from a settlement that
\* had looked for one before the first was committed; later ones renew.
LaterSettlementsRenew ==
    [][\A t \in Tenants : subscription[t] # <<>> =>
          \/ /\ Len(subscription'[t]) = Len(subscription[t])
             /\ Inserting(t)' \subseteq Inserting(t)
          \/ /\ Len(subscription'[t]) = Len(subscription[t]) + 1
             /\ \E r \in Inserting(t) : Inserting(t)' = Inserting(t) \ {r}]_vars

\* A webhook is marked processed only after its payment was settled under the
\* webhook's own key, so a redelivery that is deduplicated against a processed
\* event loses nothing.
ProcessedMeansSettled ==
    \A a \in Attempts :
        webhookEvent[a] = "processed" => [via |-> "webhook", attempt |-> a] \in billingEvent

\* A webhook that is recorded and not yet handled is being handled, or the
\* request that did died: as its key is taken, nobody will take it up again.
ReceivedIsInHand ==
    \A a \in Attempts :
        LET event == [via |-> "webhook", attempt |-> a]
        IN  webhookEvent[a] = "received" =>
                \/ \E r \in Requests : pc[r] # "idle" /\ job[r] = event
                \/ \E d \in died : d.event = event

\* A settled payment of a referred tenant has brought its referrer a commission,
\* for its own event or another one of the tenant, or is about to; unless the
\* request died between the COMMIT and the commission.  (A retry of the event
\* does not make up for that, as its key is taken.)
SettlementEarnsCommission ==
    \A k \in billingEvent : Owner[k.attempt] \in Referred =>
        \/ \E c \in commission : c.tenant = Owner[k.attempt]
        \/ \E r \in Requests : pc[r] = "crediting" /\ job[r] = k
        \/ [event |-> k, owing |-> TRUE] \in died

\* Every step of billing is a step of the ledger it promises, or changes
\* nothing in it.
Ledger == INSTANCE BillingLedger WITH settled <- billingEvent, paid <- commission
LedgerSpec == Ledger!Spec

\* A payment pays its referrer once ("retried/duplicate billing events never
\* double-pay", commission.ts).
PaymentPaysOnce ==
    \A c, d \in commission : c.event.attempt = d.event.attempt => c = d

------------------------------------------------------------------------------
(* The inductive invariant behind EventPaysOnce, LedgerSpec and              *)
(* ProcessedMeansSettled: what is true of a request between its await points. *)

\* A request that is under way works on a payment event.
BusyHasJob == \A r \in Requests : pc[r] # "idle" => job[r] \in EventKeys

\* An open transaction holds a key nobody has committed, and nobody else holds.
KeyIsHeld ==
    \A r \in Requests : pc[r] \in InTransaction =>
        /\ job[r] \notin billingEvent
        /\ \A q \in Requests : pc[q] \in InTransaction /\ job[q] = job[r] => q = r

\* A request about to credit a commission is the only one to do so for its
\* event, which is on record and has paid nothing yet.
CreditIsOwned ==
    \A r \in Requests : pc[r] = "crediting" =>
        /\ job[r] \in billingEvent
        /\ \A c \in commission : c.event # job[r]
        /\ \A q \in Requests : pc[q] = "crediting" /\ job[q] = job[r] => q = r

CommissionsAreBacked == \A c \in commission : c.event \in billingEvent

\* Nobody pays, and no webhook comes, for a payment without an attempt row.
DecidedHasAttempt == \A a \in Attempts : gateway[a] # "open" => attempt[a] # "absent"

\* A webhook request that goes on has an attempt row, and one that is about to
\* record "processed" was settled.
WebhookHasAttempt ==
    \A r \in Requests :
        /\ pc[r] \notin {"idle", "ignoring"} => attempt[job[r].attempt] # "absent"
        /\ pc[r] = "finishing" => job[r].via = "webhook" /\ job[r] \in billingEvent
        /\ pc[r] \in {"ignoring", "matching"} => job[r].via = "webhook"

\* What is asked of the provider is asked by /verify: what ReceivedIsInHand needs.
AskedByVerify ==
    \A r \in Requests : pc[r] \in {"verifying", "overwriting"} => job[r].via = "verify"

\* What the settlement path works on was reported so: what SettledAsReported needs.
SettlingIsReported ==
    \A r \in Requests :
        pc[r] \in {"matching", "settling"} \cup InTransaction => Reported(job[r])

IInv ==
    /\ TypeOK
    /\ BusyHasJob
    /\ KeyIsHeld
    /\ CreditIsOwned
    /\ CommissionsAreBacked
    /\ EventPaysOnce
    /\ DecidedHasAttempt
    /\ WebhookHasAttempt
    /\ ProcessedMeansSettled

==============================================================================
