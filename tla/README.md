# Specifications of the commerce platform

TLA+ specifications of the platform in this repository: the API that merchants,
marketers and administrators use (`services/api`, TypeScript on Express and
PostgreSQL) and the WordPress plugin that feeds it from a store
(`wordpress-plugin`, PHP). TLC checks them on small instances; TLAPS proves every
safety property that the passing runs check, for every value of the constants.

Paths below are relative to the repository root.

| Component | Modules | Checked by | Proved in |
|---|---|---|---|
| Platform billing | `Billing`, `BillingLedger` | `MCBilling` with two configurations | `BillingProofs` |
| Plugin chunked sync | `PluginSync` | `MCPluginSync` with two | `PluginSyncProofs` |
| Plugin event delivery | `PluginEvents` | `MCPluginEvents` with two | `PluginEventsProofs` |
| One-time codes | `OtpCode` | `MCOtpCode` with two | `OtpCodeProofs` |
| Sessions and suspension, portal client | `Sessions`, `PortalSession` composed on it | `MCPortalSession` | `PortalSessionProofs` |
| Plugin transport, site connection | `ReplayGuard`, `SiteConnection` composed on it | `MCSiteConnection` | `SiteConnectionProofs` |
| Site sync over REST, WooCommerce webhooks | `SiteSync` | `SiteSync` | `SiteSyncProofs` |
| Commission balance and payouts | `Payouts` | `MCPayouts` | `PayoutsProofs` |

To check a run: `tlc -config BillingOneBuyer.cfg MCBilling`. To check the proofs:
`tlapm BillingProofs.tla`. `PROJECT.json` maps every definition to the lines it
translates, and lists the runs, the mutants, the hazards and the theorems.

## 1. The system

### How the parts meet

```
 customer ──> payment provider ──webhook──┐
 merchant ──> portal ──checkout, verify──> API ──commission──> marketer ──payout
                 │                         │ ▲
                 └──login, refresh, logout─┘ │ /plugin/sync, /plugin/events (signed)
                                           │ │
        WooCommerce REST <──sync, writes───┘ └── plugin (hooks and cron in WordPress)
                 └──────────webhooks────────────> API
```

Concurrency has two sources, and they shape every module.

*The API* is one or more Node processes. A handler gives up control at every
`await`, so any other handler may run between two of its statements. Apart from
a few explicit transactions each statement is a transaction of its own, under
READ COMMITTED. A handler therefore becomes a sequence of actions that end at an
`await`, with a `pc` per handler. A handler may also die between two
statements, and what it committed stays.

*The plugin* is a set of PHP processes: shop requests, administrator requests,
cron runs. They share WordPress options, which are read, held in the memory of the
process, and written back whole. There are no locks and no transactions, and an HTTP
request of up to a minute may lie between a read and a write.

### Inventory

| Component | State | Operations | What is hard | What makes it correct |
|---|---|---|---|---|
| **Platform billing** (`http/routes/billing.ts`, `webhooks.ts:153-222`, `services/billing/gateway.ts`, `commission.ts`) | `payment_attempt`, `billing_event`, `webhook_event`, `subscription`, `merchant.mrr_amount`, `commission` | checkout, verify, provider webhook, settlement | the same payment arrives by two channels; retries cross a month; a request dies after the COMMIT | an event pays once; a settlement is whole; what settles was reported; a processed webhook was settled; a settled payment earns a commission |
| **Plugin chunked sync** (`class-wcos-sync-*.php`, `plugin/ingest.ts`) | options for the queue and per-entity cursors; scheduled hooks; synced tables | start, run a chunk, retry, ingest | restarts while a worker is in a request; lost answers; ingest without a transaction; a store that cannot be read | no gap behind a cursor; an entity leaves the queue when it is ingested; a sync ends |
| **Plugin event delivery** (`class-wcos-event-*.php`, `ingest.ts:347-365`) | one option with up to 200 events; scheduled hooks; `plugin_event` | capture, cap, clear, deliver, remove | write-back of stale copies; lost answers; orphaned requests | only recorded events are removed as delivered; none is queued twice; the queue drains; none is lost |
| **One-time codes** (`otpService.ts`) | `otp_code` rows of a mobile | request, verify | limits are checked one or two awaits before the write they permit | hourly quota, cooldown, attempts, single use |
| **Sessions and suspension** (`tokenService.ts`, `routes/auth.ts`, `routes/admin.ts:104-132`) | `user_session`, `app_user.status`, `merchant.status` | login, refresh, logout, expiry, suspend, reactivate | a refresh that straddles a suspension or a logout; two administrators at once | a suspended account's sessions are revoked; a token is used once |
| **Portal client session** (`apps/client/src/services/authApi.ts`, `httpClient.ts`, `session/`) | tokens in memory and in the browser's storage, per tab | request, refresh on 401, restore, sign out | parallel refreshes with one rotating token; an answer after sign-out; several tabs | a user is signed out only by their own act or by the server's |
| **Site connection** (`services/sites.ts`, `routes/plugin.ts`) | `site.status`, `site_connection`, `plugin_connection`, `site_credential` | start, verify, handshake, rotate, settings, disconnect | unconditional status writes after external calls | a disconnected site stays so; one active secret |
| **Plugin transport** (`plugin/replayGuard.ts`, `signature.ts`) | `replay_nonce` | verify a request, prune | boundary of the time window | a request is processed once |
| **Site sync over REST** (`sites.ts:492-759`, `routes/merchant.ts:376-415`) | `sync_run`, synced tables | start, pages, finish, fail, cancel a stale run | in-flight test not atomic; runs that outlive their cancellation; paging over a changing list | one run at a time; a run ends with its own status |
| **WooCommerce webhooks** (`webhooks.ts:62-151`) | `webhook_event`, synced tables | record, apply, fail | deduplication of what failed; reads applied out of order | the store's latest state wins |
| **Commission balance and payouts** (`commission.ts:49-60`, `routes/affiliate.ts`, `routes/admin.ts:230-273`) | `payout`, `commission.status` | request, approve, reject, pay | balance read before the insert; statuses set without a guard | nobody is paid more than was earned, or less |
| **Support inbox** (`supportService.ts`) | tickets, messages, two unread counters | create, reply, read, status | counter zeroed after the messages were read | the counters count unseen messages |
| **Onboarding** (`onboardingService.ts`) | requests, status events, notifications | request, status change, deliver | two administrators deliver at once | one site per request |
| **Social publishing** (`social/socialService.ts`) | channels, publish jobs, published posts | connect, test, disconnect, publish | jobs live in one process; repeated requests | a job ends; a revoked channel stays so |
| **Summary cache** (`util/cache.ts`) | entries with an expiry | load, expire, invalidate | invalidation during a load | nothing older than the last change after it |

The rest has no behaviour over time that a model could show more about than its
unit tests do: access control, encryption and redaction, the store address
guard, the SMS provider, the audit trail, the plugin's administration pages and
placeholders, the portal screens, the admin prototype (mock data), the reference
contracts in `apps/api` and `wordpress-plugin/src`, the vendored `Theme`, and
migrations and deployment. `PROJECT.json` has the reason for each.

## 2. Platform billing

### State and actions

`Billing` keeps one function or set per table. The plan and amount of a
payment are those of its attempt, so a subscription row names the attempt
it reflects. A commission also names the event that paid it; the table has no
such column, and only properties read it. The gateway (what the customer
did on the provider's page) and the calendar month are the environment.

| Action | Code |
|---|---|
| `Checkout` | `POST /billing/checkout`, `createCheckout`: refuses an amount that is not an integer |
| `VerifyRead`, `VerifyAlreadyPaid` | `POST /billing/verify`: the lookup and its early return |
| `GatewayAnswers`, `GatewayUnreachable`, `VerifyOverwrite` | the call of the provider (`VerifyResults`), and the UPDATE for an answer other than paid |
| `WebhookReceive`, `WebhookDeduped`, `WebhookIgnored` | `recordEvent` and the branches on its result and the signature |
| `WebhookMatch`, `WebhookProcessed` | the attempt looked up by reference, and the final status |
| `SettleInsert`, `SettleLock`, `SettleCommit` | the transaction of `settlePaidPayment` |
| `CreditCommission` | `generateCommissionForPayment`, after the COMMIT |
| `RequestDies` | an error or a crash between any two statements |

Two database facts are explicit. The INSERT of a `billing_event` waits for a
transaction that holds the same key (`SettleInsert`). The UPDATE of the attempt
holds the row until the end of its transaction (`SettleLock`), so a second
settlement of the payment, or the UPDATE of `/verify`, waits for it. Writes of an
open transaction are invisible: they all happen in `SettleCommit`.

What comes from outside is no better than the code takes it. `/verify` reads of the
provider's answer the code alone, so that a payment the provider holds as made can be
answered `failed`, by an error status or a body that cannot be parsed. A webhook
whose signature does not verify may come at any time, before the payment is decided
or even created: its key is recorded all the same, and the provider's own webhook with that
key is then answered as a duplicate. One that verifies comes from the provider, about
a payment that was decided.

`BillingLedger` is what billing promises, with no requests, transactions or
retries: events settle once, and pay at most one commission per event and at
most one per tenant and month. `Billing` implements it under the mapping
`settled <- billingEvent, paid <- commission`.

### Runs

| Run | Instance | Shows |
|---|---|---|
| `billing_one_buyer` | two payments of one referred tenant, made or failed, webhooks about both, two requests, two months, one dying request; 888,000 states | `EventPaysOnce`, `NoTornSettlement`, `SettledAsReported`, `ProcessedMeansSettled`, `ReceivedIsInHand`, `SettlementEarnsCommission`, `LedgerSpec`, `LaterSettlementsRenew` |
| `billing_paid_twice` | one payment, two months | **violated**: `PaymentPaysOnce` |

Two requests suffice for every race of the code: each conflict (a key, a row, a
subscription, a commission period) is between two settlements, or between a
settlement and a `/verify`. Two payments of one tenant make them compete for
the subscription; two months separate a retry from the original. One failure
is enough to leave every intermediate state behind, as each request is independent.

### Findings

* **A payment can pay two commissions.** `/verify` and the webhook use different
  keys (the gateway's reference, and `provider:event`), so each settles the payment;
  the second settlement is harmless as long as the commission's unique index on
  referral and period stops it. The period is the month in which the
  settlement runs (`billing.ts:229`): a webhook that arrives after the turn of the
  month pays again. `commission.ts:6` promises otherwise.

### What the properties say, and what they do not

* `SettledAsReported` is as much as holds of "only a paid payment settles". What
  `/verify` settles was paid for. What a webhook settles is a payment of which the
  provider sends webhooks (`Outcomes`, in the run both outcomes): the handler does not
  look at the outcome it is told, so a webhook about a failed payment settles it
  (`webhooks.ts:207`). Nothing else makes an attempt paid. The provider `mock`
  answers paid to everything, and is excluded by the theorem's assumption.
* `ReceivedIsInHand` and `SettlementEarnsCommission` are invariants that count the
  deaths. `died` remembers which event a request was working on when it died and whether it
  owed a commission then. A recorded webhook is in the hands of a request, or its
  request died, and then nobody takes it up again as its key is taken. A settled payment
  of a referred tenant has brought its referrer a commission, for its own event or another one of
  the tenant, or is about to, or its request died just between the COMMIT and the commission.
  The retry of that event finds its key taken and credits nothing; only the other channel,
  if it has not reported the payment before, makes up for it.
* `LaterSettlementsRenew`: the lookup of the subscription and its INSERT are apart
  (`billing.ts:188-208`), so two settlements can both insert. A further row comes only from
  a settlement that had looked before the first row was committed.

`Billing` has no fairness: nothing of it is a claim that something will happen.

## 3. Plugin chunked sync

### State and actions

`PluginSync` has the three options (queue, cursors, and the hooks of the
scheduler), the processes that run the chunk hook, and the backend's read
model as sets of item numbers. A worker's copy of the queue is `held`.

| Action | Code |
|---|---|
| `StartReset`, `StartQueue` | `start_full_sync_queue`, called with the full or the incremental list: cursors first, queue and schedule afterwards |
| `ReadQueue`, `ReadCursor` | the reads at the top of `run_next_chunk` |
| `PostSucceeds`, `PostFails` | the request to `/plugin/sync` with the ingest; failing before, half way or after it |
| `Advance`, `ClearCursor`, `PopEntity` | the writes after it; the queue written is the one read before |
| `WorkerDies` | PHP's time limit or a restart |

`Fetched`, `Sent` and `More` are the paging of the builder: it asks the store for pages of
`Batch + 1`, counts pages in that size, and sends `Batch` of each. What the builder
gets (`Readings`) need not be the page: it answers an empty list while WooCommerce is
inactive or when `get_terms` fails (`Blank`, at
`class-wcos-sync-builder.php:135-137`, `:147-149`, `:168-170`), and leaves out
a coupon that throws (`Patchy`, `:490-492`). `chunk` is what a worker got; what is sent
and whether there is more depend on it alone. `cut` remembers at which page an entity
was cut short this way since the latest start. `Schedule` has
both schedulers: Action Scheduler keeps every hook, WP-Cron drops one that
resembles a hook already due.

### Runs

| Run | Instance | Shows |
|---|---|---|
| `plugin_sync` | two entities, four coupons over pages of two, two workers, WP-Cron with two hooks pending, starts at any moment, one failed request, one chunk the builder gets short, one crash; 551,000 states | `ResumesWithoutGap`, `LeftQueueMeansIngested`, `SyncFinishes` |
| `plugin_sync_skips` | six coupons, one worker, no fault at all | **violated**: `FullSyncSendsAll` |

Four coupons are a page with a successor and a last one, the one category is a page
without a successor, which makes the queue move on to a second entity. A failure, a short
chunk and a crash can each hit every page, and combine on one. `overlapped`, a
history variable, says whether a start came while a sync was under way:
`LeftQueueMeansIngested` is about syncs that nothing overlaps, `ResumesWithoutGap` about all of
them, and `SyncFinishes` about behaviours without crashes in which starts come to an end.
`LeftQueueMeansIngested` has the exception that the code has: an entity may also leave
the queue at a page the builder got short, with every page before that one ingested.
A short chunk whose request failed is built anew and costs nothing.
Deadlock is not checked in `plugin_sync_skips`: a sync that is over stops.

### Finding

* **A full sync leaves items out.** The item fetched to see whether there is a
  further page belongs to the page in the store's numbering, but is not sent
  (`class-wcos-sync-builder.php:83`): with a batch of `n`, every item `n + 1`,
  `2n + 2`, … is skipped. `DEPLOYMENT.md:264-265` describes a full sync.

`ResumesWithoutGap` and `LeftQueueMeansIngested` are about pages, so they hold
beside this: what the builder puts on a page it can read arrives.

## 4. Plugin event delivery

### State and actions

`PluginEvents` has the queue option, the shop requests that append to it, the
processes that deliver from it, and the backend requests, which run on when the
plugin has stopped waiting for them. `sharedCache`, chosen at the start, says whether
the site has a persistent object cache: without one a process reads an option
from the database once, and afterwards from its own memory.

| Action | Code |
|---|---|
| `CaptureRead`, `CaptureWrite` | `WCOS_Event_Store::add_event`, cut to the newest 200 |
| `ClearEvents` | the administrator's button |
| `DeliverNothing`, `DeliverBatch` | `deliver_pending_events` and `deliver_batch`, newest first |
| `PostFails` | a time-out or an error answer; the backend request is over or goes on |
| `RemoveEvent`, `RemoveLast` | `WCOS_Event_Store::remove_event` event by event; the next run is scheduled if events are left |
| `IngestEvent`, `Answer` | `ingestEvents`, row by row, and the 2xx answer |

Events are numbered in the order in which they were captured. A removal keeps the
order of what it leaves (`Without`): what is written back is what the process
read, less one event.

### Runs

| Run | Instance | Shows |
|---|---|---|
| `plugin_events` | three events, queue of two, batches of two, two deliverers, two backend requests, with and without a shared cache, one failure; 260,000 states | `RemovedIsRecorded`, `QueuedOnce`, `QueueDrains` |
| `plugin_events_lost` | two events, one deliverer, own copies, no failure | **violated**: `NoEventLost` |

Three events and a queue of two reach the cap; batches of two make a
removal take two steps. Two deliverers with a failure cover a retry beside an
orphaned request. Deadlock is not checked: the events come to an end.

### Finding

* **Events are lost during a delivery.** `remove_event` writes back the
  queue as the process read it before its request, so an event captured in
  that minute vanishes (`class-wcos-event-deliverer.php:52`).
  `DEPLOYMENT.md:265-266` says that the plugin pushes change events.

## 5. One-time codes

`OtpCode` is one mobile number. The rows of the last hour are a sequence, newest
first, and carry their age; `Tick` is the clock, and drops the rows that the hour
leaves behind: as they are in order of age, what stays is the front of the sequence. A request handler goes
through `CheckQuota`, `CheckCooldown`, and then `StoreCode` or `SmsFails`; a
verification through `JudgeCode`, and then `CountWrong` or `Consume`. The
fields `wrong` and `logins` of a row are not columns: they count what really
happened, where `attempts` and `consumed` are what the code recorded.

`otpService.ts:4-5` promises codes that are "short-lived, attempt-limited,
single-use, and per-mobile rate-limited". Each limit is read in one statement
and used in a later one, so handlers that overlap can pass it together. For the
limits on numbers the properties state the exact extent: `QuotaHolds`, `CooldownHolds` and
`AttemptsHold` say that a limit is exceeded by no more than the handlers that run
beside the last one permitted, and for one handler at a time they are the promise
itself. The left side of each counts the handlers that hold a permission as well as
the rows, which is what keeps the bound from growing step by step.

Single use is a promise without degrees, and `SingleUse` is that promise: no code
logs in twice. What the code keeps of it is `UsedCodeIsSpent`, an action property:
once a code has let somebody in no further verification finds it right, and those that had
found it right before that let in once each. So a second login is always one that overlapped the
first, never one that began after it.

| Run | Instance | Shows |
|---|---|---|
| `otp_code_safe` | two requests and two verifications at a time, quota of two, cooldown of one tick, life of two, hour of three; 76,000 states | `QuotaHolds`, `CooldownHolds`, `AttemptsHold`, `UsedCodeIsSpent` |
| `otp_code_reused` | one request, two verifications | **violated**: `SingleUse` |

More codes can be asked for than the quota allows, within the hour, and outlive each other.

### Finding

* **A code can log in twice.** Two verifications read the row while it is unused, both
  find the code right, and the UPDATE of each marks it used without asking whether it is
  already (`otpService.ts:121`).

## 6. Sessions, suspension and the portal client

### The server

`Sessions` is one user. A session stands for its refresh token, and `parent` says which
session a refresh minted it from. Request handlers log in
(`LoginCheck`, `MintSession`) or refresh (`FindSession`, `CheckUser`,
`RevokeOld`, `MintSession`); `SessionEnds` is a logout or an expiry; status handlers
suspend and then revoke (`SuspendAccount`, `RevokeAll`), or reactivate
(`ActivateAccount`). Their first statement writes `merchant.status`, which no other
handler looks at, and is left out.

* `SuspensionSweeps`: a suspended account had its sessions revoked after it was
  suspended, or a handler is about to. Two administrators who suspend and
  reactivate at once make this less than obvious.
* `StragglersOnly`: after that, sessions can be live or still come only from
  requests that had seen an active account; they never multiply.
* `BoundedSuccessors`: a token is rotated at most as often as refreshes of it
  overlapped.

### The tabs

`PortalSession` extends `Sessions` by what happens in the browser. Tabs share one
stored token (`localStorage`), but each has read it once, when it was loaded, and
goes on with its own copy in `memory`. A call of the portal (`call[r]`) is carried
out by request `r` of `Sessions`; requests without a call are other devices.

| Action | Code |
|---|---|
| `SignIn`, `Unauthorized`, `Load` | a login, `refreshSession` on a 401, the restore at page load |
| `SignOut` | `logoutSession`: the tokens are cleared at once, the server is told afterwards |
| `Deliver`, `NetworkFails` | `setSessionTokens` or `clearSessionTokens`, whenever the answer comes |
| `ServeLogin`, `ServeRefresh`, `ServeLogout`, `Proceed` | the handlers of `Sessions`, which answer the call where they end |
| `Elsewhere` | other devices, expiry, administrators |

`PortalSpec` implements `Sessions!Spec` (proved), so the guarantees above hold
whatever the tabs do. Of the client itself:

* `StoredIsUsable`: what a reload would restore is never a token that some refresh
  has used up, in whatever order two tabs' answers arrive, except while the answer
  is awaited, or when the tab was reloaded before it came (`lost`).
* `SignedOutStays`: a tab where the user signed out gets no tokens from anything
  begun afterwards. The converse is a behaviour of the code, and of the model: a refresh
  that was under way brings the session back (`late`).

A request that reaches the server only after its tab has given it up is left out.

The run `portal_session` has two tabs, two requests, two administrators and three
sessions; 1.6 million states. Three sessions are a login and two refreshes: in
sequence, or of one token by both tabs. Two requests are a refresh of each tab, a
refresh and a logout, or a refresh and a login from another device. Deadlock is not
checked: sessions come to their bound. Access tokens are not modelled: they stay
valid until they expire, whatever becomes of the session.

## 7. Signed requests and the connection of a site

### The replay guard

`ReplayGuard` is `verifyRequest` as far as it keeps a request from counting twice. A
message is a signed request: its timestamp and nonce are fixed when it is signed, and
the network delivers it as often as it likes. `Arrive` tests the timestamp,
`consumeNonce` inserts the nonce after several awaits, `pruneExpiredNonces` deletes
old ones. `ProcessedOnce` is not a matter of the unique index alone: the nonce is
deleted again, and a copy that passed the time test could come after that. It
holds because nonces are kept for twice the skew, as long as the lead of a store's
clock and the time a request spends before its INSERT do not exceed the skew
together (`SkewCoversDelays`; the code has no such limit, and 300 seconds make it so).

### The site

`SiteConnection` extends it by the rows of one site: `status`, `conn`, `plugin`, the
credentials (`minted`, `active`), and one `pc` per handler. Only `disconnectSite` is
a transaction; it is one action.

| Action | Code |
|---|---|
| `Sign`, `Receive`, `CheckSite`, `CheckPlugin`, `CheckSignature`, `CheckNonce`, `Handshake` | the signed requests of `http/routes/plugin.ts`; a handshake goes on to write three rows |
| `rotatePluginSigningSecret`, `Revoke`, `Insert`, `Rotated` | the rotation, statement by statement |
| `verifyWooConnection`, `Revoke`, `Insert`, `Verified` | new REST credentials, after the store has accepted them |
| `updateSiteSettings`, `WriteSettings` | an edit: the status read before the address was resolved is written back |
| `disconnectSite`, `AdminDelivers` | the disconnection; the delivery of an onboarding request, which sets the site connected |
| `RequestDies`, `Passes` | a process killed between two statements; time, and the deletion of nonces |

* `SecretsBounded`: rotations that overlap leave several secrets active, but no more
  than requests under way at once.
* `ReturnsExplained`, an action property: a disconnected site comes back only
  through a handler that was at work when it was disconnected (`before`), a changed
  address, the administrator, or new REST credentials. No signed request that arrives
  later brings it back, nor a rotation or an edit of the name begun later.

The run `site_connection` has one message, two handlers, three of the merchant's
requests, and a clock that runs past the life of a nonce; 1.2 million states. Two handlers are
two copies of the message, or one request overlapping another; the third
merchant request lets a disconnection follow two others. The secret of the webhooks (minted
like the others), the status `provisioning` and `last_error` are not modelled.

## 8. Site sync and webhooks

`SiteSync` is the copy of a store's list that the API keeps. One list stands for
those `syncWooSite` walks with the same loop. The store's list changes under the
walk (`AddItem`, `EditItem`, and `RemoveItem` of the item at some place): it is newest
first, so that additions shift the pages. Syncs are numbered in the order in which they
start. A background sync `k` goes through `OpenSync` (are there
credentials), `InsertRun`, `FetchPage` and `WritePage` for each page, and then
`RecordSuccess` and `MarkSite`, or `StepFails` and `RecordFailure`; `SyncDies` leaves its
row as it is. `FetchGarbage` is a 200 answer that is no list, which counts as an empty page.
The merchant's request is `PressSync` (which cancels overdue runs) and, an await
later, `CheckInFlight`; `Verified` starts a sync without looking. A webhook is
`recordEvent`, `ReadResource`, `applyWooWebhook`, or `HookFails` for good.

* `SuccessIsFresh`: a run that reports success leaves no item of the store missing,
  or older in the copy than it was when the walk began, in spite of additions, edits, a second
  sync and lost webhooks. It does not hold, and is not claimed, when an item was
  removed or an answer was unreadable meanwhile, or when somebody held older items that
  they had read before (`smooth`).
* `RunEnds`: no run is shown as running for ever. Syncs may die anywhere; what it
  takes is a merchant who keeps asking, and time.

The run `site_sync` has two syncs or a sync and a webhook, two items on pages of
one, and one edit; 389,000 states. Two items and an addition are three pages
and every shift between them; a third writer would repeat the pairs.

The failures that the optional lists (brands, attributes, coupons) swallow are left
out, and so are the rows `webhook_event` keeps afterwards, which nothing reads. What
`verifyWooConnection` writes and the sync it starts are one step here;
`SiteConnection` has the statements.

## 9. Payouts

`Payouts` is one marketer: the sums of approved and settled commissions, the payouts,
and the requests between the balance they read (`CheckBalance`) and the row they insert
(`InsertPayout`). `Decide` is the administrator's UPDATE, which names the payout
by id whatever its status is; when it says paid, `SettleCommissions` turns all
approved commissions into paid ones. Nothing in the code approves a commission, so
`ApproveCommission` is the outside. A sum of amounts is the number of minor units in it
(`Units`, `SumOf`): SQL's SUM without a fold, so that it can be reasoned about.
Amounts are positive, as `payoutSchema` has them (`affiliate.ts:96`).

`OverdraftBounded` is what the code achieves of "a marketer is paid what was earned":
payouts that are not rejected exceed the earnings by no more than one balance per
overlapping request, and what the administrator takes back from rejected.

The run `payouts` has two requests, two administrators, amounts of one and two, three
payouts; 63,000 states. Two requests overlap on one balance, and the third payout follows a
settlement. Deadlock is not checked: payouts come to their bound.

## 10. Fairness

Three modules have liveness properties, and state what they assume; the others are about safety.

* `PluginSync!FairSpec`: a hook that is due is run, and a process that runs goes
  on. `SyncFinishes` speaks of behaviours without crashes in which starts come to an end: the
  hourly start resets the cursors, so a sync longer than the interval need not end, and
  after a crash nothing schedules the next chunk until the next start. Failures are bounded.
* `PluginEvents!FairSpec`: hooks, processes and backend requests go on. Captures are not fair.
  Failures are bounded; with failures for ever the queue need not drain.
* `SiteSync!FairSpec`: half an hour passes, and the merchant asks for a sync again and
  again. Syncs and webhooks are not fair: they may stop anywhere, as a killed process does.

## 11. What is proved

| Theorem | Statement | Assumes |
|---|---|---|
| `TypeCorrect` | `Spec => []TypeOK` (Billing) | `BillingAssumption` |
| `EventPaysAtMostOnce` | `Spec => []EventPaysOnce` | the same |
| `ImplementsLedger` | `Spec => LedgerSpec` | the same |
| `ProcessedWebhookSettled` | `Spec => []ProcessedMeansSettled` | the same |
| `SettlementWasReported` | `Spec => []SettledAsReported` | also a provider other than `mock` |
| `SettlementIsNeverTorn` | `Spec => []NoTornSettlement` | `BillingAssumption` |
| `ReceivedStaysInHand` | `Spec => []ReceivedIsInHand` | the same |
| `SettlementIsCredited` | `Spec => []SettlementEarnsCommission` | the same |
| `SecondRowsOverlapped` | `Spec => LaterSettlementsRenew` | the same |
| `SyncTypeCorrect` | `Spec => []TypeOK` (PluginSync) | `PluginSyncAssumption` |
| `NoGapBehindCursor` | `Spec => []ResumesWithoutGap` | the same |
| `LeftQueueIsIngested` | `Spec => []LeftQueueMeansIngested` | the same |
| `TypeCorrect` | `Spec => []TypeOK` (PluginEvents) | `PluginEventsAssumption` |
| `EventsAreQueuedOnce` | `Spec => []QueuedOnce` | the same |
| `OnlyRecordedIsRemoved` | `Spec => []RemovedIsRecorded` | the same |
| `TypeCorrect` | `Spec => []TypeOK` (OtpCode) | `OtpCodeAssumption` |
| `QuotaIsKept` | `Spec => []QuotaHolds` | the same |
| `CooldownIsKept` | `Spec => []CooldownHolds` | the same |
| `AttemptsAreLimited` | `Spec => []AttemptsHold` | the same |
| `UsedCodesAreSpent` | `Spec => UsedCodeIsSpent` | the same |
| `SessionsTypeCorrect` | `Spec => []TypeOK` (Sessions) | `SessionsAssumption` |
| `SuspensionIsSwept` | `Spec => []SuspensionSweeps` | the same |
| `SuspensionLeavesStragglers` | `Spec => []StragglersOnly` | the same |
| `RotationIsBounded` | `Spec => []BoundedSuccessors` | the same |
| `OnlyOnce` | `GuardSpec => []ProcessedOnce` (ReplayGuard) | `TimesAreNat`, `NoneIsNoMessage`, `SkewCoversDelays` |
| `SiteImplementsGuard` | `Spec => GuardSpec` (SiteConnection) | – |
| `SiteOnlyOnce` | `Spec => []ProcessedOnce` | those of `OnlyOnce` |
| `SiteTypeCorrect` | `Spec => []TypeOK` (SiteConnection) | also `SiteAssumption` |
| `ReturnsAreExplained` | `Spec => ReturnsExplained` | the same |
| `SecretsStayBounded` | `Spec => []SecretsBounded` | the same |
| `PortalImplementsSessions` | `PortalSpec => Spec` (Sessions) | `SessionsAssumption` |
| `PortalIsSwept` | `PortalSpec => [](SuspensionSweeps /\ StragglersOnly)` | the same |
| `PortalTypeCorrect` | `PortalSpec => []PortalTypeOK` | the same |
| `StoredTokenIsUsable` | `PortalSpec => []StoredIsUsable` | the same |
| `SignOutLasts` | `PortalSpec => []SignedOutStays` | the same |
| `TypeCorrect` | `Spec => []TypeOK` (SiteSync) | `SiteSyncAssumption` |
| `SuccessMeansFresh` | `Spec => []SuccessIsFresh` | the same |
| `TypeCorrect` | `Spec => []TypeOK` (Payouts) | `PayoutsAssumption` |
| `OverdraftIsBounded` | `Spec => []OverdraftBounded` | the same |

The assumptions give the constants their types, and say what the code's own limits say:
positive amounts, pages and queues of at least one, a code's life and cooldown within the
hour. The proofs cover any number of tenants, payments, workers, handlers,
pages, items, events, codes and sessions. The theorems of `Sessions` are in
`PortalSessionProofs` and those of `ReplayGuard` in `SiteConnectionProofs`, ahead of
the compositions that use them. Each strengthened invariant is called `IInv`, or
named below, and TLC was asked about it before it was proved.

**Billing.** `EventPaysOnce` is not inductive: a request that is about to credit
could find its event paid already. The strengthening says what holds between
two await points. `KeyIsHeld`: a request in a transaction holds a key nobody has committed and nobody
else holds, which is the blocking INSERT. `CreditIsOwned`: a request about to
credit is alone for its event, which is on record and has paid nothing.
`CommissionsAreBacked`: a commission's event is on record. The COMMIT hands over from `KeyIsHeld` to
`CreditIsOwned`, and the commission consumes it. The refinement uses the same
invariant: `SettleCommit` is `Settle`, `CreditCommission` is `Credit`
or a stutter, and every other step is a stutter. `ProcessedMeansSettled` adds
`DecidedHasAttempt` and `WebhookHasAttempt`: a webhook comes after the attempt it
is about, so its lookup finds the row. `SettledAsReported` adds `SettlingIsReported`: whatever is
on the way to a settlement was reported, by an answer or a webhook, and the customer's
decision does not change afterwards. `ReceivedIsInHand` adds `AskedByVerify`, without which a
webhook request could leave by the early return of `/verify`. `SettlementEarnsCommission` and
`LaterSettlementsRenew` need the types alone: the first is handed from the COMMIT
to the commission or to `died`, the second looks at each step.
`NoTornSettlement` is inductive: the COMMIT alone writes what it relates, and
writes all of it, whatever subscription row the transaction found to renew.

**PluginSync.** `ResumesWithoutGap` needs `WorkerResumes`: what a worker read
from a cursor stays true of the backend for as long as the worker holds it. It does because the read
model only grows (`ReadModelGrows`), which is why no start, failure or crash can
open a gap. `LeftQueueMeansIngested` adds what is true as long as nothing has overlapped:
one hook or one worker at a time, whose copy of the queue is the queue (`OneAtATime`,
without which `PopEntity` could write back an older list); and a worker that is about
to take an entity off the queue has had every page of it ingested, or its builder got one
short (`EntityIsDone`). A chunk with more to come is a whole page (`MoreIsFull`: a part of
`Batch + 1` items that has `Batch + 1` items), so a cursor moves on only past pages that
were read in full, and a page that was got short is one a cursor had reached
(`CutIsReached`), with every page before it ingested.

**PluginEvents.** Whoever writes the queue writes back a copy, read earlier by another
statement, so `QueuedOnce` has to be known of every copy and not of the queue alone.
`CopiesAreQueues`: each copy holds no event twice and only captured events, and a
shop request's copy only events older than its own. `RemovedIsRecorded` follows the
answer: a deliverer waits for a backend request of its own, which has its batch
(`WaitsForItsOwn`), and that request has on record what it has gone through
(`IngestedIsRecorded`), so its answer means that all of the batch is. `recorded` only
grows, so the removals that come afterwards are of recorded events, also when the queue
has been cleared, cut or rewritten in between.

**OtpCode.** Each limit is an invariant about a sum, of rows and of handlers past
the check, and is inductive because a step moves one unit within the sum. A check
adds a unit only if the rows alone are below the limit, and then the
other handlers cannot make up the difference. `CooldownHolds` uses the order of the rows:
if the newest is old enough, none is young. `AttemptsHold` and `UsedCodeIsSpent` add `History`:
a row's name is its own (`OneRowPerCode`), no wrong entry goes uncounted (`EveryWrongCounts`, where the
UPDATE increments the column and not the copy), and a login consumes (`LoginConsumes`).

**Sessions.** The bounds are about cardinalities, so each step shows that the
set of live sessions and the set of requests cleared to mint trade members
one for one. `BoundedSuccessors` needs `LiveIsUnrotated`: a session with a successor is
not live. A refresh can thus begin only on a session that has none yet,
when the refreshes under way are fewer than the handlers.

**ReplayGuard.** Once a nonce has been deleted, `accepted <= 1` says nothing about the
copies still under way. `DeletedIsPast` does: when a message was let through and its
nonce is gone, more than `Skew + Stall` has passed since its timestamp, so
(`HeldIsRecent`) no handler can hold a copy. `RecordLasts` and `StampsBounded` carry
this from the INSERT to the deletion, and that is where twice the skew is used.

**SiteConnection.** Every step is a step of the guard or leaves it alone, which gives
`SiteOnlyOnce`. `ReturnsExplained` follows from `BeforeCovers`: while the site is
disconnected, a handler outside `before` is not past the test of the site's status and has
read no other status. `SecretsBounded` trades a handler about to insert for the
secret it inserts.

**PortalSession.** The refinement carries `Sessions`' theorems over. `TokenInv` is
the invariant behind the other two. `AnswersAreFresh`: a token in an answer still
to come has minted nothing, is being rotated by no one, and is held or sent by
no one else. `StoredIsCovered`: if the stored token is used up, or about to be, a
refresh of it is awaited, or was when its tab was reloaded. Delivering an answer
puts a fresh token in the storage; minting one uses up the token of a refresh
that covers it. It needs from `Sessions` that parents were minted before. `RefreshesAreLate` is
what `SignedOutStays` adds.

**SiteSync.** `NothingSkipped` is the loop invariant of the walk: while it is smooth, an
item it set out to copy is in the copy, or in the page it holds, or further along the
store's list than it has read (`StillAhead`). Items are added at the front, so an addition
moves items further along and never back. A page that ends the walk is the last one because
the pages before it were full (`FullPages`): it is short, or it completes the total that the store
reported, and in neither case does anything stand behind it. `NothingOlder` keeps the
copy from going back: neither the other syncs nor the webhooks hold an item older
than the walk found it. Every walk starts from the first page (`FromTheFirst`), and a webhook
writes only what it read (`ReadIsHeld`).

**Payouts.** `Covered`: a request asks for no more than was earned, and no payout is
for more. The last request let in is within the balance, which counts every payout that
stands; what the balance does not count are the requests beside it, each for no more than
was earned, and what `Decide` takes back from rejected. As sums are cardinalities of sets of units, what they need (the sum of a set and of one
more payout, of a payout whose status changes) follows from the library's theorems about
unions and products of finite sets.

**Model-checked only.** The liveness properties: `SyncFinishes`, `QueueDrains` and
`RunEnds`. They rest on fairness, which the prover does not handle, and stay with TLC. The
four findings are counterexamples that TLC finds.

## 12. Further divergences seen

Met while modelling, and in the models, though no run is kept for them:

* `/verify` and the webhook settle one payment twice, under two keys, also within a month
  (`billing.ts:171`); the subscription is only written again.
* A webhook about a failed payment settles it (`webhooks.ts:207`).
* A request that dies after the COMMIT loses the commission of its event: a retry finds the key
  taken (`billing.ts:177-180`, `:230`).
* An unverified webhook with the key of a payment blocks the delivery of the real one, which
  is answered as a duplicate (`webhooks.ts:186-194`).
* `/verify` takes an error status or an unparsable answer of the provider for a failed payment
  (`gateway.ts:104-114`), and writes it.
* `/verify` can write an answer over an attempt that a webhook has settled in the meantime
  (`billing.ts:146`).
* A full sync that is started during a chunk is dropped when the chunk writes back the queue
  it had read (`class-wcos-sync-engine.php:101`).
* While the store cannot be read, a sync takes every entity off its queue as if the store had no
  more of it, and nothing is tried again before the next start
  (`class-wcos-sync-builder.php:135`, `:147`, `:168`); `DEPLOYMENT.md:264-265` says that
  it "retries failures".
* A batch that is sent again with one new event is audited again in full (`eventProcessor.ts:29`).
* A refresh that overlaps a logout mints a live session (`tokenService.ts:96`).
* `SECURITY.md:63` of the plugin names a queue of 50 events; the code keeps 200.
* `gateway.ts:6` and `:88` speak of an administrator confirming a manual payment; there
  is no such operation. Nothing sets a commission to `approved` either.
* The portal signs the user out when two requests are answered 401 at once: the
  second refresh finds its token used up, and its failure clears the tokens the first
  one stored (`httpClient.ts:4-6` speaks of one transparent refresh).
* After a refresh that failed the tokens are gone, and the React status stays
  authenticated until the next load (`SessionProvider.tsx:10-12` sends the user to the login).
* A refresh that is answered after a sign-out signs the tab in again (`authApi.ts:166`).
* `commission.ts:50` says that the balance is reduced by pending and approved payouts; the
  code subtracts the paid ones as well, whose commissions are no longer counted: what is left
  of a partly paid balance is lost (`admin.ts:258-264`).
* `merchant.ts:384-386`: "Do not start a duplicate parallel sync". The test and the
  start are apart, so two requests can both start one; and a run is taken for stale by
  the time it started, not by its progress.
* An unreadable answer ends a list as if it were exhausted (`wooClient.ts:288`, `sites.ts:732`).
* A settings edit can write an old status back over a disconnection (`sites.ts:268`).
* `plan.price_minor` is BIGINT, which node-postgres returns as a string unless told otherwise, and
  `Number.isInteger` (`gateway.ts:41`) rejects it: checkout needs a driver that
  parses it, as `Billing` takes it to.
* A POST to the store that timed out is sent again (`wooClient.ts:292`), also when it had arrived.
* A message that arrives between the reading of a support thread and the reset of its
  counter is never counted as unread (`supportService.ts:166`).

## 13. Not modelled, and what is next

Each run of the list answers one question; the next modules in order of what they would add:

1. `SupportInbox`: messages, the two unread counters and the status of a ticket
   (`supportService.ts:139`, `:166`).
2. `Onboarding`: two administrators who deliver one request, and the sites they create
   (`onboardingService.ts:193`, `:223`).
3. `SocialPublish`: publish jobs that live in one process, and the status of a channel
   (`socialService.ts:147`, `:191`, `:250`).
4. `SummaryCache`: an invalidation during a load (`cache.ts:26`).
5. Writes to the store with a retried POST, beside `SiteSync`.

Extensions of what there is: the `sync_run` bookkeeping of the ingest and the legacy
one-envelope sync in `PluginSync`; events captured before the plugin is configured
in `PluginEvents`; status handlers that die in `Sessions`; items that are removed
between two pages in `PluginSync`.

Proofs: nothing that a passing run states as safety is without a theorem. What could be
added is an abstract specification of the site sync (a copy that follows a store) and
of event delivery (a queue that hands over what is recorded), with refinements like that
of `BillingLedger`; the theorems above are most of what their steps need.

Left out for good, with the reason for each in `PROJECT.json`: stateless code
(access control, encryption and redaction, the address guard, the SMS call),
screens and thin HTTP wrappers, mock data and reference contracts, the vendored
theme, migrations and deployment.
