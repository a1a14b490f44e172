---------------------------- MODULE BillingProofs ----------------------------
(***************************************************************************)
(* Machine-checked proofs about Billing, for any number of tenants,        *)
(* payments, requests, months and failures.  IInv says what holds of a     *)
(* request between its await points; the safety properties follow from it. *)
(***************************************************************************)
EXTENDS Billing, TLAPS

------------------------------------------------------------------------------
(* Control: where the requests are and what they work on. *)

Control ==
    /\ pc \in [Requests -> PCs]
    /\ job \in [Requests -> EventKeys \cup {NoJob}]
    /\ sawSub \in [Requests -> BOOLEAN]
    /\ BusyHasJob

Tables ==
    /\ attempt \in [Attempts -> AttemptStatus]
    /\ gateway \in [Attempts -> {"open", "paid", "failed"}]
    /\ billingEvent \subseteq EventKeys
    /\ webhookEvent \in [Attempts -> WebhookStatus]
    /\ subscription \in [Tenants -> Seq(Attempts)]
    /\ mrr \in [Tenants -> Attempts \cup {NoAttempt}]
    /\ commission \subseteq Commissions
    /\ month \in 1..LastMonth
    /\ died \subseteq [event : EventKeys, owing : BOOLEAN]

Typed == Control /\ Tables

LEMMA StartControl ==
    ASSUME Control, NEW r \in Requests, NEW where \in PCs, NEW work \in EventKeys,
           Start(r, where, work)
    PROVE  /\ Control'
           /\ \A q \in Requests \ {r} : pc'[q] = pc[q] /\ job'[q] = job[q]
           /\ pc'[r] = where
  BY DEF Control, Start, BusyHasJob

LEMMA GotoControl ==
    ASSUME Control, NEW r \in Requests, NEW where \in PCs, pc[r] # "idle", Goto(r, where)
    PROVE  /\ Control'
           /\ \A q \in Requests \ {r} : pc'[q] = pc[q]
           /\ pc'[r] = where
           /\ job' = job
  BY DEF Control, Goto, BusyHasJob

LEMMA ReturnControl ==
    ASSUME Control, NEW r \in Requests, Return(r)
    PROVE  /\ Control'
           /\ \A q \in Requests \ {r} : pc'[q] = pc[q] /\ job'[q] = job[q]
           /\ pc'[r] = "idle"
  BY DEF Control, Return, BusyHasJob, PCs

\* A request that settled leaves the settlement behind it.
LEMMA SettleReturnsControl ==
    ASSUME Control, NEW r \in Requests, pc[r] # "idle", SettleReturns(r)
    PROVE  /\ Control'
           /\ \A q \in Requests \ {r} : pc'[q] = pc[q] /\ job'[q] = job[q]
           /\ \/ pc'[r] = "idle"
              \/ pc'[r] = "finishing" /\ job' = job /\ job[r].via # "verify"
<1>1. CASE job[r].via = "verify"
  BY <1>1, ReturnControl DEF SettleReturns
<1>2. CASE job[r].via # "verify"
  BY <1>2, GotoControl DEF SettleReturns, PCs
<1>3. QED
  BY <1>1, <1>2

\* A busy request works on an attempt of a tenant.
LEMMA JobIsTyped ==
    ASSUME Control, NEW r \in Requests, pc[r] # "idle"
    PROVE  /\ job[r] \in EventKeys
           /\ job[r].attempt \in Attempts
           /\ Owner[job[r].attempt] \in Tenants
  BY BillingAssumption DEF Control, BusyHasJob, EventKeys

\* Asked for a payment, the provider's answer leads to one of two places.
LEMMA GatewayGoesOn ==
    ASSUME NEW r, GatewayAnswers(r)
    PROVE  \/ Goto(r, "settling") /\ "paid" \in VerifyResults(job[r].attempt)
           \/ Goto(r, "overwriting")
  BY DEF GatewayAnswers

------------------------------------------------------------------------------
(* Type correctness. *)

\* A step keeps every column within its type and every busy request on a job.
LEMMA TypedStep == Typed /\ [Next]_vars => Typed'
<1> SUFFICES ASSUME Typed, [Next]_vars PROVE Typed'
  OBVIOUS
<1> USE DEF Typed, ExternalUnchanged, database
<1>1. ASSUME NEW r \in Requests, NEW a \in Attempts, VerifyRead(r, a)
      PROVE Typed'
  BY <1>1, StartControl DEF VerifyRead, Tables, EventKeys, PCs
<1>2. ASSUME NEW r \in Requests, NEW a \in Attempts, NEW verified \in BOOLEAN,
             WebhookReceive(r, a, verified)
      PROVE Typed'
  <2>1. Control'
    BY <1>2, StartControl DEF WebhookReceive, EventKeys, PCs
  <2>2. Tables'
    BY <1>2 DEF WebhookReceive, Tables, WebhookStatus
  <2>3. QED
    BY <2>1, <2>2
<1>3. ASSUME NEW r \in Requests, GatewayAnswers(r) \/ GatewayUnreachable(r)
      PROVE Typed'
  BY <1>3, GatewayGoesOn, GotoControl, ReturnControl DEF GatewayAnswers, GatewayUnreachable, Tables, PCs
<1>4. ASSUME NEW r \in Requests, VerifyOverwrite(r)
      PROVE Typed'
  <2>1. Tables'
    BY <1>4 DEF VerifyOverwrite, Tables, AttemptStatus
  <2>2. QED
    BY <1>4, <2>1, ReturnControl DEF VerifyOverwrite
<1>5. ASSUME NEW r \in Requests, WebhookIgnored(r) \/ WebhookProcessed(r)
      PROVE Typed'
  <2>1. Tables'
    BY <1>5 DEF WebhookIgnored, WebhookProcessed, WebhookFinish, Tables, WebhookStatus
  <2>2. QED
    BY <1>5, <2>1, ReturnControl DEF WebhookIgnored, WebhookProcessed, WebhookFinish
<1>6. ASSUME NEW r \in Requests, WebhookMatch(r)
      PROVE Typed'
  BY <1>6, GotoControl DEF WebhookMatch, Tables, PCs
<1>7. ASSUME NEW r \in Requests, SettleInsert(r)
      PROVE Typed'
  <2>1. Control'
    BY <1>7, GotoControl, SettleReturnsControl DEF SettleInsert, PCs, InTransaction
  <2>2. QED
    BY <1>7, <2>1 DEF SettleInsert, Tables
<1>8. ASSUME NEW r \in Requests, SettleLock(r)
      PROVE Typed'
  <2>1. Control'
    BY <1>8 DEF SettleLock, Control, BusyHasJob, PCs, InTransaction
  <2>2. QED
    BY <1>8, <2>1 DEF SettleLock, Tables
<1>9. ASSUME NEW r \in Requests, SettleCommit(r)
      PROVE Typed'
  <2> DEFINE a == job[r].attempt
             t == Owner[a]
  <2>1. job[r] \in EventKeys /\ a \in Attempts /\ t \in Tenants
    BY <1>9, JobIsTyped DEF SettleCommit
  <2>2. Renewed(subscription[t], a, sawSub[r]) \subseteq Seq(Attempts)
    <3> DEFINE rows == subscription[t]
    <3>1. rows \in Seq(Attempts)
      BY <2>1 DEF Tables
    <3>2. \A i \in DOMAIN rows : [rows EXCEPT ![i] = a] \in Seq(Attempts)
      BY <2>1, <3>1
    <3>3. Append(rows, a) \in Seq(Attempts)
      BY <2>1, <3>1
    <3> HIDE DEF rows, a
    <3>4. QED
      BY <3>2, <3>3 DEF Renewed, rows
  <2>3. subscription' \in [Tenants -> Seq(Attempts)]
    BY <1>9, <2>1, <2>2 DEF SettleCommit, Tables
  <2>4. Tables'
    BY <1>9, <2>1, <2>3 DEF SettleCommit, Tables, AttemptStatus
  <2>5. QED
    BY <1>9, <2>4, GotoControl DEF SettleCommit, PCs
<1>10. ASSUME NEW r \in Requests, CreditCommission(r)
       PROVE Typed'
  <2>1. Control'
    BY <1>10, SettleReturnsControl DEF CreditCommission
  <2>2. job[r] \in EventKeys /\ Owner[job[r].attempt] \in Tenants
    BY <1>10, JobIsTyped DEF CreditCommission
  <2> DEFINE row == [tenant |-> Owner[job[r].attempt], month |-> month, event |-> job[r]]
  <2>3. commission' \subseteq Commissions
    <3>1. row \in Commissions
      BY <2>2 DEF Tables, Commissions
    <3>2. commission' \subseteq commission \cup {row}
      BY <1>10 DEF CreditCommission
    <3>3. QED
      BY <3>1, <3>2 DEF Tables
  <2>4. QED
    BY <1>10, <2>1, <2>3 DEF CreditCommission, Tables
<1>11. ASSUME NEW r \in Requests, RequestDies(r)
       PROVE Typed'
  <2>1. [event |-> job[r], owing |-> pc[r] = "crediting"] \in [event : EventKeys, owing : BOOLEAN]
    BY <1>11, JobIsTyped DEF RequestDies
  <2>2. QED
    BY <1>11, <2>1, ReturnControl DEF RequestDies, Tables
<1>12. ASSUME NEW a \in Attempts, Checkout(a)
       PROVE Typed'
  BY <1>12 DEF Checkout, Tables, AttemptStatus, Control, BusyHasJob
<1>13. ASSUME NEW a \in Attempts, NEW outcome \in {"paid", "failed"},
              CustomerDecides(a, outcome)
       PROVE Typed'
  BY <1>13 DEF CustomerDecides, Tables, Control, BusyHasJob
<1>14. CASE MonthEnds
  BY <1>14, BillingAssumption DEF MonthEnds, Tables, Control, BusyHasJob
<1>15. CASE UNCHANGED vars
  BY <1>15 DEF vars, Tables, Control, BusyHasJob
<1>16. QED
  BY <1>1, <1>2, <1>3, <1>4, <1>5, <1>6, <1>7, <1>8, <1>9, <1>10, <1>11, <1>12, <1>13,
     <1>14, <1>15
     DEF Next, Arrive, Proceed, VerifyAlreadyPaid, WebhookDeduped

LEMMA TypedInit == Init => Typed
  BY BillingAssumption DEF Init, Typed, Control, Tables, BusyHasJob, PCs, AttemptStatus,
                           WebhookStatus

LEMMA TypedIsTypeOK == Typed <=> TypeOK /\ BusyHasJob
  BY DEF Typed, Control, Tables, TypeOK

\* Type correctness: every column keeps to the values its table allows, in
\* every reachable state.
THEOREM TypeCorrect == Spec => []TypeOK
  BY TypedInit, TypedStep, TypedIsTypeOK, PTL DEF Spec
------------------------------------------------------------------------------
(* Who holds an event, and what it has paid. *)

Credits == KeyIsHeld /\ CreditIsOwned /\ CommissionsAreBacked /\ EventPaysOnce

\* A step that writes neither events nor commissions, and brings no request into
\* the transaction or to the commission, disturbs nothing.
LEMMA QuietStep ==
    ASSUME Credits, UNCHANGED <<billingEvent, commission>>,
           \A q \in Requests :
               pc'[q] \in InTransaction => pc[q] \in InTransaction /\ job'[q] = job[q],
           \A q \in Requests :
               pc'[q] = "crediting" => pc[q] = "crediting" /\ job'[q] = job[q]
    PROVE  Credits'
  BY DEF Credits, KeyIsHeld, CreditIsOwned, CommissionsAreBacked, EventPaysOnce

\* A step keeps the ownership of events: the INSERT of billing_event picks one
\* request, which keeps the event until its commission is credited.
LEMMA CreditsStep == Typed /\ Credits /\ [Next]_vars => Credits'
<1> SUFFICES ASSUME Typed, Credits, [Next]_vars PROVE Credits'
  OBVIOUS
<1> USE DEF Typed, ExternalUnchanged, database
<1>1. ASSUME NEW r \in Requests, NEW a \in Attempts, VerifyRead(r, a)
      PROVE Credits'
  <2>1. [via |-> "verify", attempt |-> a] \in EventKeys
    BY DEF EventKeys
  <2>2. QED
    BY <1>1, <2>1, StartControl, QuietStep DEF VerifyRead, InTransaction, PCs
<1>2. ASSUME NEW r \in Requests, NEW a \in Attempts, NEW verified \in BOOLEAN,
             WebhookReceive(r, a, verified)
      PROVE Credits'
  <2>1. [via |-> "webhook", attempt |-> a] \in EventKeys
    BY DEF EventKeys
  <2>2. QED
    BY <1>2, <2>1, StartControl, QuietStep DEF WebhookReceive, InTransaction, PCs
<1>3. ASSUME NEW r \in Requests, GatewayAnswers(r)
      PROVE Credits'
  BY <1>3, GotoControl, QuietStep DEF GatewayAnswers, InTransaction, PCs
<1>4. ASSUME NEW r \in Requests,
             GatewayUnreachable(r) \/ VerifyOverwrite(r) \/ WebhookIgnored(r)
               \/ WebhookProcessed(r) \/ RequestDies(r)
      PROVE Credits'
  BY <1>4, ReturnControl, QuietStep
     DEF GatewayUnreachable, VerifyOverwrite, WebhookIgnored, WebhookProcessed,
         WebhookFinish, RequestDies, InTransaction
<1>5. ASSUME NEW r \in Requests, WebhookMatch(r)
      PROVE Credits'
  BY <1>5, GotoControl, QuietStep DEF WebhookMatch, InTransaction, PCs
<1>6. ASSUME NEW r \in Requests, SettleInsert(r)
      PROVE Credits'
  <2>1. CASE job[r] \in billingEvent
    BY <1>6, <2>1, SettleReturnsControl, QuietStep DEF SettleInsert, InTransaction
  <2>2. CASE job[r] \notin billingEvent
    <3>1. /\ \A q \in Requests \ {r} : pc'[q] = pc[q]
          /\ pc'[r] = "inserted"
          /\ job' = job
      BY <1>6, <2>2, GotoControl DEF SettleInsert, PCs, InTransaction
    <3>2. KeyIsHeld'
      BY <1>6, <2>2, <3>1 DEF SettleInsert, Credits, KeyIsHeld
    <3>3. QED
      BY <1>6, <3>1, <3>2 DEF SettleInsert, Credits, CreditIsOwned, CommissionsAreBacked,
                              EventPaysOnce
  <2>3. QED
    BY <2>1, <2>2
<1>7. ASSUME NEW r \in Requests, SettleLock(r)
      PROVE Credits'
  BY <1>7, QuietStep DEF SettleLock, InTransaction, Control
<1>8. ASSUME NEW r \in Requests, SettleCommit(r)
      PROVE Credits'
  <2>1. /\ job[r] \notin billingEvent
        /\ \A c \in commission : c.event # job[r]
        /\ \A q \in Requests \ {r} :
              pc[q] \in InTransaction \cup {"crediting"} => job[q] # job[r]
    BY <1>8 DEF SettleCommit, Credits, KeyIsHeld, CreditIsOwned, CommissionsAreBacked,
                InTransaction
  <2>2. /\ \A q \in Requests \ {r} : pc'[q] = pc[q]
        /\ pc'[r] = "crediting"
        /\ job' = job
    BY <1>8, GotoControl DEF SettleCommit, PCs
  <2>3. billingEvent' = billingEvent \cup {job[r]} /\ commission' = commission
    BY <1>8 DEF SettleCommit
  <2>4. QED
    BY <2>1, <2>2, <2>3 DEF Credits, KeyIsHeld, CreditIsOwned, CommissionsAreBacked,
                            EventPaysOnce, InTransaction
<1>9. ASSUME NEW r \in Requests, CreditCommission(r)
      PROVE Credits'
  <2>1. /\ job[r] \in billingEvent
        /\ \A c \in commission : c.event # job[r]
        /\ \A q \in Requests \ {r} : pc[q] = "crediting" => job[q] # job[r]
    BY <1>9 DEF CreditCommission, Credits, CreditIsOwned
  <2> DEFINE row == [tenant |-> Owner[job[r].attempt], month |-> month, event |-> job[r]]
  <2>2. commission' = commission \/ commission' = commission \cup {row}
    BY <1>9 DEF CreditCommission
  <2>3. row.event = job[r]
    OBVIOUS
  <2>4. /\ \A q \in Requests \ {r} : pc'[q] = pc[q] /\ job'[q] = job[q]
        /\ pc'[r] \in {"idle", "finishing"}
        /\ billingEvent' = billingEvent
    BY <1>9, SettleReturnsControl DEF CreditCommission
  <2>5. EventPaysOnce' /\ CommissionsAreBacked'
    BY <2>1, <2>2, <2>3, <2>4 DEF Credits, EventPaysOnce, CommissionsAreBacked
  <2>6. KeyIsHeld'
    BY <2>4 DEF Credits, KeyIsHeld, InTransaction
  <2>7. CreditIsOwned'
    BY <2>1, <2>2, <2>3, <2>4 DEF Credits, CreditIsOwned
  <2>8. QED
    BY <2>5, <2>6, <2>7 DEF Credits
<1>10. ASSUME NEW a \in Attempts, Checkout(a)
       PROVE Credits'
  BY <1>10, QuietStep DEF Checkout
<1>11. ASSUME NEW a \in Attempts, NEW outcome \in {"paid", "failed"},
              CustomerDecides(a, outcome)
       PROVE Credits'
  BY <1>11, QuietStep DEF CustomerDecides
<1>12. CASE MonthEnds
  BY <1>12, QuietStep DEF MonthEnds
<1>13. CASE UNCHANGED vars
  BY <1>13, QuietStep DEF vars
<1>14. QED
  BY <1>1, <1>2, <1>3, <1>4, <1>5, <1>6, <1>7, <1>8, <1>9, <1>10, <1>11, <1>12, <1>13
     DEF Next, Arrive, Proceed, VerifyAlreadyPaid, WebhookDeduped

LEMMA CreditsInit == Init => Credits
  BY DEF Init, Credits, KeyIsHeld, CreditIsOwned, CommissionsAreBacked, EventPaysOnce,
         InTransaction

\* A billing event pays at most one commission (settlePaidPayment and
\* generateCommissionForPayment), whatever retries and failures there are.
THEOREM EventPaysAtMostOnce == Spec => []EventPaysOnce
<1>1. Credits => EventPaysOnce
  BY DEF Credits
<1>2. QED
  BY <1>1, TypedInit, TypedStep, CreditsInit, CreditsStep, PTL DEF Spec

------------------------------------------------------------------------------
(* Billing implements its ledger. *)

\* A step of billing settles one new event, pays one owed commission, or leaves
\* the ledger as it is.
LEMMA LedgerStep ==
    Typed /\ Credits /\ [Next]_vars => [Ledger!Next]_(Ledger!vars)
<1> SUFFICES ASSUME Typed, Credits, [Next]_vars PROVE [Ledger!Next]_(Ledger!vars)
  OBVIOUS
<1> USE DEF ExternalUnchanged, database, Ledger!vars
<1>1. ASSUME NEW r \in Requests, SettleCommit(r)
      PROVE [Ledger!Next]_(Ledger!vars)
  <2>1. job[r] \in Ledger!EventKeys /\ job[r] \notin billingEvent
    BY <1>1, JobIsTyped DEF SettleCommit, Typed, Credits, KeyIsHeld, InTransaction,
                            EventKeys, Ledger!EventKeys
  <2>2. Ledger!Settle(job[r])
    BY <1>1, <2>1 DEF SettleCommit, Ledger!Settle
  <2>3. QED
    BY <2>1, <2>2 DEF Ledger!Next
<1>2. ASSUME NEW r \in Requests, CreditCommission(r)
      PROVE [Ledger!Next]_(Ledger!vars)
  <2>1. /\ job[r] \in Ledger!EventKeys
        /\ job[r] \in billingEvent
        /\ \A c \in commission : c.event # job[r]
        /\ month \in 1..LastMonth
    BY <1>2, JobIsTyped DEF CreditCommission, Typed, Tables, Credits, CreditIsOwned,
                            EventKeys, Ledger!EventKeys
  <2>2. CASE commission' = commission
    BY <1>2, <2>2 DEF CreditCommission
  <2>3. CASE commission' # commission
    <3>1. Ledger!Credit(job[r], month)
      BY <1>2, <2>1, <2>3 DEF CreditCommission, Ledger!Credit
    <3>2. QED
      BY <2>1, <3>1 DEF Ledger!Next
  <2>4. QED
    BY <2>2, <2>3
<1>3. ASSUME NEW r \in Requests, Arrive(r)
      PROVE UNCHANGED <<billingEvent, commission>>
  BY <1>3 DEF Arrive, VerifyRead, VerifyAlreadyPaid, WebhookReceive, WebhookDeduped, vars
<1>4. ASSUME NEW r \in Requests, RequestDies(r) \/ Proceed(r),
             ~SettleCommit(r), ~CreditCommission(r)
      PROVE UNCHANGED <<billingEvent, commission>>
  BY <1>4 DEF RequestDies, Proceed, GatewayAnswers, GatewayUnreachable, VerifyOverwrite,
              WebhookIgnored, WebhookProcessed, WebhookFinish, WebhookMatch,
              SettleInsert, SettleLock
<1>5. ASSUME \/ \E a \in Attempts : Checkout(a)
             \/ \E a \in Attempts, outcome \in {"paid", "failed"} : CustomerDecides(a, outcome)
             \/ MonthEnds
             \/ UNCHANGED vars
      PROVE UNCHANGED <<billingEvent, commission>>
  BY <1>5 DEF Checkout, CustomerDecides, MonthEnds, vars
<1>6. QED
  BY <1>1, <1>2, <1>3, <1>4, <1>5 DEF Next, Proceed

\* Billing implements BillingLedger: an event settles once and pays at most one
\* commission, at most one per tenant and month.
THEOREM ImplementsLedger == Spec => LedgerSpec
<1>1. Init => Ledger!Init
  BY DEF Init, Ledger!Init
<1>2. QED
  BY <1>1, LedgerStep, TypedInit, TypedStep, CreditsInit, CreditsStep, PTL
     DEF Spec, LedgerSpec, Ledger!Spec
------------------------------------------------------------------------------
(* What a processed webhook, and a settled payment, imply. *)

Handled == DecidedHasAttempt /\ WebhookHasAttempt /\ ProcessedMeansSettled

LEMMA HandledStep == Typed /\ Credits /\ Handled /\ [Next]_vars => Handled'
<1> SUFFICES ASSUME Typed, Credits, Handled, [Next]_vars PROVE Handled'
  OBVIOUS
<1> USE DEF Typed, ExternalUnchanged, database, Handled, DecidedHasAttempt
<1>1. ASSUME NEW r \in Requests, NEW a \in Attempts, VerifyRead(r, a)
      PROVE Handled'
  <2> DEFINE work == [via |-> "verify", attempt |-> a]
  <2>1. work \in EventKeys /\ work.attempt = a
    BY DEF EventKeys
  <2>2. job'[r] = work
    BY <1>1 DEF VerifyRead, Start, Control
  <2>3. QED
    BY <1>1, <2>1, <2>2, StartControl DEF VerifyRead, WebhookHasAttempt, ProcessedMeansSettled, PCs
<1>2. ASSUME NEW r \in Requests, NEW a \in Attempts, NEW verified \in BOOLEAN,
             WebhookReceive(r, a, verified)
      PROVE Handled'
  <2> DEFINE work == [via |-> "webhook", attempt |-> a]
             where == IF verified THEN "matching" ELSE "ignoring"
  <2>1. work \in EventKeys /\ work.attempt = a /\ work.via = "webhook" /\ where \in PCs
    BY DEF EventKeys, PCs
  <2>2. (verified => attempt[a] # "absent") /\ attempt' = attempt /\ gateway' = gateway
    BY <1>2, BillingAssumption DEF WebhookReceive
  <2>3. job'[r] = work /\ pc'[r] = where
    BY <1>2 DEF WebhookReceive, Start, Control
  <2>4. \A q \in Requests \ {r} : pc'[q] = pc[q] /\ job'[q] = job[q]
    BY <1>2, <2>1, StartControl DEF WebhookReceive
  <2>5. WebhookHasAttempt'
    BY <1>2, <2>1, <2>2, <2>3, <2>4 DEF WebhookReceive, WebhookHasAttempt
  <2>6. \A b \in Attempts : webhookEvent'[b] = "processed" => webhookEvent[b] = "processed"
    BY <1>2 DEF WebhookReceive, Tables
  <2>7. QED
    BY <1>2, <2>2, <2>5, <2>6 DEF WebhookReceive, ProcessedMeansSettled
<1>3. ASSUME NEW r \in Requests, GatewayAnswers(r)
      PROVE Handled'
  BY <1>3, GotoControl DEF GatewayAnswers, WebhookHasAttempt, ProcessedMeansSettled, PCs
<1>4. ASSUME NEW r \in Requests, GatewayUnreachable(r) \/ RequestDies(r)
      PROVE Handled'
  BY <1>4, ReturnControl DEF GatewayUnreachable, RequestDies, WebhookHasAttempt,
                             ProcessedMeansSettled
<1>5. ASSUME NEW r \in Requests, VerifyOverwrite(r)
      PROVE Handled'
  <2>1. \A a \in Attempts : attempt[a] # "absent" => attempt'[a] # "absent"
    BY <1>5 DEF VerifyOverwrite, Tables
  <2>2. \A q \in Requests : pc[q] # "idle" => job[q].attempt \in Attempts
    BY JobIsTyped
  <2>3. /\ \A q \in Requests \ {r} : pc'[q] = pc[q] /\ job'[q] = job[q]
        /\ pc'[r] = "idle"
    BY <1>5, ReturnControl DEF VerifyOverwrite
  <2>4. UNCHANGED <<gateway, webhookEvent, billingEvent>>
    BY <1>5 DEF VerifyOverwrite
  <2>5. WebhookHasAttempt'
    BY <2>1, <2>2, <2>3, <2>4 DEF WebhookHasAttempt
  <2>6. QED
    BY <2>1, <2>4, <2>5 DEF ProcessedMeansSettled
<1>6. ASSUME NEW r \in Requests, WebhookIgnored(r)
      PROVE Handled'
  BY <1>6, ReturnControl DEF WebhookIgnored, WebhookFinish, WebhookHasAttempt,
                             ProcessedMeansSettled, Tables
<1>7. ASSUME NEW r \in Requests, WebhookProcessed(r)
      PROVE Handled'
  <2> DEFINE a == job[r].attempt
  <2>1. job[r] \in EventKeys /\ job[r].via = "webhook" /\ job[r] \in billingEvent
    BY <1>7, JobIsTyped DEF WebhookProcessed, WebhookFinish, WebhookHasAttempt
  <2>2. job[r] = [via |-> "webhook", attempt |-> a]
    BY <2>1 DEF EventKeys
  <2>3. ProcessedMeansSettled'
    BY <1>7, <2>1, <2>2 DEF WebhookProcessed, WebhookFinish, ProcessedMeansSettled, Tables
  <2>4. QED
    BY <1>7, <2>3, ReturnControl DEF WebhookProcessed, WebhookFinish, WebhookHasAttempt
<1>8. ASSUME NEW r \in Requests, WebhookMatch(r)
      PROVE Handled'
  BY <1>8, GotoControl DEF WebhookMatch, WebhookHasAttempt, ProcessedMeansSettled, PCs
<1>9. ASSUME NEW r \in Requests, SettleInsert(r)
      PROVE Handled'
  <2>1. job[r] \in EventKeys
    BY <1>9, JobIsTyped DEF SettleInsert
  <2>2. CASE job[r] \in billingEvent
    <3>1. job[r].via # "verify" => job[r].via = "webhook"
      BY <2>1 DEF EventKeys
    <3>2. QED
      BY <1>9, <2>2, <3>1, SettleReturnsControl
         DEF SettleInsert, WebhookHasAttempt, ProcessedMeansSettled
  <2>3. CASE job[r] \notin billingEvent
    BY <1>9, <2>3, GotoControl
       DEF SettleInsert, WebhookHasAttempt, ProcessedMeansSettled, PCs, InTransaction
  <2>4. QED
    BY <2>2, <2>3
<1>10. ASSUME NEW r \in Requests, SettleLock(r)
       PROVE Handled'
  BY <1>10 DEF SettleLock, WebhookHasAttempt, ProcessedMeansSettled, Control
<1>11. ASSUME NEW r \in Requests, SettleCommit(r)
       PROVE Handled'
  <2>1. \A a \in Attempts : attempt[a] # "absent" => attempt'[a] # "absent"
    BY <1>11 DEF SettleCommit, Tables
  <2>2. \A q \in Requests : pc[q] # "idle" => job[q].attempt \in Attempts
    BY JobIsTyped
  <2>3. /\ \A q \in Requests \ {r} : pc'[q] = pc[q]
        /\ pc'[r] = "crediting"
        /\ job' = job
    BY <1>11, GotoControl DEF SettleCommit, PCs
  <2>4. UNCHANGED <<gateway, webhookEvent>> /\ billingEvent \subseteq billingEvent'
    BY <1>11 DEF SettleCommit
  <2>5. WebhookHasAttempt'
    BY <1>11, <2>1, <2>2, <2>3, <2>4 DEF SettleCommit, WebhookHasAttempt
  <2>6. QED
    BY <2>1, <2>4, <2>5 DEF ProcessedMeansSettled
<1>12. ASSUME NEW r \in Requests, CreditCommission(r)
       PROVE Handled'
  <2>1. job[r].via # "verify" => job[r].via = "webhook"
    BY <1>12, JobIsTyped DEF CreditCommission, EventKeys
  <2>2. UNCHANGED <<attempt, gateway, webhookEvent, billingEvent>>
    BY <1>12 DEF CreditCommission
  <2>3. job[r] \in billingEvent
    BY <1>12 DEF CreditCommission, Credits, CreditIsOwned
  <2>4. QED
    BY <1>12, <2>1, <2>2, <2>3, SettleReturnsControl
       DEF CreditCommission, WebhookHasAttempt, ProcessedMeansSettled
<1>13. ASSUME NEW a \in Attempts, Checkout(a)
       PROVE Handled'
  BY <1>13 DEF Checkout, WebhookHasAttempt, ProcessedMeansSettled, Tables
<1>14. ASSUME NEW a \in Attempts, NEW outcome \in {"paid", "failed"},
              CustomerDecides(a, outcome)
       PROVE Handled'
  BY <1>14 DEF CustomerDecides, WebhookHasAttempt, ProcessedMeansSettled, Tables
<1>15. CASE MonthEnds
  BY <1>15 DEF MonthEnds, WebhookHasAttempt, ProcessedMeansSettled
<1>16. CASE UNCHANGED vars
  BY <1>16 DEF vars, WebhookHasAttempt, ProcessedMeansSettled
<1>17. QED
  BY <1>1, <1>2, <1>3, <1>4, <1>5, <1>6, <1>7, <1>8, <1>9, <1>10, <1>11, <1>12, <1>13,
     <1>14, <1>15, <1>16
     DEF Next, Arrive, Proceed, VerifyAlreadyPaid, WebhookDeduped

LEMMA HandledInit == Init => Handled
  BY DEF Init, Handled, DecidedHasAttempt, WebhookHasAttempt, ProcessedMeansSettled

\* A webhook is marked processed only after its payment was settled under the
\* webhook's own key (POST /webhooks/payment), whatever fails on the way.
THEOREM ProcessedWebhookSettled == Spec => []ProcessedMeansSettled
<1>1. Handled => ProcessedMeansSettled
  BY DEF Handled
<1>2. QED
  BY <1>1, TypedInit, TypedStep, CreditsInit, CreditsStep, HandledInit, HandledStep, PTL
     DEF Spec

------------------------------------------------------------------------------
(* What is settled was reported. *)

\* Only /verify asks the provider.
LEMMA AskedStep == Typed /\ AskedByVerify /\ [Next]_vars => AskedByVerify'
<1> SUFFICES ASSUME Typed, AskedByVerify, [Next]_vars PROVE AskedByVerify'
  OBVIOUS
<1> USE DEF Typed, AskedByVerify
<1>1. ASSUME NEW r \in Requests, Arrive(r)
      PROVE  AskedByVerify'
  <2>1. ASSUME NEW a \in Attempts, VerifyRead(r, a)
        PROVE  AskedByVerify'
    BY <2>1 DEF VerifyRead, Start, Control
  <2>2. ASSUME NEW a \in Attempts, NEW verified \in BOOLEAN, WebhookReceive(r, a, verified)
        PROVE  AskedByVerify'
    BY <2>2 DEF WebhookReceive, Start, Control
  <2>3. QED
    BY <1>1, <2>1, <2>2 DEF Arrive, VerifyAlreadyPaid, WebhookDeduped, vars
<1>2. ASSUME NEW r \in Requests, GatewayAnswers(r)
      PROVE  AskedByVerify'
  BY <1>2, GatewayGoesOn, GotoControl DEF GatewayAnswers, PCs
<1>3. ASSUME NEW r \in Requests,
             GatewayUnreachable(r) \/ VerifyOverwrite(r) \/ WebhookIgnored(r)
               \/ WebhookProcessed(r) \/ RequestDies(r)
      PROVE  AskedByVerify'
  BY <1>3, ReturnControl DEF GatewayUnreachable, VerifyOverwrite, WebhookIgnored,
                             WebhookProcessed, WebhookFinish, RequestDies
<1>4. ASSUME NEW r \in Requests, WebhookMatch(r) \/ SettleCommit(r)
      PROVE  AskedByVerify'
  BY <1>4, GotoControl DEF WebhookMatch, SettleCommit, PCs
<1>5. ASSUME NEW r \in Requests, SettleInsert(r) \/ CreditCommission(r)
      PROVE  AskedByVerify'
  BY <1>5, SettleReturnsControl, GotoControl DEF SettleInsert, CreditCommission, PCs, InTransaction
<1>6. ASSUME NEW r \in Requests, SettleLock(r)
      PROVE  AskedByVerify'
  BY <1>6 DEF SettleLock, Control
<1>7. ASSUME UNCHANGED <<pc, job>>
      PROVE  AskedByVerify'
  BY <1>7
<1>8. QED
  BY <1>1, <1>2, <1>3, <1>4, <1>5, <1>6, <1>7
     DEF Next, Proceed, Checkout, CustomerDecides, MonthEnds, vars

Reporting == SettlingIsReported /\ SettledAsReported

\* What was reported of a payment stays so: the customer decides once.
LEMMA ReportedStays ==
    ASSUME Typed, [Next]_vars, NEW k \in EventKeys, Reported(k)
    PROVE  Reported(k)'
<1>1. gateway' = gateway \/ \E a \in Attempts : gateway[a] = "open"
                              /\ \A b \in Attempts \ {a} : gateway'[b] = gateway[b]
  BY DEF Next, Arrive, Proceed, VerifyRead, VerifyAlreadyPaid, WebhookReceive, WebhookDeduped,
         GatewayAnswers, GatewayUnreachable, VerifyOverwrite, WebhookIgnored, WebhookProcessed,
         WebhookFinish, WebhookMatch, SettleInsert, SettleLock, SettleCommit, CreditCommission,
         RequestDies, Checkout, CustomerDecides, MonthEnds, ExternalUnchanged, vars,
         Typed, Tables
<1>2. gateway[k.attempt] # "open"
  BY BillingAssumption DEF Reported
<1>3. k.attempt \in Attempts
  BY DEF EventKeys
<1>4. QED
  BY <1>1, <1>2, <1>3 DEF Reported

\* A step of a request that settles nothing, and brings no unreported event on
\* the way to a settlement.
LEMMA UnsettledStep ==
    ASSUME Typed, Reporting, [Next]_vars, UNCHANGED billingEvent,
           \A a \in Attempts : attempt'[a] = "paid" => attempt[a] = "paid",
           \A r \in Requests : pc'[r] \in {"matching", "settling"} \cup InTransaction =>
               \/ pc[r] \in {"matching", "settling"} \cup InTransaction /\ job'[r] = job[r]
               \/ job'[r] \in EventKeys /\ Reported(job'[r])
    PROVE  Reporting'
<1>1. \A k \in EventKeys : Reported(k) => Reported(k)'
  BY ReportedStays
<1>2. \A r \in Requests : pc[r] # "idle" => job[r] \in EventKeys
  BY JobIsTyped DEF Typed
<1>3. billingEvent \subseteq EventKeys
  BY DEF Typed, Tables
<1>4. SettlingIsReported'
  <2> SUFFICES ASSUME NEW r \in Requests, pc'[r] \in {"matching", "settling"} \cup InTransaction
               PROVE  Reported(job[r])'
    BY DEF SettlingIsReported, InTransaction
  <2>1. job'[r] \in EventKeys /\ Reported(job'[r])
    BY <1>2 DEF Reporting, SettlingIsReported, InTransaction
  <2>2. QED
    BY <1>1, <2>1 DEF Reported
<1>5. SettledAsReported'
  BY <1>1, <1>3 DEF Reporting, SettledAsReported
<1>6. QED
  BY <1>4, <1>5 DEF Reporting

LEMMA ReportingStep ==
    ASSUME Provider # "mock"
    PROVE  Typed /\ AskedByVerify /\ Reporting /\ [Next]_vars => Reporting'
<1> SUFFICES ASSUME Typed, AskedByVerify, Reporting, [Next]_vars
             PROVE  Reporting'
  OBVIOUS
<1> USE DEF Typed, ExternalUnchanged, database
<1>1. ASSUME NEW r \in Requests, NEW a \in Attempts, VerifyRead(r, a)
      PROVE Reporting'
  <2>1. [via |-> "verify", attempt |-> a] \in EventKeys
    BY DEF EventKeys
  <2>2. QED
    BY <1>1, <2>1, StartControl, UnsettledStep DEF VerifyRead, PCs, InTransaction
<1>2. ASSUME NEW r \in Requests, NEW a \in Attempts, NEW verified \in BOOLEAN,
             WebhookReceive(r, a, verified)
      PROVE Reporting'
  <2> DEFINE work == [via |-> "webhook", attempt |-> a]
             where == IF verified THEN "matching" ELSE "ignoring"
  <2>1. work \in EventKeys /\ work.attempt = a /\ work.via = "webhook" /\ where \in PCs
    BY DEF EventKeys, PCs
  <2>2. job'[r] = work /\ (verified => gateway[a] \in Outcomes)
    BY <1>2 DEF WebhookReceive, Start, Control
  <2>3. verified => Reported(work)
    BY <2>1, <2>2 DEF Reported
  <2>4. \A q \in Requests \ {r} : pc'[q] = pc[q] /\ job'[q] = job[q]
    BY <1>2, <2>1, StartControl DEF WebhookReceive
  <2>5. pc'[r] = where
    BY <1>2, <2>1, StartControl DEF WebhookReceive
  <2>6. pc'[r] \in {"matching", "settling"} \cup InTransaction => verified
    BY <2>5 DEF InTransaction
  <2>7. UNCHANGED <<attempt, billingEvent>>
    BY <1>2 DEF WebhookReceive
  <2> HIDE DEF work, where
  <2>8. QED
    BY <2>1, <2>2, <2>3, <2>4, <2>6, <2>7, UnsettledStep
<1>3. ASSUME NEW r \in Requests, GatewayAnswers(r)
      PROVE Reporting'
  <2>1. pc[r] = "verifying" /\ job[r] \in EventKeys /\ job[r].via = "verify"
    BY <1>3, JobIsTyped DEF GatewayAnswers, AskedByVerify
  <2>2. "paid" \in VerifyResults(job[r].attempt) => Reported(job[r])
    BY <2>1, BillingAssumption DEF VerifyResults, Reported
  <2>3. /\ \A q \in Requests \ {r} : pc'[q] = pc[q]
        /\ job' = job
        /\ \/ pc'[r] = "settling" /\ Reported(job[r])
           \/ pc'[r] = "overwriting"
    BY <2>1, <2>2, <1>3, GatewayGoesOn, GotoControl DEF PCs
  <2>4. UNCHANGED <<attempt, billingEvent>>
    BY <1>3 DEF GatewayAnswers
  <2>5. QED
    BY <2>1, <2>3, <2>4, UnsettledStep DEF InTransaction
<1>4. ASSUME NEW r \in Requests,
             GatewayUnreachable(r) \/ RequestDies(r) \/ WebhookIgnored(r) \/ WebhookProcessed(r)
      PROVE Reporting'
  BY <1>4, ReturnControl, UnsettledStep
     DEF GatewayUnreachable, RequestDies, WebhookIgnored, WebhookProcessed, WebhookFinish,
         InTransaction
<1>5. ASSUME NEW r \in Requests, VerifyOverwrite(r)
      PROVE Reporting'
  <2>1. \A a \in Attempts : attempt'[a] = "paid" => attempt[a] = "paid"
    BY <1>5 DEF VerifyOverwrite, Tables
  <2>2. QED
    BY <1>5, <2>1, ReturnControl, UnsettledStep DEF VerifyOverwrite, InTransaction
<1>6. ASSUME NEW r \in Requests, WebhookMatch(r)
      PROVE Reporting'
  <2>1. pc[r] = "matching" /\ UNCHANGED <<attempt, billingEvent>>
    BY <1>6 DEF WebhookMatch
  <2>2. job' = job /\ \A q \in Requests \ {r} : pc'[q] = pc[q]
    BY <1>6, GotoControl DEF WebhookMatch, PCs
  <2>3. QED
    BY <2>1, <2>2, UnsettledStep
<1>7. ASSUME NEW r \in Requests, SettleInsert(r)
      PROVE Reporting'
  <2>1. CASE job[r] \in billingEvent
    BY <1>7, <2>1, SettleReturnsControl, UnsettledStep DEF SettleInsert, InTransaction
  <2>2. CASE job[r] \notin billingEvent
    BY <1>7, <2>2, GotoControl, UnsettledStep DEF SettleInsert, PCs, InTransaction
  <2>3. QED
    BY <2>1, <2>2
<1>8. ASSUME NEW r \in Requests, SettleLock(r)
      PROVE Reporting'
  BY <1>8, UnsettledStep DEF SettleLock, InTransaction, Control
<1>9. ASSUME NEW r \in Requests, SettleCommit(r)
      PROVE Reporting'
  <2>1. job[r] \in EventKeys /\ Reported(job[r]) /\ gateway' = gateway
    BY <1>9, JobIsTyped DEF SettleCommit, Reporting, SettlingIsReported, InTransaction
  <2>2. billingEvent' = billingEvent \cup {job[r]}
        /\ \A a \in Attempts : attempt'[a] = "paid" => attempt[a] = "paid" \/ a = job[r].attempt
    BY <1>9 DEF SettleCommit, Tables
  <2>3. SettledAsReported'
    BY <2>1, <2>2 DEF Reporting, SettledAsReported, Reported
  <2>4. SettlingIsReported'
    BY <1>9, <2>1, GotoControl DEF SettleCommit, Reporting, SettlingIsReported, Reported, PCs, InTransaction
  <2>5. QED
    BY <2>3, <2>4 DEF Reporting
<1>10. ASSUME NEW r \in Requests, CreditCommission(r)
       PROVE Reporting'
  BY <1>10, SettleReturnsControl, UnsettledStep DEF CreditCommission, InTransaction
<1>11. ASSUME NEW a \in Attempts, Checkout(a)
       PROVE Reporting'
  <2>1. \A b \in Attempts : attempt'[b] = "paid" => attempt[b] = "paid"
    BY <1>11 DEF Checkout, Tables
  <2>2. QED
    BY <1>11, <2>1, UnsettledStep DEF Checkout, InTransaction
<1>12. ASSUME \/ \E a \in Attempts, outcome \in {"paid", "failed"} : CustomerDecides(a, outcome)
              \/ MonthEnds \/ UNCHANGED vars
       PROVE Reporting'
  BY <1>12, UnsettledStep DEF CustomerDecides, MonthEnds, vars, InTransaction
<1>13. QED
  BY <1>1, <1>2, <1>3, <1>4, <1>5, <1>6, <1>7, <1>8, <1>9, <1>10, <1>11, <1>12
     DEF Next, Arrive, Proceed, VerifyAlreadyPaid, WebhookDeduped

\* With a provider that is asked, and whatever webhooks come: what /verify
\* settles was paid for, what a webhook settles is a decided payment of which
\* webhooks are sent, and no attempt is paid without one of the two.  (The mock
\* provider answers "paid" to everything.)
THEOREM SettlementWasReported ==
    ASSUME Provider # "mock"
    PROVE  Spec => []SettledAsReported
<1>1. Init => Reporting /\ AskedByVerify
  BY DEF Init, Reporting, SettlingIsReported, SettledAsReported, InTransaction, AskedByVerify
<1>2. Reporting => SettledAsReported
  BY DEF Reporting
<1>3. QED
  BY <1>1, <1>2, ReportingStep, AskedStep, TypedInit, TypedStep, PTL DEF Spec

------------------------------------------------------------------------------
(* A settlement is all or nothing. *)

Settled == {k.attempt : k \in billingEvent}

\* NoTornSettlement of one tenant.
Whole(t) ==
    /\ (\E a \in Settled : Owner[a] = t) <=> subscription[t] # <<>>
    /\ subscription[t] # <<>> <=> mrr[t] # NoAttempt
    /\ \A i \in DOMAIN subscription[t] : subscription[t][i] \in Settled
    /\ mrr[t] \in Settled \cup {NoAttempt}

LEMMA NoTornIsWhole == NoTornSettlement <=> \A t \in Tenants : Whole(t)
  BY DEF NoTornSettlement, Whole, Settled

\* What a renewal or an INSERT leaves of the rows of a tenant: some, all of them
\* rows of before or of the payment.
LEMMA RenewedRows ==
    ASSUME NEW rows \in Seq(Attempts), NEW a \in Attempts, NEW found \in BOOLEAN,
           NEW new \in Renewed(rows, a, found)
    PROVE  /\ new # <<>>
           /\ \A i \in DOMAIN new : new[i] = a \/ \E j \in DOMAIN rows : new[i] = rows[j]
<1>1. CASE found
  <2>1. PICK k \in DOMAIN rows : new = [rows EXCEPT ![k] = a]
    BY <1>1 DEF Renewed
  <2>2. DOMAIN new = DOMAIN rows
    BY <2>1
  <2>3. \A i \in DOMAIN new : new[i] = a \/ new[i] = rows[i]
    BY <2>1, <2>2
  <2>4. new # <<>>
    BY <2>1, <2>2
  <2>5. QED
    BY <2>2, <2>3, <2>4
<1>2. CASE ~found
  <2>1. new = Append(rows, a)
    BY <1>2 DEF Renewed
  <2>2. QED
    BY <2>1
<1>3. QED
  BY <1>1, <1>2

\* COMMIT is the only step that writes what NoTornSettlement is about, and it
\* writes all of it.
LEMMA WholeStep ==
    Typed /\ NoTornSettlement /\ [Next]_vars => NoTornSettlement'
<1> SUFFICES ASSUME Typed, NoTornSettlement, [Next]_vars, NEW t \in Tenants
             PROVE  Whole(t)'
  BY DEF NoTornSettlement, Whole, Settled
<1>1. Whole(t)
  BY NoTornIsWhole
<1>2. ASSUME UNCHANGED <<billingEvent, subscription, mrr>>
      PROVE  Whole(t)'
  BY <1>1, <1>2 DEF Whole, Settled
<1>3. ASSUME NEW r \in Requests, SettleCommit(r)
      PROVE  Whole(t)'
  <2> DEFINE a == job[r].attempt
  <2>1. job[r] \in EventKeys /\ a \in Attempts /\ Owner[a] \in Tenants
    BY <1>3, JobIsTyped DEF SettleCommit, Typed
  <2>2. Settled' = Settled \cup {a}
    BY <1>3 DEF SettleCommit, Settled
  <2>3. a # NoAttempt
    BY <2>1, BillingAssumption
  <2>4. CASE Owner[a] = t
    <3>1. PICK rows \in Renewed(subscription[t], a, sawSub[r]) : subscription'[t] = rows
      BY <1>3, <2>1, <2>4 DEF SettleCommit, Typed, Tables
    <3>2. subscription[t] \in Seq(Attempts) /\ sawSub[r] \in BOOLEAN
      BY DEF Typed, Tables, Control
    <3>3. /\ subscription'[t] # <<>>
          /\ \A i \in DOMAIN subscription'[t] :
                \/ subscription'[t][i] = a
                \/ \E j \in DOMAIN subscription[t] : subscription'[t][i] = subscription[t][j]
      BY <2>1, <3>1, <3>2, RenewedRows
    <3>4. mrr'[t] = a
      BY <1>3, <2>1, <2>4 DEF SettleCommit, Typed, Tables
    <3>5. QED
      BY <1>1, <2>2, <2>3, <2>4, <3>3, <3>4 DEF Whole
  <2>5. CASE Owner[a] # t
    <3>1. subscription'[t] = subscription[t] /\ mrr'[t] = mrr[t]
      BY <1>3, <2>1, <2>5 DEF SettleCommit, Typed, Tables
    <3>2. QED
      BY <1>1, <2>2, <2>5, <3>1 DEF Whole
  <2>6. QED
    BY <2>4, <2>5
<1>4. ASSUME NEW r \in Requests, Arrive(r) \/ RequestDies(r)
      PROVE  UNCHANGED <<billingEvent, subscription, mrr>>
  BY <1>4 DEF Arrive, VerifyRead, VerifyAlreadyPaid, WebhookReceive, WebhookDeduped, RequestDies,
              database, vars
<1>5. ASSUME NEW r \in Requests, Proceed(r), ~SettleCommit(r)
      PROVE  UNCHANGED <<billingEvent, subscription, mrr>>
  BY <1>5 DEF Proceed, GatewayAnswers, GatewayUnreachable, VerifyOverwrite, WebhookIgnored,
              WebhookMatch, WebhookProcessed, WebhookFinish, SettleInsert, SettleLock,
              CreditCommission, database
<1>6. ASSUME \/ \E a \in Attempts : Checkout(a)
             \/ \E a \in Attempts, outcome \in {"paid", "failed"} : CustomerDecides(a, outcome)
             \/ MonthEnds
             \/ UNCHANGED vars
      PROVE  UNCHANGED <<billingEvent, subscription, mrr>>
  BY <1>6 DEF Checkout, CustomerDecides, MonthEnds, vars, database
<1>7. QED
  BY <1>2, <1>3, <1>4, <1>5, <1>6 DEF Next

\* An event is on record exactly when its tenant has a subscription and billing
\* figures that settled payments explain: the transaction of settlePaidPayment
\* is never seen half done, whatever dies or overlaps.
THEOREM SettlementIsNeverTorn == Spec => []NoTornSettlement
<1>1. Init => NoTornSettlement
  <2> SUFFICES ASSUME Init, NEW t \in Tenants PROVE Whole(t)
    BY NoTornIsWhole
  <2>1. subscription[t] = <<>> /\ mrr[t] = NoAttempt /\ Settled = {}
    BY DEF Init, Settled
  <2>2. DOMAIN subscription[t] = {}
    BY <2>1
  <2>3. QED
    BY <2>1, <2>2 DEF Whole
<1>2. QED
  BY <1>1, WholeStep, TypedInit, TypedStep, PTL DEF Spec

------------------------------------------------------------------------------
(* What is recorded, and what is settled, is not forgotten. *)

\* A step that records no new webhook, and after which each handler of one still
\* has it, or has handled it, or has died, forgets none.
LEMMA StaysInHand ==
    ASSUME ReceivedIsInHand, died \subseteq died',
           \A a \in Attempts : webhookEvent'[a] = "received" => webhookEvent[a] = "received",
           \A r \in Requests : pc[r] # "idle" /\ job[r].via = "webhook" =>
               \/ pc'[r] # "idle" /\ job'[r] = job[r]
               \/ webhookEvent'[job[r].attempt] # "received"
               \/ \E d \in died' : d.event = job[r]
    PROVE  ReceivedIsInHand'
<1> SUFFICES ASSUME NEW a \in Attempts, webhookEvent'[a] = "received"
             PROVE  \/ \E r \in Requests : pc'[r] # "idle" /\ job'[r] = [via |-> "webhook", attempt |-> a]
                    \/ \E d \in died' : d.event = [via |-> "webhook", attempt |-> a]
  BY DEF ReceivedIsInHand
<1> DEFINE event == [via |-> "webhook", attempt |-> a]
<1>1. event.via = "webhook" /\ event.attempt = a
  OBVIOUS
<1>2. \/ \E r \in Requests : pc[r] # "idle" /\ job[r] = event
      \/ \E d \in died : d.event = event
  BY DEF ReceivedIsInHand
<1> HIDE DEF event
<1>3. CASE \E d \in died : d.event = event
  BY <1>3 DEF event
<1>4. ASSUME NEW r \in Requests, pc[r] # "idle" /\ job[r] = event
      PROVE  \/ pc'[r] # "idle" /\ job'[r] = event
             \/ \E d \in died' : d.event = event
  BY <1>1, <1>4
<1>5. QED
  BY <1>2, <1>3, <1>4 DEF event

LEMMA InHandStep ==
    Typed /\ AskedByVerify /\ ReceivedIsInHand /\ [Next]_vars => ReceivedIsInHand'
<1> SUFFICES ASSUME Typed, AskedByVerify, ReceivedIsInHand, [Next]_vars PROVE ReceivedIsInHand'
  OBVIOUS
<1> USE DEF Typed, ExternalUnchanged, database
<1>1. ASSUME NEW r \in Requests, NEW a \in Attempts, VerifyRead(r, a)
      PROVE  ReceivedIsInHand'
  BY <1>1, StaysInHand DEF VerifyRead, Start, Control
<1>2. ASSUME NEW r \in Requests, NEW a \in Attempts, NEW verified \in BOOLEAN,
             WebhookReceive(r, a, verified)
      PROVE  ReceivedIsInHand'
  <2>1. pc'[r] # "idle" /\ job'[r] = [via |-> "webhook", attempt |-> a]
    BY <1>2 DEF WebhookReceive, Start, Control
  <2>2. /\ \A q \in Requests : pc[q] # "idle" => pc'[q] # "idle" /\ job'[q] = job[q]
        /\ died' = died
        /\ \A b \in Attempts \ {a} : webhookEvent'[b] = webhookEvent[b]
    BY <1>2 DEF WebhookReceive, Start, Control, Tables
  <2>3. QED
    BY <2>1, <2>2 DEF ReceivedIsInHand
<1>3. ASSUME NEW r \in Requests, GatewayAnswers(r) \/ WebhookMatch(r)
      PROVE  ReceivedIsInHand'
  BY <1>3, GatewayGoesOn, GotoControl, StaysInHand DEF GatewayAnswers, WebhookMatch, PCs
<1>4. ASSUME NEW r \in Requests, GatewayUnreachable(r) \/ VerifyOverwrite(r)
      PROVE  ReceivedIsInHand'
  <2>1. job[r].via = "verify"
    BY <1>4 DEF GatewayUnreachable, VerifyOverwrite, AskedByVerify
  <2>2. UNCHANGED <<webhookEvent, died>> /\ \A q \in Requests \ {r} : pc'[q] = pc[q] /\ job'[q] = job[q]
    BY <1>4, ReturnControl DEF GatewayUnreachable, VerifyOverwrite
  <2>3. QED
    BY <2>1, <2>2, StaysInHand
<1>5. ASSUME NEW r \in Requests, WebhookIgnored(r) \/ WebhookProcessed(r)
      PROVE  ReceivedIsInHand'
  <2> DEFINE a == job[r].attempt
  <2>1. a \in Attempts
    BY <1>5, JobIsTyped DEF WebhookIgnored, WebhookProcessed, WebhookFinish
  <2>2. /\ webhookEvent'[a] # "received" /\ died' = died
        /\ \A b \in Attempts \ {a} : webhookEvent'[b] = webhookEvent[b]
    BY <1>5, <2>1 DEF WebhookIgnored, WebhookProcessed, WebhookFinish, Tables
  <2>3. \A q \in Requests \ {r} : pc'[q] = pc[q] /\ job'[q] = job[q]
    BY <1>5, ReturnControl DEF WebhookIgnored, WebhookProcessed, WebhookFinish
  <2>4. QED
    BY <2>1, <2>2, <2>3, StaysInHand
<1>6. ASSUME NEW r \in Requests, SettleInsert(r) \/ CreditCommission(r)
      PROVE  ReceivedIsInHand'
  <2>1. UNCHANGED <<webhookEvent, died>> /\ pc[r] # "idle"
    BY <1>6 DEF SettleInsert, CreditCommission
  <2>2. CASE SettleReturns(r)
    <3>1. job[r].via # "verify" => pc'[r] # "idle" /\ job' = job
      BY <2>1, <2>2, GotoControl DEF SettleReturns, PCs
    <3>2. \A q \in Requests \ {r} : pc'[q] = pc[q] /\ job'[q] = job[q]
      BY <2>1, <2>2, SettleReturnsControl
    <3>3. QED
      BY <2>1, <3>1, <3>2, StaysInHand
  <2>3. CASE Goto(r, "inserted")
    BY <2>1, <2>3, GotoControl, StaysInHand DEF PCs, InTransaction
  <2>4. QED
    BY <1>6, <2>2, <2>3 DEF SettleInsert, CreditCommission
<1>7. ASSUME NEW r \in Requests, SettleLock(r)
      PROVE  ReceivedIsInHand'
  BY <1>7, StaysInHand DEF SettleLock, Control
<1>8. ASSUME NEW r \in Requests, SettleCommit(r)
      PROVE  ReceivedIsInHand'
  BY <1>8, GotoControl, StaysInHand DEF SettleCommit, PCs
<1>9. ASSUME NEW r \in Requests, RequestDies(r)
      PROVE  ReceivedIsInHand'
  <2> DEFINE d == [event |-> job[r], owing |-> pc[r] = "crediting"]
  <2>1. UNCHANGED webhookEvent /\ died' = died \cup {d} /\ d.event = job[r]
    BY <1>9 DEF RequestDies
  <2>2. \A q \in Requests \ {r} : pc'[q] = pc[q] /\ job'[q] = job[q]
    BY <1>9, ReturnControl DEF RequestDies
  <2> HIDE DEF d
  <2>3. QED
    BY <2>1, <2>2, StaysInHand
<1>10. ASSUME UNCHANGED <<pc, job, webhookEvent, died>>
       PROVE  ReceivedIsInHand'
  BY <1>10, StaysInHand
<1>11. QED
  BY <1>1, <1>2, <1>3, <1>4, <1>5, <1>6, <1>7, <1>8, <1>9, <1>10
     DEF Next, Arrive, Proceed, VerifyAlreadyPaid, WebhookDeduped, Checkout, CustomerDecides,
         MonthEnds, vars

\* A webhook on record that is not handled has its handler, or lost it to a death
\* (POST /webhooks/payment: a key that was seen is not taken up again).
THEOREM ReceivedStaysInHand == Spec => []ReceivedIsInHand
<1>1. Init => AskedByVerify /\ ReceivedIsInHand
  BY DEF Init, AskedByVerify, ReceivedIsInHand
<1>2. QED
  BY <1>1, AskedStep, InHandStep, TypedInit, TypedStep, PTL DEF Spec

\* A step that settles nothing, and after which each request that owes a
\* commission still does, or has died of it, leaves the settled ones accounted for.
LEMMA StaysEarned ==
    ASSUME SettlementEarnsCommission, billingEvent' = billingEvent,
           commission \subseteq commission', died \subseteq died',
           \A r \in Requests : pc[r] = "crediting" =>
               \/ pc'[r] = "crediting" /\ job'[r] = job[r]
               \/ [event |-> job[r], owing |-> TRUE] \in died'
               \/ Owner[job[r].attempt] \in Referred =>
                     \E c \in commission' : c.tenant = Owner[job[r].attempt]
    PROVE  SettlementEarnsCommission'
  BY DEF SettlementEarnsCommission

LEMMA EarnsStep == Typed /\ SettlementEarnsCommission /\ [Next]_vars => SettlementEarnsCommission'
<1> SUFFICES ASSUME Typed, SettlementEarnsCommission, [Next]_vars PROVE SettlementEarnsCommission'
  OBVIOUS
<1> USE DEF Typed, ExternalUnchanged, database
<1>1. ASSUME NEW r \in Requests, Arrive(r)
      PROVE  SettlementEarnsCommission'
  <2>1. ASSUME pc[r] = "idle"
        PROVE  UNCHANGED <<billingEvent, commission, died>>
               /\ \A q \in Requests : pc[q] # "idle" => pc'[q] = pc[q] /\ job'[q] = job[q]
    BY <1>1, <2>1 DEF Arrive, VerifyRead, VerifyAlreadyPaid, WebhookReceive, WebhookDeduped,
                      Start, Control, vars
  <2>2. pc[r] = "idle"
    BY <1>1 DEF Arrive, VerifyRead, VerifyAlreadyPaid, WebhookReceive, WebhookDeduped, Start
  <2>3. QED
    BY <2>1, <2>2, StaysEarned
<1>2. ASSUME NEW r \in Requests, GatewayAnswers(r) \/ WebhookMatch(r)
      PROVE  SettlementEarnsCommission'
  BY <1>2, GatewayGoesOn, GotoControl, StaysEarned DEF GatewayAnswers, WebhookMatch, PCs
<1>3. ASSUME NEW r \in Requests,
             GatewayUnreachable(r) \/ VerifyOverwrite(r) \/ WebhookIgnored(r) \/ WebhookProcessed(r)
      PROVE  SettlementEarnsCommission'
  BY <1>3, ReturnControl, StaysEarned
     DEF GatewayUnreachable, VerifyOverwrite, WebhookIgnored, WebhookProcessed, WebhookFinish
<1>4. ASSUME NEW r \in Requests, SettleInsert(r)
      PROVE  SettlementEarnsCommission'
  BY <1>4, SettleReturnsControl, GotoControl, StaysEarned DEF SettleInsert, PCs, InTransaction
<1>5. ASSUME NEW r \in Requests, SettleLock(r)
      PROVE  SettlementEarnsCommission'
  BY <1>5, StaysEarned DEF SettleLock, Control
<1>6. ASSUME NEW r \in Requests, SettleCommit(r)
      PROVE  SettlementEarnsCommission'
  <2>1. /\ billingEvent' = billingEvent \cup {job[r]} /\ commission' = commission /\ died' = died
        /\ pc[r] = "locked"
    BY <1>6 DEF SettleCommit
  <2>2. /\ \A q \in Requests \ {r} : pc'[q] = pc[q]
        /\ pc'[r] = "crediting"
        /\ job' = job
    BY <1>6, GotoControl DEF SettleCommit, PCs
  <2>3. QED
    BY <2>1, <2>2 DEF SettlementEarnsCommission
<1>7. ASSUME NEW r \in Requests, CreditCommission(r)
      PROVE  SettlementEarnsCommission'
  <2> DEFINE t == Owner[job[r].attempt]
             row == [tenant |-> t, month |-> month, event |-> job[r]]
  <2>1. t \in Referred => \/ \E c \in commission : c.tenant = t
                          \/ commission' = commission \cup {row}
    BY <1>7 DEF CreditCommission
  <2>2. row.tenant = t
    OBVIOUS
  <2>3. commission \subseteq commission' /\ UNCHANGED <<billingEvent, died>>
    BY <1>7 DEF CreditCommission
  <2>4. \A q \in Requests \ {r} : pc'[q] = pc[q] /\ job'[q] = job[q]
    BY <1>7, SettleReturnsControl DEF CreditCommission
  <2> HIDE DEF row
  <2>5. t \in Referred => \E c \in commission' : c.tenant = t
    BY <2>1, <2>2, <2>3
  <2>6. QED
    BY <2>3, <2>4, <2>5, StaysEarned
<1>8. ASSUME NEW r \in Requests, RequestDies(r)
      PROVE  SettlementEarnsCommission'
  <2>1. /\ UNCHANGED <<billingEvent, commission>>
        /\ died' = died \cup {[event |-> job[r], owing |-> pc[r] = "crediting"]}
    BY <1>8 DEF RequestDies
  <2>2. pc[r] = "crediting" => [event |-> job[r], owing |-> TRUE] \in died'
    BY <2>1
  <2>3. \A q \in Requests \ {r} : pc'[q] = pc[q] /\ job'[q] = job[q]
    BY <1>8, ReturnControl DEF RequestDies
  <2>4. QED
    BY <2>1, <2>2, <2>3, StaysEarned
<1>9. ASSUME UNCHANGED <<pc, job, billingEvent, commission, died>>
      PROVE  SettlementEarnsCommission'
  BY <1>9, StaysEarned
<1>10. QED
  BY <1>1, <1>2, <1>3, <1>4, <1>5, <1>6, <1>7, <1>8, <1>9
     DEF Next, Proceed, Checkout, CustomerDecides, MonthEnds, vars

\* A settled payment of a referred tenant has earned a commission or is about to,
\* unless a request died between the COMMIT of settlePaidPayment and
\* generateCommissionForPayment.
THEOREM SettlementIsCredited == Spec => []SettlementEarnsCommission
<1>1. Init => SettlementEarnsCommission
  BY DEF Init, SettlementEarnsCommission
<1>2. QED
  BY <1>1, EarnsStep, TypedInit, TypedStep, PTL DEF Spec

------------------------------------------------------------------------------
(* Second subscriptions. *)

\* The action of LaterSettlementsRenew for one tenant.
RenewsOnly(t) ==
    \/ /\ Len(subscription'[t]) = Len(subscription[t])
       /\ Inserting(t)' \subseteq Inserting(t)
    \/ /\ Len(subscription'[t]) = Len(subscription[t]) + 1
       /\ \E r \in Inserting(t) : Inserting(t)' = Inserting(t) \ {r}

\* A step that writes no subscription, and brings no request to an INSERT of one.
LEMMA NoNewInserts ==
    ASSUME NEW t \in Tenants, subscription'[t] = subscription[t],
           \A r \in Requests : pc'[r] = "locked" =>
               pc[r] = "locked" /\ job'[r] = job[r] /\ sawSub'[r] = sawSub[r]
    PROVE  RenewsOnly(t)
  BY DEF RenewsOnly, Inserting

LEMMA RenewsStep ==
    ASSUME Typed, [Next]_vars, NEW t \in Tenants, subscription[t] # <<>>
    PROVE  RenewsOnly(t)
<1> USE DEF Typed, ExternalUnchanged, database
<1>1. ASSUME NEW r \in Requests, Arrive(r)
      PROVE  RenewsOnly(t)
  <2>1. ASSUME NEW a \in Attempts, VerifyRead(r, a)
        PROVE  RenewsOnly(t)
    BY <2>1, NoNewInserts DEF VerifyRead, Start, Control
  <2>2. ASSUME NEW a \in Attempts, NEW verified \in BOOLEAN, WebhookReceive(r, a, verified)
        PROVE  RenewsOnly(t)
    BY <2>2, NoNewInserts DEF WebhookReceive, Start, Control
  <2>3. CASE UNCHANGED vars
    BY <2>3, NoNewInserts DEF vars
  <2>4. QED
    BY <1>1, <2>1, <2>2, <2>3 DEF Arrive, VerifyAlreadyPaid, WebhookDeduped
<1>2. ASSUME NEW r \in Requests, GatewayAnswers(r)
      PROVE  RenewsOnly(t)
  BY <1>2, GatewayGoesOn, NoNewInserts DEF GatewayAnswers, Goto, Control
<1>3. ASSUME NEW r \in Requests,
             GatewayUnreachable(r) \/ VerifyOverwrite(r) \/ WebhookIgnored(r)
               \/ WebhookProcessed(r) \/ RequestDies(r)
      PROVE  RenewsOnly(t)
  BY <1>3, NoNewInserts DEF GatewayUnreachable, VerifyOverwrite, WebhookIgnored,
                            WebhookProcessed, WebhookFinish, RequestDies, Return, Control
<1>4. ASSUME NEW r \in Requests, WebhookMatch(r) \/ SettleInsert(r) \/ CreditCommission(r)
      PROVE  RenewsOnly(t)
  BY <1>4, NoNewInserts DEF WebhookMatch, SettleInsert, CreditCommission, SettleReturns,
                            Goto, Return, Control
<1>5. ASSUME NEW r \in Requests, SettleLock(r)
      PROVE  RenewsOnly(t)
  <2>1. /\ subscription' = subscription /\ job' = job
        /\ sawSub'[r] = (subscription[Owner[job[r].attempt]] # <<>>)
        /\ \A q \in Requests \ {r} : pc'[q] = pc[q] /\ sawSub'[q] = sawSub[q]
    BY <1>5 DEF SettleLock, Control
  <2>2. Inserting(t)' \subseteq Inserting(t)
    BY <2>1 DEF Inserting
  <2>3. QED
    BY <2>1, <2>2 DEF RenewsOnly
<1>6. ASSUME NEW r \in Requests, SettleCommit(r)
      PROVE  RenewsOnly(t)
  <2> DEFINE a == job[r].attempt
             rows == subscription[t]
  <2>1. job[r] \in EventKeys /\ a \in Attempts /\ Owner[a] \in Tenants
    BY <1>6, JobIsTyped DEF SettleCommit
  <2>2. /\ pc[r] = "locked" /\ pc'[r] = "crediting" /\ UNCHANGED <<job, sawSub>>
        /\ \A q \in Requests \ {r} : pc'[q] = pc[q]
    BY <1>6 DEF SettleCommit, Goto, Control
  <2>3. CASE Owner[a] # t
    <3>1. subscription'[t] = subscription[t]
      BY <1>6, <2>1, <2>3 DEF SettleCommit, Tables
    <3>2. QED
      BY <2>2, <3>1, NoNewInserts
  <2>4. CASE Owner[a] = t
    <3>1. rows \in Seq(Attempts)
      BY DEF Tables
    <3>2. PICK new \in Renewed(rows, a, sawSub[r]) : subscription'[t] = new
      BY <1>6, <2>1, <2>4 DEF SettleCommit, Tables
    <3>3. CASE sawSub[r]
      <4>1. PICK i \in DOMAIN rows : new = [rows EXCEPT ![i] = a]
        BY <3>2, <3>3 DEF Renewed
      <4>2. Len(new) = Len(rows)
        BY <2>1, <3>1, <4>1
      <4>3. Inserting(t)' \subseteq Inserting(t)
        BY <2>2 DEF Inserting
      <4>4. QED
        BY <3>2, <4>2, <4>3 DEF RenewsOnly
    <3>4. CASE ~sawSub[r]
      <4>1. new = Append(rows, a)
        BY <3>2, <3>4 DEF Renewed
      <4>2. Len(new) = Len(rows) + 1
        BY <2>1, <3>1, <4>1
      <4>3. r \in Inserting(t) /\ Inserting(t)' = Inserting(t) \ {r}
        BY <2>2, <2>4, <3>4 DEF Inserting
      <4>4. QED
        BY <3>2, <4>2, <4>3 DEF RenewsOnly
    <3>5. QED
      BY <3>3, <3>4
  <2>5. QED
    BY <2>3, <2>4
<1>7. ASSUME UNCHANGED <<pc, job, sawSub, subscription>>
      PROVE  RenewsOnly(t)
  BY <1>7, NoNewInserts
<1>8. QED
  BY <1>1, <1>2, <1>3, <1>4, <1>5, <1>6, <1>7
     DEF Next, Proceed, Checkout, CustomerDecides, MonthEnds, vars

\* A further subscription row of a tenant comes from a settlement that had looked
\* for one before the first was committed (settlePaidPayment, which locks no row
\* of the tenant), and from no settlement that begins later.
THEOREM SecondRowsOverlapped == Spec => LaterSettlementsRenew
<1>1. Typed /\ [Next]_vars =>
          [\A t \in Tenants : subscription[t] # <<>> => RenewsOnly(t)]_vars
  BY RenewsStep
<1>2. QED
  BY <1>1, TypedInit, TypedStep, PTL DEF Spec, LaterSettlementsRenew, RenewsOnly
==============================================================================
