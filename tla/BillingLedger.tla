---------------------------- MODULE BillingLedger ----------------------------
(***************************************************************************)
(* What platform billing promises, without its requests, transactions or  *)
(* retries: a ledger of settled provider events and the commissions they  *)
(* paid.  A provider event enters the ledger once, and pays its tenant's  *)
(* referrer at most once and at most once per tenant and month.  Billing  *)
(* implements this specification.                                         *)
(***************************************************************************)
EXTENDS Naturals

CONSTANTS
    Tenants,      \* tenants of the platform
    Attempts,     \* payment attempts
    Owner,        \* the tenant a payment attempt belongs to
    Referred,     \* tenants a marketer referred, at a rate above zero
    LastMonth     \* bound on the months that pass

VARIABLES
    settled,      \* provider events that have been settled
    paid          \* commissions: tenant, month, and the event that paid it

vars == <<settled, paid>>

\* A provider event is known by the channel that reported it and its payment.
EventKeys == [via : {"verify", "webhook"}, attempt : Attempts]

Commissions == [tenant : Tenants, month : 1..LastMonth, event : EventKeys]

TypeOK ==
    /\ settled \subseteq EventKeys
    /\ paid \subseteq Commissions

Init ==
    /\ settled = {}
    /\ paid = {}

Settle(k) ==
    /\ k \notin settled
    /\ settled' = settled \cup {k}
    /\ UNCHANGED paid

Credit(k, m) ==
    LET t == Owner[k.attempt]
    IN  /\ k \in settled
        /\ t \in Referred
        /\ \A c \in paid : c.event # k /\ ~(c.tenant = t /\ c.month = m)
        /\ paid' = paid \cup {[tenant |-> t, month |-> m, event |-> k]}
        /\ UNCHANGED settled

Next ==
    \E k \in EventKeys :
        \/ Settle(k)
        \/ \E m \in 1..LastMonth : Credit(k, m)

Spec == Init /\ [][Next]_vars
==============================================================================
