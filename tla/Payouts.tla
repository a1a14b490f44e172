------------------------------ MODULE Payouts ------------------------------
(***************************************************************************)
(* The balance of one marketer and the payouts asked for against it        *)
(* (services/commission.ts, http/routes/affiliate.ts, http/routes/admin.ts).*)
(* A request reads the balance in one statement and inserts the payout in  *)
(* another.  Commissions come from module Billing as "pending"; the code   *)
(* never approves one, so their approval is an action of the outside.      *)
(***************************************************************************)
EXTENDS Integers, FiniteSets

CONSTANTS
    Requests,       \* POST /affiliate/payouts that may be under way at once
    Admins,         \* PATCH /admin/payouts/:id that may be under way at once
    Amounts,        \* what is asked for, and earned, in minor units
    MaxEarned,      \* bound on the commissions approved
    MaxPayouts,     \* bound on the payouts
    MaxRevived      \* bound on the sum taken back from "rejected"

ASSUME PayoutsAssumption ==
    /\ IsFiniteSet(Requests)
    /\ Amounts \subseteq Nat \ {0}
    /\ MaxEarned \in Nat /\ MaxPayouts \in Nat /\ MaxRevived \in Nat

VARIABLES
    approved, settled,  \* sums of the commissions approved, and paid
    payouts,            \* rows of payout, numbered
    asked,              \* asked[r]: the amount r found covered, or 0
    settling,           \* admins that have marked a payout paid and go on
    revived             \* sum of the payouts taken back from "rejected"

vars == <<approved, settled, payouts, asked, settling, revived>>

Init ==
    /\ approved = 0 /\ settled = 0 /\ payouts = {}
    /\ asked = [r \in Requests |-> 0]
    /\ settling = {} /\ revived = 0

\* A sum counts minor units: there are amount[x] of them for each x.
Units(amount, S) == UNION {{x} \X (1 .. amount[x]) : x \in S}
SumOf(amount, S) == Cardinality(Units(amount, S))

AmountOf == [p \in payouts |-> p.amount]
Standing == {p \in payouts : p.status # "rejected"}
Outstanding == SumOf(AmountOf, Standing)

\* Slip: a payout that is paid out counts no more, and the commissions do.
availableBalance_unpaid ==
    approved + settled - SumOf(AmountOf, {p \in Standing : p.status # "paid"})

\* availableBalanceMinor; below 0 it is shown as 0, and no amount is covered.
availableBalance == approved - Outstanding

Earned == approved + settled

ApproveCommission ==
    /\ \E a \in Amounts : Earned + a <= MaxEarned /\ approved' = approved + a
    /\ UNCHANGED <<settled, payouts, asked, settling, revived>>

CheckBalance(r) ==
    /\ asked[r] = 0
    /\ \E a \in Amounts : a <= availableBalance /\ asked' = [asked EXCEPT ![r] = a]
    /\ UNCHANGED <<approved, settled, payouts, settling, revived>>

InsertPayout(r) ==
    /\ asked[r] # 0
    /\ Cardinality(payouts) < MaxPayouts
    /\ payouts' = payouts \cup
          {[id |-> Cardinality(payouts) + 1, amount |-> asked[r], status |-> "requested"]}
    /\ asked' = [asked EXCEPT ![r] = 0]
    /\ UNCHANGED <<approved, settled, settling, revived>>

RequestDies(r) ==
    /\ asked[r] # 0
    /\ asked' = [asked EXCEPT ![r] = 0]
    /\ UNCHANGED <<approved, settled, payouts, settling, revived>>

Decided(p, status) == [p EXCEPT !.status = status]

\* Slip: the decision is a row of its own.
DecidedPayouts_appended(p, status) == payouts \cup {Decided(p, status)}
DecidedPayouts(p, status) == (payouts \ {p}) \cup {Decided(p, status)}

TakenBack(p, status) == IF p.status = "rejected" /\ status # "rejected" THEN p.amount ELSE 0

\* The UPDATE names the payout by id, whatever its status is.
Decide(h, p, status) ==
    /\ h \notin settling
    /\ revived + TakenBack(p, status) <= MaxRevived
    /\ payouts' = DecidedPayouts(p, status)
    /\ settling' = IF status = "paid" THEN settling \cup {h} ELSE settling
    /\ revived' = revived + TakenBack(p, status)
    /\ UNCHANGED <<approved, settled, asked>>

\* Every commission the marketer has approved is paid now, whatever the payout was.
SettleCommissions(h) ==
    /\ h \in settling /\ settling' = settling \ {h}
    /\ settled' = settled + approved
    /\ approved' = 0
    /\ UNCHANGED <<payouts, asked, revived>>

AdminDies(h) ==
    /\ h \in settling /\ settling' = settling \ {h}
    /\ UNCHANGED <<approved, settled, payouts, asked, revived>>

Next ==
    \/ ApproveCommission
    \/ \E r \in Requests : CheckBalance(r) \/ InsertPayout(r) \/ RequestDies(r)
    \/ \E h \in Admins : SettleCommissions(h) \/ AdminDies(h)
    \/ \E h \in Admins, p \in payouts, s \in {"approved", "rejected", "paid"} : Decide(h, p, s)

Spec == Init /\ [][Next]_vars

-----------------------------------------------------------------------------
Ids == {p.id : p \in payouts}

\* Sums within what was earned, and one row for each payout.
TypeOK ==
    /\ approved \in Nat /\ settled \in Nat /\ Earned <= MaxEarned /\ revived \in 0 .. MaxRevived
    /\ payouts \subseteq [id : 1 .. MaxPayouts, amount : Amounts,
                          status : {"requested", "approved", "rejected", "paid"}]
    /\ Ids = 1 .. Cardinality(payouts)
    /\ \A p, q \in payouts : p.id = q.id => p = q
    /\ asked \in [Requests -> {0} \cup Amounts] /\ settling \subseteq Admins

\* Requests that overlap can each be covered by the same balance, so payouts can
\* exceed what the marketer earned; but never by more than one balance for each
\* request that overlaps, and what the administrator takes back from "rejected".
OverdraftBounded ==
    Outstanding + SumOf(asked, Requests) <= Cardinality(Requests) * Earned + revived

\* Nobody asks for more than was earned, so each payout is at most that.  With
\* this the two are inductive.
Covered ==
    /\ \A r \in Requests : asked[r] <= Earned
    /\ \A p \in payouts : p.amount <= Earned
    /\ IsFiniteSet(payouts)

IInv == TypeOK /\ Covered /\ OverdraftBounded
=============================================================================
