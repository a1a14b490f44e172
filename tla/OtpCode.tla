------------------------------ MODULE OtpCode ------------------------------
(***************************************************************************)
(* The one-time codes of one mobile number: /auth/otp/request and          *)
(* /auth/otp/verify of services/api.                                        *)
(*                                                                         *)
(* Both handlers read the otp_code table, await, and write to it later, so *)
(* handlers overlap between a check and the write it permits.  The rows of *)
(* the last hour are kept newest first with their age; older rows concern  *)
(* neither the quota, the cooldown nor a verification.                     *)
(***************************************************************************)
EXTENDS Naturals, Sequences, FiniteSets

CONSTANTS
    Codes,          \* names for the rows of an hour
    Requesters,     \* request handlers that may be in flight at once
    Verifiers,      \* verify handlers that may be in flight at once
    Quota,          \* OTP_REQUESTS_PER_HOUR
    Cooldown,       \* OTP_RESEND_COOLDOWN_SECONDS, in ticks of the clock
    TTL,            \* OTP_TTL_SECONDS
    Hour,
    MaxAttempts,    \* OTP_MAX_ATTEMPTS
    NoCode

ASSUME OtpCodeAssumption ==
    /\ NoCode \notin Codes
    /\ IsFiniteSet(Requesters) /\ IsFiniteSet(Verifiers)
    /\ Quota \in Nat \ {0} /\ MaxAttempts \in Nat \ {0}
    /\ Cooldown \in Nat /\ TTL \in Nat \ {0} /\ Hour \in Nat
    /\ TTL <= Hour /\ Cooldown <= Hour

VARIABLES
    rows,           \* otp_code rows of the last hour, newest first
    request,        \* where each request handler is
    verify          \* the row each verify handler judged its code by, and how

vars == <<rows, request, verify>>

\* A row and, for the properties, how many verifications it turned down and let in.
Row == [code : Codes, age : 0..Hour, attempts : Nat, consumed : BOOLEAN,
        wrong : Nat, logins : Nat]
NewRow(c) == [code |-> c, age |-> 0, attempts |-> 0, consumed |-> FALSE,
              wrong |-> 0, logins |-> 0]
Judged == [code : Codes \cup {NoCode}, attempts : Nat, right : BOOLEAN]
Idle == [code |-> NoCode, attempts |-> 0, right |-> FALSE]

TypeOK ==
    /\ rows \in Seq(Row)
    /\ \A i, j \in DOMAIN rows : i <= j => rows[i].age <= rows[j].age /\ rows[j].age < Hour
    /\ request \in [Requesters -> {"idle", "counted", "sending"}]
    /\ verify \in [Verifiers -> Judged]

Init ==
    /\ rows = <<>>
    /\ request = [r \in Requesters |-> "idle"]
    /\ verify = [v \in Verifiers |-> Idle]

------------------------------------------------------------------------------
(* The clock. *)

\* The rows are newest first, so those that stay are the first n.
FirstStay(n) ==
    /\ rows' = [i \in 1..n |-> [rows[i] EXCEPT !.age = @ + 1]]
    /\ UNCHANGED <<request, verify>>

\* Slip: a row that is an hour old is still counted.
Tick_inclusive ==
    \E n \in 0..Len(rows) :
        /\ \A i \in DOMAIN rows : i <= n <=> rows[i].age < Hour
        /\ FirstStay(n)

Tick ==
    \E n \in 0..Len(rows) :
        /\ \A i \in DOMAIN rows : i <= n <=> rows[i].age + 1 < Hour
        /\ FirstStay(n)

------------------------------------------------------------------------------
(* requestOtp. *)

At(r, from, to) ==
    /\ request[r] = from
    /\ request' = [request EXCEPT ![r] = to]

\* Slip: the limit is compared with <= instead of <.
CheckQuota_offByOne(r) ==
    /\ At(r, "idle", "counted")
    /\ Len(rows) <= Quota
    /\ UNCHANGED <<rows, verify>>

\* assertWithinHourlyLimit; a request it refuses changes nothing.
CheckQuota(r) ==
    /\ At(r, "idle", "counted")
    /\ Len(rows) < Quota
    /\ UNCHANGED <<rows, verify>>

\* Slip: only codes that can still be used hold back the next one.
CheckCooldown_onlyUsable(r) ==
    /\ request[r] = "counted"
    /\ request' = [request EXCEPT ![r] =
           IF rows = <<>> \/ Head(rows).consumed \/ Head(rows).age >= Cooldown
             THEN "sending" ELSE "idle"]
    /\ UNCHANGED <<rows, verify>>

\* assertResendCooldown.
CheckCooldown(r) ==
    /\ request[r] = "counted"
    /\ request' = [request EXCEPT ![r] =
           IF rows = <<>> \/ Head(rows).age >= Cooldown THEN "sending" ELSE "idle"]
    /\ UNCHANGED <<rows, verify>>

\* The provider refuses, or the request dies: no row was written.
SmsFails(r) ==
    /\ At(r, "sending", "idle")
    /\ UNCHANGED <<rows, verify>>

\* A name no row of the hour bears and no verification holds.
Unused(c) ==
    /\ \A i \in DOMAIN rows : rows[i].code # c
    /\ \A v \in Verifiers : verify[v].code # c

\* The SMS is out: INSERT.
StoreCode(r, c) ==
    /\ At(r, "sending", "idle")
    /\ Unused(c)
    /\ rows' = <<NewRow(c)>> \o rows
    /\ UNCHANGED verify

------------------------------------------------------------------------------
(* verifyOtp. *)

\* The rows a verification may judge by: not consumed, not expired.
Usable == {i \in DOMAIN rows : ~rows[i].consumed /\ rows[i].age < TTL}

\* The newest usable row decides, when it has attempts left.  (A code for
\* another portal is refused like a missing row: nothing changes.)
JudgeCode(v, right) ==
    \E i \in Usable :
        /\ verify[v] = Idle
        /\ \A j \in Usable : i <= j
        /\ rows[i].attempts < MaxAttempts
        /\ verify' = [verify EXCEPT ![v] = [code |-> rows[i].code, attempts |-> rows[i].attempts,
                                               right |-> right]]
        /\ UNCHANGED <<rows, request>>

\* The rows after an UPDATE by the id that v holds: its row is the changed one.
Updated(v, changed) ==
    [i \in DOMAIN rows |-> IF rows[i].code = verify[v].code THEN changed[i] ELSE rows[i]]

\* Slip: the attempts are counted from the copy read before.
CountWrong_fromCopy(v) ==
    LET another == [i \in DOMAIN rows |-> [rows[i] EXCEPT !.wrong = @ + 1,
                                             !.attempts = verify[v].attempts + 1]]
    IN  /\ verify[v] # Idle /\ ~verify[v].right
        /\ rows' = Updated(v, another)
        /\ verify' = [verify EXCEPT ![v] = Idle]
        /\ UNCHANGED request

CountWrong(v) ==
    LET another == [i \in DOMAIN rows |-> [rows[i] EXCEPT !.attempts = @ + 1, !.wrong = @ + 1]]
    IN  /\ verify[v] # Idle /\ ~verify[v].right
        /\ rows' = Updated(v, another)
        /\ verify' = [verify EXCEPT ![v] = Idle]
        /\ UNCHANGED request

\* Slip: a code that was accepted stays usable.
Consume_keeps(v) ==
    LET used == [i \in DOMAIN rows |-> [rows[i] EXCEPT !.logins = @ + 1]]
    IN  /\ verify[v].right
        /\ rows' = Updated(v, used)
        /\ verify' = [verify EXCEPT ![v] = Idle]
        /\ UNCHANGED request

\* The UPDATE does not ask whether the row was consumed meanwhile.
Consume(v) ==
    LET used == [i \in DOMAIN rows |-> [rows[i] EXCEPT !.consumed = TRUE, !.logins = @ + 1]]
    IN  /\ verify[v].right
        /\ rows' = Updated(v, used)
        /\ verify' = [verify EXCEPT ![v] = Idle]
        /\ UNCHANGED request

------------------------------------------------------------------------------
Next ==
    \/ Tick
    \/ \E r \in Requesters :
          \/ CheckQuota(r)
          \/ CheckCooldown(r)
          \/ SmsFails(r)
          \/ \E c \in Codes : StoreCode(r, c)
    \/ \E v \in Verifiers :
          \/ \E right \in BOOLEAN : JudgeCode(v, right)
          \/ CountWrong(v)
          \/ Consume(v)

Spec == Init /\ [][Next]_vars

------------------------------------------------------------------------------
(* Safety: the limits of the header of otpService.ts ("short-lived, attempt- *)
(* limited, single-use, and per-mobile rate-limited") hold up to the number  *)
(* of handlers that overlap, and exactly when none do.                       *)

Counted == {r \in Requesters : request[r] # "idle"}
Sending == {r \in Requesters : request[r] = "sending"}
Young == {i \in DOMAIN rows : rows[i].age < Cooldown}
Holding(c, right) ==
    {v \in Verifiers : verify[v].code = c /\ verify[v].right = right}

\* The codes of an hour, with those on their way, exceed OTP_REQUESTS_PER_HOUR
\* by no more than the requests that can run beside the last one permitted.
QuotaHolds == Len(rows) + Cardinality(Counted) < Quota + Cardinality(Requesters)

\* Within the cooldown there are no more codes, sent or on their way, than
\* requests that overlap.
CooldownHolds == Cardinality(Young) + Cardinality(Sending) <= Cardinality(Requesters)

\* A code turns down no more wrong entries than its attempts and the
\* verifications that can run beside the last one permitted.
AttemptsHold ==
    \A i \in DOMAIN rows :
        rows[i].wrong + Cardinality(Holding(rows[i].code, FALSE))
            < MaxAttempts + Cardinality(Verifiers)

\* The codes are "single-use" (otpService.ts, header): each lets nobody in twice.
SingleUse == \A i \in DOMAIN rows : rows[i].logins <= 1

Used(c) == \E i \in DOMAIN rows : rows[i].code = c /\ rows[i].logins > 0

\* What verifyOtp keeps of that promise.  Once a code has let somebody in no
\* further verification finds it right, and it lets in only those that had found
\* it right before that, each of them once: two logins with one code overlap.
UsedCodeIsSpent ==
    [][\A c \in Codes : Used(c) =>
          /\ Holding(c, TRUE)' \subseteq Holding(c, TRUE)
          /\ \A i \in DOMAIN rows, j \in DOMAIN rows' :
                rows[i].code = c /\ rows'[j].code = c /\ rows'[j].logins # rows[i].logins =>
                    /\ rows'[j].logins = rows[i].logins + 1
                    /\ \E v \in Holding(c, TRUE) : Holding(c, TRUE)' = Holding(c, TRUE) \ {v}]_vars

------------------------------------------------------------------------------
(* The inductive invariant behind them: what a row tells of its past.        *)

OneRowPerCode == \A i, j \in DOMAIN rows : rows[i].code = rows[j].code => i = j
EveryWrongCounts == \A i \in DOMAIN rows : rows[i].wrong = rows[i].attempts
LoginConsumes == \A i \in DOMAIN rows : rows[i].logins > 0 => rows[i].consumed

IInv ==
    /\ TypeOK /\ OneRowPerCode /\ EveryWrongCounts /\ LoginConsumes
    /\ QuotaHolds /\ CooldownHolds /\ AttemptsHold
==============================================================================
