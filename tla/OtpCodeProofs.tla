---------------------------- MODULE OtpCodeProofs ----------------------------
(***************************************************************************)
(* The limits of the one-time codes, for any quota, cooldown, lifetime and *)
(* number of attempts and any number of handlers that overlap.             *)
(*                                                                         *)
(* Every limit is checked on a row count or a row read earlier, so none    *)
(* holds exactly.  What is invariant is a sum: what the table shows plus   *)
(* the handlers that have passed the check and not yet written.  A handler *)
(* moves from the second part to the first when it writes; when it passes  *)
(* the check, the first is within the limit and the second no larger than  *)
(* the set of handlers.                                                    *)
(***************************************************************************)
EXTENDS OtpCode, Integers, FiniteSetTheorems, SequenceTheorems, TLAPS

------------------------------------------------------------------------------
(* Counting. *)

LEMMA SubsetCount ==
    ASSUME NEW S, IsFiniteSet(S), NEW T \in SUBSET S
    PROVE  /\ IsFiniteSet(T)
           /\ Cardinality(T) \in Nat /\ Cardinality(S) \in Nat
           /\ Cardinality(T) <= Cardinality(S)
  BY FS_Subset, FS_CardinalityType

LEMMA CountWithout ==
    ASSUME NEW S, IsFiniteSet(S), NEW T \in SUBSET S, NEW x \in T
    PROVE  /\ Cardinality(T \ {x}) = Cardinality(T) - 1
           /\ Cardinality(T) \in Nat
  BY SubsetCount, FS_RemoveElement

LEMMA SeqOfFunction ==
    ASSUME NEW S, NEW n \in Nat, NEW f \in [1..n -> S]
    PROVE  f \in Seq(S) /\ Len(f) = n /\ DOMAIN f = 1..n
  OBVIOUS

LEMMA HandlersAreFinite ==
    /\ IsFiniteSet(Requesters) /\ Cardinality(Requesters) \in Nat
    /\ IsFiniteSet(Verifiers) /\ Cardinality(Verifiers) \in Nat
  BY OtpCodeAssumption, FS_CardinalityType

LEMMA CountedCount ==
    /\ IsFiniteSet(Counted) /\ Cardinality(Counted) \in Nat
    /\ Cardinality(Counted) <= Cardinality(Requesters)
    /\ IsFiniteSet(Sending) /\ Cardinality(Sending) \in Nat
    /\ Cardinality(Sending) <= Cardinality(Requesters)
  BY HandlersAreFinite, SubsetCount DEF Counted, Sending

LEMMA HoldingCount ==
    ASSUME NEW c, NEW right
    PROVE  /\ Cardinality(Holding(c, right)) \in Nat
           /\ Cardinality(Holding(c, right)) <= Cardinality(Verifiers)
  BY HandlersAreFinite, SubsetCount DEF Holding

------------------------------------------------------------------------------
(* What each action leaves of the rows. *)

Rows ==
    /\ rows \in Seq(Row)
    /\ \A i, j \in DOMAIN rows : i <= j => rows[i].age <= rows[j].age /\ rows[j].age < Hour

LEMMA RowFields ==
    ASSUME NEW row \in Row
    PROVE  /\ row.code \in Codes /\ row.age \in Nat
           /\ row.attempts \in Nat /\ row.wrong \in Nat /\ row.logins \in Nat
<1>1. row.age \in 0..Hour
  BY DEF Row
<1>2. QED
  BY <1>1, OtpCodeAssumption DEF Row

LEMMA RowUpdates ==
    ASSUME NEW row \in Row, NEW used \in BOOLEAN, NEW m \in Nat, NEW n \in Nat
    PROVE  /\ [row EXCEPT !.attempts = m, !.wrong = n] \in Row
           /\ [row EXCEPT !.consumed = used, !.logins = n] \in Row
  BY DEF Row

\* A row after the UPDATE of a wrong, and of a right code.
Refused(row) == [row EXCEPT !.attempts = @ + 1, !.wrong = @ + 1]
Accepted(row) == [row EXCEPT !.consumed = TRUE, !.logins = @ + 1]

LEMMA RefusedRow ==
    ASSUME NEW row \in Row
    PROVE  /\ Refused(row) \in Row
           /\ Refused(row).code = row.code /\ Refused(row).age = row.age
           /\ Refused(row).attempts = row.attempts + 1 /\ Refused(row).wrong = row.wrong + 1
           /\ Refused(row).consumed = row.consumed /\ Refused(row).logins = row.logins
<1>1. row.attempts + 1 \in Nat /\ row.wrong + 1 \in Nat
  BY RowFields
<1>2. Refused(row) \in Row
  BY <1>1, RowUpdates DEF Refused
<1>3. Refused(row).code = row.code /\ Refused(row).age = row.age
  BY DEF Row, Refused
<1>4. Refused(row).attempts = row.attempts + 1 /\ Refused(row).wrong = row.wrong + 1
  BY DEF Row, Refused
<1>5. Refused(row).consumed = row.consumed
  BY DEF Row, Refused
<1>6. Refused(row).logins = row.logins
  BY DEF Row, Refused
<1>7. QED
  BY <1>2, <1>3, <1>4, <1>5, <1>6

LEMMA AcceptedRow ==
    ASSUME NEW row \in Row
    PROVE  /\ Accepted(row) \in Row
           /\ Accepted(row).code = row.code /\ Accepted(row).age = row.age
           /\ Accepted(row).attempts = row.attempts /\ Accepted(row).wrong = row.wrong
           /\ Accepted(row).consumed = TRUE /\ Accepted(row).logins = row.logins + 1
<1>1. row.logins + 1 \in Nat
  BY RowFields
<1>2. Accepted(row) \in Row
  BY <1>1, RowUpdates DEF Accepted
<1>3. Accepted(row).code = row.code /\ Accepted(row).age = row.age
  BY DEF Row, Accepted
<1>4. Accepted(row).attempts = row.attempts /\ Accepted(row).wrong = row.wrong
  BY DEF Row, Accepted
<1>5. Accepted(row).consumed = TRUE
  BY DEF Row, Accepted
<1>6. Accepted(row).logins = row.logins + 1
  BY DEF Row, Accepted
<1>7. QED
  BY <1>2, <1>3, <1>4, <1>5, <1>6

LEMMA RowsAreTyped ==
    ASSUME Rows, NEW i \in DOMAIN rows
    PROVE  rows[i] \in Row
  BY DEF Rows

LEMMA TickRows ==
    ASSUME Rows, Tick
    PROVE  /\ Rows'
           /\ Len(rows') <= Len(rows) /\ DOMAIN rows' = 1..Len(rows')
           /\ \A i \in DOMAIN rows' :
                 i \in DOMAIN rows /\ rows'[i] = [rows[i] EXCEPT !.age = @ + 1]
<1>1. PICK n \in 0..Len(rows) :
         /\ \A i \in DOMAIN rows : i <= n <=> rows[i].age + 1 < Hour
         /\ FirstStay(n)
  BY DEF Tick
<1>2. rows \in Seq(Row) /\ DOMAIN rows = 1..Len(rows) /\ n \in Nat
  BY DEF Rows
<1>3. \A i \in 1..n : [rows[i] EXCEPT !.age = @ + 1] \in Row
  <2> SUFFICES ASSUME NEW i \in 1..n PROVE [rows[i] EXCEPT !.age = @ + 1] \in Row
    OBVIOUS
  <2>1. rows[i] \in Row /\ rows[i].age + 1 < Hour
    BY <1>1, <1>2, RowsAreTyped
  <2>2. rows[i].age + 1 \in 0..Hour
    BY <2>1, RowFields, OtpCodeAssumption
  <2>3. QED
    BY <2>1, <2>2 DEF Row
<1>4. rows' = [i \in 1..n |-> [rows[i] EXCEPT !.age = @ + 1]]
  BY <1>1 DEF FirstStay
<1>5. rows' \in Seq(Row) /\ Len(rows') = n /\ DOMAIN rows' = 1..n
  <2>1. rows' \in [1..n -> Row]
    BY <1>3, <1>4
  <2>2. QED
    BY <1>2, <2>1, SeqOfFunction
<1>6. \A i \in 1..n : rows'[i].age = rows[i].age + 1 /\ rows[i].age + 1 < Hour /\ rows[i].age \in Nat
  <2> SUFFICES ASSUME NEW i \in 1..n
               PROVE  rows'[i].age = rows[i].age + 1 /\ rows[i].age + 1 < Hour /\ rows[i].age \in Nat
    OBVIOUS
  <2>1. i \in DOMAIN rows /\ rows[i] \in Row
    BY <1>2, RowsAreTyped
  <2>2. [rows[i] EXCEPT !.age = @ + 1].age = rows[i].age + 1
    BY <2>1 DEF Row
  <2>3. rows[i].age \in Nat
    BY <2>1, RowFields
  <2>4. rows'[i] = [rows[i] EXCEPT !.age = @ + 1]
    BY <1>4
  <2>5. rows[i].age + 1 < Hour
    BY <1>1, <2>1
  <2>6. QED
    BY <2>2, <2>3, <2>4, <2>5
<1>7. Rows'
  BY <1>2, <1>5, <1>6, OtpCodeAssumption DEF Rows
<1>8. QED
  BY <1>2, <1>4, <1>5, <1>7

LEMMA StoreRows ==
    ASSUME Rows, NEW r \in Requesters, NEW c \in Codes, StoreCode(r, c)
    PROVE  /\ Rows'
           /\ Len(rows') = Len(rows) + 1 /\ DOMAIN rows' = 1..(Len(rows) + 1)
           /\ rows'[1] = NewRow(c)
           /\ \A i \in DOMAIN rows : rows'[i + 1] = rows[i]
<1>1. rows \in Seq(Row) /\ DOMAIN rows = 1..Len(rows)
  BY DEF Rows
<1>2. NewRow(c) \in Row /\ NewRow(c).age = 0 /\ Hour > 0
  BY OtpCodeAssumption DEF NewRow, Row
<1>3. <<NewRow(c)>> \in Seq(Row) /\ Len(<<NewRow(c)>>) = 1
  BY <1>2
<1>4. rows' = <<NewRow(c)>> \o rows
  BY DEF StoreCode
<1>5. /\ rows' \in Seq(Row)
      /\ Len(rows') = Len(rows) + 1 /\ DOMAIN rows' = 1..(Len(rows) + 1)
      /\ rows'[1] = NewRow(c)
      /\ \A i \in DOMAIN rows : rows'[i + 1] = rows[i]
  BY <1>1, <1>3, <1>4, ConcatProperties
<1>6. \A i \in DOMAIN rows : rows[i].age \in Nat
  BY RowsAreTyped, RowFields
<1>7. ASSUME NEW i \in DOMAIN rows', NEW j \in DOMAIN rows', i <= j
      PROVE  rows'[i].age <= rows'[j].age /\ rows'[j].age < Hour
  <2>1. CASE j = 1
    BY <1>2, <1>5, <1>7, <2>1
  <2>2. CASE i = 1 /\ j # 1
    <3>1. j - 1 \in DOMAIN rows /\ rows'[j] = rows[j - 1]
      BY <1>1, <1>5, <2>2
    <3>2. QED
      BY <1>2, <1>5, <1>6, <2>2, <3>1 DEF Rows
  <2>3. CASE i # 1 /\ j # 1
    <3>1. /\ i - 1 \in DOMAIN rows /\ rows'[i] = rows[i - 1]
          /\ j - 1 \in DOMAIN rows /\ rows'[j] = rows[j - 1]
          /\ i - 1 <= j - 1
      BY <1>1, <1>5, <1>7, <2>3
    <3>2. QED
      BY <3>1 DEF Rows
  <2>4. QED
    BY <1>5, <1>7, <2>1, <2>2, <2>3
<1>8. QED
  BY <1>5, <1>7 DEF Rows

LEMMA UpdatedRows ==
    ASSUME Rows, NEW v \in Verifiers, CountWrong(v) \/ Consume(v)
    PROVE  /\ Rows'
           /\ Len(rows') = Len(rows) /\ DOMAIN rows' = DOMAIN rows
           /\ \A i \in DOMAIN rows :
                 /\ rows'[i].code = rows[i].code /\ rows'[i].age = rows[i].age
                 /\ rows[i].code # verify[v].code => rows'[i] = rows[i]
                 /\ rows[i].code = verify[v].code =>
                       rows'[i] = IF verify[v].right THEN Accepted(rows[i]) ELSE Refused(rows[i])
<1>1. rows \in Seq(Row) /\ DOMAIN rows = 1..Len(rows) /\ Len(rows) \in Nat
  BY DEF Rows
<1>2. rows' = [i \in DOMAIN rows |->
                 IF rows[i].code = verify[v].code
                 THEN IF verify[v].right THEN Accepted(rows[i]) ELSE Refused(rows[i])
                 ELSE rows[i]]
  <2>1. CASE CountWrong(v)
    BY <2>1 DEF CountWrong, Updated, Refused
  <2>2. CASE Consume(v)
    BY <2>2 DEF Consume, Updated, Accepted
  <2>3. QED
    BY <2>1, <2>2
<1>3. \A i \in DOMAIN rows :
         /\ rows[i] \in Row
         /\ Accepted(rows[i]) \in Row
         /\ Accepted(rows[i]).code = rows[i].code /\ Accepted(rows[i]).age = rows[i].age
         /\ Refused(rows[i]) \in Row
         /\ Refused(rows[i]).code = rows[i].code /\ Refused(rows[i]).age = rows[i].age
  BY RefusedRow, AcceptedRow, RowsAreTyped
<1>4. rows' \in [1..Len(rows) -> Row]
  BY <1>1, <1>2, <1>3
<1>5. rows' \in Seq(Row) /\ Len(rows') = Len(rows) /\ DOMAIN rows' = DOMAIN rows
  BY <1>1, <1>4, SeqOfFunction
<1>6. \A i \in DOMAIN rows : rows'[i].code = rows[i].code /\ rows'[i].age = rows[i].age
  BY <1>2, <1>3
<1>7. Rows'
  BY <1>5, <1>6 DEF Rows
<1>8. QED
  BY <1>2, <1>5, <1>6, <1>7

------------------------------------------------------------------------------
(* Type correctness. *)

LEMMA InitTyped == Init => TypeOK
<1> SUFFICES ASSUME Init PROVE TypeOK
  OBVIOUS
<1>1. rows \in Seq(Row) /\ DOMAIN rows = {}
  BY DEF Init
<1>2. request \in [Requesters -> {"idle", "counted", "sending"}]
  BY DEF Init
<1>3. verify \in [Verifiers -> Judged]
  BY DEF Init, Idle, Judged
<1>4. QED
  BY <1>1, <1>2, <1>3 DEF TypeOK

\* The actions that change the rows.
LEMMA RowsChange ==
    ASSUME [Next]_vars
    PROVE  \/ Tick
           \/ \E r \in Requesters, c \in Codes : StoreCode(r, c)
           \/ \E v \in Verifiers : CountWrong(v) \/ Consume(v)
           \/ rows' = rows
  BY DEF Next, vars, CheckQuota, CheckCooldown, SmsFails, JudgeCode

LEMMA RowsStay ==
    ASSUME TypeOK, [Next]_vars
    PROVE  Rows'
<1>1. Rows
  BY DEF TypeOK, Rows
<1>2. CASE rows' = rows
  BY <1>1, <1>2 DEF Rows
<1>3. QED
  BY <1>1, <1>2, RowsChange, TickRows, StoreRows, UpdatedRows

LEMMA RequestStay ==
    ASSUME TypeOK, [Next]_vars
    PROVE  request' \in [Requesters -> {"idle", "counted", "sending"}]
  BY DEF TypeOK, Next, vars, At, Tick, FirstStay, CheckQuota, CheckCooldown, SmsFails, StoreCode,
         JudgeCode, CountWrong, Consume

LEMMA JudgeTyped ==
    ASSUME TypeOK, NEW v \in Verifiers, NEW right \in BOOLEAN, JudgeCode(v, right)
    PROVE  verify' \in [Verifiers -> Judged]
<1>1. PICK i \in Usable :
         verify' = [verify EXCEPT ![v] = [code |-> rows[i].code, attempts |-> rows[i].attempts,
                                          right |-> right]]
  BY DEF JudgeCode
<1>2. rows[i].code \in Codes /\ rows[i].attempts \in Nat
  BY RowsAreTyped, RowFields DEF TypeOK, Rows, Usable
<1>3. [code |-> rows[i].code, attempts |-> rows[i].attempts, right |-> right] \in Judged
  BY <1>2 DEF Judged
<1>4. QED
  BY <1>1, <1>3 DEF TypeOK

LEMMA VerifyStay ==
    ASSUME TypeOK, [Next]_vars
    PROVE  verify' \in [Verifiers -> Judged]
<1>1. Idle \in Judged
  BY DEF Idle, Judged
<1>2. ASSUME NEW v \in Verifiers, CountWrong(v) \/ Consume(v)
      PROVE  verify' \in [Verifiers -> Judged]
  BY <1>1, <1>2 DEF TypeOK, CountWrong, Consume
<1>3. CASE verify' = verify
  BY <1>3 DEF TypeOK
<1>4. \/ verify' = verify
      \/ \E v \in Verifiers : \/ CountWrong(v) \/ Consume(v)
                             \/ \E right \in BOOLEAN : JudgeCode(v, right)
  BY DEF Next, vars, Tick, FirstStay, CheckQuota, CheckCooldown, SmsFails, StoreCode
<1>5. QED
  BY <1>2, <1>3, <1>4, JudgeTyped

LEMMA NextTyped ==
    ASSUME TypeOK, [Next]_vars
    PROVE  TypeOK'
  BY RowsStay, RequestStay, VerifyStay DEF TypeOK, Rows

\* The rows, the handlers and what they hold keep their shape (OtpCodeRow of
\* types/otp.ts): the rows of the hour stay newest first, none an hour old.
THEOREM TypeCorrect == Spec => []TypeOK
<1>1. TypeOK /\ [Next]_vars => TypeOK'
  BY NextTyped
<1>2. QED
  BY InitTyped, <1>1, PTL DEF Spec

------------------------------------------------------------------------------
(* The hourly limit. *)

LEMMA QuotaStays ==
    ASSUME TypeOK, QuotaHolds, [Next]_vars
    PROVE  QuotaHolds'
<1>1. /\ Rows /\ Len(rows) \in Nat /\ Len(rows') \in Nat
      /\ Quota \in Nat /\ Cardinality(Requesters) \in Nat /\ Cardinality(Counted) \in Nat
      /\ IsFiniteSet(Counted)
  BY CountedCount, HandlersAreFinite, RowsStay, OtpCodeAssumption DEF TypeOK, Rows
<1>2. IsFiniteSet(Counted') /\ Cardinality(Counted') \in Nat
      /\ Cardinality(Counted') <= Cardinality(Requesters)
  BY HandlersAreFinite, SubsetCount DEF Counted
<1>3. ASSUME Len(rows') <= Len(rows), Counted' \subseteq Counted
      PROVE  QuotaHolds'
  <2>1. Cardinality(Counted') <= Cardinality(Counted)
    BY <1>1, <1>3, SubsetCount
  <2>2. QED
    BY <1>1, <1>2, <1>3, <2>1 DEF QuotaHolds
<1>4. CASE Tick
  <2>1. Len(rows') <= Len(rows)
    BY <1>1, <1>4, TickRows
  <2>2. Counted' = Counted
    BY <1>4 DEF Tick, FirstStay, Counted
  <2>3. QED
    BY <1>3, <2>1, <2>2
<1>5. ASSUME NEW r \in Requesters, CheckQuota(r)
      PROVE  QuotaHolds'
  <2>1. Len(rows) < Quota /\ rows' = rows
    BY <1>5 DEF CheckQuota
  <2>2. QED
    BY <1>1, <1>2, <2>1 DEF QuotaHolds
<1>6. ASSUME NEW r \in Requesters, CheckCooldown(r) \/ SmsFails(r)
      PROVE  QuotaHolds'
  <2>1. rows' = rows /\ Counted' \subseteq Counted
    BY <1>6 DEF CheckCooldown, SmsFails, At, Counted, TypeOK
  <2>2. QED
    BY <1>1, <1>3, <2>1
<1>7. ASSUME NEW r \in Requesters, NEW c \in Codes, StoreCode(r, c)
      PROVE  QuotaHolds'
  <2>1. Len(rows') = Len(rows) + 1
    BY <1>1, <1>7, StoreRows
  <2>2. r \in Counted /\ Counted' = Counted \ {r}
    BY <1>7 DEF StoreCode, At, Counted, TypeOK
  <2>3. Cardinality(Counted') = Cardinality(Counted) - 1
    BY <1>1, <2>2, CountWithout
  <2>4. QED
    BY <1>1, <1>2, <2>1, <2>3 DEF QuotaHolds
<1>8. ASSUME NEW v \in Verifiers, CountWrong(v) \/ Consume(v)
      PROVE  QuotaHolds'
  <2>1. Len(rows') = Len(rows)
    BY <1>1, <1>8, UpdatedRows
  <2>2. Counted' = Counted
    BY <1>8 DEF CountWrong, Consume, Counted
  <2>3. QED
    BY <1>1, <1>3, <2>1, <2>2
<1>9. ASSUME NEW v \in Verifiers, NEW right \in BOOLEAN, JudgeCode(v, right)
      PROVE  QuotaHolds'
  <2>1. rows' = rows /\ Counted' = Counted
    BY <1>9 DEF JudgeCode, Counted
  <2>2. QED
    BY <1>1, <1>3, <2>1
<1>10. CASE UNCHANGED vars
  <2>1. rows' = rows /\ Counted' = Counted
    BY <1>10 DEF vars, Counted
  <2>2. QED
    BY <1>1, <1>3, <2>1
<1>11. QED
  BY <1>4, <1>5, <1>6, <1>7, <1>8, <1>9, <1>10 DEF Next

LEMMA InitQuota == Init => QuotaHolds
<1> SUFFICES ASSUME Init PROVE QuotaHolds
  OBVIOUS
<1>1. Counted = {} /\ Len(rows) = 0
  BY DEF Init, Counted
<1>2. QED
  BY <1>1, FS_EmptySet, HandlersAreFinite, OtpCodeAssumption DEF QuotaHolds

\* The codes of an hour, with those on their way, exceed the limit that
\* assertWithinHourlyLimit enforces by less than the number of request handlers:
\* each one counts the rows before it sends, and the row comes after the SMS.
THEOREM QuotaIsKept == Spec => []QuotaHolds
<1>1. TypeOK /\ QuotaHolds /\ [Next]_vars => QuotaHolds'
  BY QuotaStays
<1>2. QED
  BY <1>1, InitQuota, TypeCorrect, PTL DEF Spec

------------------------------------------------------------------------------
(* The cooldown. *)

\* When the newest row is old enough every row is: none is left to hold back.
LEMMA CooldownOver ==
    ASSUME TypeOK, rows = <<>> \/ Head(rows).age >= Cooldown
    PROVE  Young = {}
<1>1. CASE rows = <<>>
  BY <1>1 DEF Young
<1>2. CASE rows # <<>> /\ Head(rows).age >= Cooldown
  <2>1. rows \in Seq(Row) /\ 1 \in DOMAIN rows /\ Head(rows) = rows[1]
    BY <1>2 DEF TypeOK
  <2>2. \A i \in DOMAIN rows : rows[1].age <= rows[i].age
    BY <2>1 DEF TypeOK
  <2>3. \A i \in DOMAIN rows : rows[i].age \in Nat
    BY RowsAreTyped, RowFields DEF TypeOK, Rows
  <2>4. QED
    BY <1>2, <2>1, <2>2, <2>3, OtpCodeAssumption DEF Young
<1>3. QED
  BY <1>1, <1>2

LEMMA YoungIsFinite ==
    ASSUME Rows
    PROVE  IsFiniteSet(Young) /\ Cardinality(Young) \in Nat
<1>1. Young \in SUBSET (1..Len(rows)) /\ Len(rows) \in Nat
  BY DEF Young, Rows
<1>2. IsFiniteSet(1..Len(rows))
  BY <1>1, FS_Interval
<1>3. QED
  BY <1>1, <1>2, SubsetCount

\* A new row is young, and moves the others down by one.
LEMMA YoungAfterStore ==
    ASSUME TypeOK, NEW r \in Requesters, NEW c \in Codes, StoreCode(r, c)
    PROVE  Cardinality(Young') \in Nat /\ Cardinality(Young') <= Cardinality(Young) + 1
<1>1. /\ Rows /\ Rows' /\ DOMAIN rows = 1..Len(rows) /\ Len(rows) \in Nat
      /\ DOMAIN rows' = 1..(Len(rows) + 1)
      /\ \A i \in DOMAIN rows : rows'[i + 1] = rows[i]
  BY StoreRows DEF TypeOK, Rows
<1>2. IsFiniteSet(Young) /\ Cardinality(Young) \in Nat
      /\ IsFiniteSet(Young') /\ Cardinality(Young') \in Nat
  <2>1. Young' \in SUBSET (1..(Len(rows) + 1)) /\ IsFiniteSet(1..(Len(rows) + 1))
    BY <1>1, FS_Interval DEF Young
  <2>2. QED
    BY <1>1, <2>1, YoungIsFinite, SubsetCount
<1> DEFINE older == Young' \ {1}
           up == [i \in older |-> i - 1]
<1>3. \A i \in older : i \in Int /\ i - 1 \in Young
  BY <1>1 DEF Young
<1>4. up \in Injection(older, Young)
  BY <1>3 DEF Injection, IsInjective
<1>5. IsFiniteSet(older) /\ Cardinality(older) \in Nat /\ Cardinality(older) <= Cardinality(Young)
  BY <1>2, <1>4, FS_Injection, FS_CardinalityType
<1>6. Cardinality(Young') <= Cardinality(older) + 1
  <2>1. CASE 1 \in Young'
    BY <1>2, <1>5, <2>1, FS_RemoveElement
  <2>2. CASE 1 \notin Young'
    <3>1. older = Young'
      BY <2>2
    <3>2. QED
      BY <1>2, <3>1
  <2>3. QED
    BY <2>1, <2>2
<1>7. QED
  BY <1>2, <1>5, <1>6

LEMMA CooldownStays ==
    ASSUME TypeOK, CooldownHolds, [Next]_vars
    PROVE  CooldownHolds'
<1>1. /\ Rows
      /\ IsFiniteSet(Young) /\ Cardinality(Young) \in Nat
      /\ IsFiniteSet(Sending) /\ Cardinality(Sending) \in Nat
      /\ Cardinality(Requesters) \in Nat
  <2>1. Rows
    BY DEF TypeOK, Rows
  <2>2. QED
    BY <2>1, CountedCount, HandlersAreFinite, YoungIsFinite
<1>2. /\ IsFiniteSet(Sending') /\ Cardinality(Sending') \in Nat
      /\ Cardinality(Sending') <= Cardinality(Requesters)
  BY HandlersAreFinite, SubsetCount DEF Sending
<1>3. ASSUME Young' \subseteq Young, Sending' \subseteq Sending
      PROVE  CooldownHolds'
  <2>1. /\ Cardinality(Young') <= Cardinality(Young) /\ Cardinality(Young') \in Nat
        /\ Cardinality(Sending') <= Cardinality(Sending)
    BY <1>1, <1>3, SubsetCount
  <2>2. QED
    BY <1>1, <1>2, <2>1 DEF CooldownHolds
<1>4. CASE Tick
  <2>1. Sending' = Sending
    BY <1>4 DEF Tick, FirstStay, Sending
  <2>2. ASSUME NEW i \in Young' PROVE i \in Young
    <3>1. i \in DOMAIN rows /\ rows'[i] = [rows[i] EXCEPT !.age = @ + 1] /\ rows'[i].age < Cooldown
      BY <1>1, <1>4, <2>2, TickRows DEF Young
    <3>2. rows[i] \in Row /\ rows[i].age \in Nat
      BY <1>1, <3>1, RowsAreTyped, RowFields
    <3>3. rows'[i].age = rows[i].age + 1
      BY <3>1, <3>2 DEF Row
    <3>4. QED
      BY <3>1, <3>2, <3>3, OtpCodeAssumption DEF Young
  <2>3. QED
    BY <1>3, <2>1, <2>2
<1>5. ASSUME NEW r \in Requesters, CheckQuota(r) \/ SmsFails(r)
      PROVE  CooldownHolds'
  <2>1. Young' = Young
    BY <1>5 DEF CheckQuota, SmsFails, Young
  <2>2. Sending' \subseteq Sending
    BY <1>5 DEF CheckQuota, SmsFails, At, Sending, TypeOK
  <2>3. QED
    BY <1>3, <2>1, <2>2
<1>6. ASSUME NEW r \in Requesters, CheckCooldown(r)
      PROVE  CooldownHolds'
  <2>1. Young' = Young
    BY <1>6 DEF CheckCooldown, Young
  <2>2. CASE rows = <<>> \/ Head(rows).age >= Cooldown
    <3>1. Cardinality(Young') = 0
      BY <2>1, <2>2, CooldownOver, FS_EmptySet
    <3>2. QED
      BY <1>1, <1>2, <3>1 DEF CooldownHolds
  <2>3. CASE ~(rows = <<>> \/ Head(rows).age >= Cooldown)
    <3>1. Sending' \subseteq Sending
      BY <1>6, <2>3 DEF CheckCooldown, Sending, TypeOK
    <3>2. QED
      BY <1>3, <2>1, <3>1
  <2>4. QED
    BY <2>2, <2>3
<1>7. ASSUME NEW r \in Requesters, NEW c \in Codes, StoreCode(r, c)
      PROVE  CooldownHolds'
  <2>1. Cardinality(Young') \in Nat /\ Cardinality(Young') <= Cardinality(Young) + 1
    BY <1>7, YoungAfterStore
  <2>3. r \in Sending /\ Sending' = Sending \ {r}
    BY <1>7 DEF StoreCode, At, Sending, TypeOK
  <2>4. Cardinality(Sending') = Cardinality(Sending) - 1
    BY <1>1, <2>3, CountWithout
  <2>5. QED
    BY <1>1, <1>2, <2>1, <2>4 DEF CooldownHolds
<1>8. ASSUME NEW v \in Verifiers, CountWrong(v) \/ Consume(v)
      PROVE  CooldownHolds'
  <2>1. Young' = Young
    BY <1>1, <1>8, UpdatedRows DEF Young
  <2>2. Sending' = Sending
    BY <1>8 DEF CountWrong, Consume, Sending
  <2>3. QED
    BY <1>3, <2>1, <2>2
<1>9. ASSUME NEW v \in Verifiers, NEW right \in BOOLEAN, JudgeCode(v, right)
      PROVE  CooldownHolds'
  <2>1. Young' = Young /\ Sending' = Sending
    BY <1>9 DEF JudgeCode, Young, Sending
  <2>2. QED
    BY <1>3, <2>1
<1>10. CASE UNCHANGED vars
  <2>1. Young' = Young /\ Sending' = Sending
    BY <1>10 DEF vars, Young, Sending
  <2>2. QED
    BY <1>3, <2>1
<1>11. QED
  BY <1>4, <1>5, <1>6, <1>7, <1>8, <1>9, <1>10 DEF Next

LEMMA InitCooldown == Init => CooldownHolds
<1> SUFFICES ASSUME Init PROVE CooldownHolds
  OBVIOUS
<1>1. Young = {} /\ Sending = {}
  BY DEF Init, Young, Sending
<1>2. QED
  BY <1>1, FS_EmptySet, HandlersAreFinite DEF CooldownHolds

\* Within the resend cooldown no more codes are sent or on their way than
\* request handlers overlap: assertResendCooldown looks at the newest row only,
\* and that is enough because the rows stay newest first.
THEOREM CooldownIsKept == Spec => []CooldownHolds
<1>1. TypeOK /\ CooldownHolds /\ [Next]_vars => CooldownHolds'
  BY CooldownStays
<1>2. QED
  BY <1>1, InitCooldown, TypeCorrect, PTL DEF Spec

------------------------------------------------------------------------------
(* What a row tells of its past. *)

\* What the rows of the hour have to do with each other and with their past.
History == OneRowPerCode /\ EveryWrongCounts /\ LoginConsumes

LEMMA InitHistory == Init => History
<1> SUFFICES ASSUME Init PROVE History
  OBVIOUS
<1>1. DOMAIN rows = {}
  BY DEF Init
<1>2. QED
  BY <1>1 DEF History, OneRowPerCode, EveryWrongCounts, LoginConsumes

LEMMA TickHistory ==
    ASSUME TypeOK, History, Tick
    PROVE  /\ History'
           /\ \A i \in DOMAIN rows' :
                 /\ i \in DOMAIN rows /\ rows'[i].code = rows[i].code
                 /\ rows'[i].wrong = rows[i].wrong /\ rows'[i].logins = rows[i].logins
<1>1. Rows
  BY DEF TypeOK, Rows
<1>2. ASSUME NEW i \in DOMAIN rows'
      PROVE  /\ i \in DOMAIN rows /\ rows'[i].code = rows[i].code
             /\ rows'[i].attempts = rows[i].attempts /\ rows'[i].wrong = rows[i].wrong
             /\ rows'[i].consumed = rows[i].consumed /\ rows'[i].logins = rows[i].logins
  <2>1. i \in DOMAIN rows /\ rows'[i] = [rows[i] EXCEPT !.age = @ + 1]
    BY <1>1, <1>2, TickRows
  <2>2. rows[i] \in Row
    BY <1>1, <2>1, RowsAreTyped
  <2>3. rows'[i].code = rows[i].code /\ rows'[i].attempts = rows[i].attempts
    BY <2>1, <2>2 DEF Row
  <2>4. rows'[i].wrong = rows[i].wrong /\ rows'[i].logins = rows[i].logins
    BY <2>1, <2>2 DEF Row
  <2>5. rows'[i].consumed = rows[i].consumed
    BY <2>1, <2>2 DEF Row
  <2>6. QED
    BY <2>1, <2>3, <2>4, <2>5
<1>3. History'
  BY <1>2 DEF History, OneRowPerCode, EveryWrongCounts, LoginConsumes
<1>4. QED
  BY <1>2, <1>3

LEMMA StoreHistory ==
    ASSUME TypeOK, History, NEW r \in Requesters, NEW c \in Codes, StoreCode(r, c)
    PROVE  /\ History'
           /\ rows'[1].code = c /\ rows'[1].wrong = 0 /\ rows'[1].logins = 0
           /\ \A i \in DOMAIN rows' : i # 1 => i - 1 \in DOMAIN rows /\ rows'[i] = rows[i - 1]
<1>1. Rows
  BY DEF TypeOK, Rows
<1>2. /\ DOMAIN rows = 1..Len(rows) /\ Len(rows) \in Nat
      /\ DOMAIN rows' = 1..(Len(rows) + 1)
      /\ rows'[1] = NewRow(c) /\ \A i \in DOMAIN rows : rows'[i + 1] = rows[i]
  BY <1>1, StoreRows DEF Rows
<1>3. \A i \in DOMAIN rows' : i # 1 => i - 1 \in DOMAIN rows /\ rows'[i] = rows[i - 1]
  BY <1>2
<1>4. /\ rows'[1].code = c /\ rows'[1].wrong = 0 /\ rows'[1].logins = 0
      /\ rows'[1].attempts = 0
  BY <1>2 DEF NewRow
<1>5. \A i \in DOMAIN rows : rows[i].code # c
  BY DEF StoreCode, Unused
<1>6. OneRowPerCode'
  <2> SUFFICES ASSUME NEW i \in DOMAIN rows', NEW j \in DOMAIN rows',
                      rows'[i].code = rows'[j].code
               PROVE  i = j
    BY DEF OneRowPerCode
  <2>1. CASE i = 1 \/ j = 1
    BY <1>3, <1>4, <1>5, <2>1
  <2>2. CASE i # 1 /\ j # 1
    <3>1. i - 1 = j - 1
      BY <1>3, <2>2 DEF History, OneRowPerCode
    <3>2. QED
      BY <1>2, <3>1
  <2>3. QED
    BY <2>1, <2>2
<1>7. EveryWrongCounts'
  BY <1>3, <1>4 DEF History, EveryWrongCounts
<1>8. LoginConsumes'
  BY <1>3, <1>4 DEF History, LoginConsumes
<1>9. QED
  BY <1>3, <1>4, <1>6, <1>7, <1>8 DEF History

LEMMA UpdateHistory ==
    ASSUME TypeOK, History, NEW v \in Verifiers, CountWrong(v) \/ Consume(v)
    PROVE  /\ History'
           /\ DOMAIN rows' = DOMAIN rows
           /\ \A i \in DOMAIN rows :
                 /\ rows'[i].code = rows[i].code
                 /\ IF rows[i].code = verify[v].code /\ ~verify[v].right
                    THEN rows'[i].wrong = rows[i].wrong + 1
                    ELSE rows'[i].wrong = rows[i].wrong
                 /\ IF rows[i].code = verify[v].code /\ verify[v].right
                    THEN rows'[i].logins = rows[i].logins + 1
                    ELSE rows'[i].logins = rows[i].logins
<1>1. Rows
  BY DEF TypeOK, Rows
<1>2. DOMAIN rows' = DOMAIN rows
  BY <1>1, UpdatedRows
<1>3. ASSUME NEW i \in DOMAIN rows
      PROVE  /\ rows'[i].code = rows[i].code
             /\ IF rows[i].code = verify[v].code /\ ~verify[v].right
                THEN rows'[i].wrong = rows[i].wrong + 1
                ELSE rows'[i].wrong = rows[i].wrong
             /\ IF rows[i].code = verify[v].code /\ verify[v].right
                THEN rows'[i].logins = rows[i].logins + 1
                ELSE rows'[i].logins = rows[i].logins
             /\ rows'[i].wrong = rows'[i].attempts
             /\ rows'[i].logins > 0 => rows'[i].consumed
  <2>1. rows[i] \in Row /\ rows[i].wrong = rows[i].attempts
        /\ (rows[i].logins > 0 => rows[i].consumed)
    BY <1>1, RowsAreTyped DEF History, EveryWrongCounts, LoginConsumes
  <2>2. CASE rows[i].code # verify[v].code
    <3>1. rows'[i] = rows[i]
      BY <1>1, <2>2, UpdatedRows
    <3>2. QED
      BY <2>1, <2>2, <3>1
  <2>3. CASE rows[i].code = verify[v].code /\ verify[v].right
    <3>1. rows'[i] = Accepted(rows[i])
      BY <1>1, <2>3, UpdatedRows
    <3>2. QED
      BY <2>1, <2>3, <3>1, AcceptedRow
  <2>4. CASE rows[i].code = verify[v].code /\ ~verify[v].right
    <3>1. rows'[i] = Refused(rows[i])
      BY <1>1, <2>4, UpdatedRows
    <3>2. QED
      BY <2>1, <2>4, <3>1, RefusedRow
  <2>5. QED
    BY <2>2, <2>3, <2>4
<1>4. OneRowPerCode'
  BY <1>2, <1>3 DEF History, OneRowPerCode
<1>5. EveryWrongCounts'
  BY <1>2, <1>3 DEF EveryWrongCounts
<1>6. LoginConsumes'
  BY <1>2, <1>3 DEF LoginConsumes
<1>7. QED
  BY <1>2, <1>3, <1>4, <1>5, <1>6 DEF History

LEMMA HistoryStays ==
    ASSUME TypeOK, History, [Next]_vars
    PROVE  History'
<1>1. CASE rows' = rows
  BY <1>1 DEF History, OneRowPerCode, EveryWrongCounts, LoginConsumes
<1>2. QED
  BY <1>1, RowsChange, TickHistory, StoreHistory, UpdateHistory

\* In every state a row's wrong entries are its attempts (incrementAttempts adds
\* one in the table), and a row that let somebody in is consumed.
THEOREM HistoryIsKept == Spec => []History
<1>1. TypeOK /\ History /\ [Next]_vars => History'
  BY HistoryStays
<1>2. QED
  BY <1>1, InitHistory, TypeCorrect, PTL DEF Spec

------------------------------------------------------------------------------
(* Attempts. *)

\* The verifications that hold a code, as a function of where they are.
HoldingIn(at, c, right) == {v \in Verifiers : at[v].code = c /\ at[v].right = right}

LEMMA HoldingInCount ==
    ASSUME NEW at, NEW c, NEW right
    PROVE  /\ IsFiniteSet(HoldingIn(at, c, right))
           /\ Cardinality(HoldingIn(at, c, right)) \in Nat
           /\ Cardinality(HoldingIn(at, c, right)) <= Cardinality(Verifiers)
  BY HandlersAreFinite, SubsetCount DEF HoldingIn

\* A verification that is over holds no code.
LEMMA HoldingOver ==
    ASSUME TypeOK, NEW v \in Verifiers, CountWrong(v) \/ Consume(v),
           NEW c \in Codes, NEW right \in BOOLEAN
    PROVE  /\ Cardinality(HoldingIn(verify', c, right)) <= Cardinality(HoldingIn(verify, c, right))
           /\ verify[v].code = c /\ verify[v].right = right =>
                 Cardinality(HoldingIn(verify', c, right))
                    = Cardinality(HoldingIn(verify, c, right)) - 1
<1>1. verify' = [verify EXCEPT ![v] = Idle] /\ verify \in [Verifiers -> Judged]
  BY DEF CountWrong, Consume, TypeOK
<1>2. Idle.code \notin Codes
  BY OtpCodeAssumption DEF Idle
<1>3. HoldingIn(verify', c, right) = HoldingIn(verify, c, right) \ {v}
  BY <1>1, <1>2 DEF HoldingIn
<1>4. IsFiniteSet(HoldingIn(verify, c, right))
  BY HoldingInCount
<1>5. Cardinality(HoldingIn(verify', c, right)) <= Cardinality(HoldingIn(verify, c, right))
  BY <1>3, <1>4, SubsetCount
<1>6. ASSUME verify[v].code = c, verify[v].right = right
      PROVE  Cardinality(HoldingIn(verify', c, right))
                = Cardinality(HoldingIn(verify, c, right)) - 1
  <2>1. v \in HoldingIn(verify, c, right)
    BY <1>6 DEF HoldingIn
  <2>2. QED
    BY <1>3, <1>4, <2>1, CountWithout
<1>7. QED
  BY <1>5, <1>6

\* A verification comes to hold the code it judges and no other.
LEMMA HoldingJudged ==
    ASSUME TypeOK, NEW v \in Verifiers, NEW right \in BOOLEAN, NEW k \in DOMAIN rows,
           verify' = [verify EXCEPT ![v] = [code |-> rows[k].code, attempts |-> rows[k].attempts,
                                            right |-> right]],
           NEW c, NEW other, c # rows[k].code \/ other # right
    PROVE  Cardinality(HoldingIn(verify', c, other)) <= Cardinality(HoldingIn(verify, c, other))
<1>1. HoldingIn(verify', c, other) \subseteq HoldingIn(verify, c, other)
  BY DEF HoldingIn, TypeOK
<1>2. QED
  BY <1>1, HoldingInCount, SubsetCount

\* The limit, over a row and the verifications given.
AttemptsOf(row, held) == row.wrong + Cardinality(held) < MaxAttempts + Cardinality(Verifiers)

LEMMA LimitIs ==
    /\ AttemptsHold <=>
          \A i \in DOMAIN rows : AttemptsOf(rows[i], HoldingIn(verify, rows[i].code, FALSE))
    /\ (\A i \in DOMAIN rows' : AttemptsOf(rows'[i], HoldingIn(verify', rows'[i].code, FALSE)))
          => AttemptsHold'
  BY DEF AttemptsHold, AttemptsOf, Holding, HoldingIn

\* It is not exceeded by a row that counts no more and is held no more,
LEMMA LimitStays ==
    ASSUME NEW row \in Row, NEW new, NEW held, NEW now,
           Cardinality(held) \in Nat, Cardinality(now) \in Nat,
           Cardinality(now) <= Cardinality(held),
           new.wrong = row.wrong, AttemptsOf(row, held)
    PROVE  AttemptsOf(new, now)
  BY HandlersAreFinite, RowFields, OtpCodeAssumption DEF AttemptsOf

\* by one that counts one more and is held by one less,
LEMMA LimitMoves ==
    ASSUME NEW row \in Row, NEW new, NEW held, NEW now,
           Cardinality(held) \in Nat, Cardinality(now) = Cardinality(held) - 1,
           new.wrong = row.wrong + 1, AttemptsOf(row, held)
    PROVE  AttemptsOf(new, now)
  BY HandlersAreFinite, RowFields, OtpCodeAssumption DEF AttemptsOf

\* or by one that the check has just found within it.
LEMMA LimitPasses ==
    ASSUME NEW row \in Row, NEW now,
           Cardinality(now) \in Nat, Cardinality(now) <= Cardinality(Verifiers),
           row.wrong < MaxAttempts
    PROVE  AttemptsOf(row, now)
  BY HandlersAreFinite, RowFields, OtpCodeAssumption DEF AttemptsOf

LEMMA LimitAfterStore ==
    ASSUME TypeOK, History, AttemptsHold,
           NEW r \in Requesters, NEW c \in Codes, StoreCode(r, c)
    PROVE  AttemptsHold'
<1> SUFFICES ASSUME NEW i \in DOMAIN rows'
             PROVE  AttemptsOf(rows'[i], HoldingIn(verify', rows'[i].code, FALSE))
  BY LimitIs
<1>1. verify' = verify
  BY DEF StoreCode
<1>2. CASE i = 1
  <2>1. rows'[i].wrong = 0
    BY <1>2, StoreHistory
  <2>2. rows'[i] \in Row
    BY <1>2, StoreRows DEF TypeOK, Rows
  <2>3. rows'[i].wrong < MaxAttempts
    BY <2>1, OtpCodeAssumption
  <2>4. QED
    BY <2>2, <2>3, HoldingInCount, LimitPasses
<1>3. CASE i # 1
  <2>1. i - 1 \in DOMAIN rows /\ rows'[i] = rows[i - 1]
    BY <1>3, StoreHistory
  <2>2. QED
    BY <1>1, <2>1, LimitIs
<1>4. QED
  BY <1>2, <1>3

LEMMA LimitAfterTick ==
    ASSUME TypeOK, History, AttemptsHold, Tick
    PROVE  AttemptsHold'
<1> SUFFICES ASSUME NEW i \in DOMAIN rows'
             PROVE  AttemptsOf(rows'[i], HoldingIn(verify', rows'[i].code, FALSE))
  BY LimitIs
<1>1. verify' = verify
  BY DEF Tick, FirstStay
<1>2. i \in DOMAIN rows /\ rows'[i].code = rows[i].code /\ rows'[i].wrong = rows[i].wrong
  BY TickHistory
<1>3. QED
  BY <1>1, <1>2, LimitIs DEF AttemptsOf

LEMMA LimitAfterUpdate ==
    ASSUME TypeOK, History, AttemptsHold,
           NEW v \in Verifiers, CountWrong(v) \/ Consume(v)
    PROVE  AttemptsHold'
<1> SUFFICES ASSUME NEW i \in DOMAIN rows'
             PROVE  AttemptsOf(rows'[i], HoldingIn(verify', rows'[i].code, FALSE))
  BY LimitIs
<1> DEFINE c == rows[i].code
           held == HoldingIn(verify, c, FALSE)
           now == HoldingIn(verify', c, FALSE)
<1>1. i \in DOMAIN rows /\ rows'[i].code = c
  BY UpdateHistory
<1>2. rows[i] \in Row /\ c \in Codes
  BY <1>1, RowsAreTyped, RowFields DEF TypeOK, Rows
<1>3. AttemptsOf(rows[i], held)
  BY <1>1, LimitIs
<1>4. /\ Cardinality(held) \in Nat /\ Cardinality(now) \in Nat
      /\ Cardinality(now) <= Cardinality(held)
      /\ verify[v].code = c /\ verify[v].right = FALSE =>
            Cardinality(now) = Cardinality(held) - 1
  BY <1>2, HoldingInCount, HoldingOver
<1> HIDE DEF held, now
<1>5. AttemptsOf(rows'[i], now)
  <2>1. CASE c = verify[v].code /\ ~verify[v].right
    <3>1. rows'[i].wrong = rows[i].wrong + 1
      BY <1>1, <2>1, UpdateHistory
    <3>2. verify[v].right = FALSE
      BY <2>1 DEF TypeOK, Judged
    <3>3. Cardinality(now) = Cardinality(held) - 1
      BY <1>4, <2>1, <3>2
    <3>4. QED
      BY <1>2, <1>3, <1>4, <3>1, <3>3, LimitMoves
  <2>2. CASE ~(c = verify[v].code /\ ~verify[v].right)
    <3>1. rows'[i].wrong = rows[i].wrong
      BY <1>1, <2>2, UpdateHistory
    <3>2. QED
      BY <1>2, <1>3, <1>4, <3>1, LimitStays
  <2>3. QED
    BY <2>1, <2>2
<1>6. QED
  BY <1>1, <1>5 DEF now

LEMMA LimitAfterJudge ==
    ASSUME TypeOK, History, AttemptsHold,
           NEW v \in Verifiers, NEW right \in BOOLEAN, JudgeCode(v, right)
    PROVE  AttemptsHold'
<1>1. PICK k \in Usable :
         /\ rows[k].attempts < MaxAttempts
         /\ verify' = [verify EXCEPT ![v] = [code |-> rows[k].code, attempts |-> rows[k].attempts,
                                             right |-> right]]
  BY DEF JudgeCode
<1> SUFFICES ASSUME NEW i \in DOMAIN rows'
             PROVE  AttemptsOf(rows'[i], HoldingIn(verify', rows'[i].code, FALSE))
  BY LimitIs
<1> DEFINE c == rows[i].code
<1>2. rows' = rows /\ i \in DOMAIN rows /\ k \in DOMAIN rows
  BY DEF JudgeCode, Usable
<1>3. rows[i] \in Row
  BY <1>2, RowsAreTyped DEF TypeOK, Rows
<1>4. /\ Cardinality(HoldingIn(verify, c, FALSE)) \in Nat
      /\ Cardinality(HoldingIn(verify', c, FALSE)) \in Nat
      /\ Cardinality(HoldingIn(verify', c, FALSE)) <= Cardinality(Verifiers)
  BY HoldingInCount
<1>5. CASE i = k
  <2>1. rows[i].wrong < MaxAttempts
    BY <1>1, <1>2, <1>5 DEF History, EveryWrongCounts
  <2>2. QED
    BY <1>2, <1>3, <2>1, <1>4, LimitPasses
<1>6. CASE i # k
  <2>1. rows[i].code # rows[k].code
    BY <1>2, <1>6 DEF History, OneRowPerCode
  <2>2. Cardinality(HoldingIn(verify', c, FALSE)) <= Cardinality(HoldingIn(verify, c, FALSE))
    BY <1>1, <1>2, <2>1, HoldingJudged
  <2>3. AttemptsOf(rows[i], HoldingIn(verify, c, FALSE))
    BY <1>2, LimitIs
  <2>4. QED
    BY <1>2, <1>3, <1>4, <2>2, <2>3, LimitStays
<1>7. QED
  BY <1>5, <1>6

\* The steps that change a row or end or begin a verification.
LEMMA RowsOrVerify ==
    ASSUME [Next]_vars
    PROVE  \/ Tick
           \/ \E r \in Requesters, c \in Codes : StoreCode(r, c)
           \/ \E v \in Verifiers : \/ CountWrong(v) \/ Consume(v)
                                  \/ \E right \in BOOLEAN : JudgeCode(v, right)
           \/ rows' = rows /\ verify' = verify
  BY DEF Next, vars, CheckQuota, CheckCooldown, SmsFails

LEMMA LimitNext ==
    ASSUME TypeOK, History, AttemptsHold, [Next]_vars
    PROVE  AttemptsHold'
<1>1. CASE rows' = rows /\ verify' = verify
  BY <1>1 DEF AttemptsHold, Holding
<1>2. QED
  BY <1>1, RowsOrVerify, LimitAfterTick, LimitAfterStore, LimitAfterUpdate, LimitAfterJudge

LEMMA InitLimit == Init => AttemptsHold
<1> SUFFICES ASSUME Init PROVE AttemptsHold
  OBVIOUS
<1>1. DOMAIN rows = {}
  BY DEF Init
<1>2. QED
  BY <1>1 DEF AttemptsHold

\* A code turns down no more than OTP_MAX_ATTEMPTS wrong entries, plus those of
\* verifications that read the row while another one's increment was on its way
\* (verifyOtp).
THEOREM AttemptsAreLimited == Spec => []AttemptsHold
<1>1. TypeOK /\ History /\ AttemptsHold /\ [Next]_vars => AttemptsHold'
  BY LimitNext
<1>2. QED
  BY <1>1, InitLimit, TypeCorrect, HistoryIsKept, PTL DEF Spec

------------------------------------------------------------------------------
(* A used code. *)

\* What a step may do to a code that has let somebody in.
SpentStep(c) ==
    /\ HoldingIn(verify', c, TRUE) \subseteq HoldingIn(verify, c, TRUE)
    /\ \A i \in DOMAIN rows, j \in DOMAIN rows' :
          rows[i].code = c /\ rows'[j].code = c /\ rows'[j].logins # rows[i].logins =>
              /\ rows'[j].logins = rows[i].logins + 1
              /\ \E v \in HoldingIn(verify, c, TRUE) :
                    HoldingIn(verify', c, TRUE) = HoldingIn(verify, c, TRUE) \ {v}

LEMMA SpentAfterTick ==
    ASSUME TypeOK, History, Tick, NEW c \in Codes
    PROVE  SpentStep(c)
<1>1. verify' = verify
  BY DEF Tick, FirstStay
<1>2. \A j \in DOMAIN rows' :
         /\ j \in DOMAIN rows /\ rows'[j].code = rows[j].code
         /\ rows'[j].logins = rows[j].logins
  BY TickHistory
<1>3. \A i, j \in DOMAIN rows : rows[i].code = rows[j].code => i = j
  BY DEF History, OneRowPerCode
<1>4. ASSUME NEW i \in DOMAIN rows, NEW j \in DOMAIN rows', rows[i].code = rows'[j].code
      PROVE  rows'[j].logins = rows[i].logins
  BY <1>2, <1>3, <1>4
<1>5. QED
  BY <1>1, <1>4 DEF SpentStep

LEMMA SpentAfterStore ==
    ASSUME TypeOK, History, NEW r \in Requesters, NEW new \in Codes, StoreCode(r, new),
           NEW c \in Codes
    PROVE  SpentStep(c)
<1>1. verify' = verify
  BY DEF StoreCode
<1>2. ASSUME NEW i \in DOMAIN rows, NEW j \in DOMAIN rows', rows[i].code = rows'[j].code
      PROVE  rows'[j].logins = rows[i].logins
  <2>1. j # 1
    BY <1>2, StoreHistory DEF StoreCode, Unused
  <2>2. j - 1 \in DOMAIN rows /\ rows'[j] = rows[j - 1]
    BY <2>1, StoreHistory
  <2>3. j - 1 = i
    BY <1>2, <2>2 DEF History, OneRowPerCode
  <2>4. QED
    BY <2>2, <2>3
<1>3. QED
  BY <1>1, <1>2 DEF SpentStep

LEMMA SpentAfterUpdate ==
    ASSUME TypeOK, History, NEW v \in Verifiers, CountWrong(v) \/ Consume(v),
           NEW c \in Codes
    PROVE  SpentStep(c)
<1>1. verify' = [verify EXCEPT ![v] = Idle] /\ verify \in [Verifiers -> Judged]
  BY DEF CountWrong, Consume, TypeOK
<1>2. Idle.code \notin Codes
  BY OtpCodeAssumption DEF Idle
<1>3. HoldingIn(verify', c, TRUE) = HoldingIn(verify, c, TRUE) \ {v}
  BY <1>1, <1>2 DEF HoldingIn
<1>4. ASSUME NEW i \in DOMAIN rows, NEW j \in DOMAIN rows',
             rows[i].code = c, rows'[j].code = c, rows'[j].logins # rows[i].logins
      PROVE  /\ rows'[j].logins = rows[i].logins + 1
             /\ v \in HoldingIn(verify, c, TRUE)
  <2>1. j \in DOMAIN rows /\ rows'[j].code = rows[j].code
    BY UpdateHistory
  <2>2. i = j
    BY <1>4, <2>1 DEF History, OneRowPerCode
  <2>3. /\ rows[j].code = verify[v].code /\ verify[v].right
        /\ rows'[j].logins = rows[j].logins + 1
    BY <1>4, <2>1, <2>2, UpdateHistory
  <2>4. verify[v].right = TRUE
    BY <1>1, <2>3 DEF Judged
  <2>5. QED
    BY <1>4, <2>2, <2>3, <2>4 DEF HoldingIn
<1>5. QED
  BY <1>3, <1>4 DEF SpentStep

\* The row a verification judges by is not consumed, so nobody has used its code.
LEMMA SpentAfterJudge ==
    ASSUME TypeOK, History, NEW v \in Verifiers, NEW right \in BOOLEAN, JudgeCode(v, right),
           NEW c \in Codes, Used(c)
    PROVE  SpentStep(c)
<1>1. PICK k \in Usable :
         verify' = [verify EXCEPT ![v] = [code |-> rows[k].code, attempts |-> rows[k].attempts,
                                          right |-> right]]
  BY DEF JudgeCode
<1>2. rows' = rows /\ k \in DOMAIN rows /\ ~rows[k].consumed
  BY DEF JudgeCode, Usable
<1>3. \A i, j \in DOMAIN rows : rows[i].code = rows[j].code => i = j
  BY DEF History, OneRowPerCode
<1>4. PICK i \in DOMAIN rows : rows[i].code = c /\ rows[i].logins > 0
  BY DEF Used
<1>5. rows[i].consumed
  BY <1>4 DEF History, LoginConsumes
<1>6. rows[k].code # c
  BY <1>2, <1>3, <1>4, <1>5
<1>7. HoldingIn(verify', c, TRUE) \subseteq HoldingIn(verify, c, TRUE)
  BY <1>1, <1>6 DEF HoldingIn, TypeOK
<1>8. QED
  BY <1>2, <1>3, <1>7 DEF SpentStep

LEMMA SpentNext ==
    ASSUME TypeOK, History, [Next]_vars, NEW c \in Codes, Used(c)
    PROVE  SpentStep(c)
<1>1. CASE rows' = rows /\ verify' = verify
  BY <1>1 DEF SpentStep, History, OneRowPerCode
<1>2. QED
  BY <1>1, RowsOrVerify, SpentAfterTick, SpentAfterStore, SpentAfterUpdate, SpentAfterJudge

\* Once a code has let somebody in, no further verification finds it right, and
\* each that had found it right before lets in once more at most: the consume of
\* verifyOtp asks nothing, but a consumed row is never judged by again.
THEOREM UsedCodesAreSpent == Spec => UsedCodeIsSpent
<1>1. TypeOK /\ History /\ [Next]_vars =>
        [\A c \in Codes : Used(c) =>
          /\ Holding(c, TRUE)' \subseteq Holding(c, TRUE)
          /\ \A i \in DOMAIN rows, j \in DOMAIN rows' :
                rows[i].code = c /\ rows'[j].code = c /\ rows'[j].logins # rows[i].logins =>
                    /\ rows'[j].logins = rows[i].logins + 1
                    /\ \E v \in Holding(c, TRUE) : Holding(c, TRUE)' = Holding(c, TRUE) \ {v}]_vars
  BY SpentNext DEF SpentStep, Holding, HoldingIn
<1>2. QED
  BY <1>1, TypeCorrect, HistoryIsKept, PTL DEF Spec, UsedCodeIsSpent
==============================================================================
