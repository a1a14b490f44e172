---------------------------- MODULE PayoutsProofs ----------------------------
(***************************************************************************)
(* How far the payouts of a marketer can exceed what was earned, for any   *)
(* number of requests, administrators and payouts.                         *)
(*                                                                         *)
(* A sum is the number of its minor units, so facts about sums are facts   *)
(* about the cardinality of products and unions of finite sets.            *)
(***************************************************************************)
EXTENDS Payouts, FiniteSetTheorems, TLAPS

------------------------------------------------------------------------------
(* Sums. *)

LEMMA UpTo ==
    ASSUME NEW n \in Nat
    PROVE  IsFiniteSet(1 .. n) /\ Cardinality(1 .. n) = n
  BY FS_Interval

\* A sum over a finite set is a number, and at most the greatest amount for each.
LEMMA SumIs ==
    ASSUME NEW S, IsFiniteSet(S), NEW a, NEW m \in Nat, \A x \in S : a[x] \in 0 .. m
    PROVE  /\ IsFiniteSet(Units(a, S)) /\ SumOf(a, S) \in Nat
           /\ Cardinality(S) \in Nat /\ SumOf(a, S) <= Cardinality(S) * m
<1>1. IsFiniteSet(1 .. m) /\ Cardinality(1 .. m) = m
  BY UpTo
<1>2. /\ IsFiniteSet(S \X (1 .. m))
      /\ Cardinality(S \X (1 .. m)) = Cardinality(S) * m
  BY <1>1, FS_Product
<1>3. Units(a, S) \subseteq S \X (1 .. m)
  <2> SUFFICES ASSUME NEW x \in S, NEW u \in {x} \X (1 .. a[x])
               PROVE  u \in S \X (1 .. m)
    BY DEF Units
  <2>1. a[x] \in 0 .. m
    OBVIOUS
  <2>2. 1 .. a[x] \subseteq 1 .. m
    BY <2>1
  <2>3. QED
    BY <2>2
<1>4. /\ IsFiniteSet(Units(a, S))
      /\ Cardinality(Units(a, S)) <= Cardinality(S \X (1 .. m))
  BY <1>2, <1>3, FS_Subset
<1>5. QED
  BY <1>2, <1>4, FS_CardinalityType DEF SumOf

\* One more in the set adds its amount to the sum.
LEMMA SumWith ==
    ASSUME NEW S, IsFiniteSet(S), NEW a, NEW m \in Nat, \A x \in S : a[x] \in 0 .. m,
           NEW y, y \notin S, a[y] \in 0 .. m
    PROVE  SumOf(a, S \cup {y}) = SumOf(a, S) + a[y]
<1> DEFINE mine == {y} \X (1 .. a[y])
<1>1. IsFiniteSet(1 .. a[y]) /\ Cardinality(1 .. a[y]) = a[y] /\ a[y] \in Nat
  <2>1. a[y] \in Nat
    OBVIOUS
  <2>2. QED
    BY <2>1, UpTo
<1>2. IsFiniteSet({y}) /\ Cardinality({y}) = 1
  BY FS_Singleton
<1>3. IsFiniteSet(mine) /\ Cardinality(mine) = 1 * a[y]
  BY <1>1, <1>2, FS_Product
<1>4. Units(a, S \cup {y}) = Units(a, S) \cup mine
  BY DEF Units
<1>5. Units(a, S) \cap mine = {}
  <2> SUFFICES ASSUME NEW x \in S, NEW u \in {x} \X (1 .. a[x]), u \in mine
               PROVE  FALSE
    BY DEF Units
  <2>1. u[1] = x /\ u[1] = y
    OBVIOUS
  <2>2. QED
    BY <2>1
<1>6. IsFiniteSet(Units(a, S)) /\ Cardinality(Units(a, S)) \in Nat
  BY SumIs DEF SumOf
<1> HIDE DEF mine
<1>7. Cardinality(Units(a, S) \cup mine)
         = Cardinality(Units(a, S)) + Cardinality(mine) - Cardinality({})
  BY <1>3, <1>5, <1>6, FS_Union
<1>8. Cardinality(mine) = a[y] /\ Cardinality({}) = 0
  BY <1>1, <1>3, FS_EmptySet
<1>9. Cardinality(Units(a, S \cup {y})) = Cardinality(Units(a, S)) + a[y]
  <2>1. \A c, d \in Nat : c + d - 0 = c + d
    OBVIOUS
  <2>2. Cardinality(Units(a, S) \cup mine) = Cardinality(Units(a, S)) + a[y] - 0
    BY <1>7, <1>8
  <2>3. QED
    BY <1>1, <1>4, <1>6, <2>1, <2>2
<1>10. QED
  BY <1>9 DEF SumOf

\* The same amounts make the same sum.
LEMMA SumSame ==
    ASSUME NEW S, NEW a, NEW b, \A x \in S : a[x] = b[x]
    PROVE  SumOf(a, S) = SumOf(b, S)
<1>1. Units(a, S) = Units(b, S)
  BY DEF Units
<1>2. QED
  BY <1>1 DEF SumOf

\* One that leaves the set takes its amount with it.
LEMMA SumWithout ==
    ASSUME NEW S, IsFiniteSet(S), NEW a, NEW m \in Nat, \A x \in S : a[x] \in 0 .. m,
           NEW y \in S
    PROVE  /\ SumOf(a, S) = SumOf(a, S \ {y}) + a[y]
           /\ SumOf(a, S \ {y}) \in Nat /\ a[y] \in Nat
           /\ Cardinality(S) \in Nat /\ Cardinality(S) >= 1
           /\ SumOf(a, S \ {y}) <= (Cardinality(S) - 1) * m
<1> DEFINE R == S \ {y}
<1>1. IsFiniteSet(R) /\ Cardinality(R) = Cardinality(S) - 1
  BY FS_RemoveElement
<1>2. S = R \cup {y} /\ y \notin R /\ \A x \in R : a[x] \in 0 .. m
  OBVIOUS
<1> HIDE DEF R
<1>3. SumOf(a, R \cup {y}) = SumOf(a, R) + a[y]
  BY <1>1, <1>2, SumWith
<1>4. SumOf(a, R) \in Nat /\ SumOf(a, R) <= Cardinality(R) * m /\ Cardinality(R) \in Nat
  BY <1>1, <1>2, SumIs
<1>5. Cardinality(S) \in Nat
  BY FS_CardinalityType
<1>6. Cardinality(S) >= 1 /\ SumOf(a, R) <= (Cardinality(S) - 1) * m
  BY <1>1, <1>4, <1>5
<1>7. SumOf(a, S) = SumOf(a, R) + a[y] /\ a[y] \in Nat
  BY <1>2, <1>3
<1>8. QED
  BY <1>4, <1>5, <1>6, <1>7 DEF R

\* A change of one amount.
LEMMA SumChanged ==
    ASSUME NEW S, IsFiniteSet(S), NEW m \in Nat, NEW a, NEW b,
           \A x \in S : a[x] \in 0 .. m /\ b[x] \in 0 .. m,
           NEW y \in S, \A x \in S \ {y} : b[x] = a[x]
    PROVE  /\ SumOf(b, S) = SumOf(a, S) - a[y] + b[y]
           /\ SumOf(a, S) - a[y] \in Nat /\ SumOf(a, S) - a[y] <= (Cardinality(S) - 1) * m
           /\ Cardinality(S) \in Nat /\ Cardinality(S) >= 1
<1>1. SumOf(b, S \ {y}) = SumOf(a, S \ {y})
  BY SumSame
<1>2. SumOf(b, S) = SumOf(b, S \ {y}) + b[y]
  BY SumWithout
<1>3. /\ SumOf(a, S) = SumOf(a, S \ {y}) + a[y]
      /\ SumOf(a, S \ {y}) \in Nat /\ a[y] \in Nat
      /\ Cardinality(S) \in Nat /\ Cardinality(S) >= 1
      /\ SumOf(a, S \ {y}) <= (Cardinality(S) - 1) * m
  BY SumWithout
<1>4. SumOf(a, S) - a[y] = SumOf(a, S \ {y})
  BY <1>3
<1>5. QED
  BY <1>1, <1>2, <1>3, <1>4

------------------------------------------------------------------------------
(* What the invariant says of the sums. *)

LEMMA AmountsAre == \A a \in {0} \cup Amounts : a \in Nat
  BY PayoutsAssumption

LEMMA UpToIs == \A a, b \in Nat : a <= b <=> a \in 0 .. b
  OBVIOUS

LEMMA Bounds ==
    ASSUME IInv
    PROVE  /\ Earned \in Nat /\ approved \in Nat /\ settled \in Nat /\ revived \in Nat
           /\ Earned = approved + settled
           /\ Cardinality(Requests) \in Nat
           /\ asked \in [Requests -> 0 .. Earned]
           /\ \A p \in payouts : p.amount \in 0 .. Earned /\ AmountOf[p] = p.amount
           /\ IsFiniteSet(payouts) /\ IsFiniteSet(Standing)
           /\ Outstanding \in Nat /\ SumOf(asked, Requests) \in Nat
<1>1. /\ Earned \in Nat /\ approved \in Nat /\ settled \in Nat /\ revived \in Nat
      /\ Earned = approved + settled
  BY PayoutsAssumption DEF IInv, TypeOK, Earned
<1>2. Cardinality(Requests) \in Nat
  BY PayoutsAssumption, FS_CardinalityType
<1>3. asked \in [Requests -> 0 .. Earned]
  <2>1. asked \in [Requests -> {0} \cup Amounts] /\ \A r \in Requests : asked[r] <= Earned
    BY DEF IInv, TypeOK, Covered
  <2>2. \A r \in Requests : asked[r] \in 0 .. Earned
    BY <1>1, <2>1, AmountsAre, UpToIs
  <2>3. QED
    BY <2>1, <2>2
<1>4. \A p \in payouts : p.amount \in 0 .. Earned /\ AmountOf[p] = p.amount
  <2> SUFFICES ASSUME NEW p \in payouts
               PROVE  p.amount \in 0 .. Earned /\ AmountOf[p] = p.amount
    OBVIOUS
  <2>1. p.amount \in Amounts /\ p.amount <= Earned
    BY DEF IInv, TypeOK, Covered
  <2>2. p.amount \in 0 .. Earned
    BY <1>1, <2>1, AmountsAre, UpToIs
  <2>3. QED
    BY <2>2 DEF AmountOf
<1>5. IsFiniteSet(payouts) /\ Standing \subseteq payouts
  BY DEF IInv, Covered, Standing
<1>6. IsFiniteSet(Standing)
  BY <1>5, FS_Subset
<1>7. \A p \in Standing : AmountOf[p] \in 0 .. Earned
  BY <1>4, <1>5
<1>8. Outstanding \in Nat
  BY <1>1, <1>6, <1>7, SumIs DEF Outstanding
<1>9. \A r \in Requests : asked[r] \in 0 .. Earned
  BY <1>3
<1>10. SumOf(asked, Requests) \in Nat
  BY <1>1, <1>9, PayoutsAssumption, SumIs
<1>11. QED
  BY <1>1, <1>2, <1>3, <1>4, <1>5, <1>6, <1>8, <1>10

LEMMA EarnedIs ==
    ASSUME approved' \in Nat /\ settled' \in Nat
    PROVE  Earned' \in Nat
<1>1. \A x, y \in Nat : x + y \in Nat
  OBVIOUS
<1>2. QED
  BY <1>1 DEF Earned

\* What has to be shown of a step that leaves the payouts alone.
LEMMA SamePayouts ==
    ASSUME IInv, UNCHANGED payouts, approved' \in Nat, settled' \in Nat,
           Earned <= Earned', Earned' <= MaxEarned, UNCHANGED revived,
           asked' \in [Requests -> {0} \cup Amounts],
           \A r \in Requests : asked'[r] <= Earned',
           settling' \subseteq Admins, OverdraftBounded'
    PROVE  IInv'
<1>1. TypeOK'
  BY DEF IInv, TypeOK, Ids
<1>2. Earned' \in Nat
  BY EarnedIs
<1>3. ASSUME NEW p \in payouts PROVE p.amount <= Earned'
  <2>1. p.amount \in 0 .. Earned /\ Earned \in Nat
    BY Bounds
  <2>2. QED
    BY <1>2, <2>1
<1>4. Covered'
  BY <1>3 DEF IInv, Covered
<1>5. QED
  BY <1>1, <1>4 DEF IInv

------------------------------------------------------------------------------
(* The steps. *)

LEMMA ApproveKeeps ==
    ASSUME IInv, ApproveCommission
    PROVE  IInv'
<1>1. PICK a \in Amounts : Earned + a <= MaxEarned /\ approved' = approved + a
  BY DEF ApproveCommission
<1>2. /\ UNCHANGED <<settled, payouts, asked, settling, revived>>
      /\ asked \in [Requests -> {0} \cup Amounts] /\ settling \subseteq Admins
  BY DEF ApproveCommission, IInv, TypeOK
<1>3. a \in Nat /\ Earned \in Nat /\ Earned' = Earned + a /\ approved' \in Nat /\ settled' \in Nat
  BY <1>1, <1>2, Bounds, PayoutsAssumption DEF Earned
<1>4. \A r \in Requests : asked'[r] <= Earned'
  <2> SUFFICES ASSUME NEW r \in Requests PROVE asked[r] <= Earned + a
    BY <1>2, <1>3
  <2>1. asked[r] \in 0 .. Earned
    BY Bounds
  <2>2. QED
    BY <1>3, <2>1
<1>5. Outstanding' = Outstanding
  BY <1>2 DEF Outstanding, Standing, AmountOf
<1>6. OverdraftBounded'
  <2> DEFINE c == Cardinality(Requests)
             sum == SumOf(asked, Requests)
  <2>1. /\ Outstanding + sum <= c * Earned + revived
        /\ c \in Nat /\ sum \in Nat /\ Outstanding \in Nat /\ revived \in Nat
    BY Bounds DEF IInv, OverdraftBounded
  <2> HIDE DEF c, sum
  <2>2. c * (Earned + a) = c * Earned + c * a /\ c * a \in Nat /\ c * Earned \in Nat
    BY <1>3, <2>1
  <2>3. Outstanding + sum <= c * (Earned + a) + revived
    BY <2>1, <2>2
  <2>4. QED
    BY <1>2, <1>3, <1>5, <2>3 DEF OverdraftBounded, c, sum
<1>7. Earned <= Earned' /\ Earned' <= MaxEarned
  BY <1>1, <1>3
<1>8. QED
  BY <1>2, <1>3, <1>4, <1>6, <1>7, SamePayouts

LEMMA SettleKeeps ==
    ASSUME IInv, NEW h \in Admins, SettleCommissions(h) \/ AdminDies(h)
    PROVE  IInv'
<1>1. /\ UNCHANGED <<payouts, asked, revived>> /\ settling' \subseteq settling
      /\ Earned' = Earned /\ approved' \in Nat /\ settled' \in Nat
  BY Bounds DEF SettleCommissions, AdminDies, Earned
<1>2. /\ asked \in [Requests -> {0} \cup Amounts] /\ settling \subseteq Admins
      /\ Earned <= MaxEarned /\ \A r \in Requests : asked[r] <= Earned
  BY DEF IInv, TypeOK, Covered
<1>3. Outstanding' = Outstanding
  BY <1>1 DEF Outstanding, Standing, AmountOf
<1>4. OverdraftBounded'
  BY <1>1, <1>3 DEF IInv, OverdraftBounded
<1>5. Earned <= Earned'
  BY <1>1, Bounds
<1>6. QED
  BY <1>1, <1>2, <1>4, <1>5, SamePayouts

\* The amount asked for is covered by the balance, and the others' amounts by one
\* balance each.
LEMMA CheckKeeps ==
    ASSUME IInv, NEW r \in Requests, CheckBalance(r)
    PROVE  IInv'
<1>1. PICK a \in Amounts : a <= availableBalance /\ asked' = [asked EXCEPT ![r] = a]
  BY DEF CheckBalance
<1>2. /\ UNCHANGED <<approved, settled, payouts, settling, revived>> /\ asked[r] = 0
      /\ asked \in [Requests -> {0} \cup Amounts] /\ settling \subseteq Admins
      /\ Earned <= MaxEarned
  BY DEF CheckBalance, IInv, TypeOK
<1>3. /\ Earned \in Nat /\ approved \in Nat /\ settled \in Nat /\ Earned = approved + settled
      /\ Outstanding \in Nat /\ revived \in Nat /\ asked \in [Requests -> 0 .. Earned]
      /\ Cardinality(Requests) \in Nat /\ SumOf(asked, Requests) \in Nat
  BY Bounds
<1>4. a \in Nat /\ a <= approved - Outstanding
  BY <1>1, PayoutsAssumption DEF availableBalance
<1>5. a \in 0 .. Earned
  BY <1>3, <1>4
<1>6. Earned' = Earned /\ Outstanding' = Outstanding
  BY <1>2 DEF Earned, Outstanding, Standing, AmountOf
<1>7. asked' \in [Requests -> {0} \cup Amounts] /\ \A q \in Requests : asked'[q] <= Earned'
  <2>1. asked' \in [Requests -> {0} \cup Amounts]
    BY <1>1, <1>2
  <2>2. asked' \in [Requests -> 0 .. Earned]
    BY <1>1, <1>3, <1>5
  <2>3. QED
    BY <1>6, <2>1, <2>2
<1>8. OverdraftBounded'
  <2> DEFINE c == Cardinality(Requests)
             e == Earned
             sum == SumOf(asked, Requests)
             sum2 == SumOf(asked', Requests)
  <2>1. /\ sum2 = sum - asked[r] + a
        /\ sum - asked[r] <= (c - 1) * e /\ c >= 1
    <3>1. /\ e \in Nat /\ IsFiniteSet(Requests) /\ asked'[r] = a
          /\ \A q \in Requests : asked[q] \in 0 .. e /\ asked'[q] \in 0 .. e
          /\ \A q \in Requests \ {r} : asked'[q] = asked[q]
      BY <1>1, <1>3, <1>5, PayoutsAssumption
    <3> HIDE DEF e
    <3>2. QED
      BY <3>1, SumChanged
  <2>2. c \in Nat /\ e \in Nat /\ sum \in Nat /\ Earned = e
    BY <1>3
  <2> HIDE DEF c, e, sum, sum2
  <2>3. sum2 = sum + a /\ sum <= (c - 1) * e
    BY <1>2, <1>4, <2>1, <2>2
  <2>4. (c - 1) * e + e = c * e /\ (c - 1) * e \in Nat /\ c * e \in Nat
    BY <2>1, <2>2
  <2>5. Outstanding + sum2 <= c * e + revived
    BY <1>3, <1>4, <2>2, <2>3, <2>4
  <2>6. QED
    BY <1>1, <1>2, <1>6, <2>2, <2>5 DEF OverdraftBounded, c, sum2
<1>9. QED
  BY <1>2, <1>3, <1>6, <1>7, <1>8, SamePayouts

LEMMA DiesKeeps ==
    ASSUME IInv, NEW r \in Requests, RequestDies(r)
    PROVE  IInv'
<1>1. /\ UNCHANGED <<approved, settled, payouts, settling, revived>>
      /\ asked' = [asked EXCEPT ![r] = 0]
      /\ asked \in [Requests -> {0} \cup Amounts] /\ settling \subseteq Admins
      /\ Earned <= MaxEarned /\ OverdraftBounded
  BY DEF RequestDies, IInv, TypeOK
<1>2. /\ Earned \in Nat /\ approved \in Nat /\ settled \in Nat
      /\ Outstanding \in Nat /\ revived \in Nat /\ asked \in [Requests -> 0 .. Earned]
      /\ Cardinality(Requests) \in Nat /\ SumOf(asked, Requests) \in Nat /\ 0 \in 0 .. Earned
  BY Bounds
<1>3. Earned' = Earned /\ Outstanding' = Outstanding
  BY <1>1 DEF Earned, Outstanding, Standing, AmountOf
<1>4. asked' \in [Requests -> {0} \cup Amounts] /\ \A q \in Requests : asked'[q] <= Earned'
  <2>1. asked' \in [Requests -> 0 .. Earned]
    BY <1>1, <1>2
  <2>2. QED
    BY <1>1, <1>3, <2>1
<1>5. OverdraftBounded'
  <2> DEFINE sum == SumOf(asked, Requests)
             sum2 == SumOf(asked', Requests)
             bound == Cardinality(Requests) * Earned
  <2>1. sum2 = sum - asked[r] + 0 /\ asked[r] \in 0 .. Earned
    <3>1. PICK e \in Nat : e = Earned
      BY <1>2
    <3>2. /\ IsFiniteSet(Requests) /\ asked'[r] = 0
          /\ \A q \in Requests : asked[q] \in 0 .. e /\ asked'[q] \in 0 .. e
          /\ \A q \in Requests \ {r} : asked'[q] = asked[q]
      BY <1>1, <1>2, <3>1, PayoutsAssumption
    <3>3. sum2 = sum - asked[r] + 0
      BY <3>2, SumChanged
    <3>4. QED
      BY <1>2, <3>3
  <2>2. Outstanding + sum <= bound + revived /\ sum \in Nat /\ bound \in Nat
    BY <1>1, <1>2 DEF OverdraftBounded
  <2> HIDE DEF sum, sum2, bound
  <2>3. Outstanding + sum2 <= bound + revived
    BY <1>2, <2>1, <2>2
  <2>4. QED
    BY <1>1, <1>3, <2>3 DEF OverdraftBounded, sum2, bound
<1>6. QED
  BY <1>1, <1>2, <1>3, <1>4, <1>5, SamePayouts

\* What the requests asked for becomes a payout, to the same sum.
LEMMA InsertKeeps ==
    ASSUME IInv, NEW r \in Requests, InsertPayout(r)
    PROVE  IInv'
<1> DEFINE n == Cardinality(payouts)
           new == [id |-> n + 1, amount |-> asked[r], status |-> "requested"]
<1>1. /\ asked[r] # 0 /\ n < MaxPayouts /\ payouts' = payouts \cup {new}
      /\ asked' = [asked EXCEPT ![r] = 0] /\ UNCHANGED <<approved, settled, settling, revived>>
  BY DEF InsertPayout
<1>2. TypeOK /\ Covered /\ OverdraftBounded
  BY DEF IInv
<1>3. /\ Earned \in Nat /\ revived \in Nat /\ Outstanding \in Nat
      /\ asked \in [Requests -> 0 .. Earned] /\ \A p \in payouts : p.amount \in 0 .. Earned
      /\ \A p \in payouts : AmountOf[p] = p.amount
      /\ IsFiniteSet(payouts) /\ IsFiniteSet(Standing) /\ SumOf(asked, Requests) \in Nat
      /\ Cardinality(Requests) \in Nat
  BY Bounds
<1>4. Earned' = Earned
  BY <1>1 DEF Earned
<1>5. n \in Nat /\ n + 1 \in 1 .. MaxPayouts /\ asked[r] \in Amounts
  <2>1. n \in Nat
    BY <1>3, FS_CardinalityType
  <2>2. asked[r] \in Amounts
    BY <1>1, <1>2 DEF TypeOK
  <2>3. QED
    BY <1>1, <2>1, <2>2, PayoutsAssumption
<1>6. new \notin payouts /\ Ids = 1 .. n
  BY <1>2, <1>5 DEF TypeOK, Ids
<1>7. new.id = n + 1 /\ new.amount = asked[r] /\ new.status = "requested"
  OBVIOUS
<1>8. new \in [id : 1 .. MaxPayouts, amount : Amounts,
               status : {"requested", "approved", "rejected", "paid"}]
  BY <1>5
<1> HIDE DEF new
<1>9. Cardinality(payouts') = n + 1 /\ IsFiniteSet(payouts')
  BY <1>1, <1>3, <1>6, FS_AddElement
<1>10. TypeOK'
  <2>1. /\ payouts' \subseteq [id : 1 .. MaxPayouts, amount : Amounts,
                               status : {"requested", "approved", "rejected", "paid"}]
    BY <1>1, <1>2, <1>8 DEF TypeOK
  <2>2. Ids' = Ids \cup {n + 1}
    BY <1>1, <1>7 DEF Ids
  <2>3. Ids' = 1 .. Cardinality(payouts')
    BY <1>5, <1>6, <1>9, <2>2
  <2>4. \A p, q \in payouts' : p.id = q.id => p = q
    <3>1. \A p \in payouts : p.id # new.id
      BY <1>5, <1>6, <1>7 DEF Ids
    <3>2. QED
      BY <1>1, <1>2, <3>1 DEF TypeOK
  <2>5. asked' \in [Requests -> {0} \cup Amounts] /\ settling' \subseteq Admins
    BY <1>1, <1>2 DEF TypeOK
  <2>6. approved' \in Nat /\ settled' \in Nat /\ Earned' <= MaxEarned /\ revived' \in 0 .. MaxRevived
    BY <1>1, <1>2, <1>4 DEF TypeOK
  <2>7. QED
    BY <2>1, <2>3, <2>4, <2>5, <2>6 DEF TypeOK
<1>11. Covered'
  <2>1. asked[r] \in 0 .. Earned /\ asked' \in [Requests -> 0 .. Earned]
    BY <1>1, <1>3
  <2>2. \A p \in payouts' : p.amount <= Earned'
    BY <1>1, <1>2, <1>3, <1>4, <1>7, <2>1 DEF Covered
  <2>3. QED
    BY <1>3, <1>4, <1>9, <2>1, <2>2 DEF Covered
<1>12. Outstanding' = Outstanding + asked[r]
  <2>1. Standing' = Standing \cup {new} /\ Standing \subseteq payouts /\ new \notin Standing
    BY <1>1, <1>6, <1>7 DEF Standing
  <2>2. AmountOf'[new] = asked[r] /\ \A p \in Standing : AmountOf'[p] = AmountOf[p]
    BY <1>1, <1>3, <1>7, <2>1 DEF AmountOf
  <2>3. PICK m \in Nat : m = Earned
    BY <1>3
  <2>4. AmountOf'[new] \in 0 .. m /\ \A p \in Standing : AmountOf'[p] \in 0 .. m
    BY <1>3, <2>1, <2>2, <2>3
  <2>5. SumOf(AmountOf', Standing \cup {new}) = SumOf(AmountOf', Standing) + AmountOf'[new]
    BY <1>3, <2>1, <2>4, SumWith
  <2>6. SumOf(AmountOf', Standing) = SumOf(AmountOf, Standing)
    BY <2>2, SumSame
  <2>7. QED
    BY <2>1, <2>2, <2>5, <2>6 DEF Outstanding
<1>13. OverdraftBounded'
  <2> DEFINE sum == SumOf(asked, Requests)
             sum2 == SumOf(asked', Requests)
             bound == Cardinality(Requests) * Earned
  <2>1. sum2 = sum - asked[r] + 0 /\ asked[r] \in 0 .. Earned
    <3>1. PICK e \in Nat : e = Earned
      BY <1>3
    <3>2. /\ IsFiniteSet(Requests) /\ asked'[r] = 0
          /\ \A q \in Requests : asked[q] \in 0 .. e /\ asked'[q] \in 0 .. e
          /\ \A q \in Requests \ {r} : asked'[q] = asked[q]
      BY <1>1, <1>3, <3>1, PayoutsAssumption
    <3>3. sum2 = sum - asked[r] + 0
      BY <3>2, SumChanged
    <3>4. QED
      BY <1>3, <3>3
  <2>2. Outstanding + sum <= bound + revived /\ sum \in Nat /\ bound \in Nat
    BY <1>2, <1>3 DEF OverdraftBounded
  <2> HIDE DEF sum, sum2, bound
  <2>3. (Outstanding + asked[r]) + sum2 <= bound + revived
    BY <1>3, <2>1, <2>2
  <2>4. QED
    BY <1>1, <1>4, <1>12, <2>3 DEF OverdraftBounded, sum2, bound
<1>14. QED
  BY <1>10, <1>11, <1>13 DEF IInv

\* A decision counts a payout again only by what is taken back from "rejected".
LEMMA DecideKeeps ==
    ASSUME IInv, NEW h \in Admins, NEW p \in payouts,
           NEW status \in {"approved", "rejected", "paid"}, Decide(h, p, status)
    PROVE  IInv'
<1> DEFINE q == Decided(p, status)
           rest == payouts \ {p}
           others == Standing \ {p}
           back == TakenBack(p, status)
<1>1. /\ payouts' = rest \cup {q} /\ revived' = revived + back /\ revived' <= MaxRevived
      /\ settling' \subseteq settling \cup {h} /\ UNCHANGED <<approved, settled, asked>>
  BY DEF Decide, DecidedPayouts
<1>2. TypeOK /\ Covered /\ OverdraftBounded
  BY DEF IInv
<1>3. /\ Earned \in Nat /\ revived \in Nat /\ Outstanding \in Nat
      /\ \A x \in payouts : x.amount \in 0 .. Earned /\ AmountOf[x] = x.amount
      /\ IsFiniteSet(payouts) /\ IsFiniteSet(Standing) /\ SumOf(asked, Requests) \in Nat
      /\ Cardinality(Requests) \in Nat
  BY Bounds
<1>4. Earned' = Earned
  BY <1>1 DEF Earned
<1>5. /\ p \in [id : 1 .. MaxPayouts, amount : Amounts,
                status : {"requested", "approved", "rejected", "paid"}]
      /\ q \in [id : 1 .. MaxPayouts, amount : Amounts,
                status : {"requested", "approved", "rejected", "paid"}]
      /\ q.id = p.id /\ q.amount = p.amount /\ q.status = status
  BY <1>2 DEF TypeOK, Decided
<1>6. back = IF p.status = "rejected" /\ status # "rejected" THEN p.amount ELSE 0
  BY DEF TakenBack
<1> HIDE DEF q, back
<1>7. q \notin rest
  BY <1>2, <1>5 DEF TypeOK
<1>8. Cardinality(payouts') = Cardinality(payouts) /\ IsFiniteSet(payouts')
  <2>1. /\ IsFiniteSet(rest) /\ Cardinality(rest) = Cardinality(payouts) - 1
        /\ Cardinality(payouts) \in Nat
    BY <1>3, FS_RemoveElement, FS_CardinalityType
  <2>2. IsFiniteSet(rest \cup {q}) /\ Cardinality(rest \cup {q}) = Cardinality(rest) + 1
    BY <1>7, <2>1, FS_AddElement
  <2>3. QED
    BY <1>1, <2>1, <2>2
<1>9. back \in Nat /\ p.amount \in Nat
  BY <1>3, <1>6
<1>10. TypeOK'
  <2>1. payouts' \subseteq [id : 1 .. MaxPayouts, amount : Amounts,
                            status : {"requested", "approved", "rejected", "paid"}]
    BY <1>1, <1>2, <1>5 DEF TypeOK
  <2>2. Ids' = Ids
    BY <1>1, <1>5 DEF Ids
  <2>3. \A x, y \in payouts' : x.id = y.id => x = y
    BY <1>1, <1>2, <1>5 DEF TypeOK
  <2>4. asked' \in [Requests -> {0} \cup Amounts] /\ settling' \subseteq Admins
    BY <1>1, <1>2 DEF TypeOK
  <2>5. approved' \in Nat /\ settled' \in Nat /\ Earned' <= MaxEarned
    BY <1>1, <1>2, <1>4 DEF TypeOK
  <2>6. revived' \in 0 .. MaxRevived
    BY <1>1, <1>3, <1>9, PayoutsAssumption
  <2>7. QED
    BY <1>2, <1>8, <2>1, <2>2, <2>3, <2>4, <2>5, <2>6 DEF TypeOK
<1>11. Covered'
  BY <1>1, <1>2, <1>4, <1>5, <1>8 DEF Covered
<1>12. PICK m \in Nat : m = Earned
  BY <1>3
<1>13. others \subseteq payouts /\ p \notin others /\ q \notin others /\ IsFiniteSet(others)
  BY <1>3, <1>7, FS_RemoveElement DEF Standing
<1>14. /\ \A x \in others : AmountOf[x] \in 0 .. m /\ AmountOf'[x] = AmountOf[x]
       /\ AmountOf[p] \in 0 .. m /\ AmountOf[p] = p.amount /\ AmountOf'[q] = p.amount
  BY <1>1, <1>3, <1>5, <1>12, <1>13 DEF AmountOf
<1>15. SumOf(AmountOf', others) = SumOf(AmountOf, others) /\ SumOf(AmountOf, others) \in Nat
  BY <1>13, <1>14, SumSame, SumIs
<1>16. Outstanding = SumOf(AmountOf, others) + IF p.status # "rejected" THEN p.amount ELSE 0
  <2>1. CASE p.status # "rejected"
    <3>1. Standing = others \cup {p}
      BY <2>1 DEF Standing
    <3>2. SumOf(AmountOf, others \cup {p}) = SumOf(AmountOf, others) + AmountOf[p]
      BY <1>13, <1>14, SumWith
    <3>3. QED
      BY <1>14, <2>1, <3>1, <3>2 DEF Outstanding
  <2>2. CASE p.status = "rejected"
    <3>1. Standing = others
      BY <2>2 DEF Standing
    <3>2. QED
      BY <1>15, <2>2, <3>1 DEF Outstanding
  <2>3. QED
    BY <2>1, <2>2
<1>17. Outstanding' = SumOf(AmountOf, others) + IF status # "rejected" THEN p.amount ELSE 0
  <2>1. CASE status # "rejected"
    <3>1. Standing' = others \cup {q}
      BY <1>1, <1>5, <2>1 DEF Standing
    <3>2. \A x \in others : AmountOf'[x] \in 0 .. m
      BY <1>14
    <3>3. AmountOf'[q] \in 0 .. m
      BY <1>14
    <3>4. SumOf(AmountOf', others \cup {q}) = SumOf(AmountOf', others) + AmountOf'[q]
      BY <1>13, <3>2, <3>3, SumWith
    <3>5. QED
      BY <1>14, <1>15, <2>1, <3>1, <3>4 DEF Outstanding
  <2>2. CASE status = "rejected"
    <3>1. Standing' = others
      BY <1>1, <1>5, <2>2 DEF Standing
    <3>2. QED
      BY <1>15, <2>2, <3>1 DEF Outstanding
  <2>3. QED
    BY <2>1, <2>2
<1> HIDE DEF others
<1>18. Outstanding' \in Nat /\ Outstanding' <= Outstanding + back
  BY <1>6, <1>9, <1>15, <1>16, <1>17
<1>19. OverdraftBounded'
  <2> DEFINE sum == SumOf(asked, Requests)
             bound == Cardinality(Requests) * Earned
  <2>1. Outstanding + sum <= bound + revived /\ sum \in Nat /\ bound \in Nat
    BY <1>2, <1>3 DEF OverdraftBounded
  <2> HIDE DEF sum, bound
  <2>2. Outstanding' + sum <= bound + (revived + back)
    <3>1. \A old, new, t, b, r, k \in Nat :
             old + t <= b + r /\ new <= old + k => new + t <= b + (r + k)
      OBVIOUS
    <3>2. QED
      BY <1>3, <1>9, <1>18, <2>1, <3>1
  <2>3. QED
    BY <1>1, <1>4, <2>2 DEF OverdraftBounded, sum, bound
<1>20. QED
  BY <1>10, <1>11, <1>19 DEF IInv

------------------------------------------------------------------------------
LEMMA InitIsGood == Init => IInv
<1> SUFFICES ASSUME Init PROVE IInv
  OBVIOUS
<1>1. /\ approved = 0 /\ settled = 0 /\ payouts = {} /\ revived = 0 /\ settling = {}
      /\ \A r \in Requests : asked[r] \in 0 .. 0
      /\ asked \in [Requests -> {0} \cup Amounts]
  BY DEF Init
<1>2. Cardinality(payouts) = 0 /\ IsFiniteSet(payouts) /\ Earned = 0 /\ Ids = {} /\ Standing = {}
  BY <1>1, FS_EmptySet DEF Earned, Ids, Standing
<1>3. TypeOK
  BY <1>1, <1>2, PayoutsAssumption DEF TypeOK
<1>4. Covered
  BY <1>1, <1>2 DEF Covered
<1>5. OverdraftBounded
  <2>1. Units(AmountOf, Standing) = {}
    BY <1>2 DEF Units
  <2>2. Outstanding = 0
    BY <2>1, FS_EmptySet DEF Outstanding, SumOf
  <2>3. SumOf(asked, Requests) \in Nat /\ SumOf(asked, Requests) <= Cardinality(Requests) * 0
        /\ Cardinality(Requests) \in Nat
    BY <1>1, PayoutsAssumption, SumIs
  <2>4. QED
    BY <1>1, <1>2, <2>2, <2>3 DEF OverdraftBounded
<1>6. QED
  BY <1>3, <1>4, <1>5 DEF IInv

LEMMA StepIsGood == IInv /\ [Next]_vars => IInv'
<1> SUFFICES ASSUME IInv, [Next]_vars PROVE IInv'
  OBVIOUS
<1>1. CASE UNCHANGED vars
  BY <1>1 DEF vars, IInv, TypeOK, Covered, OverdraftBounded, Earned, Ids, Outstanding, Standing, AmountOf
<1>2. CASE Next
  BY <1>2, ApproveKeeps, CheckKeeps, InsertKeeps, DiesKeeps, SettleKeeps, DecideKeeps DEF Next
<1>3. QED
  BY <1>1, <1>2

\* Whatever order requests and decisions come in, each payout stays one row under
\* its own number, decided in place (UPDATE payout ... WHERE id, routes/admin.ts),
\* and no more is counted as earned than was.
THEOREM TypeCorrect == Spec => []TypeOK
<1>1. IInv => TypeOK
  BY DEF IInv
<1>2. QED
  BY <1>1, InitIsGood, StepIsGood, PTL DEF Spec

\* Requests that read the same balance overdraw it by at most one balance for each
\* that overlaps, and what is taken back from "rejected" (POST /affiliate/payouts,
\* PATCH /admin/payouts/:id).
THEOREM OverdraftIsBounded == Spec => []OverdraftBounded
<1>1. IInv => OverdraftBounded
  BY DEF IInv
<1>2. QED
  BY <1>1, InitIsGood, StepIsGood, PTL DEF Spec
==============================================================================
