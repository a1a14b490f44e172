-------------------------- MODULE PortalSessionProofs --------------------------
(* Proofs about Sessions and PortalSession, for every number of tabs, handlers *)
(* and sessions: first of the server alone; then that the portal drives the    *)
(* session handlers by their own steps, so that what is proved of the server   *)
(* holds of the two composed; and what the portal itself keeps to.             *)
EXTENDS PortalSession, FiniteSetTheorems, TLAPS

------------------------------------------------------------------------------
(* The server. *)

\* The account was active when the last sweep was undone: a swept account is
\* suspended.  Behind StragglersOnly.
SweptIsSuspended == swept => account = "suspended"

\* A session was minted from one that exists, and one that is live has minted
\* none and is not about to: a refresh revokes it first.  Behind
\* BoundedSuccessors.
LiveIsUnrotated ==
    /\ \A c \in 1..minted : parent[c] \in {Login} \cup 1..minted
    /\ \A s \in live, c \in 1..minted : parent[c] # s
    /\ \A s \in live, r \in Requests : from[r] = s => pc[r] # "minting"

IInv ==
    /\ TypeOK
    /\ SweptIsSuspended
    /\ SuspensionSweeps
    /\ StragglersOnly
    /\ LiveIsUnrotated
    /\ BoundedSuccessors

------------------------------------------------------------------------------
\* Types.

LEMMA TypeInit == Init => TypeOK
<1> SUFFICES ASSUME Init PROVE TypeOK
  OBVIOUS
<1> USE SessionsAssumption DEF SessionsAssumption, Init, Sessions, Login
<1>1. minted \in 0..MaxSessions /\ live \subseteq 1..minted
  OBVIOUS
<1>2. parent \in [Sessions -> {Login} \cup Sessions]
  OBVIOUS
<1>3. from \in [Requests -> {Login} \cup 1..minted]
  OBVIOUS
<1>4. pc \in [Requests -> {"idle", "found", "checked", "minting"}]
  OBVIOUS
<1>5. admin \in [Admins -> {"idle", "sweeping"}]
  OBVIOUS
<1> QED
  BY <1>1, <1>2, <1>3, <1>4, <1>5 DEF TypeOK

LEMMA TypeStep == TypeOK /\ [Next]_vars => TypeOK'
<1> SUFFICES ASSUME TypeOK, [Next]_vars PROVE TypeOK'
  OBVIOUS
<1> USE SessionsAssumption DEF SessionsAssumption, TypeOK, Sessions, Login,
        session, request, status
<1>1. CASE UNCHANGED vars
  BY <1>1 DEF vars
<1>2. ASSUME NEW r \in Requests, LoginCheck(r) PROVE TypeOK'
  BY <1>2 DEF LoginCheck, Begin
<1>3. ASSUME NEW r \in Requests, NEW s \in Sessions, FindSession(r, s) PROVE TypeOK'
  BY <1>3 DEF FindSession, Begin
<1>4. ASSUME NEW r \in Requests, CheckUser(r) PROVE TypeOK'
  BY <1>4 DEF CheckUser, Goto, End
<1>5. ASSUME NEW r \in Requests, RevokeOld(r) PROVE TypeOK'
  BY <1>5 DEF RevokeOld, Goto
<1>6. ASSUME NEW r \in Requests, MintSession(r) PROVE TypeOK'
  <2>1. /\ minted' \in 0..MaxSessions
        /\ 1..minted \subseteq 1..minted'
        /\ minted + 1 \in 1..minted'
        /\ minted + 1 \in Sessions
    BY <1>6 DEF MintSession
  <2>2. live' \subseteq 1..minted'
    BY <1>6, <2>1 DEF MintSession
  <2>3. from[r] \in {Login} \cup Sessions
    OBVIOUS
  <2>4. parent' \in [Sessions -> {Login} \cup Sessions]
    BY <1>6, <2>1, <2>3 DEF MintSession
  <2>5. /\ pc' \in [Requests -> {"idle", "found", "checked", "minting"}]
        /\ from' \in [Requests -> {Login} \cup 1..minted']
    BY <1>6, <2>1 DEF MintSession, End
  <2> QED
    BY <1>6, <2>1, <2>2, <2>4, <2>5 DEF MintSession
<1>7. ASSUME NEW r \in Requests, RequestDies(r) PROVE TypeOK'
  BY <1>7 DEF RequestDies, End
<1>8. ASSUME NEW s \in Sessions, SessionEnds(s) PROVE TypeOK'
  BY <1>8 DEF SessionEnds
<1>9. ASSUME NEW a \in Admins, SetStatus(a) PROVE TypeOK'
  <2>1. CASE SuspendAccount(a)
    BY <2>1 DEF SuspendAccount
  <2>2. CASE RevokeAll(a)
    BY <2>2 DEF RevokeAll
  <2>3. CASE ActivateAccount(a)
    BY <2>3 DEF ActivateAccount
  <2> QED
    BY <1>9, <2>1, <2>2, <2>3 DEF SetStatus
<1> QED
  BY <1>1, <1>2, <1>3, <1>4, <1>5, <1>6, <1>7, <1>8, <1>9 DEF Next, Refresh

------------------------------------------------------------------------------
\* The handlers and the live sessions can be counted.

LEMMA Finite ==
  ASSUME TypeOK
  PROVE  /\ IsFiniteSet(live)
         /\ \A S \in SUBSET Requests :
               IsFiniteSet(S) /\ Cardinality(S) \in Nat
               /\ Cardinality(S) <= Cardinality(Requests)
         /\ \A s : IsFiniteSet(Successors(s)) /\ Cardinality(Successors(s)) \in Nat
         /\ Cardinality(Requests) \in Nat
<1>1. minted \in Int /\ live \subseteq 1..minted
  BY SessionsAssumption DEF TypeOK, SessionsAssumption
<1>2. IsFiniteSet(1..minted)
  BY <1>1, FS_Interval
<1>3. IsFiniteSet(live)
  BY <1>1, <1>2, FS_Subset
<1>4. Cardinality(Requests) \in Nat
  BY SessionsAssumption, FS_CardinalityType DEF SessionsAssumption
<1>5. ASSUME NEW S \in SUBSET Requests
      PROVE  /\ IsFiniteSet(S) /\ Cardinality(S) \in Nat
             /\ Cardinality(S) <= Cardinality(Requests)
  BY SessionsAssumption, FS_Subset, FS_CardinalityType DEF SessionsAssumption
<1>6. ASSUME NEW s
      PROVE  IsFiniteSet(Successors(s)) /\ Cardinality(Successors(s)) \in Nat
  <2>1. Successors(s) \in SUBSET (1..minted)
    BY DEF Successors
  <2> QED
    BY <1>2, <2>1, FS_Subset, FS_CardinalityType
<1> QED
  BY <1>3, <1>4, <1>5, <1>6

LEMMA Shrinks ==
  ASSUME NEW S, IsFiniteSet(S), NEW T \in SUBSET S
  PROVE  IsFiniteSet(T) /\ Cardinality(T) \in Nat /\ Cardinality(T) <= Cardinality(S)
  BY FS_Subset, FS_CardinalityType

LEMMA Grows ==
  ASSUME NEW S, IsFiniteSet(S), NEW x
  PROVE  /\ Cardinality(S \cup {x}) \in Nat
         /\ Cardinality(S \cup {x}) <= Cardinality(S) + 1
<1>1. Cardinality(S) \in Nat
  BY FS_CardinalityType
<1>2. IsFiniteSet(S \cup {x})
  BY FS_AddElement
<1>3. Cardinality(S \cup {x}) = IF x \in S THEN Cardinality(S) ELSE Cardinality(S) + 1
  BY FS_AddElement
<1> QED
  BY <1>1, <1>2, <1>3, FS_CardinalityType

------------------------------------------------------------------------------
\* Suspension.

LEMMA SuspensionStep ==
  ASSUME TypeOK, SweptIsSuspended, SuspensionSweeps, [Next]_vars
  PROVE  SweptIsSuspended' /\ SuspensionSweeps'
<1> USE DEF TypeOK, SweptIsSuspended, SuspensionSweeps, session, request, status
<1>1. CASE UNCHANGED status
  BY <1>1
<1>2. ASSUME NEW a \in Admins, SuspendAccount(a)
      PROVE  SweptIsSuspended' /\ SuspensionSweeps'
  BY <1>2 DEF SuspendAccount
<1>3. ASSUME NEW a \in Admins, RevokeAll(a)
      PROVE  SweptIsSuspended' /\ SuspensionSweeps'
  BY <1>3 DEF RevokeAll
<1>4. ASSUME NEW a \in Admins, ActivateAccount(a)
      PROVE  SweptIsSuspended' /\ SuspensionSweeps'
  BY <1>4 DEF ActivateAccount
<1>5. ASSUME NEW r \in Requests,
             LoginCheck(r) \/ Refresh(r) \/ MintSession(r) \/ RequestDies(r)
      PROVE  UNCHANGED status
  BY <1>5 DEF LoginCheck, Refresh, FindSession, CheckUser, RevokeOld, MintSession, RequestDies
<1>6. ASSUME NEW s \in Sessions, SessionEnds(s) PROVE UNCHANGED status
  BY <1>6 DEF SessionEnds
<1> QED
  BY <1>1, <1>2, <1>3, <1>4, <1>5, <1>6 DEF Next, SetStatus, vars

LEMMA StragglersStep ==
  ASSUME TypeOK, SweptIsSuspended, StragglersOnly, [Next]_vars
  PROVE  StragglersOnly'
<1> DEFINE R == Cardinality(Requests)
<1>a. /\ IsFiniteSet(live) /\ Cardinality(live) \in Nat
      /\ IsFiniteSet(Cleared) /\ Cardinality(Cleared) \in Nat
      /\ Cardinality(Cleared) <= R
      /\ R \in Nat
  BY Finite, FS_CardinalityType DEF Cleared
<1>b. ASSUME live' \subseteq live, Cleared' \subseteq Cleared, swept' => swept
      PROVE  StragglersOnly'
  <2>1. Cardinality(live') \in Nat /\ Cardinality(live') <= Cardinality(live)
    BY <1>a, <1>b, Shrinks
  <2>2. Cardinality(Cleared') \in Nat /\ Cardinality(Cleared') <= Cardinality(Cleared)
    BY <1>a, <1>b, Shrinks
  <2> QED
    BY <1>a, <1>b, <2>1, <2>2 DEF StragglersOnly
<1> USE DEF TypeOK, SweptIsSuspended, session, request, status
<1>1. CASE UNCHANGED vars
  BY <1>1, <1>b DEF vars, Cleared
<1>2. ASSUME NEW r \in Requests, LoginCheck(r) PROVE StragglersOnly'
  BY <1>2 DEF LoginCheck, StragglersOnly
<1>3. ASSUME NEW r \in Requests, NEW s \in Sessions, FindSession(r, s) PROVE StragglersOnly'
  <2>1. Cleared' \subseteq Cleared
    BY <1>3 DEF FindSession, Begin, Cleared
  <2> QED
    BY <1>3, <2>1, <1>b DEF FindSession
<1>4. ASSUME NEW r \in Requests, CheckUser(r) PROVE StragglersOnly'
  <2>1. CASE account = "active"
    BY <1>4, <2>1 DEF CheckUser, StragglersOnly
  <2>2. CASE account # "active"
    <3>1. Cleared' \subseteq Cleared
      BY <1>4, <2>2 DEF CheckUser, End, Cleared
    <3> QED
      BY <1>4, <3>1, <1>b DEF CheckUser
  <2> QED
    BY <2>1, <2>2
<1>5. ASSUME NEW r \in Requests, RevokeOld(r) PROVE StragglersOnly'
  <2>1. Cleared' \subseteq Cleared
    BY <1>5 DEF RevokeOld, Goto, Cleared
  <2> QED
    BY <1>5, <2>1, <1>b DEF RevokeOld
<1>6. ASSUME NEW r \in Requests, MintSession(r) PROVE StragglersOnly'
  <2>1. r \in Cleared /\ Cleared' = Cleared \ {r}
    BY <1>6 DEF MintSession, End, Cleared
  <2>2. Cardinality(Cleared') = Cardinality(Cleared) - 1
    BY <2>1, <1>a, FS_RemoveElement
  <2>3. Cardinality(live') <= Cardinality(live) + 1 /\ Cardinality(live') \in Nat
    BY <1>6, <1>a, Grows DEF MintSession
  <2>4. swept' = swept
    BY <1>6 DEF MintSession
  <2> QED
    BY <1>a, <2>2, <2>3, <2>4 DEF StragglersOnly
<1>7. ASSUME NEW r \in Requests, RequestDies(r) PROVE StragglersOnly'
  <2>1. Cleared' \subseteq Cleared
    BY <1>7 DEF RequestDies, End, Cleared
  <2> QED
    BY <1>7, <2>1, <1>b DEF RequestDies
<1>8. ASSUME NEW s \in Sessions, SessionEnds(s) PROVE StragglersOnly'
  BY <1>8, <1>b DEF SessionEnds, Cleared
<1>9. ASSUME NEW a \in Admins, SuspendAccount(a) PROVE StragglersOnly'
  BY <1>9, <1>b DEF SuspendAccount, Cleared
<1>10. ASSUME NEW a \in Admins, RevokeAll(a) PROVE StragglersOnly'
  <2>1. live' = {} /\ Cleared' = Cleared
    BY <1>10 DEF RevokeAll, Cleared
  <2>2. Cardinality(live') = 0
    BY <2>1, FS_EmptySet
  <2> QED
    BY <1>a, <2>1, <2>2 DEF StragglersOnly
<1>11. ASSUME NEW a \in Admins, ActivateAccount(a) PROVE StragglersOnly'
  BY <1>11 DEF ActivateAccount, StragglersOnly
<1> QED
  BY <1>1, <1>2, <1>3, <1>4, <1>5, <1>6, <1>7, <1>8, <1>9, <1>10, <1>11
  DEF Next, Refresh, SetStatus

------------------------------------------------------------------------------
\* Rotation.

\* No session gains a successor or a refresh: the bound is kept.
LEMMA NoNewRotation ==
  ASSUME TypeOK, BoundedSuccessors, UNCHANGED <<minted, parent>>,
         \A s \in 1..minted : Rotating(s)' \subseteq Rotating(s)
  PROVE  BoundedSuccessors'
<1> SUFFICES ASSUME NEW s \in 1..minted
             PROVE  Cardinality(Successors(s)') + Cardinality(Rotating(s)')
                      <= Cardinality(Requests)
  BY DEF BoundedSuccessors
<1>1. Successors(s)' = Successors(s)
  BY DEF Successors
<1>2. /\ Cardinality(Successors(s)) \in Nat
      /\ IsFiniteSet(Rotating(s))
      /\ Cardinality(Rotating(s)) \in Nat
      /\ Cardinality(Requests) \in Nat
  BY Finite DEF Rotating
<1>3. Cardinality(Rotating(s)') \in Nat /\ Cardinality(Rotating(s)') <= Cardinality(Rotating(s))
  BY <1>2, Shrinks
<1>4. Cardinality(Successors(s)) + Cardinality(Rotating(s)) <= Cardinality(Requests)
  BY DEF BoundedSuccessors
<1> QED
  BY <1>1, <1>2, <1>3, <1>4

LEMMA FindStep ==
  ASSUME TypeOK, LiveIsUnrotated, BoundedSuccessors,
         NEW r \in Requests, NEW t \in Sessions, FindSession(r, t)
  PROVE  BoundedSuccessors'
<1> USE DEF TypeOK, session, status
<1>1. t \in live /\ UNCHANGED <<minted, parent>>
  BY DEF FindSession
<1>2. ASSUME NEW s \in 1..minted
      PROVE  Cardinality(Successors(s)') + Cardinality(Rotating(s)') <= Cardinality(Requests)
  <2>1. Successors(s)' = Successors(s)
    BY <1>1 DEF Successors
  <2>2. /\ Cardinality(Successors(s)) \in Nat
        /\ IsFiniteSet(Rotating(s)) /\ Cardinality(Rotating(s)) \in Nat
        /\ Cardinality(Rotating(s)') \in Nat
        /\ Cardinality(Rotating(s)') <= Cardinality(Requests)
        /\ Cardinality(Requests) \in Nat
    BY Finite DEF Rotating
  <2>3. CASE s = t
    <3>1. Successors(s) = {}
      BY <1>1, <2>3 DEF LiveIsUnrotated, Successors
    <3> QED
      BY <2>1, <2>2, <3>1, FS_EmptySet
  <2>4. CASE s # t
    <3>1. Rotating(s)' \subseteq Rotating(s)
      BY <2>4 DEF FindSession, Begin, Rotating
    <3>2. Cardinality(Rotating(s)') <= Cardinality(Rotating(s))
      BY <2>2, <3>1, Shrinks
    <3> QED
      BY <2>1, <2>2, <3>2 DEF BoundedSuccessors
  <2> QED
    BY <2>3, <2>4
<1> QED
  BY <1>1, <1>2 DEF BoundedSuccessors

LEMMA MintStep ==
  ASSUME TypeOK, LiveIsUnrotated, BoundedSuccessors, NEW r \in Requests, MintSession(r)
  PROVE  LiveIsUnrotated' /\ BoundedSuccessors'
<1> USE SessionsAssumption DEF SessionsAssumption, TypeOK, Sessions, Login
<1> DEFINE n == minted + 1
<1>1. /\ minted \in Nat /\ minted' = n /\ n \in Sessions
      /\ live' = live \cup {n}
      /\ parent' = [parent EXCEPT ![n] = from[r]]
      /\ pc[r] = "minting" /\ pc' = [pc EXCEPT ![r] = "idle"]
      /\ from' = [from EXCEPT ![r] = Login]
  BY DEF MintSession, End
<1>2. \A c \in 1..minted : c \in Sessions /\ c # n /\ parent'[c] = parent[c]
  BY <1>1
<1>3. parent'[n] = from[r] /\ from[r] \in {Login} \cup 1..minted /\ from[r] # n
  BY <1>1
<1>4. 1..minted' = 1..minted \cup {n} /\ Login # n
  BY <1>1
<1>5. LiveIsUnrotated'
  <2>1. \A c \in 1..minted' : parent'[c] \in {Login} \cup 1..minted'
    BY <1>2, <1>3, <1>4 DEF LiveIsUnrotated
  <2>2. ASSUME NEW s \in live', NEW c \in 1..minted' PROVE parent'[c] # s
    <3>1. CASE s = n
      BY <3>1, <1>1, <1>2, <1>3, <1>4 DEF LiveIsUnrotated
    <3>2. CASE s \in live
      <4>1. from[r] # s
        BY <1>1, <3>2 DEF LiveIsUnrotated
      <4> QED
        BY <4>1, <3>2, <1>2, <1>3, <1>4 DEF LiveIsUnrotated
    <3> QED
      BY <1>1, <3>1, <3>2
  <2>3. ASSUME NEW s \in live', NEW q \in Requests, from'[q] = s
        PROVE  pc'[q] # "minting"
    <3>1. CASE q = r
      BY <3>1, <1>1
    <3>2. CASE q # r
      <4>1. from'[q] = from[q] /\ pc'[q] = pc[q] /\ from[q] # n
        BY <3>2, <1>1
      <4> QED
        BY <4>1, <2>3, <1>1 DEF LiveIsUnrotated
    <3> QED
      BY <3>1, <3>2
  <2> QED
    BY <2>1, <2>2, <2>3 DEF LiveIsUnrotated
<1>6. ASSUME NEW s \in 1..minted'
      PROVE  Cardinality(Successors(s)') + Cardinality(Rotating(s)') <= Cardinality(Requests)
  <2>1. CASE s = n
    <3>1. Successors(s)' = {}
      BY <2>1, <1>1, <1>2, <1>3, <1>4 DEF Successors, LiveIsUnrotated
    <3>2. Rotating(s)' \subseteq Requests
      BY DEF Rotating
    <3>3. Cardinality(Successors(s)') = 0
      BY <3>1, FS_EmptySet
    <3> QED
      BY <3>2, <3>3, Finite
  <2>2. CASE s \in 1..minted
    <3>0. /\ IsFiniteSet(Successors(s)) /\ Cardinality(Successors(s)) \in Nat
          /\ IsFiniteSet(Rotating(s)) /\ Cardinality(Rotating(s)) \in Nat
          /\ Cardinality(Requests) \in Nat
          /\ Cardinality(Successors(s)) + Cardinality(Rotating(s)) <= Cardinality(Requests)
      BY <2>2, Finite DEF Rotating, BoundedSuccessors
    <3>1. CASE from[r] = s
      <4>1. Successors(s)' = Successors(s) \cup {n}
        BY <3>1, <1>1, <1>2, <1>3, <1>4 DEF Successors
      <4>2. r \in Rotating(s) /\ Rotating(s)' = Rotating(s) \ {r}
        BY <3>1, <1>1 DEF Rotating
      <4>3. /\ Cardinality(Successors(s)') \in Nat
            /\ Cardinality(Successors(s)') <= Cardinality(Successors(s)) + 1
        BY <4>1, <3>0, Grows
      <4>4. Cardinality(Rotating(s)') = Cardinality(Rotating(s)) - 1
        BY <4>2, <3>0, FS_RemoveElement
      <4> QED
        BY <3>0, <4>3, <4>4
    <3>2. CASE from[r] # s
      <4>1. Successors(s)' = Successors(s)
        BY <3>2, <1>1, <1>2, <1>3, <1>4 DEF Successors
      <4>2. Rotating(s)' \subseteq Rotating(s)
        BY <2>2, <1>1 DEF Rotating
      <4>3. Cardinality(Rotating(s)') \in Nat /\ Cardinality(Rotating(s)') <= Cardinality(Rotating(s))
        BY <4>2, <3>0, Shrinks
      <4> QED
        BY <3>0, <4>1, <4>3
    <3> QED
      BY <3>1, <3>2
  <2> QED
    BY <1>4, <2>1, <2>2
<1> QED
  BY <1>5, <1>6 DEF BoundedSuccessors

LEMMA RotationStep ==
  ASSUME TypeOK, LiveIsUnrotated, BoundedSuccessors, [Next]_vars
  PROVE  LiveIsUnrotated' /\ BoundedSuccessors'
<1> USE DEF TypeOK, session, request, status
<1>1. CASE UNCHANGED request /\ UNCHANGED <<minted, parent>> /\ live' \subseteq live
  <2>1. \A s \in 1..minted : Rotating(s)' \subseteq Rotating(s)
    BY <1>1 DEF Rotating
  <2> QED
    BY <1>1, <2>1, NoNewRotation DEF LiveIsUnrotated
<1>2. ASSUME NEW r \in Requests, LoginCheck(r)
      PROVE  LiveIsUnrotated' /\ BoundedSuccessors'
  <2>1. \A s \in 1..minted : Rotating(s)' \subseteq Rotating(s)
    BY <1>2, SessionsAssumption DEF LoginCheck, Begin, Rotating, Login, SessionsAssumption
  <2>2. UNCHANGED <<minted, parent, live>>
    BY <1>2 DEF LoginCheck
  <2>3. \A s \in live, q \in Requests : from'[q] = s => pc'[q] # "minting"
    <3>1. Login \notin live
      BY SessionsAssumption DEF Login, SessionsAssumption
    <3> QED
      BY <1>2, <3>1 DEF LoginCheck, Begin, LiveIsUnrotated
  <2> QED
    BY <2>1, <2>2, <2>3, NoNewRotation DEF LiveIsUnrotated
<1>3. ASSUME NEW r \in Requests, NEW t \in Sessions, FindSession(r, t)
      PROVE  LiveIsUnrotated' /\ BoundedSuccessors'
  <2>1. LiveIsUnrotated'
    BY <1>3 DEF FindSession, Begin, LiveIsUnrotated
  <2> QED
    BY <1>3, <2>1, FindStep
<1>4. ASSUME NEW r \in Requests, CheckUser(r) \/ RevokeOld(r) \/ RequestDies(r)
      PROVE  LiveIsUnrotated' /\ BoundedSuccessors'
  <2>1. UNCHANGED <<minted, parent>>
    BY <1>4 DEF CheckUser, RevokeOld, RequestDies
  <2>2. \A s \in 1..minted : Rotating(s)' \subseteq Rotating(s)
    BY <1>4, SessionsAssumption DEF CheckUser, RevokeOld, RequestDies, Goto, End, Rotating, Login,
       SessionsAssumption
  <2>3. live' \subseteq live
    BY <1>4 DEF CheckUser, RevokeOld, RequestDies
  <2>4. \A s \in live', q \in Requests : from'[q] = s => pc'[q] # "minting"
    BY <1>4, <2>3 DEF CheckUser, RevokeOld, RequestDies, Goto, End, LiveIsUnrotated
  <2> QED
    BY <2>1, <2>2, <2>3, <2>4, NoNewRotation DEF LiveIsUnrotated
<1>5. ASSUME NEW r \in Requests, MintSession(r)
      PROVE  LiveIsUnrotated' /\ BoundedSuccessors'
  BY <1>5, MintStep
<1>6. ASSUME NEW s \in Sessions, SessionEnds(s)
      PROVE  LiveIsUnrotated' /\ BoundedSuccessors'
  BY <1>6, <1>1 DEF SessionEnds
<1>7. ASSUME NEW a \in Admins, SetStatus(a)
      PROVE  LiveIsUnrotated' /\ BoundedSuccessors'
  BY <1>7, <1>1 DEF SetStatus, SuspendAccount, RevokeAll, ActivateAccount
<1> QED
  BY <1>1, <1>2, <1>3, <1>4, <1>5, <1>6, <1>7 DEF Next, Refresh, vars

------------------------------------------------------------------------------
\* The inductive invariant and the theorems.

LEMMA Initial == Init => IInv
<1> SUFFICES ASSUME Init PROVE IInv
  OBVIOUS
<1>1. TypeOK
  BY TypeInit
<1>2. SweptIsSuspended /\ SuspensionSweeps /\ StragglersOnly
  BY DEF Init, SweptIsSuspended, SuspensionSweeps, StragglersOnly
<1>3. LiveIsUnrotated
  BY DEF Init, LiveIsUnrotated
<1>4. BoundedSuccessors
  BY DEF Init, BoundedSuccessors
<1> QED
  BY <1>1, <1>2, <1>3, <1>4 DEF IInv

LEMMA Inductive == IInv /\ [Next]_vars => IInv'
  BY TypeStep, SuspensionStep, StragglersStep, RotationStep DEF IInv

THEOREM Invariance == Spec => []IInv
<1>1. Init => IInv
  BY Initial
<1>2. IInv /\ [Next]_vars => IInv'
  BY Inductive
<1> QED
  BY <1>1, <1>2, PTL DEF Spec

\* The session handlers keep their types.
THEOREM SessionsTypeCorrect == Spec => []TypeOK
<1>1. IInv => TypeOK
  BY DEF IInv
<1> QED
  BY <1>1, Invariance, PTL

\* However many administrators' requests overlap and in whatever order, no
\* account stays suspended without a revocation of its sessions after it
\* (PATCH /admin/merchants/:id/status).
THEOREM SuspensionIsSwept == Spec => []SuspensionSweeps
<1>1. IInv => SuspensionSweeps
  BY DEF IInv
<1> QED
  BY <1>1, Invariance, PTL

\* After that revocation no more sessions are live or to come than requests
\* that had passed the check of the account (POST /auth/refresh and the login).
THEOREM SuspensionLeavesStragglers == Spec => []StragglersOnly
<1>1. IInv => StragglersOnly
  BY DEF IInv
<1> QED
  BY <1>1, Invariance, PTL

\* A refresh token mints at most one session per overlapping refresh of it.
THEOREM RotationIsBounded == Spec => []BoundedSuccessors
<1>1. IInv => BoundedSuccessors
  BY DEF IInv
<1> QED
  BY <1>1, Invariance, PTL

------------------------------------------------------------------------------
(* The portal implements the server. *)

LEMMA PortalStepIsServerStep == TypeOK /\ [PortalNext]_allVars => [Next]_vars
<1> SUFFICES ASSUME TypeOK, [PortalNext]_allVars PROVE [Next]_vars
  OBVIOUS
<1>1. CASE UNCHANGED allVars
  BY <1>1 DEF allVars
<1>2. live \subseteq Sessions
  BY SessionsAssumption DEF TypeOK, Sessions, SessionsAssumption
<1>3. ASSUME NEW t \in Tabs, NEW r \in Requests,
             SignIn(t, r) \/ Unauthorized(t, r) \/ Load(t, r) \/ SignOut(t, r)
      PROVE  UNCHANGED vars
  BY <1>3 DEF SignIn, Unauthorized, Load, SignOut
<1>4. ASSUME NEW r \in Requests, Deliver(r) \/ NetworkFails(r) PROVE UNCHANGED vars
  BY <1>4 DEF Deliver, NetworkFails
<1>5. ASSUME NEW r \in Requests, ServeLogin(r) PROVE Next \/ UNCHANGED vars
  BY <1>5 DEF ServeLogin, Next
<1>6. ASSUME NEW r \in Requests, ServeRefresh(r) PROVE Next \/ UNCHANGED vars
  BY <1>2, <1>6 DEF ServeRefresh, FindSession, Next, Refresh
<1>7. ASSUME NEW r \in Requests, ServeLogout(r) PROVE Next \/ UNCHANGED vars
  BY <1>2, <1>7 DEF ServeLogout, SessionEnds, Next
<1>8. ASSUME NEW r \in Requests, Proceed(r) PROVE Next
  BY <1>8 DEF Proceed, Next, Refresh
<1>9. CASE Elsewhere
  BY <1>9 DEF Elsewhere, Next, Refresh
<1> QED
  BY <1>1, <1>3, <1>4, <1>5, <1>6, <1>7, <1>8, <1>9 DEF PortalNext

\* The portal and the server together implement the server: its guarantees do not
\* depend on how the tabs behave.
THEOREM PortalImplementsSessions == PortalSpec => Spec
<1>1. PortalInit => Init /\ TypeOK
  BY TypeInit DEF PortalInit
<1>2. TypeOK /\ [PortalNext]_allVars => TypeOK'
  BY PortalStepIsServerStep, TypeStep
<1> QED
  BY <1>1, <1>2, PortalStepIsServerStep, PTL DEF PortalSpec, Spec

\* Whatever the tabs do, a suspended account is swept, and leaves no more
\* sessions than the requests that had passed the check of the account.
THEOREM PortalIsSwept == PortalSpec => [](SuspensionSweeps /\ StragglersOnly)
BY PortalImplementsSessions, SuspensionIsSwept, SuspensionLeavesStragglers, PTL

------------------------------------------------------------------------------
(* The tokens.  A token in an answer that is still to come is one that nobody *)
(* holds yet, and the stored one is used up only where a refresh of it is     *)
(* under way, or was when its tab was reloaded.                               *)

Calling == {r \in Requests : call[r] # NoCall}

HeldAreMinted ==
    /\ stored \in 0..minted
    /\ \A t \in Tabs : memory[t] \in 0..minted
    /\ \A r \in Calling : call[r].token \in 0..minted /\ call[r].got \in 0..minted

AnswersAreFresh ==
    \A r \in Calling : call[r].got # NoToken =>
        /\ ~UsedUp(call[r].got)
        /\ \A q \in Requests : from[q] # call[r].got
        /\ stored # call[r].got
        /\ \A t \in Tabs : memory[t] # call[r].got
        /\ \A q \in Calling :
              call[q].token # call[r].got /\ (q # r => call[q].got # call[r].got)

StoredIsCovered ==
    stored # NoToken /\ (UsedUp(stored) \/ \E q \in Requests : from[q] = stored) =>
        lost \/ \E r \in Requests : Refreshes(r, stored)

\* Behind SignedOutStays: a refresh of a tab that is signed out is marked late.
RefreshesAreLate ==
    \A r \in Calling : call[r].kind = "refresh" /\ out[call[r].tab] => call[r].late

TokenInv ==
    /\ PortalTypeOK
    /\ HeldAreMinted /\ AnswersAreFresh /\ StoredIsCovered
    /\ SignedOutStays /\ RefreshesAreLate

USE SessionsAssumption DEF SessionsAssumption, Sessions, Login, NoToken

LEMMA TokensStart == PortalInit => TokenInv
<1> SUFFICES ASSUME PortalInit PROVE TokenInv
  OBVIOUS
<1>1. PortalTypeOK
  BY TypeInit DEF PortalInit, PortalTypeOK, Tokens
<1>2. Calling = {}
  BY DEF PortalInit, Calling
<1>3. HeldAreMinted /\ AnswersAreFresh /\ StoredIsCovered /\ SignedOutStays /\ RefreshesAreLate
  BY <1>2 DEF PortalInit, Init, HeldAreMinted, AnswersAreFresh, StoredIsCovered, SignedOutStays,
              RefreshesAreLate
<1> QED
  BY <1>1, <1>3 DEF TokenInv

CallSet == [tab : Tabs, kind : {"login", "refresh", "logout"}, token : Tokens,
            at : {"sent", "answered"}, got : Tokens, late : BOOLEAN]

LEMMA CallsAreTyped ==
    ASSUME PortalTypeOK
    PROVE  /\ call \in [Requests -> {NoCall} \cup CallSet]
           /\ \A r \in Requests : call[r] = NoCall \/ call[r] \in CallSet
           /\ \A r \in Requests : call[r].kind # "none" <=> call[r] # NoCall
<1>1. call \in [Requests -> {NoCall} \cup CallSet]
  BY DEF PortalTypeOK, CallSet
<1>2. NoCall.kind = "none" /\ \A c \in CallSet : c.kind # "none"
  BY DEF NoCall, CallSet
<1> QED
  BY <1>1, <1>2

LEMMA RefreshIsCall ==
    ASSUME PortalTypeOK, NEW r \in Requests, NEW s, Refreshes(r, s)
    PROVE  r \in Calling
BY CallsAreTyped DEF Refreshes, Calling

\* The tab's copies, the stored token and the calls move, and the server does
\* not: a call goes on as it was or is a new one that sends a token the portal
\* holds, and a token newly held is one that an ended call was answered with.
LEMMA TokensMove ==
    ASSUME TokenInv, PortalTypeOK', UNCHANGED vars,
           \A q \in Calling' :
               \/ /\ q \in Calling
                  /\ call'[q].token = call[q].token /\ call'[q].got = call[q].got
               \/ /\ call'[q].token \in {NoToken, stored} \cup {memory[u] : u \in Tabs}
                  /\ call'[q].got = NoToken,
           NEW X \in SUBSET ({NoToken, stored} \cup {call[q].got : q \in Calling \ Calling'}),
           stored' \in X,
           \A u \in Tabs : memory'[u] \in X \cup {memory[u]}
    PROVE  HeldAreMinted' /\ AnswersAreFresh'
<1> USE DEF TokenInv
<1>1. 0 \in 0..minted /\ \A q \in Calling : call[q].got \in 0..minted
  BY DEF HeldAreMinted, PortalTypeOK, TypeOK
<1>2. X \subseteq 0..minted
  BY <1>1 DEF HeldAreMinted
<1>3. HeldAreMinted'
  <2>1. \A q \in Calling' : call'[q].token \in 0..minted /\ call'[q].got \in 0..minted
    BY <1>1 DEF HeldAreMinted
  <2> QED
    BY <1>2, <2>1 DEF HeldAreMinted, vars, session
<1>4. ASSUME NEW r \in Calling', call'[r].got # NoToken
      PROVE  /\ r \in Calling /\ call'[r].got = call[r].got
             /\ \A x \in X : x # call[r].got
             /\ \A q \in Calling' :
                   call'[q].token # call[r].got /\ (q # r => call'[q].got # call[r].got)
  <2>1. r \in Calling /\ call'[r].got = call[r].got
    BY <1>4
  <2> QED
    BY <1>4, <2>1 DEF AnswersAreFresh
<1>5. ASSUME NEW r \in Calling', call'[r].got # NoToken
      PROVE  /\ ~UsedUp(call[r].got)'
             /\ \A q \in Requests : from'[q] # call'[r].got
             /\ stored' # call'[r].got
             /\ \A u \in Tabs : memory'[u] # call'[r].got
             /\ \A q \in Calling' :
                   call'[q].token # call'[r].got /\ (q # r => call'[q].got # call'[r].got)
  <2>1. r \in Calling /\ call'[r].got = call[r].got /\ call[r].got # NoToken
    BY <1>4, <1>5
  <2>2. ~UsedUp(call[r].got) /\ \A q \in Requests : from[q] # call[r].got
    BY <2>1 DEF AnswersAreFresh
  <2>3. \A u \in Tabs : memory'[u] # call[r].got
    <3> SUFFICES ASSUME NEW u \in Tabs PROVE memory'[u] # call[r].got
      OBVIOUS
    <3>1. memory'[u] \in X \/ memory'[u] = memory[u]
      OBVIOUS
    <3>2. memory[u] # call[r].got
      BY <2>1 DEF AnswersAreFresh
    <3> QED
      BY <1>4, <1>5, <3>1, <3>2
  <2>4. minted' = minted /\ parent' = parent /\ from' = from
    BY DEF vars, session, request
  <2> QED
    BY <1>4, <1>5, <2>1, <2>2, <2>3, <2>4 DEF UsedUp
<1>6. AnswersAreFresh'
  BY <1>5 DEF AnswersAreFresh
<1> QED
  BY <1>3, <1>6

LEMMA PortalTypeStep ==
    ASSUME PortalTypeOK, TypeOK', PortalNext PROVE PortalTypeOK'
<1> USE DEF PortalTypeOK, Tokens
<1>1. call \in [Requests -> {NoCall} \cup CallSet]
  BY CallsAreTyped
<1>2. call' \in [Requests -> {NoCall} \cup CallSet] => call' \in [Requests -> {NoCall} \cup
          [tab : Tabs, kind : {"login", "refresh", "logout"}, token : Tokens,
           at : {"sent", "answered"}, got : Tokens, late : BOOLEAN]]
  BY DEF CallSet
<1>3. ASSUME NEW t \in Tabs, NEW kind \in {"login", "refresh", "logout"}, NEW s \in Tokens
      PROVE  Call(t, kind, s) \in CallSet
  BY DEF Call, CallSet
<1>4. ASSUME NEW r \in Requests, NEW s \in Tokens, Answer(r, s), call[r] # NoCall
      PROVE  call' \in [Requests -> {NoCall} \cup CallSet]
  <2>1. call[r] \in CallSet
    BY <1>4, CallsAreTyped
  <2>2. [call[r] EXCEPT !.at = "answered", !.got = s] \in CallSet
    BY <2>1 DEF CallSet
  <2>3. call' = [call EXCEPT ![r] = [call[r] EXCEPT !.at = "answered", !.got = s]]
    BY <1>1, <1>4 DEF Answer
  <2> QED
    BY <1>1, <2>2, <2>3
<1>5. ASSUME NEW t \in Tabs PROVE Late(t) \in [Requests -> {NoCall} \cup CallSet]
  BY <1>1, CallsAreTyped DEF Late, RefreshesOf, CallsOf, CallSet
<1>6. ASSUME NEW t \in Tabs, NEW r \in Requests, SignIn(t, r) \/ Unauthorized(t, r)
      PROVE  PortalTypeOK'
  BY <1>1, <1>2, <1>3, <1>6 DEF SignIn, Unauthorized, Post
<1>7. ASSUME NEW t \in Tabs, NEW r \in Requests, Load(t, r) PROVE PortalTypeOK'
  <2>1. Call(t, "refresh", stored) \in CallSet
    BY <1>3
  <2>2. call' \in [Requests -> {NoCall} \cup CallSet]
    BY <1>1, <1>7, <2>1 DEF Load
  <2> QED
    BY <1>2, <1>7, <2>2 DEF Load
<1>8. ASSUME NEW t \in Tabs, NEW r \in Requests, SignOut(t, r) PROVE PortalTypeOK'
  <2>1. Call(t, "logout", memory[t]) \in CallSet
    BY <1>3
  <2>2. call' \in [Requests -> {NoCall} \cup CallSet]
    BY <1>5, <1>8, <2>1 DEF SignOut
  <2> QED
    BY <1>2, <1>8, <2>2 DEF SignOut, SetTokens, Store
<1>9. ASSUME NEW r \in Requests, Deliver(r) PROVE PortalTypeOK'
  <2>1. call[r] \in CallSet
    BY <1>9, CallsAreTyped DEF Deliver
  <2>2. call' \in [Requests -> {NoCall} \cup CallSet]
    BY <1>1, <1>9 DEF Deliver
  <2>3. call[r].got \in Tokens /\ call[r].tab \in Tabs
    BY <2>1 DEF CallSet
  <2>4. memory' \in [Tabs -> Tokens] /\ stored' \in Tokens /\ lost' \in BOOLEAN
    BY <1>9, <2>3 DEF Deliver, Received, SetTokens, Store
  <2>5. out' \in [Tabs -> BOOLEAN]
    BY <1>9, <2>3 DEF Deliver
  <2> QED
    BY <1>2, <2>2, <2>4, <2>5
<1>10. ASSUME NEW r \in Requests, NetworkFails(r) PROVE PortalTypeOK'
  <2>1. call' \in [Requests -> {NoCall} \cup CallSet]
    BY <1>1, <1>10 DEF NetworkFails
  <2> QED
    BY <1>2, <1>10, <2>1 DEF NetworkFails, SetTokens, Store
<1>11. ASSUME NEW r \in Requests, ServeLogin(r) \/ ServeRefresh(r) \/ ServeLogout(r)
       PROVE  PortalTypeOK'
  <2>1. call[r] # NoCall
    BY <1>11, CallsAreTyped DEF ServeLogin, ServeRefresh, ServeLogout, Waits
  <2>2. call' \in [Requests -> {NoCall} \cup CallSet]
    BY <1>1, <1>4, <1>11, <2>1 DEF ServeLogin, ServeRefresh, ServeLogout
  <2> QED
    BY <1>2, <1>11, <2>2 DEF ServeLogin, ServeRefresh, ServeLogout
<1>12. ASSUME NEW r \in Requests, Proceed(r) PROVE PortalTypeOK'
  <2>1. (IF minted' = minted THEN NoToken ELSE minted') \in Tokens
    BY DEF TypeOK
  <2>2. call' \in [Requests -> {NoCall} \cup CallSet]
    BY <1>1, <1>4, <1>12, <2>1 DEF Proceed
  <2> QED
    BY <1>2, <1>12, <2>2 DEF Proceed
<1>13. CASE Elsewhere
  BY <1>13 DEF Elsewhere, portal
<1> QED
  BY <1>6, <1>7, <1>8, <1>9, <1>10, <1>11, <1>12, <1>13 DEF PortalNext

LEMMA PortalInductive == PortalTypeOK /\ [PortalNext]_allVars => PortalTypeOK'
<1>1. PortalTypeOK /\ [PortalNext]_allVars => TypeOK'
  BY PortalStepIsServerStep, TypeStep DEF PortalTypeOK
<1>2. PortalTypeOK /\ UNCHANGED allVars => PortalTypeOK'
  BY <1>1 DEF PortalTypeOK, allVars, portal
<1> QED
  BY <1>1, <1>2, PortalTypeStep

\* The portal and the server keep their types.
THEOREM PortalTypeCorrect == PortalSpec => []PortalTypeOK
<1>1. PortalInit => PortalTypeOK
  BY TokensStart DEF TokenInv
<1> QED
  BY <1>1, PortalInductive, PTL DEF PortalSpec

------------------------------------------------------------------------------
(* TokenInv is kept, action by action. *)

LEMMA PostKeeps ==
    ASSUME TokenInv, PortalTypeOK', NEW t \in Tabs, NEW r \in Requests,
           SignIn(t, r) \/ Unauthorized(t, r)
    PROVE  TokenInv'
<1> USE DEF TokenInv
<1> DEFINE s == call'[r].token
<1>1. /\ call[r] = NoCall /\ UNCHANGED <<vars, stored, memory, lost, out>>
      /\ \/ call' = [call EXCEPT ![r] = Call(t, "login", NoToken)]
         \/ memory[t] # NoToken /\ call' = [call EXCEPT ![r] = Call(t, "refresh", memory[t])]
  BY DEF SignIn, Unauthorized, Post, Free
<1>2. /\ r \notin Calling /\ Calling' \subseteq Calling \cup {r}
      /\ \A q \in Requests \ {r} : call'[q] = call[q]
      /\ call'[r].got = NoToken /\ call'[r].tab = t
      /\ s = NoToken \/ s = memory[t]
      /\ call'[r].kind = "refresh" => memory[t] # NoToken
  BY <1>1, CallsAreTyped DEF Calling, Call
<1>3. HeldAreMinted' /\ AnswersAreFresh'
  <2> DEFINE X == {stored}
  <2> HIDE DEF X
  <2>1. \A q \in Calling' :
           \/ /\ q \in Calling
              /\ call'[q].token = call[q].token /\ call'[q].got = call[q].got
           \/ /\ call'[q].token \in {NoToken, stored} \cup {memory[u] : u \in Tabs}
              /\ call'[q].got = NoToken
    BY <1>2 DEF Calling
  <2> QED
    BY <1>1, <2>1, TokensMove DEF X
<1>4. StoredIsCovered'
  <2>1. \A q \in Requests : Refreshes(q, stored) => Refreshes(q, stored)'
    BY <1>1, <1>2, RefreshIsCall DEF Refreshes
  <2> QED
    BY <1>1, <2>1 DEF StoredIsCovered, UsedUp, vars, session, request
<1>5. SignedOutStays' /\ RefreshesAreLate'
  BY <1>1, <1>2 DEF SignedOutStays, RefreshesAreLate, Calling
<1> QED
  BY <1>3, <1>4, <1>5

LEMMA LoadKeeps ==
    ASSUME TokenInv, PortalTypeOK', NEW t \in Tabs, NEW r \in Requests, Load(t, r)
    PROVE  TokenInv'
<1> USE DEF TokenInv
<1>1. /\ UNCHANGED <<vars, stored>>
      /\ memory' = [memory EXCEPT ![t] = stored] /\ out' = [out EXCEPT ![t] = FALSE]
      /\ lost' = (lost \/ \E q \in CallsOf(t) : Refreshes(q, stored))
  BY DEF Load
<1>2. ASSUME NEW q \in Calling'
      PROVE  \/ q \in Calling /\ q \notin CallsOf(t) /\ call'[q] = call[q]
             \/ call'[q] = Call(t, "refresh", stored)
  BY <1>2, CallsAreTyped DEF Load, Calling, CallsOf, Free
<1>3. HeldAreMinted' /\ AnswersAreFresh'
  <2> DEFINE X == {stored}
  <2> HIDE DEF X
  <2>1. \A q \in Calling' :
           \/ /\ q \in Calling
              /\ call'[q].token = call[q].token /\ call'[q].got = call[q].got
           \/ /\ call'[q].token \in {NoToken, stored} \cup {memory[u] : u \in Tabs}
              /\ call'[q].got = NoToken
    BY <1>2 DEF Call
  <2>2. stored' \in X /\ \A u \in Tabs : memory'[u] \in X \cup {memory[u]}
    BY <1>1 DEF X, PortalTypeOK
  <2>3. X \in SUBSET ({NoToken, stored} \cup {call[q].got : q \in Calling \ Calling'})
    BY DEF X
  <2> QED
    BY <1>1, <2>1, <2>2, <2>3, TokensMove
<1>4. StoredIsCovered'
  <2>1. \A q \in Requests : Refreshes(q, stored) => Refreshes(q, stored)' \/ lost'
    <3> SUFFICES ASSUME NEW q \in Requests, Refreshes(q, stored), q \notin CallsOf(t)
                 PROVE  Refreshes(q, stored)'
      BY <1>1
    <3>1. call'[q] = call[q] \/ call'[q] = Call(t, "refresh", stored)
      BY CallsAreTyped DEF Load
    <3> QED
      BY <1>1, <3>1 DEF Refreshes, Call
  <2> QED
    BY <1>1, <2>1 DEF StoredIsCovered, UsedUp, vars, session, request
<1>5. SignedOutStays'
  BY <1>1 DEF SignedOutStays, PortalTypeOK
<1>6. RefreshesAreLate'
  <2> SUFFICES ASSUME NEW q \in Calling', call'[q].kind = "refresh", out'[call'[q].tab]
               PROVE  call'[q].late
    BY DEF RefreshesAreLate
  <2>1. call'[q] # Call(t, "refresh", stored)
    BY <1>1 DEF Call, PortalTypeOK
  <2>2. q \in Calling /\ call'[q] = call[q] /\ call[q] \in CallSet
    BY <1>2, <2>1, CallsAreTyped DEF Calling
  <2>3. out[call[q].tab]
    BY <1>1, <2>2 DEF PortalTypeOK, CallSet
  <2> QED
    BY <2>2, <2>3 DEF RefreshesAreLate
<1> QED
  BY <1>3, <1>4, <1>5, <1>6

LEMMA SignOutKeeps ==
    ASSUME TokenInv, PortalTypeOK', NEW t \in Tabs, NEW r \in Requests, SignOut(t, r)
    PROVE  TokenInv'
<1> USE DEF TokenInv
<1>1. /\ UNCHANGED vars /\ call[r] = NoCall
      /\ memory' = [memory EXCEPT ![t] = NoToken] /\ stored' = NoToken
      /\ out' = [out EXCEPT ![t] = TRUE]
      /\ call' = [Late(t) EXCEPT ![r] = Call(t, "logout", memory[t])]
  BY DEF SignOut, Free, SetTokens, Store
<1>2. call'[r] = Call(t, "logout", memory[t]) /\ r \notin Calling
  BY <1>1 DEF Late, Calling
<1>3. ASSUME NEW q \in Calling', q # r
      PROVE  /\ q \in Calling /\ call[q] \in CallSet
             /\ call'[q] = IF q \in RefreshesOf(t) THEN [call[q] EXCEPT !.late = TRUE] ELSE call[q]
  <2>1. q \in Requests /\ call'[q] = Late(t)[q]
    BY <1>1, <1>3 DEF Late, Calling
  <2>2. q \in RefreshesOf(t) => call[q] \in CallSet
    BY CallsAreTyped DEF RefreshesOf, CallsOf
  <2>3. call[q] # NoCall
    BY <1>3, <2>1, CallsAreTyped DEF Late, Calling, RefreshesOf, CallsOf
  <2> QED
    BY <2>1, <2>3, CallsAreTyped DEF Late, Calling
<1>4. ASSUME NEW q \in Calling', q # r
      PROVE  /\ call'[q].token = call[q].token /\ call'[q].got = call[q].got
             /\ call'[q].kind = call[q].kind /\ call'[q].tab = call[q].tab
             /\ call[q].late \/ (call[q].tab = t /\ call[q].kind = "refresh") => call'[q].late
  <2>1. q \in Requests /\ call[q] \in CallSet /\ call[q].kind # "none"
    BY <1>3, <1>4, CallsAreTyped DEF Calling, CallSet
  <2>2. CASE q \in RefreshesOf(t)
    <3>1. call'[q] = [call[q] EXCEPT !.late = TRUE]
      BY <1>3, <1>4, <2>2
    <3>2. /\ call'[q].token = call[q].token /\ call'[q].got = call[q].got
          /\ call'[q].kind = call[q].kind /\ call'[q].tab = call[q].tab
      BY <2>1, <3>1 DEF CallSet
    <3>3. call'[q].late = TRUE
      BY <2>1, <3>1 DEF CallSet
    <3> QED
      BY <3>2, <3>3
  <2>3. CASE q \notin RefreshesOf(t)
    <3>1. call'[q] = call[q]
      BY <1>3, <1>4, <2>3
    <3>2. ~(call[q].tab = t /\ call[q].kind = "refresh")
      BY <2>1, <2>3 DEF RefreshesOf, CallsOf
    <3> QED
      BY <3>1, <3>2
  <2> QED
    BY <2>2, <2>3
<1>5. HeldAreMinted' /\ AnswersAreFresh'
  <2> DEFINE X == {NoToken}
  <2> HIDE DEF X
  <2>1. \A q \in Calling' :
           \/ /\ q \in Calling
              /\ call'[q].token = call[q].token /\ call'[q].got = call[q].got
           \/ /\ call'[q].token \in {NoToken, stored} \cup {memory[u] : u \in Tabs}
              /\ call'[q].got = NoToken
    <3>1. call'[r].token = memory[t] /\ call'[r].got = NoToken
      BY <1>2 DEF Call
    <3>2. memory[t] \in {memory[u] : u \in Tabs}
      OBVIOUS
    <3>3. \A q \in Calling' : q # r =>
             q \in Calling /\ call'[q].token = call[q].token /\ call'[q].got = call[q].got
      BY <1>3, <1>4
    <3> QED
      BY <3>1, <3>2, <3>3
  <2>2. stored' \in X /\ \A u \in Tabs : memory'[u] \in X \cup {memory[u]}
    BY <1>1 DEF X, PortalTypeOK
  <2>3. X \in SUBSET ({NoToken, stored} \cup {call[q].got : q \in Calling \ Calling'})
    BY DEF X
  <2> QED
    BY <1>1, <2>1, <2>2, <2>3, TokensMove
<1>6. StoredIsCovered' /\ SignedOutStays'
  BY <1>1 DEF StoredIsCovered, SignedOutStays, PortalTypeOK
<1>7. RefreshesAreLate'
  <2> SUFFICES ASSUME NEW q \in Calling', call'[q].kind = "refresh", out'[call'[q].tab]
               PROVE  call'[q].late
    BY DEF RefreshesAreLate
  <2>1. q # r
    BY <1>2 DEF Call
  <2>2. q \in Calling /\ call[q].kind = "refresh" /\ (out[call[q].tab] \/ call[q].tab = t)
    BY <1>1, <1>3, <1>4, <2>1 DEF PortalTypeOK, CallSet
  <2> QED
    BY <1>4, <2>1, <2>2 DEF RefreshesAreLate
<1> QED
  BY <1>5, <1>6, <1>7

\* Where a call ends: the answer has come, or it never will.
LEMMA EndKeeps ==
    ASSUME TokenInv, PortalTypeOK', NEW r \in Requests, Deliver(r) \/ NetworkFails(r)
    PROVE  TokenInv'
<1> USE DEF TokenInv
<1> DEFINE t == call[r].tab
           s == call[r].got
<1>1. /\ UNCHANGED vars /\ call[r] \in CallSet /\ call' = [call EXCEPT ![r] = NoCall]
      /\ r \in Calling /\ t \in Tabs
  BY CallsAreTyped DEF Deliver, NetworkFails, CallSet, Calling
<1>2. \/ UNCHANGED <<memory, stored, lost>>
      \/ memory' = [memory EXCEPT ![t] = NoToken] /\ stored' = NoToken
      \/ memory' = [memory EXCEPT ![t] = s] /\ stored' = s
  BY DEF Deliver, NetworkFails, Received, SetTokens, Store
<1>3. Calling' = Calling \ {r} /\ \A q \in Calling' : call'[q] = call[q]
  BY <1>1, CallsAreTyped DEF Calling
<1>4. HeldAreMinted' /\ AnswersAreFresh'
  <2> DEFINE X == {NoToken, stored, s}
  <2> HIDE DEF X
  <2>1. \A q \in Calling' :
           \/ /\ q \in Calling
              /\ call'[q].token = call[q].token /\ call'[q].got = call[q].got
           \/ /\ call'[q].token \in {NoToken, stored} \cup {memory[u] : u \in Tabs}
              /\ call'[q].got = NoToken
    BY <1>3
  <2>2. stored' \in X /\ \A u \in Tabs : memory'[u] \in X \cup {memory[u]}
    BY <1>2 DEF X, PortalTypeOK
  <2>3. X \in SUBSET ({NoToken, stored} \cup {call[q].got : q \in Calling \ Calling'})
    BY <1>1, <1>3 DEF X
  <2> QED
    BY <1>1, <2>1, <2>2, <2>3, TokensMove
<1>5. StoredIsCovered'
  <2>1. CASE stored' = stored /\ lost' = lost /\ ~Refreshes(r, stored)
    <3>1. \A q \in Requests : Refreshes(q, stored) => Refreshes(q, stored)'
      BY <1>1, <2>1 DEF Refreshes, PortalTypeOK
    <3> QED
      BY <1>1, <2>1, <3>1 DEF StoredIsCovered, UsedUp, vars, session, request
  <2>2. CASE stored' = NoToken
    BY <2>2 DEF StoredIsCovered
  <2>3. CASE s # NoToken /\ stored' = s
    BY <1>1, <2>3 DEF StoredIsCovered, AnswersAreFresh, UsedUp, vars, session, request
  <2>4. (UNCHANGED <<stored, lost>> /\ call[r].kind = "login") \/ stored' \in {NoToken, s}
    BY DEF Deliver, NetworkFails, Received, SetTokens, Store
  <2> QED
    BY <2>1, <2>2, <2>3, <2>4 DEF Refreshes
<1>6. SignedOutStays'
  <2> SUFFICES ASSUME NEW u \in Tabs, out'[u] PROVE memory'[u] = NoToken
    BY DEF SignedOutStays
  <2>1. out[u] /\ memory[u] = NoToken
    BY <1>1 DEF Deliver, NetworkFails, PortalTypeOK, SignedOutStays
  <2>2. memory'[t] # memory[t] /\ memory'[t] # NoToken => ~out'[t]
    BY <1>1, <2>1 DEF Deliver, NetworkFails, Received, SetTokens, PortalTypeOK,
       SignedOutStays, RefreshesAreLate
  <2>3. u # t => memory'[u] = memory[u]
    BY <1>2 DEF PortalTypeOK
  <2> QED
    BY <2>1, <2>2, <2>3
<1>7. RefreshesAreLate'
  <2>1. \A u \in Tabs : out'[u] => out[u]
    BY <1>1 DEF Deliver, NetworkFails, PortalTypeOK
  <2>2. \A q \in Calling : call[q].tab \in Tabs
    BY CallsAreTyped DEF Calling, CallSet
  <2> QED
    BY <1>3, <2>1, <2>2 DEF RefreshesAreLate
<1> QED
  BY <1>4, <1>5, <1>6, <1>7

LEMMA Answered ==
    ASSUME PortalTypeOK, NEW r \in Calling, NEW s, Answer(r, s)
    PROVE  /\ Calling' = Calling
           /\ \A q \in Calling :
                 /\ call'[q].token = call[q].token /\ call'[q].kind = call[q].kind
                 /\ call'[q].tab = call[q].tab /\ call'[q].late = call[q].late
                 /\ call'[q].got = IF q = r THEN s ELSE call[q].got
<1>1. /\ call[r] \in CallSet
      /\ call' = [call EXCEPT ![r] = [call[r] EXCEPT !.at = "answered", !.got = s]]
  BY CallsAreTyped DEF Answer, Calling
<1>2. /\ call'[r] = [call[r] EXCEPT !.at = "answered", !.got = s]
      /\ \A q \in Requests \ {r} : call'[q] = call[q]
  BY <1>1, CallsAreTyped DEF Calling
<1>3. /\ call'[r].token = call[r].token /\ call'[r].kind = call[r].kind
      /\ call'[r].tab = call[r].tab /\ call'[r].got = s
      /\ call'[r].late = call[r].late
  <2> DEFINE d == [call[r] EXCEPT !.at = "answered"]
  <2>1. d \in CallSet /\ d.token = call[r].token /\ d.kind = call[r].kind /\ d.tab = call[r].tab
    BY <1>1 DEF CallSet
  <2>2. d.late = call[r].late
    BY <1>1, Zenon DEF CallSet
  <2>3. call'[r] = [d EXCEPT !.got = s]
    BY <1>2
  <2> HIDE DEF d
  <2>4. /\ call'[r].token = d.token /\ call'[r].kind = d.kind
        /\ call'[r].tab = d.tab /\ call'[r].got = s
    BY <2>1, <2>3 DEF CallSet
  <2>5. call'[r].late = d.late
    BY <2>1, <2>3 DEF CallSet
  <2> QED
    BY <2>1, <2>2, <2>4, <2>5
<1>5. call'[r] # NoCall
  <2>1. call[r].kind # NoCall.kind
    BY <1>1 DEF CallSet, NoCall
  <2> QED
    BY <1>3, <2>1
<1>6. Calling' = Calling
  BY <1>2, <1>5 DEF Calling
<1>7. ASSUME NEW q \in Calling, q # r
      PROVE  call'[q] = call[q]
  BY <1>2, <1>7 DEF Calling
<1> QED
  BY <1>3, <1>6, <1>7

\* The server goes on without a new session: a call is answered with none, and
\* a refresh begins only with a token that a call has sent, or that the portal
\* does not hold.
LEMMA ServerKeeps ==
    ASSUME TokenInv, PortalTypeOK', UNCHANGED <<minted, parent, stored, memory, lost, out>>,
           call' = call \/ \E r \in Calling : Answer(r, NoToken),
           \A q \in Requests :
               \/ from'[q] \in {from[q], Login}
               \/ from'[q] \notin Held
               \/ Refreshes(q, from'[q])
    PROVE  TokenInv'
<1> USE DEF TokenInv
<1>1. Calling' = Calling /\ \A q \in Calling :
         /\ call'[q].token = call[q].token /\ call'[q].kind = call[q].kind
         /\ call'[q].tab = call[q].tab /\ call'[q].late = call[q].late
         /\ call'[q].got \in {NoToken, call[q].got}
  <2>1. CASE call' = call
    BY <2>1 DEF Calling
  <2> QED
    BY <2>1, Answered DEF TokenInv
<1>2. HeldAreMinted'
  <2>1. 0 \in 0..minted
    BY DEF PortalTypeOK, TypeOK
  <2> QED
    BY <1>1, <2>1 DEF HeldAreMinted
<1>3. AnswersAreFresh'
  <2> SUFFICES ASSUME NEW r \in Calling', call'[r].got # NoToken
               PROVE  /\ \A q \in Requests : from'[q] # call[r].got
                      /\ r \in Calling /\ call'[r].got = call[r].got
    BY <1>1 DEF AnswersAreFresh, UsedUp
  <2>1. r \in Calling /\ call'[r].got = call[r].got /\ call[r].got # NoToken
    BY <1>1
  <2>2. call[r].got \in Held
    BY <2>1 DEF Held, Calling
  <2>3. \A q \in Requests : from[q] # call[r].got /\ ~Refreshes(q, call[r].got)
    BY <2>1, RefreshIsCall DEF AnswersAreFresh, Refreshes
  <2> QED
    BY <2>1, <2>2, <2>3
<1>4. StoredIsCovered'
  <2>1. \A q \in Requests : Refreshes(q, stored) => Refreshes(q, stored)'
    BY <1>1, RefreshIsCall DEF Refreshes
  <2>2. stored \in Held
    BY DEF Held
  <2>3. \A q \in Requests : from'[q] = stored /\ stored # NoToken =>
           from[q] = stored \/ Refreshes(q, stored)
    BY <2>2
  <2> QED
    BY <2>1, <2>3 DEF StoredIsCovered, UsedUp
<1>5. SignedOutStays' /\ RefreshesAreLate'
  BY <1>1 DEF SignedOutStays, RefreshesAreLate
<1> QED
  BY <1>2, <1>3, <1>4, <1>5

LEMMA ServeKeeps ==
    ASSUME TokenInv, PortalTypeOK', NEW r \in Requests,
           ServeLogin(r) \/ ServeRefresh(r) \/ ServeLogout(r)
    PROVE  TokenInv'
<1>1. r \in Calling
  BY CallsAreTyped DEF ServeLogin, ServeRefresh, ServeLogout, Waits, TokenInv, Calling
<1>2. UNCHANGED <<minted, parent, stored, memory, lost, out>>
  BY DEF ServeLogin, ServeRefresh, ServeLogout, LoginCheck, FindSession, SessionEnds,
         vars, session
<1>3. call' = call \/ Answer(r, NoToken)
  BY DEF ServeLogin, ServeRefresh, ServeLogout
<1>4. from \in [Requests -> {Login} \cup 1..minted]
  BY DEF TokenInv, PortalTypeOK, TypeOK
<1>5. \/ from' = from
      \/ from' = [from EXCEPT ![r] = Login]
      \/ from' = [from EXCEPT ![r] = call[r].token] /\ Refreshes(r, call[r].token)
  BY DEF ServeLogin, ServeRefresh, ServeLogout, LoginCheck, FindSession, Begin, SessionEnds,
         vars, request, Refreshes, Waits
<1>6. \A q \in Requests : from'[q] \in {from[q], Login} \/ Refreshes(q, from'[q])
  BY <1>4, <1>5
<1> QED
  BY <1>1, <1>2, <1>3, <1>6, ServerKeeps

LEMMA ElsewhereKeeps == ASSUME TokenInv, PortalTypeOK', Elsewhere PROVE TokenInv'
<1>1. from \in [Requests -> {Login} \cup 1..minted]
  BY DEF TokenInv, PortalTypeOK, TypeOK
<1>2. UNCHANGED <<stored, memory, lost, out, call>>
  BY DEF Elsewhere, portal
<1>3. UNCHANGED <<minted, parent>>
  BY DEF Elsewhere, LoginCheck, FindSession, SessionEnds, SetStatus,
         SuspendAccount, RevokeAll, ActivateAccount, session
<1>4. ASSUME NEW q \in Requests
      PROVE  from'[q] \in {from[q], Login} \/ from'[q] \notin Held
  <2>1. ASSUME NEW p \in Requests, LoginCheck(p) PROVE from'[q] \in {from[q], Login}
    BY <1>1, <2>1 DEF LoginCheck, Begin
  <2>2. ASSUME NEW p \in Requests, NEW s \in Sessions \ Held, FindSession(p, s)
        PROVE  from'[q] \in {from[q], s}
    BY <1>1, <2>2 DEF FindSession, Begin
  <2>3. ASSUME NEW s \in Sessions, SessionEnds(s) PROVE from' = from
    BY <2>3 DEF SessionEnds, request
  <2>4. ASSUME NEW a \in Admins, SetStatus(a) PROVE from' = from
    BY <2>4 DEF SetStatus, SuspendAccount, RevokeAll, ActivateAccount, request
  <2> QED
    BY <2>1, <2>2, <2>3, <2>4 DEF Elsewhere
<1> QED
  BY <1>2, <1>3, <1>4, ServerKeeps

\* A session is minted, and handed to the call that the request answers.
LEMMA MintKeeps ==
    ASSUME TokenInv, PortalTypeOK', NEW r \in Requests, MintSession(r),
           \A c \in 1..minted : parent[c] \in {Login} \cup 1..minted,
           UNCHANGED <<stored, memory, lost, out>>,
           call' = call \/ (r \in Calling /\ Answer(r, minted'))
    PROVE  TokenInv'
<1> USE DEF TokenInv
<1> DEFINE n == minted + 1
<1>1. /\ minted \in Nat /\ n \in Sessions /\ minted' = n
      /\ parent' = [parent EXCEPT ![n] = from[r]] /\ parent \in [Sessions -> {Login} \cup Sessions]
      /\ from' = [from EXCEPT ![r] = Login] /\ from \in [Requests -> {Login} \cup 1..minted]
  BY DEF MintSession, End, PortalTypeOK, TypeOK
<1>2. /\ Calling' = Calling
      /\ \A q \in Calling :
            /\ call'[q].token = call[q].token /\ call'[q].kind = call[q].kind
            /\ call'[q].tab = call[q].tab /\ call'[q].late = call[q].late
            /\ call'[q].got = call[q].got \/ (q = r /\ call'[q].got = n)
  <2>1. CASE call' = call
    BY <2>1 DEF Calling
  <2>2. CASE r \in Calling /\ Answer(r, minted')
    BY <1>1, <2>2, Answered
  <2> QED
    BY <2>1, <2>2
<1>3. HeldAreMinted'
  <2> HIDE DEF TokenInv
  <2>1. HeldAreMinted
    BY DEF TokenInv
  <2>2. \A s \in 0..minted : s \in 0..minted'
    BY <1>1
  <2>3. n \in 0..minted'
    BY <1>1
  <2> HIDE DEF n
  <2>4. stored' \in 0..minted' /\ \A t \in Tabs : memory'[t] \in 0..minted'
    BY <2>1, <2>2 DEF HeldAreMinted
  <2>5. \A q \in Calling : call'[q].token \in 0..minted' /\ call'[q].got \in 0..minted'
    BY <1>2, <2>1, <2>2, <2>3 DEF HeldAreMinted
  <2> QED
    BY <1>2, <2>4, <2>5 DEF HeldAreMinted
<1>4. \A s : UsedUp(s)' => UsedUp(s) \/ s = from[r]
  <2> SUFFICES ASSUME NEW s, NEW c \in 1..n, parent'[c] = s PROVE UsedUp(s) \/ s = from[r]
    BY <1>1 DEF UsedUp
  <2>1. CASE c = n
    BY <1>1, <2>1
  <2>2. CASE c # n
    <3>1. c \in 1..minted /\ parent'[c] = parent[c]
      BY <1>1, <2>2
    <3> QED
      BY <3>1 DEF UsedUp
  <2> QED
    BY <2>1, <2>2
<1>5. \A q \in Requests : from'[q] \in {from[q], Login} /\ from[q] \in {Login} \cup 1..minted
  BY <1>1
<1>6. AnswersAreFresh'
  <2> SUFFICES ASSUME NEW q \in Calling, call'[q].got # NoToken
               PROVE  /\ ~\E c \in 1..minted' : parent'[c] = call'[q].got
                      /\ \A p \in Requests : from'[p] # call'[q].got
                      /\ stored # call'[q].got
                      /\ \A t \in Tabs : memory[t] # call'[q].got
                      /\ \A p \in Calling :
                            call'[p].token # call'[q].got /\ (p # q => call'[p].got # call'[q].got)
    BY <1>1, <1>2 DEF AnswersAreFresh, UsedUp
  <2>1. CASE call'[q].got = call[q].got
    <3> DEFINE g == call[q].got
    <3>1. /\ g # NoToken /\ g # n /\ ~UsedUp(g) /\ \A p \in Requests : from[p] # g
          /\ stored # g /\ \A t \in Tabs : memory[t] # g
          /\ \A p \in Calling : call[p].token # g /\ (p # q => call[p].got # g)
      BY <1>1, <2>1 DEF AnswersAreFresh, HeldAreMinted
    <3>2. \A s : (\E c \in 1..minted' : parent'[c] = s) => UsedUp(s) \/ s = from[r]
      BY <1>4 DEF UsedUp
    <3>3. ~\E c \in 1..minted' : parent'[c] = g
      BY <3>1, <3>2
    <3>4. \A p \in Requests : from'[p] # g
      BY <1>5, <3>1
    <3>5. \A p \in Calling : call'[p].token # g /\ (p # q => call'[p].got # g)
      BY <1>2, <3>1
    <3> QED
      BY <2>1, <3>1, <3>3, <3>4, <3>5
  <2>2. CASE q = r /\ call'[q].got = n
    <3>1. \A s \in 0..minted : s # n
      BY <1>1
    <3>2. ~UsedUp(n)
      BY <1>1 DEF UsedUp
    <3> QED
      BY <1>1, <1>2, <1>4, <1>5, <2>2, <3>1, <3>2 DEF HeldAreMinted
  <2> QED
    BY <1>2, <2>1, <2>2
<1>7. StoredIsCovered'
  <2>1. \A q \in Requests : Refreshes(q, stored) => Refreshes(q, stored)'
    BY <1>2, RefreshIsCall DEF Refreshes
  <2> QED
    BY <1>4, <1>5, <2>1 DEF StoredIsCovered
<1>8. SignedOutStays' /\ RefreshesAreLate'
  BY <1>2 DEF SignedOutStays, RefreshesAreLate
<1> QED
  BY <1>3, <1>6, <1>7, <1>8

LEMMA ProceedKeeps ==
    ASSUME TokenInv, PortalTypeOK', NEW r \in Requests, Proceed(r),
           \A c \in 1..minted : parent[c] \in {Login} \cup 1..minted
    PROVE  TokenInv'
<1>1. UNCHANGED <<stored, memory, lost, out>>
  BY DEF Proceed
<1>2. /\ minted \in Nat
      /\ call' = call \/ (r \in Calling /\ Answer(r, IF minted' = minted THEN NoToken ELSE minted'))
  BY DEF Proceed, Calling, TokenInv, PortalTypeOK, TypeOK
<1>3. CASE MintSession(r)
  <2>1. minted' # minted
    BY <1>2, <1>3 DEF MintSession
  <2> QED
    BY <1>1, <1>2, <1>3, <2>1, MintKeeps
<1>4. CASE CheckUser(r) \/ RevokeOld(r) \/ RequestDies(r)
  <2>1. UNCHANGED <<minted, parent>> /\ from' \in {from, [from EXCEPT ![r] = Login]}
    BY <1>4 DEF CheckUser, RevokeOld, RequestDies, Goto, End, session
  <2>2. from \in [Requests -> {Login} \cup 1..minted]
    BY DEF TokenInv, PortalTypeOK, TypeOK
  <2>3. \A q \in Requests : from'[q] \in {from[q], Login}
    BY <2>1, <2>2
  <2> QED
    BY <1>1, <1>2, <2>1, <2>3, ServerKeeps
<1> QED
  BY <1>3, <1>4 DEF Proceed

LEMMA TokenStep == TokenInv /\ IInv /\ [PortalNext]_allVars => TokenInv'
<1> SUFFICES ASSUME TokenInv, IInv, [PortalNext]_allVars PROVE TokenInv'
  OBVIOUS
<1>1. PortalTypeOK'
  BY PortalInductive DEF TokenInv
<1>2. CASE UNCHANGED allVars
  BY <1>1, <1>2 DEF allVars, portal, vars, session, request, TokenInv, HeldAreMinted,
     AnswersAreFresh, StoredIsCovered, SignedOutStays, RefreshesAreLate, UsedUp, Refreshes, Calling
<1>3. ASSUME NEW r \in Requests, Proceed(r) PROVE TokenInv'
  BY <1>1, <1>3, ProceedKeeps DEF IInv, LiveIsUnrotated
<1> QED
  BY <1>1, <1>2, <1>3, PostKeeps, LoadKeeps, SignOutKeeps, EndKeeps, ServeKeeps, ElsewhereKeeps
     DEF PortalNext

\* Behind the two that follow: what the tabs hold, what is under way and what the
\* server has minted fit together in every reachable state.
THEOREM TokensAreInvariant == PortalSpec => []TokenInv
<1>1. PortalInit => TokenInv
  BY TokensStart
<1> QED
  BY <1>1, TokenStep, PortalImplementsSessions, Invariance, PTL DEF PortalSpec

\* In no order of the tabs' refreshes and their answers is a used-up token left
\* in the storage, but for one whose answer was lost with its tab
\* (refreshSession, setSessionTokens).
THEOREM StoredTokenIsUsable == PortalSpec => []StoredIsUsable
<1>1. TokenInv => StoredIsUsable
  BY DEF TokenInv, StoredIsCovered, StoredIsUsable
<1> QED
  BY <1>1, TokensAreInvariant, PTL

\* A tab where the user signed out holds no token until the user, or a call that
\* was under way, brings one (logoutSession).
THEOREM SignOutLasts == PortalSpec => []SignedOutStays
<1>1. TokenInv => SignedOutStays
  BY DEF TokenInv
<1> QED
  BY <1>1, TokensAreInvariant, PTL
==============================================================================
