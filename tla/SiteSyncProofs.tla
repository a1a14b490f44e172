--------------------------- MODULE SiteSyncProofs ---------------------------
(***************************************************************************)
(* What a successful sync of a store means, for any store, page size,      *)
(* number of syncs and webhooks, and however the list grows meanwhile.     *)
(*                                                                         *)
(* The invariant follows an item the walk set out to copy: it is copied,   *)
(* or in the page the sync holds, or still ahead in the list - the list    *)
(* grows at its front only, so an item moves away from the walk and never  *)
(* past it.  And the page held is not taken for the last one, because the  *)
(* total that was reported is at least the place of the item.              *)
(***************************************************************************)
EXTENDS SiteSync, SequenceTheorems, TLAPS

------------------------------------------------------------------------------
(* Numbers and sequences. *)

LEMMA Products ==
    ASSUME NEW a \in Nat, NEW b \in Nat \ {0}
    PROVE  /\ a * (b - 1) \in Nat /\ a * b \in Nat
           /\ a * b = a * (b - 1) + a /\ (b - 1) * a = a * (b - 1) /\ b * a = a * b
           /\ (b + 1) - 1 = b /\ a * (1 - 1) = 0
  OBVIOUS

LEMMA Constants ==
    /\ PageSize \in Nat \ {0} /\ Initially \in Nat /\ MaxEdits \in Nat \ {0}
    /\ 1 \in Items /\ Items \subseteq Nat \ {0} /\ Absent = -1
    /\ Versions \subseteq Int /\ Absent \in Versions
    /\ \A v \in Versions : v >= Absent
    /\ 0 .. MaxEdits \subseteq Versions
  BY SiteSyncAssumption DEF Items, Absent, Versions

LEMMA VersionIs ==
    /\ \A v \in 0 .. MaxEdits : v \in Nat /\ v \in Versions /\ v # Absent /\ v >= Absent
    /\ \A v \in Versions : v \in Int /\ v >= Absent
  BY SiteSyncAssumption DEF Versions, Absent

LEMMA EntryFields ==
    ASSUME NEW x \in Entry
    PROVE  x.item \in Items /\ x.ver \in Versions /\ x.ver \in Int
  BY Constants DEF Entry

\* The part of a sequence between two of its places.
LEMMA PartOf ==
    ASSUME NEW S, NEW s \in Seq(S), NEW m \in Nat \ {0}, NEW n \in Nat, n <= Len(s)
    PROVE  LET t == SubSeq(s, m, n)
           IN  /\ t \in Seq(S) /\ Len(t) = IF m <= n THEN n - m + 1 ELSE 0
               /\ \A i \in DOMAIN t : m + i - 1 \in DOMAIN s /\ t[i] = s[m + i - 1]
               /\ \A i \in m .. n : i - m + 1 \in DOMAIN t /\ t[i - m + 1] = s[i]
<1> DEFINE t == SubSeq(s, m, n)
<1>1. Len(s) \in Nat /\ DOMAIN s = 1 .. Len(s)
  OBVIOUS
<1>2. \A i \in m .. n : s[i] \in S
  BY <1>1
<1>3. /\ t \in Seq(S) /\ Len(t) = IF m <= n THEN n - m + 1 ELSE 0
      /\ \A i \in 1 .. (n - m + 1) : t[i] = s[m + i - 1]
  BY <1>2, SubSeqProperties
<1>4. DOMAIN t = 1 .. (n - m + 1)
  BY <1>3
<1> HIDE DEF t
<1>5. \A i \in DOMAIN t : m + i - 1 \in DOMAIN s /\ t[i] = s[m + i - 1]
  BY <1>1, <1>3, <1>4
<1>6. \A i \in m .. n : i - m + 1 \in DOMAIN t /\ t[i - m + 1] = s[i]
  <2> SUFFICES ASSUME NEW i \in m .. n
               PROVE  i - m + 1 \in DOMAIN t /\ t[i - m + 1] = s[i]
    OBVIOUS
  <2>1. i - m + 1 \in 1 .. (n - m + 1) /\ m + (i - m + 1) - 1 = i
    OBVIOUS
  <2>2. QED
    BY <1>3, <1>4, <2>1
<1>7. QED
  BY <1>3, <1>5, <1>6 DEF t

\* A sequence without one of its places.
LEMMA WithoutPlace ==
    ASSUME NEW S, NEW s \in Seq(S), NEW n \in DOMAIN s
    PROVE  RemoveAt(s, n) \in Seq(S) /\ Len(RemoveAt(s, n)) = Len(s) - 1
<1>1. n \in Nat /\ 1 <= n /\ n <= Len(s) /\ Len(s) \in Nat
  OBVIOUS
<1> DEFINE a == n - 1
           b == n + 1
           l == Len(s)
<1>2. a \in Nat /\ a <= Len(s) /\ b \in Nat \ {0} /\ l \in Nat /\ l <= Len(s) /\ 1 \in Nat \ {0}
  BY <1>1
<1>3. /\ a = (IF 1 <= a THEN a - 1 + 1 ELSE 0)
      /\ l - 1 = a + (IF b <= l THEN l - b + 1 ELSE 0)
  BY <1>1
<1> HIDE DEF a, b, l
<1> DEFINE front == SubSeq(s, 1, a)
           rest == SubSeq(s, b, l)
<1>4. front \in Seq(S) /\ Len(front) = (IF 1 <= a THEN a - 1 + 1 ELSE 0)
  BY <1>2, PartOf
<1>5. rest \in Seq(S) /\ Len(rest) = (IF b <= l THEN l - b + 1 ELSE 0)
  BY <1>2, PartOf
<1>6. RemoveAt(s, n) = front \o rest
  BY DEF RemoveAt, a, b, l
<1> HIDE DEF front, rest
<1>7. front \o rest \in Seq(S) /\ Len(front \o rest) = Len(front) + Len(rest)
  BY <1>4, <1>5
<1>8. QED
  BY <1>3, <1>4, <1>5, <1>6, <1>7 DEF l

\* The first entries of a page.
LEMMA FirstEntries ==
    ASSUME NEW s \in Seq(Entry), NEW n \in 0 .. Len(s)
    PROVE  SubSeq(s, 1, n) \in Seq(Entry) /\ ToSet(SubSeq(s, 1, n)) \subseteq ToSet(s)
<1> DEFINE t == SubSeq(s, 1, n)
<1>1. n \in Nat /\ n <= Len(s)
  OBVIOUS
<1>2. t \in Seq(Entry) /\ \A i \in DOMAIN t : 1 + i - 1 \in DOMAIN s /\ t[i] = s[1 + i - 1]
  BY <1>1, PartOf
<1> HIDE DEF t
<1>3. ToSet(t) \subseteq ToSet(s)
  BY <1>2 DEF ToSet
<1>4. QED
  BY <1>2, <1>3 DEF t

LEMMA EntriesOf ==
    ASSUME NEW s \in Seq(Entry)
    PROVE  ToSet(s) \subseteq Entry
  BY DEF ToSet

------------------------------------------------------------------------------
(* What a write leaves in the copy. *)

LEMMA WrittenIs ==
    ASSUME copy \in [Items -> Versions], NEW items \in Seq(Entry)
    PROVE  /\ Written(items) \in [Items -> Versions]
           /\ \A i \in Items :
                 IF \E x \in ToSet(items) : x.item = i
                 THEN \E x \in ToSet(items) : x.item = i /\ Written(items)[i] = x.ver
                 ELSE Written(items)[i] = copy[i]
<1>1. \A i \in Items : (\E n \in DOMAIN items : items[n].item = i)
                          <=> (\E x \in ToSet(items) : x.item = i)
  BY DEF ToSet
<1>2. ASSUME NEW i \in Items, \E x \in ToSet(items) : x.item = i
      PROVE  \E x \in ToSet(items) : x.item = i /\ Written(items)[i] = x.ver
  <2>1. PICK x \in ToSet(items) : x = CHOOSE y \in ToSet(items) : y.item = i
    BY <1>2
  <2>2. x.item = i
    BY <1>2, <2>1
  <2>3. Written(items)[i] = x.ver
    BY <1>1, <1>2, <2>1 DEF Written
  <2>4. QED
    BY <2>2, <2>3
<1>3. ASSUME NEW i \in Items, ~\E x \in ToSet(items) : x.item = i
      PROVE  Written(items)[i] = copy[i]
  BY <1>1, <1>3 DEF Written
<1>4. \A i \in Items : Written(items)[i] \in Versions
  BY <1>2, <1>3, EntriesOf, EntryFields
<1>5. Written(items) = [i \in Items |-> Written(items)[i]]
  BY DEF Written
<1>6. Written(items) \in [Items -> Versions]
  BY <1>4, <1>5
<1>7. QED
  BY <1>2, <1>3, <1>6

\* Entries that are not older than g make no item of the copy older than g, and
\* bring those they are about up to it.
LEMMA WrittenIsNotOlder ==
    ASSUME copy \in [Items -> Versions], NEW items \in Seq(Entry), NEW g \in [Items -> Versions],
           \A x \in ToSet(items) : x.ver >= g[x.item],
           NEW i \in Items, copy[i] >= g[i] \/ \E x \in ToSet(items) : x.item = i
    PROVE  Written(items)[i] >= g[i]
  BY WrittenIs

------------------------------------------------------------------------------
(* A page of the store. *)

LEMMA Elements ==
    ASSUME NEW S, NEW s \in Seq(S)
    PROVE  DOMAIN s = 1 .. Len(s) /\ Len(s) \in Nat /\ \A j \in DOMAIN s : s[j] \in S
  OBVIOUS

LEMMA PageIs ==
    ASSUME TypeOK, NEW n \in Nat \ {0}
    PROVE  /\ PageOfStore(n) \in Seq(Entry) /\ Len(PageOfStore(n)) <= PageSize
           /\ \A x \in ToSet(PageOfStore(n)) : x \in Entry /\ x.ver = ver[x.item]
           /\ \A m \in DOMAIN store :
                 PageSize * (n - 1) < m /\ m <= PageSize * n =>
                    \E x \in ToSet(PageOfStore(n)) : x.item = store[m]
           /\ Len(store) > PageSize * n => Len(PageOfStore(n)) = PageSize
<1> DEFINE lo == PageSize * (n - 1)
           hi == PageSize * n
           last == IF hi < Len(store) THEN hi ELSE Len(store)
           ids == SubSeq(store, lo + 1, last)
           made == 1 .. created
<1>1. lo \in Nat /\ hi \in Nat /\ hi = lo + PageSize /\ PageSize \in Nat \ {0}
  BY Constants, Products
<1>2. store \in Seq(made) /\ Len(store) \in Nat /\ DOMAIN store = 1 .. Len(store)
  BY DEF TypeOK
<1>3. made \subseteq Items
  BY SiteSyncAssumption DEF TypeOK, Items
<1>4. PageOfStore(n) = Listed(ids)
  BY Constants, Products DEF PageOfStore
<1>5. lo + 1 \in Nat \ {0} /\ last \in Nat /\ last <= Len(store) /\ last <= hi
  BY <1>1, <1>2
<1> HIDE DEF lo, hi, last, made
<1>6. /\ ids \in Seq(made) /\ Len(ids) = IF lo + 1 <= last THEN last - (lo + 1) + 1 ELSE 0
      /\ \A i \in (lo + 1) .. last : i - (lo + 1) + 1 \in DOMAIN ids /\ ids[i - (lo + 1) + 1] = store[i]
  <2> DEFINE from == lo + 1
             FromOn == /\ ids \in Seq(made)
                       /\ Len(ids) = IF from <= last THEN last - from + 1 ELSE 0
                       /\ \A i \in from .. last :
                             i - from + 1 \in DOMAIN ids /\ ids[i - from + 1] = store[i]
  <2>1. from \in Nat \ {0} /\ ids = SubSeq(store, from, last)
    BY <1>5
  <2> HIDE DEF from, ids
  <2>2. FromOn
    BY <1>2, <1>5, <2>1, PartOf
  <2>3. QED
    BY <2>2 DEF from
<1> HIDE DEF ids
<1>7. DOMAIN ids = 1 .. Len(ids) /\ Len(ids) \in Nat /\ \A j \in DOMAIN ids : ids[j] \in Items
  <2>1. DOMAIN ids = 1 .. Len(ids) /\ Len(ids) \in Nat /\ \A j \in DOMAIN ids : ids[j] \in made
    BY <1>6, Elements
  <2>2. QED
    BY <1>3, <2>1
<1>8. Len(ids) <= PageSize
  BY <1>1, <1>5, <1>6
<1>9. \A j \in DOMAIN ids : [item |-> ids[j], ver |-> ver[ids[j]]] \in Entry
  BY <1>7, Constants DEF TypeOK, Entry
<1>10. Listed(ids) \in Seq(Entry) /\ Len(Listed(ids)) = Len(ids) /\ DOMAIN Listed(ids) = DOMAIN ids
  <2>1. Listed(ids) \in [1 .. Len(ids) -> Entry]
    BY <1>7, <1>9 DEF Listed
  <2>2. QED
    BY <1>7, <2>1
<1>11. \A x \in ToSet(Listed(ids)) : x \in Entry /\ x.ver = ver[x.item]
  BY <1>9, <1>10 DEF ToSet, Listed
<1>12. ASSUME NEW m \in DOMAIN store, lo < m, m <= hi
       PROVE  \E x \in ToSet(Listed(ids)) : x.item = store[m]
  <2>1. m \in (lo + 1) .. last
    BY <1>1, <1>2, <1>12 DEF last
  <2>2. PICK j \in DOMAIN ids : ids[j] = store[m]
    BY <1>6, <2>1
  <2>3. Listed(ids)[j] = [item |-> ids[j], ver |-> ver[ids[j]]] /\ j \in DOMAIN Listed(ids)
    BY <1>10, <2>2 DEF Listed
  <2>4. QED
    BY <2>2, <2>3 DEF ToSet
<1>13. Len(store) > hi => Len(ids) = PageSize
  BY <1>1, <1>2, <1>6 DEF last
<1>14. QED
  BY <1>4, <1>8, <1>10, <1>11, <1>12, <1>13 DEF lo, hi

------------------------------------------------------------------------------
(* Which steps change which variables. *)

LEMMA StoreSteps ==
    ASSUME [Next]_vars
    PROVE  \/ UNCHANGED storeVars
           \/ AddItem \/ (\E i \in Items : EditItem(i)) \/ (\E n \in DOMAIN store : RemoveItem(n))
  BY DEF Next, vars, storeVars, Work, OpenSync, InsertRun, FetchPage, FetchGarbage, WritePage,
         StepFails, RecordSuccess, RecordFailure, MarkSite, SyncDies, HalfHourPasses, Verified,
         SetRow, PressSync, CheckInFlight, disconnectSite, recordEvent, ReadResource,
         applyWooWebhook, HookFails, HookOver, Hook

LEMMA CopySteps ==
    ASSUME [Next]_vars
    PROVE  \/ UNCHANGED copy
           \/ \E k \in Syncs : WritePage(k) \/ StepFails(k)
           \/ \E e \in Events : applyWooWebhook(e)
  BY DEF Next, vars, Edit, AddItem, EditItem, RemoveItem, Work, OpenSync, InsertRun, FetchPage,
         FetchGarbage, RecordSuccess, RecordFailure, MarkSite, SyncDies, HalfHourPasses, Verified,
         SetRow, PressSync, CheckInFlight, disconnectSite, recordEvent, ReadResource, HookFails

LEMMA WalkSteps ==
    ASSUME [Next]_vars
    PROVE  UNCHANGED walk \/ \E k \in Syncs : FetchPage(k) \/ WritePage(k) \/ LeaveWalk(k)
  BY DEF Next, vars, syncVars, Edit, AddItem, EditItem, RemoveItem, Work, OpenSync, InsertRun,
         FetchGarbage, StepFails, RecordSuccess, RecordFailure, MarkSite, SyncDies, Over,
         HalfHourPasses, Verified, PressSync, CheckInFlight, disconnectSite,
         recordEvent, ReadResource, applyWooWebhook, HookFails, HookOver, Hook

LEMMA HookSteps ==
    ASSUME [Next]_vars
    PROVE  \/ UNCHANGED hookVars
           \/ \E e \in Events : \/ recordEvent(e) \/ ReadResource(e)
                                \/ HookOver(e)
  BY DEF Next, vars, Edit, AddItem, EditItem, RemoveItem, Work, OpenSync, InsertRun, FetchPage,
         FetchGarbage, WritePage, StepFails, RecordSuccess, RecordFailure, MarkSite, SyncDies,
         SetRow, HalfHourPasses, Verified, PressSync, CheckInFlight, disconnectSite,
         applyWooWebhook, HookFails

\* A walk that ends has no goal any more.
NoGoal(k) == goal' = [goal EXCEPT ![k] = [i \in Items |-> Absent]]

LEMMA GhostSteps ==
    ASSUME [Next]_vars
    PROVE  \/ UNCHANGED ghost
           \/ \E k \in Syncs :
                 \/ InsertRun(k)
                 \/ NoGoal(k) /\ smooth' = [smooth EXCEPT ![k] = FALSE]
                 \/ UNCHANGED goal /\ smooth' = [smooth EXCEPT ![k] = FALSE]
           \/ UNCHANGED goal /\ smooth' = [k \in Syncs |-> FALSE]
  BY DEF Next, vars, syncVars, ghost, Edit, AddItem, EditItem, RemoveItem, Work, OpenSync,
         FetchPage, FetchGarbage, WritePage, StepFails, RecordSuccess, RecordFailure, MarkSite,
         SyncDies, Over, NoGoal, SetRow, HalfHourPasses, Verified, PressSync, CheckInFlight,
         disconnectSite, recordEvent, ReadResource, applyWooWebhook, HookFails, HookOver, Hook

------------------------------------------------------------------------------
(* Types, and what the steps count. *)

Base == TypeOK /\ EditsCount /\ FullPages

StoreIsTyped ==
    /\ store \in Seq(1 .. created) /\ created \in 0 .. Initially + MaxEdits
    /\ edits \in 0 .. MaxEdits /\ ver \in [Items -> 0 .. MaxEdits]
    /\ EditsCount

WalkIsTyped ==
    /\ page \in [Syncs -> Nat \ {0}] /\ synced \in [Syncs -> Nat]
    /\ total \in [Syncs -> 0 .. created]
    /\ batch \in [Syncs -> Seq(Entry)] /\ \A k \in Syncs : Len(batch[k]) <= PageSize
    /\ FullPages

\* The store: nothing is unmade, no version goes back.
LEMMA StoreStep ==
    ASSUME Base, [Next]_vars
    PROVE  StoreIsTyped' /\ created <= created' /\ \A i \in Items : ver[i] <= ver'[i]
<1>1. /\ store \in Seq(1 .. created) /\ created \in 0 .. Initially + MaxEdits
      /\ edits \in 0 .. MaxEdits /\ ver \in [Items -> 0 .. MaxEdits]
      /\ created <= Initially + edits /\ Len(store) <= created /\ Len(store) \in Nat
      /\ \A i \in Items : ver[i] <= edits
  BY DEF Base, TypeOK, EditsCount
<1>2. CASE UNCHANGED storeVars
  BY <1>1, <1>2 DEF storeVars, StoreIsTyped, EditsCount
<1>3. CASE AddItem
  <2>1. /\ edits < MaxEdits /\ edits' = edits + 1 /\ created' = created + 1
        /\ store' = <<created + 1>> \o store /\ ver' = ver
    BY <1>3 DEF AddItem, Edit
  <2>2. store \in Seq(1 .. created') /\ <<created + 1>> \in Seq(1 .. created')
    BY <1>1, <2>1
  <2>3. store' \in Seq(1 .. created') /\ Len(store') = Len(store) + 1
    BY <2>1, <2>2
  <2>4. /\ created' \in 0 .. Initially + MaxEdits /\ edits' \in 0 .. MaxEdits
        /\ created' <= Initially + edits' /\ Len(store') <= created' /\ created <= created'
    BY <1>1, <2>1, <2>3, SiteSyncAssumption
  <2>5. \A i \in Items : ver'[i] <= edits' /\ ver[i] <= ver'[i]
    BY <1>1, <2>1, SiteSyncAssumption
  <2>6. QED
    BY <1>1, <2>1, <2>3, <2>4, <2>5 DEF StoreIsTyped, EditsCount
<1>4. ASSUME NEW i \in Items, EditItem(i)
      PROVE  StoreIsTyped' /\ created <= created' /\ \A j \in Items : ver[j] <= ver'[j]
  <2>1. /\ store' = store /\ created' = created
        /\ edits < MaxEdits /\ edits' = edits + 1 /\ ver' = [ver EXCEPT ![i] = @ + 1]
    BY <1>4 DEF EditItem, Edit
  <2>2. \A j \in Items : ver'[j] \in 0 .. MaxEdits /\ ver'[j] <= edits' /\ ver[j] <= ver'[j]
    BY <1>1, <2>1, SiteSyncAssumption
  <2>3. ver' \in [Items -> 0 .. MaxEdits]
    BY <1>1, <2>1, <2>2
  <2>4. edits' \in 0 .. MaxEdits /\ created' <= Initially + edits' /\ created <= created'
    BY <1>1, <2>1, SiteSyncAssumption
  <2>5. QED
    BY <1>1, <2>1, <2>2, <2>3, <2>4 DEF StoreIsTyped, EditsCount
<1>5. ASSUME NEW n \in DOMAIN store, RemoveItem(n)
      PROVE  StoreIsTyped' /\ created <= created' /\ \A j \in Items : ver[j] <= ver'[j]
  <2>1. /\ edits < MaxEdits /\ edits' = edits + 1 /\ ver' = ver /\ created' = created
        /\ store' = RemoveAt(store, n)
    BY <1>5 DEF RemoveItem, Edit
  <2> DEFINE made == 1 .. created
  <2>2. store \in Seq(made)
    BY <1>1
  <2> HIDE DEF made
  <2>3. store' \in Seq(made) /\ Len(store') = Len(store) - 1
    BY <2>1, <2>2, WithoutPlace
  <2>4. /\ edits' \in 0 .. MaxEdits /\ created' <= Initially + edits' /\ created <= created'
        /\ Len(store') <= created'
    BY <1>1, <2>1, <2>3, SiteSyncAssumption
  <2>5. \A i \in Items : ver'[i] <= edits' /\ ver[i] <= ver'[i]
    BY <1>1, <2>1, SiteSyncAssumption
  <2>6. QED
    BY <1>1, <2>1, <2>3, <2>4, <2>5 DEF StoreIsTyped, EditsCount, made
<1>6. QED
  BY <1>2, <1>3, <1>4, <1>5, StoreSteps

LEMMA CopyStep ==
    ASSUME Base, [Next]_vars
    PROVE  copy' \in [Items -> Versions]
<1> USE DEF Base, TypeOK
<1>1. CASE UNCHANGED copy
  BY <1>1
<1>2. ASSUME NEW k \in Syncs, WritePage(k)
      PROVE  copy' \in [Items -> Versions]
  BY <1>2, WrittenIs DEF WritePage
<1>3. ASSUME NEW k \in Syncs, StepFails(k)
      PROVE  copy' \in [Items -> Versions]
  <2>1. PICK n \in 0 .. Len(batch[k]) : copy' = Written(SubSeq(batch[k], 1, n))
    BY <1>3 DEF StepFails
  <2>2. SubSeq(batch[k], 1, n) \in Seq(Entry)
    BY FirstEntries
  <2>3. QED
    BY <2>1, <2>2, WrittenIs
<1>4. ASSUME NEW e \in Events, applyWooWebhook(e)
      PROVE  copy' \in [Items -> Versions]
  <2>1. <<holds[e]>> \in Seq(Entry)
    OBVIOUS
  <2>2. QED
    BY <1>4, <2>1, WrittenIs DEF applyWooWebhook
<1>5. QED
  BY <1>1, <1>2, <1>3, <1>4, CopySteps

\* The counters of a walk, and the pages it has written: all of them were full.
LEMMA WalkStep ==
    ASSUME Base, [Next]_vars
    PROVE  WalkIsTyped'
<1>1. /\ page \in [Syncs -> Nat \ {0}] /\ synced \in [Syncs -> Nat]
      /\ total \in [Syncs -> 0 .. created] /\ created \in Nat /\ Len(store) \in 0 .. created
      /\ batch \in [Syncs -> Seq(Entry)] /\ \A k \in Syncs : Len(batch[k]) <= PageSize
      /\ \A k \in Syncs : synced[k] = PageSize * (page[k] - 1)
  BY DEF Base, TypeOK, EditsCount, FullPages
<1>2. created' \in Nat /\ created <= created'
  BY StoreStep, Constants DEF StoreIsTyped
<1>3. total \in [Syncs -> 0 .. created']
  BY <1>1, <1>2
<1>4. CASE UNCHANGED walk
  BY <1>1, <1>3, <1>4 DEF walk, FullPages, WalkIsTyped
<1>5. ASSUME NEW k \in Syncs, FetchPage(k)
      PROVE  /\ page' = page /\ synced' = synced
             /\ \E t \in 0 .. created' : total' = [total EXCEPT ![k] = t]
             /\ \E b \in Seq(Entry) : Len(b) <= PageSize /\ batch' = [batch EXCEPT ![k] = b]
  <2>1. PageOfStore(page[k]) \in Seq(Entry) /\ Len(PageOfStore(page[k])) <= PageSize
    BY <1>1, PageIs DEF Base
  <2>2. ReportedTotal(k, Len(store)) \in 0 .. created'
    BY <1>1, <1>2 DEF ReportedTotal
  <2>3. QED
    BY <1>5, <2>1, <2>2 DEF FetchPage
<1>6. ASSUME NEW k \in Syncs, LeaveWalk(k)
      PROVE  /\ page' = [page EXCEPT ![k] = 1] /\ synced' = [synced EXCEPT ![k] = 0]
             /\ total' = [total EXCEPT ![k] = 0] /\ batch' = [batch EXCEPT ![k] = <<>>]
  BY <1>6 DEF LeaveWalk
<1>7. ASSUME NEW k \in Syncs, WritePage(k), ~LeaveWalk(k)
      PROVE  /\ page' = [page EXCEPT ![k] = @ + 1]
             /\ synced' = [synced EXCEPT ![k] = @ + PageSize]
             /\ total' = total /\ batch' = [batch EXCEPT ![k] = <<>>]
  <2>1. Len(batch[k]) = PageSize
    BY <1>1, <1>7, Constants DEF WritePage, Exhausted
  <2>2. QED
    BY <1>7, <2>1 DEF WritePage
<1>8. <<>> \in Seq(Entry) /\ Len(<<>>) = 0 /\ 0 <= PageSize /\ 1 \in Nat \ {0} /\ 0 \in 0 .. created'
  BY <1>2, Constants
<1>9. ASSUME NEW k \in Syncs, FetchPage(k)
      PROVE  WalkIsTyped'
  BY <1>1, <1>3, <1>5, <1>9 DEF FullPages, WalkIsTyped
<1>10. ASSUME NEW k \in Syncs, LeaveWalk(k)
       PROVE  WalkIsTyped'
  <2>1. PageSize * (1 - 1) = 0
    BY Constants, Products
  <2>2. \A j \in Syncs : synced'[j] = PageSize * (page'[j] - 1)
    BY <1>1, <1>6, <1>10, <2>1
  <2>3. page' \in [Syncs -> Nat \ {0}] /\ synced' \in [Syncs -> Nat]
    BY <1>1, <1>6, <1>10
  <2>4. total' \in [Syncs -> 0 .. created']
    BY <1>3, <1>6, <1>8, <1>10
  <2>5. batch' \in [Syncs -> Seq(Entry)] /\ \A j \in Syncs : Len(batch'[j]) <= PageSize
    BY <1>1, <1>6, <1>8, <1>10
  <2>6. QED
    BY <2>2, <2>3, <2>4, <2>5 DEF FullPages, WalkIsTyped
<1>11. ASSUME NEW k \in Syncs, WritePage(k), ~LeaveWalk(k)
       PROVE  WalkIsTyped'
  <2>1. \A j \in Syncs : synced'[j] = PageSize * (page'[j] - 1)
    <3>1. PageSize * (page[k] - 1) + PageSize = PageSize * ((page[k] + 1) - 1)
      BY <1>1, Constants, Products
    <3>2. page' = [page EXCEPT ![k] = page[k] + 1]
          /\ synced' = [synced EXCEPT ![k] = synced[k] + PageSize]
      BY <1>7, <1>11
    <3>3. QED
      BY <1>1, <3>1, <3>2
  <2>2. page' \in [Syncs -> Nat \ {0}] /\ synced' \in [Syncs -> Nat]
    <3>1. page[k] + 1 \in Nat \ {0} /\ synced[k] + PageSize \in Nat
      BY <1>1, Constants
    <3>2. QED
      BY <1>1, <1>7, <1>11, <3>1
  <2>3. total' \in [Syncs -> 0 .. created']
    BY <1>3, <1>7, <1>11
  <2>4. batch' \in [Syncs -> Seq(Entry)] /\ \A j \in Syncs : Len(batch'[j]) <= PageSize
    BY <1>1, <1>7, <1>8, <1>11
  <2>5. QED
    BY <2>1, <2>2, <2>3, <2>4 DEF FullPages, WalkIsTyped
<1>12. QED
  BY <1>4, <1>9, <1>10, <1>11, WalkSteps

------------------------------------------------------------------------------
(* Nobody holds anything older than what a smooth walk set out to copy. *)

\* Whatever a sync holds after a step it held before, or it is as the store has it.
LEMMA BatchStep ==
    ASSUME Base, [Next]_vars, NEW k \in Syncs, NEW x \in ToSet(batch'[k])
    PROVE  x \in Entry /\ (x \in ToSet(batch[k]) \/ x.ver = ver[x.item])
<1>1. /\ batch \in [Syncs -> Seq(Entry)] /\ batch' \in [Syncs -> Seq(Entry)]
      /\ page \in [Syncs -> Nat \ {0}]
  BY WalkStep DEF WalkIsTyped, Base, TypeOK
<1>2. x \in Entry
  BY <1>1, EntriesOf
<1>3. CASE UNCHANGED walk
  BY <1>2, <1>3 DEF walk
<1>4. ToSet(<<>>) = {}
  BY DEF ToSet
<1>5. ASSUME NEW j \in Syncs, FetchPage(j)
      PROVE  x \in ToSet(batch[k]) \/ x.ver = ver[x.item]
  <2>1. batch' = [batch EXCEPT ![j] = PageOfStore(page[j])]
    BY <1>5 DEF FetchPage
  <2>2. CASE k = j
    <3>1. batch'[k] = PageOfStore(page[k]) /\ page[k] \in Nat \ {0}
      BY <1>1, <2>1, <2>2
    <3>2. QED
      BY <3>1, PageIs DEF Base
  <2>3. CASE k # j
    BY <1>1, <2>1, <2>3
  <2>4. QED
    BY <2>2, <2>3
<1>6. ASSUME NEW j \in Syncs, batch' = [batch EXCEPT ![j] = <<>>]
      PROVE  x \in ToSet(batch[k])
  BY <1>1, <1>4, <1>6
<1>7. ASSUME NEW j \in Syncs, WritePage(j) \/ LeaveWalk(j)
      PROVE  batch' = [batch EXCEPT ![j] = <<>>]
  BY <1>7 DEF WritePage, LeaveWalk
<1>8. QED
  BY <1>2, <1>3, <1>5, <1>6, <1>7, WalkSteps

\* The same of a webhook.
HooksFollow ==
    /\ holds' \in [Events -> Entry] /\ event' \in [Events -> {"none", "received", "read", "over"}]
    /\ \A e \in Events : holds'[e].ver # Absent =>
          holds'[e] = holds[e] \/ holds'[e].ver = ver[holds'[e].item]
    /\ ReadIsHeld => ReadIsHeld'

LEMMA HoldsStep ==
    ASSUME Base, [Next]_vars
    PROVE  HooksFollow
<1>1. /\ holds \in [Events -> Entry] /\ event \in [Events -> {"none", "received", "read", "over"}]
      /\ ver \in [Items -> 0 .. MaxEdits] /\ 1 .. created \subseteq Items
  BY SiteSyncAssumption DEF Base, TypeOK, Items
<1>2. CASE UNCHANGED hookVars
  BY <1>1, <1>2 DEF hookVars, HooksFollow, ReadIsHeld
<1>3. ASSUME NEW e \in Events, NEW label \in {"received", "read", "over"}, NEW i \in Items,
             NEW v \in Versions, Hook(e, label, i, v), v # Absent => v = ver[i],
             label = "read" => v # Absent
      PROVE  HooksFollow
  <2>1. [item |-> i, ver |-> v] \in Entry
    BY DEF Entry
  <2>2. /\ event' = [event EXCEPT ![e] = label]
        /\ holds' = [holds EXCEPT ![e] = [item |-> i, ver |-> v]]
    BY <1>3 DEF Hook
  <2>3. QED
    BY <1>1, <1>3, <2>1, <2>2 DEF HooksFollow, ReadIsHeld
<1>4. ASSUME NEW e \in Events, recordEvent(e)
      PROVE  \E i \in Items : Hook(e, "received", i, Absent)
  BY <1>1, <1>4 DEF recordEvent
<1>5. ASSUME NEW e \in Events, ReadResource(e)
      PROVE  \E i \in Items : ver[i] \in Versions /\ ver[i] # Absent /\ Hook(e, "read", i, ver[i])
  <2>1. holds[e].item \in Items
    BY <1>1, EntryFields
  <2>2. QED
    BY <1>1, <1>5, <2>1, VersionIs DEF ReadResource
<1>6. QED
  BY <1>2, <1>3, <1>4, <1>5, HookSteps, Constants DEF HookOver

\* A goal stays as it is, or is given up, or is set to what the store holds now.
GoalsFollow ==
    /\ goal' \in [Syncs -> [Items -> Versions]] /\ smooth' \in [Syncs -> BOOLEAN]
    /\ \A k \in Syncs :
          \/ goal'[k] = goal[k] /\ (smooth'[k] => smooth[k])
          \/ ~smooth'[k] /\ \A i \in Items : goal'[k][i] = Absent
          \/ /\ \A i \in Items : goal'[k][i] \in {ver[i], Absent}
             /\ InsertRun(k) /\ smooth'[k] = ~Reading

LEMMA GoalStep ==
    ASSUME Base, [Next]_vars
    PROVE  GoalsFollow
<1>1. /\ goal \in [Syncs -> [Items -> Versions]] /\ smooth \in [Syncs -> BOOLEAN]
      /\ ver \in [Items -> 0 .. MaxEdits]
  BY DEF Base, TypeOK
<1>2. CASE UNCHANGED ghost
  BY <1>1, <1>2 DEF ghost, GoalsFollow
<1>3. ASSUME NEW k \in Syncs, InsertRun(k)
      PROVE  GoalsFollow
  <2> DEFINE g == [i \in Items |-> IF i \in ToSet(store) THEN ver[i] ELSE Absent]
             b == ~Reading
  <2>1. g \in [Items -> Versions] /\ \A i \in Items : g[i] \in {ver[i], Absent}
    BY <1>1, Constants
  <2>2. b \in BOOLEAN
    BY DEF Reading
  <2>3. goal' = [goal EXCEPT ![k] = g] /\ smooth' = [smooth EXCEPT ![k] = b]
    BY <1>3 DEF InsertRun
  <2> HIDE DEF g, b
  <2>4. goal' \in [Syncs -> [Items -> Versions]] /\ goal'[k] = g
    BY <1>1, <2>1, <2>3
  <2>5. smooth' \in [Syncs -> BOOLEAN] /\ smooth'[k] = b
    BY <1>1, <2>2, <2>3
  <2>6. \A j \in Syncs : j # k => goal'[j] = goal[j] /\ smooth'[j] = smooth[j]
    BY <1>1, <2>3
  <2>7. QED
    BY <1>3, <2>1, <2>4, <2>5, <2>6 DEF b, GoalsFollow
<1>4. ASSUME NEW k \in Syncs, NoGoal(k), smooth' = [smooth EXCEPT ![k] = FALSE]
      PROVE  GoalsFollow
  <2>1. [i \in Items |-> Absent] \in [Items -> Versions]
    BY Constants
  <2>2. goal' \in [Syncs -> [Items -> Versions]] /\ goal'[k] = [i \in Items |-> Absent]
    BY <1>1, <1>4, <2>1 DEF NoGoal
  <2>3. smooth' \in [Syncs -> BOOLEAN] /\ ~smooth'[k]
    BY <1>1, <1>4
  <2>4. \A j \in Syncs : j # k => goal'[j] = goal[j] /\ smooth'[j] = smooth[j]
    BY <1>1, <1>4 DEF NoGoal
  <2>5. QED
    BY <2>2, <2>3, <2>4 DEF GoalsFollow
<1>5. ASSUME UNCHANGED goal, NEW k \in Syncs, smooth' = [smooth EXCEPT ![k] = FALSE]
      PROVE  GoalsFollow
  BY <1>1, <1>5 DEF GoalsFollow
<1>6. ASSUME UNCHANGED goal, smooth' = [k \in Syncs |-> FALSE]
      PROVE  GoalsFollow
  BY <1>1, <1>6 DEF GoalsFollow
<1>7. QED
  BY <1>2, <1>3, <1>4, <1>5, <1>6, GhostSteps

LEMMA OlderStep ==
    ASSUME Base, NothingOlder, [Next]_vars
    PROVE  NothingOlder'
<1> SUFFICES ASSUME NEW k \in Syncs
             PROVE  /\ \A i \in Items : goal'[k][i] <= ver'[i]
                    /\ smooth'[k] =>
                          /\ \A other \in Syncs : \A x \in ToSet(batch'[other]) : x.ver >= goal'[k][x.item]
                          /\ \A e \in Events : holds'[e].ver # Absent => holds'[e].ver >= goal'[k][holds'[e].item]
  BY DEF NothingOlder
<1>1. /\ ver \in [Items -> 0 .. MaxEdits] /\ goal \in [Syncs -> [Items -> Versions]]
      /\ \A i \in Items : goal[k][i] <= ver[i]
  BY DEF Base, TypeOK, NothingOlder
<1>2. /\ ver' \in [Items -> 0 .. MaxEdits] /\ \A i \in Items : ver[i] <= ver'[i]
  BY StoreStep DEF StoreIsTyped
<1>3. GoalsFollow /\ HooksFollow
  BY GoalStep, HoldsStep
<1>4. goal'[k] \in [Items -> Versions] /\ goal[k] \in [Items -> Versions]
  BY <1>1, <1>3 DEF GoalsFollow
<1>5. \A i \in Items : goal'[k][i] \in {goal[k][i], ver[i], Absent}
  BY <1>3 DEF GoalsFollow
<1>6. \A i \in Items : goal'[k][i] <= ver'[i]
  <2> SUFFICES ASSUME NEW i \in Items PROVE goal'[k][i] <= ver'[i]
    OBVIOUS
  <2>1. ver[i] \in 0 .. MaxEdits /\ ver'[i] \in 0 .. MaxEdits /\ goal[k][i] \in Versions
    BY <1>1, <1>2, <1>4
  <2>2. ver[i] \in Nat /\ ver'[i] \in Nat /\ goal[k][i] \in Int
    BY <2>1, VersionIs
  <2>3. ver[i] <= ver'[i] /\ goal[k][i] <= ver[i]
    BY <1>1, <1>2
  <2>4. QED
    BY <1>5, <2>2, <2>3 DEF Absent
<1>7. CASE goal'[k] = goal[k] /\ smooth[k]
  <2>1. /\ \A other \in Syncs : \A x \in ToSet(batch[other]) : x.ver >= goal[k][x.item]
        /\ \A e \in Events : holds[e].ver # Absent => holds[e].ver >= goal[k][holds[e].item]
    BY <1>7 DEF NothingOlder
  <2>2. \A i \in Items : ver[i] >= goal[k][i]
    BY <1>1, <1>4, Constants
  <2>3. \A other \in Syncs : \A x \in ToSet(batch'[other]) : x.ver >= goal[k][x.item]
    BY <2>1, <2>2, BatchStep, EntryFields
  <2>4. \A e \in Events : holds'[e].ver # Absent => holds'[e].ver >= goal[k][holds'[e].item]
    BY <1>3, <2>1, <2>2, EntryFields DEF HooksFollow
  <2>5. QED
    BY <1>6, <1>7, <2>3, <2>4
<1>8. CASE InsertRun(k) /\ ~Reading
  <2>1. batch' = batch /\ holds' = holds
    BY <1>8 DEF InsertRun, walk, hookVars
  <2>2. \A other \in Syncs : batch[other] = <<>>
    BY <1>8 DEF Reading
  <2>3. ToSet(<<>>) = {}
    BY DEF ToSet
  <2>4. \A e \in Events : holds[e].ver = Absent
    BY <1>8 DEF Reading
  <2>5. QED
    BY <1>6, <2>1, <2>2, <2>3, <2>4
<1>9. CASE ~smooth'[k]
  BY <1>6, <1>9
<1>10. QED
  <2>1. \/ goal'[k] = goal[k] /\ (smooth'[k] => smooth[k])
        \/ ~smooth'[k] \/ (InsertRun(k) /\ smooth'[k] = ~Reading)
    BY <1>3 DEF GoalsFollow
  <2>2. QED
    BY <1>7, <1>8, <1>9, <2>1

\* What is left of the types.
LEMMA ControlStep ==
    ASSUME TypeOK, [Next]_vars
    PROVE  /\ creds' \in BOOLEAN /\ press' \in {"idle", "checking"}
           /\ row' \in [Syncs -> {"none", "running", "overdue", "success", "failed", "cancelled"}]
           /\ pc' \in [Syncs -> {"unused", "opening", "inserting", "fetching", "writing",
                                 "succeeding", "failing", "marking", "over"}]
<1>1. creds' \in BOOLEAN /\ press' \in {"idle", "checking"}
  BY DEF TypeOK, Next, vars, Edit, AddItem, EditItem, RemoveItem, Work, OpenSync, InsertRun,
         FetchPage, FetchGarbage, WritePage, StepFails, RecordSuccess, RecordFailure, MarkSite,
         SyncDies, SetRow, HalfHourPasses, Verified, PressSync, CheckInFlight, disconnectSite,
         recordEvent, ReadResource, applyWooWebhook, HookFails, HookOver, Hook
<1>2. row' \in [Syncs -> {"none", "running", "overdue", "success", "failed", "cancelled"}]
  BY DEF TypeOK, Next, vars, syncVars, Edit, AddItem, EditItem, RemoveItem, Work, OpenSync, InsertRun,
         FetchPage, FetchGarbage, WritePage, StepFails, RecordSuccess, RecordFailure, MarkSite,
         SyncDies, SetRow, HalfHourPasses, Verified, PressSync, CancelStale, CheckInFlight,
         disconnectSite, recordEvent, ReadResource, applyWooWebhook, HookFails, HookOver, Hook
<1>3. pc' \in [Syncs -> {"unused", "opening", "inserting", "fetching", "writing",
                         "succeeding", "failing", "marking", "over"}]
  BY DEF TypeOK, Next, vars, syncVars, Edit, AddItem, EditItem, RemoveItem, Work, OpenSync, InsertRun,
         FetchPage, FetchGarbage, WritePage, StepFails, RecordSuccess, RecordFailure, MarkSite,
         SyncDies, Over, Goto, startSiteSync, HalfHourPasses, Verified, PressSync, CheckInFlight,
         disconnectSite, recordEvent, ReadResource, applyWooWebhook, HookFails, HookOver, Hook
<1>4. QED
  BY <1>1, <1>2, <1>3

LEMMA TypeStep ==
    ASSUME Base, [Next]_vars
    PROVE  Base'
<1>1. StoreIsTyped' /\ WalkIsTyped' /\ GoalsFollow /\ HooksFollow
  BY StoreStep, WalkStep, GoalStep, HoldsStep
<1>2. TypeOK
  BY DEF Base
<1>3. TypeOK'
  BY <1>1, <1>2, ControlStep, CopyStep
     DEF TypeOK, StoreIsTyped, WalkIsTyped, GoalsFollow, HooksFollow
<1>4. QED
  BY <1>1, <1>3 DEF Base, StoreIsTyped, WalkIsTyped

------------------------------------------------------------------------------
(* Nothing a smooth walk set out to copy is skipped. *)

\* A walk begins at the first page.
LEMMA FirstStep ==
    ASSUME Base, FromTheFirst, [Next]_vars
    PROVE  FromTheFirst'
<1>1. /\ page \in [Syncs -> Nat \ {0}]
      /\ pc \in [Syncs -> {"unused", "opening", "inserting", "fetching", "writing",
                            "succeeding", "failing", "marking", "over"}]
  BY DEF Base, TypeOK
<1>2. CASE UNCHANGED <<pc, walk>>
  BY <1>2 DEF FromTheFirst, walk
<1>3. ASSUME NEW j \in Syncs, UNCHANGED walk, pc[j] \in {"unused", "opening"},
             NEW label, pc' = [pc EXCEPT ![j] = label]
      PROVE  FromTheFirst'
  BY <1>1, <1>3 DEF FromTheFirst, walk
<1>4. ASSUME NEW j \in Syncs, LeaveWalk(j), NEW label, pc' = [pc EXCEPT ![j] = label]
      PROVE  FromTheFirst'
  BY <1>1, <1>4 DEF FromTheFirst, LeaveWalk
<1>5. ASSUME NEW j \in Syncs, NEW n, page' = [page EXCEPT ![j] = n],
             NEW label \in {"fetching", "writing", "marking", "failing"}, pc' = [pc EXCEPT ![j] = label]
      PROVE  FromTheFirst'
  BY <1>1, <1>5 DEF FromTheFirst
<1>6. \A j \in Syncs : page = [page EXCEPT ![j] = page[j]]
  BY <1>1
<1>7. ASSUME NEW j \in Syncs, Work(j) \/ SyncDies(j)
      PROVE  FromTheFirst'
  <2>1. CASE OpenSync(j)
    BY <1>3, <1>4, <2>1 DEF OpenSync, Over, Goto
  <2>2. CASE InsertRun(j) \/ FetchPage(j) \/ FetchGarbage(j) \/ RecordSuccess(j)
    BY <1>5, <1>6, <2>2 DEF InsertRun, FetchPage, FetchGarbage, RecordSuccess, Goto, walk
  <2>3. CASE WritePage(j)
    BY <1>4, <1>5, <2>3 DEF WritePage, Goto
  <2>4. CASE StepFails(j) \/ RecordFailure(j) \/ SyncDies(j)
    BY <1>4, <2>4 DEF StepFails, RecordFailure, SyncDies, Over, Goto
  <2>5. CASE MarkSite(j)
    BY <1>4, <1>5, <1>6, <2>5 DEF MarkSite, Over, Goto, walk
  <2>6. QED
    BY <1>7, <2>1, <2>2, <2>3, <2>4, <2>5 DEF Work
<1>8. ASSUME NEW j \in Syncs, startSiteSync(j), UNCHANGED walk
      PROVE  FromTheFirst'
  BY <1>3, <1>8 DEF startSiteSync, Fresh, Goto
<1>9. \/ UNCHANGED <<pc, walk>>
      \/ \E j \in Syncs : Work(j) \/ SyncDies(j) \/ (startSiteSync(j) /\ UNCHANGED walk)
  BY DEF Next, vars, syncVars, Edit, AddItem, EditItem, RemoveItem, HalfHourPasses, Verified,
         PressSync, CheckInFlight, disconnectSite, recordEvent, ReadResource, applyWooWebhook,
         HookFails, HookOver, Hook
<1>10. QED
  BY <1>2, <1>7, <1>8, <1>9

\* Which steps of its own matter to a walk that stays smooth.
LEMMA OwnSteps ==
    ASSUME TypeOK, [Next]_vars, NEW k \in Syncs
    PROVE  \/ /\ pc'[k] = pc[k] /\ page'[k] = page[k] /\ synced'[k] = synced[k]
              /\ total'[k] = total[k] /\ batch'[k] = batch[k]
           \/ pc'[k] \notin {"fetching", "writing", "succeeding", "marking"}
           \/ InsertRun(k) \/ FetchPage(k) \/ FetchGarbage(k) \/ WritePage(k) \/ RecordSuccess(k)
<1>1. pc \in [Syncs -> {"unused", "opening", "inserting", "fetching", "writing",
                        "succeeding", "failing", "marking", "over"}]
  BY DEF TypeOK
<1>2. CASE UNCHANGED <<pc, walk>>
  BY <1>2 DEF walk
<1>3. ASSUME NEW j \in Syncs,
             \/ Goto(j, "opening") /\ UNCHANGED walk
             \/ OpenSync(j) \/ StepFails(j) \/ RecordFailure(j) \/ MarkSite(j) \/ SyncDies(j)
      PROVE  \/ /\ pc'[k] = pc[k] /\ page'[k] = page[k] /\ synced'[k] = synced[k]
                /\ total'[k] = total[k] /\ batch'[k] = batch[k]
             \/ pc'[k] \notin {"fetching", "writing", "succeeding", "marking"}
  BY <1>1, <1>3 DEF Goto, OpenSync, StepFails, RecordFailure, MarkSite, SyncDies, Over, LeaveWalk, walk, TypeOK
<1>4. ASSUME NEW j \in Syncs, j # k,
             \/ InsertRun(j) \/ FetchPage(j) \/ FetchGarbage(j) \/ WritePage(j) \/ RecordSuccess(j)
      PROVE  /\ pc'[k] = pc[k] /\ page'[k] = page[k] /\ synced'[k] = synced[k]
             /\ total'[k] = total[k] /\ batch'[k] = batch[k]
  BY <1>1, <1>4 DEF InsertRun, FetchPage, FetchGarbage, WritePage, RecordSuccess, Goto, LeaveWalk, walk, TypeOK
<1>5. \/ UNCHANGED <<pc, walk>>
      \/ \E j \in Syncs : \/ Goto(j, "opening") /\ UNCHANGED walk
                          \/ OpenSync(j) \/ StepFails(j) \/ RecordFailure(j) \/ MarkSite(j) \/ SyncDies(j)
      \/ \E j \in Syncs : \/ InsertRun(j) \/ FetchPage(j) \/ FetchGarbage(j) \/ WritePage(j)
                          \/ RecordSuccess(j)
  BY DEF Next, vars, syncVars, Edit, AddItem, EditItem, RemoveItem, Work, startSiteSync,
         HalfHourPasses, Verified, PressSync, CheckInFlight, disconnectSite, recordEvent,
         ReadResource, applyWooWebhook, HookFails, HookOver, Hook
<1>6. QED
  BY <1>2, <1>3, <1>4, <1>5

\* The list grows at its front: an item stays behind the place it was behind.
LEMMA BehindStep ==
    ASSUME Base, [Next]_vars, NEW k \in Syncs, smooth'[k], NEW i, NEW n \in Nat, Behind(i, n)
    PROVE  Behind(i, n)'
<1>1. PICK m \in DOMAIN store : store[m] = i /\ m > n
  BY DEF Behind
<1>2. store \in Seq(1 .. created) /\ created \in Nat
  BY Constants DEF Base, TypeOK
<1>3. m \in Nat /\ m >= 1 /\ m <= Len(store) /\ Len(store) \in Nat
  BY <1>1, <1>2
<1>4. CASE UNCHANGED store
  BY <1>1, <1>4 DEF Behind
<1>5. CASE AddItem
  <2>1. store' = <<created + 1>> \o store
    BY <1>5 DEF AddItem
  <2>2. <<created + 1>> \in Seq(Nat) /\ store \in Seq(Nat)
    BY <1>2
  <2>3. m + 1 \in DOMAIN store' /\ store'[m + 1] = store[m] /\ m + 1 > n
    BY <1>1, <1>3, <2>1, <2>2
  <2>4. QED
    BY <1>1, <2>3 DEF Behind
<1>6. CASE \E j \in Items : EditItem(j)
  BY <1>4, <1>6 DEF EditItem
<1>7. CASE \E j \in DOMAIN store : RemoveItem(j)
  BY <1>7 DEF RemoveItem
<1>8. QED
  BY <1>4, <1>5, <1>6, <1>7, StoreSteps DEF storeVars

\* What is copied stays copied.
LEMMA CopyKept ==
    ASSUME Base, NothingOlder, ReadIsHeld, [Next]_vars, NEW k \in Syncs, smooth[k],
           NEW i \in Items, copy[i] >= goal[k][i]
    PROVE  copy'[i] >= goal[k][i]
<1>1. /\ copy \in [Items -> Versions] /\ goal[k] \in [Items -> Versions]
      /\ batch \in [Syncs -> Seq(Entry)] /\ holds \in [Events -> Entry]
  BY DEF Base, TypeOK
<1>2. ASSUME NEW items \in Seq(Entry), copy' = Written(items),
             \A x \in ToSet(items) : x.ver >= goal[k][x.item]
      PROVE  copy'[i] >= goal[k][i]
  BY <1>1, <1>2, WrittenIsNotOlder
<1>3. \A j \in Syncs : \A x \in ToSet(batch[j]) : x.ver >= goal[k][x.item]
  BY DEF NothingOlder
<1>4. CASE UNCHANGED copy
  BY <1>4
<1>5. ASSUME NEW j \in Syncs, WritePage(j)
      PROVE  copy'[i] >= goal[k][i]
  BY <1>1, <1>2, <1>3, <1>5 DEF WritePage
<1>6. ASSUME NEW j \in Syncs, StepFails(j)
      PROVE  copy'[i] >= goal[k][i]
  <2>1. PICK n \in 0 .. Len(batch[j]) : copy' = Written(SubSeq(batch[j], 1, n))
    BY <1>6 DEF StepFails
  <2>2. /\ SubSeq(batch[j], 1, n) \in Seq(Entry)
        /\ ToSet(SubSeq(batch[j], 1, n)) \subseteq ToSet(batch[j])
    BY <1>1, FirstEntries
  <2>3. QED
    BY <1>2, <1>3, <2>1, <2>2
<1>7. ASSUME NEW e \in Events, applyWooWebhook(e)
      PROVE  copy'[i] >= goal[k][i]
  <2>1. copy' = Written(<<holds[e]>>) /\ event[e] = "read"
    BY <1>7 DEF applyWooWebhook
  <2>2. <<holds[e]>> \in Seq(Entry) /\ ToSet(<<holds[e]>>) = {holds[e]}
    BY <1>1 DEF ToSet
  <2>3. holds[e].ver >= goal[k][holds[e].item]
    BY <2>1 DEF NothingOlder, ReadIsHeld
  <2>4. QED
    BY <1>2, <2>1, <2>2, <2>3
<1>8. QED
  BY <1>4, <1>5, <1>6, <1>7, CopySteps

LEMMA SkipStep ==
    ASSUME IInv, [Next]_vars
    PROVE  NothingSkipped'
<1> SUFFICES ASSUME NEW k \in Syncs, smooth'[k], NEW i \in Items
             PROVE  copy'[i] >= goal'[k][i] \/ StillAhead(k, i)'
  BY DEF NothingSkipped
<1>1. Base /\ NothingOlder /\ ReadIsHeld /\ FromTheFirst /\ NothingSkipped /\ TypeOK
  BY DEF IInv, Base
<1>2. Base' /\ GoalsFollow
  BY <1>1, TypeStep, GoalStep
<1>3. /\ page[k] \in Nat \ {0} /\ synced[k] = PageSize * (page[k] - 1)
      /\ total[k] \in Nat /\ Len(store) \in Nat /\ PageSize \in Nat \ {0}
      /\ batch[k] \in Seq(Entry)
  <2>1. synced[k] = PageSize * (page[k] - 1)
    BY <1>1 DEF Base, FullPages
  <2>2. total[k] \in 0 .. created /\ created \in 0 .. Initially + MaxEdits /\ store \in Seq(1 .. created)
    BY <1>1 DEF TypeOK
  <2>3. page[k] \in Nat \ {0} /\ batch[k] \in Seq(Entry)
    BY <1>1 DEF TypeOK
  <2>4. QED
    BY <2>1, <2>2, <2>3, Constants
<1>4. /\ PageSize * (page[k] - 1) \in Nat /\ PageSize * page[k] \in Nat
      /\ PageSize * page[k] = PageSize * (page[k] - 1) + PageSize
      /\ (page[k] + 1) - 1 = page[k] /\ PageSize * (1 - 1) = 0
  BY <1>3, Products
\* The walk begins: the item is in the list.
<1>5. CASE InsertRun(k)
  <2>1. /\ store' = store /\ ver' = ver /\ copy' = copy /\ page' = page
        /\ pc[k] = "inserting" /\ pc'[k] = "fetching"
        /\ goal'[k][i] = IF i \in ToSet(store) THEN ver[i] ELSE Absent
    BY <1>1, <1>5 DEF InsertRun, Goto, storeVars, walk, TypeOK
  <2>2. CASE i \in ToSet(store)
    <3>1. PICK m \in DOMAIN store : store[m] = i
      BY <2>2 DEF ToSet
    <3>2. m > 0
      BY <1>1, <3>1 DEF TypeOK
    <3>3. page'[k] = 1
      BY <1>1, <2>1 DEF FromTheFirst
    <3>4. Behind(i, PageSize * (page[k] - 1))'
      BY <1>4, <2>1, <3>1, <3>2, <3>3 DEF Behind
    <3>5. QED
      BY <2>1, <3>4 DEF StillAhead
  <2>3. CASE i \notin ToSet(store)
    <3>1. copy'[i] \in Versions
      BY <1>2 DEF Base, TypeOK
    <3>2. QED
      BY <2>1, <2>3, <3>1, VersionIs
  <2>4. QED
    BY <2>2, <2>3
<1>6. ASSUME goal'[k] = goal[k], smooth[k]
      PROVE  copy'[i] >= goal'[k][i] \/ StillAhead(k, i)'
  <2>1. CASE copy[i] >= goal[k][i]
    BY <1>1, <1>6, <2>1, CopyKept
  <2>2. CASE StillAhead(k, i)
    <3>1. \A n \in Nat : Behind(i, n) => Behind(i, n)'
      BY <1>1, BehindStep
    <3>2. ASSUME pc'[k] = pc[k], page'[k] = page[k], synced'[k] = synced[k],
                 total'[k] = total[k], batch'[k] = batch[k]
          PROVE  StillAhead(k, i)'
      <4>1. Exhausted(k)' <=> Exhausted(k)
        BY <3>2 DEF Exhausted
      <4>2. PICK lo \in Nat, hi \in Nat : lo = PageSize * (page[k] - 1) /\ hi = PageSize * page[k]
        BY <1>4
      <4>3. /\ Behind(i, PageSize * (page[k] - 1)) => Behind(i, PageSize * (page[k] - 1))'
            /\ Behind(i, PageSize * page[k]) => Behind(i, PageSize * page[k])'
        <5>1. /\ Behind(i, lo) => Behind(i, lo)'
              /\ Behind(i, hi) => Behind(i, hi)'
          BY <3>1
        <5>2. lo = PageSize * (page'[k] - 1) /\ hi = PageSize * page'[k]
          BY <3>2, <4>2
        <5>3. QED
          BY <4>2, <5>1, <5>2 DEF Behind
      <4>4. QED
        BY <2>2, <3>2, <4>1, <4>3 DEF StillAhead
    <3>3. CASE pc'[k] \notin {"fetching", "writing", "succeeding", "marking"}
      BY <3>3 DEF StillAhead
    \* The page has the item; or the list goes on after it, and the total says so.
    <3>4. CASE FetchPage(k)
      <4>1. /\ pc[k] = "fetching" /\ pc'[k] = "writing" /\ store' = store
            /\ page' = page /\ synced' = synced
            /\ batch'[k] = PageOfStore(page[k]) /\ total'[k] = ReportedTotal(k, Len(store))
        BY <1>1, <3>4 DEF FetchPage, Goto, storeVars, TypeOK
      <4>2. PICK m \in DOMAIN store : store[m] = i /\ m > PageSize * (page[k] - 1)
        BY <2>2, <4>1 DEF StillAhead, Behind
      <4>3. CASE m <= PageSize * page[k]
        <5>1. \E x \in ToSet(PageOfStore(page[k])) : x.item = i
          BY <1>1, <1>3, <4>2, <4>3, PageIs
        <5>2. QED
          BY <4>1, <5>1 DEF StillAhead
      <4>4. CASE m > PageSize * page[k]
        <5>1. Len(store) > PageSize * page[k]
          BY <1>1, <1>3, <1>4, <4>2, <4>4 DEF TypeOK
        <5>2. Len(batch'[k]) = PageSize
          BY <1>1, <1>3, <4>1, <5>1, PageIs
        <5>3. total'[k] >= Len(store) /\ total'[k] \in Nat
          BY <1>3, <4>1 DEF ReportedTotal
        <5>4. synced'[k] + Len(batch'[k]) < total'[k]
          BY <1>3, <1>4, <4>1, <5>1, <5>2, <5>3
        <5>5. ~Exhausted(k)'
          BY <1>3, <1>4, <4>1, <5>2, <5>3, <5>4 DEF Exhausted
        <5>6. Behind(i, PageSize * page[k])'
          BY <4>1, <4>2, <4>4 DEF Behind
        <5>7. QED
          BY <4>1, <5>5, <5>6 DEF StillAhead
      <4>5. QED
        BY <1>1, <1>3, <1>4, <4>2, <4>3, <4>4 DEF TypeOK
    <3>5. CASE FetchGarbage(k)
      BY <1>1, <3>5 DEF FetchGarbage, TypeOK
    <3>6. CASE WritePage(k)
      <4>1. pc[k] = "writing" /\ copy' = Written(batch[k])
        BY <3>6 DEF WritePage
      <4>2. CASE \E x \in ToSet(batch[k]) : x.item = i
        <5>1. copy \in [Items -> Versions] /\ goal[k] \in [Items -> Versions]
          BY <1>1 DEF TypeOK
        <5>2. \A x \in ToSet(batch[k]) : x.ver >= goal[k][x.item]
          BY <1>1, <1>6 DEF NothingOlder
        <5>3. QED
          BY <1>3, <1>6, <4>1, <4>2, <5>1, <5>2, WrittenIsNotOlder
      <4>3. CASE ~Exhausted(k) /\ Behind(i, PageSize * page[k])
        <5>1. page'[k] = page[k] + 1 /\ pc'[k] = "fetching"
          BY <1>1, <3>6, <4>3 DEF WritePage, Goto, TypeOK
        <5>2. PICK hi \in Nat : hi = PageSize * page[k]
          BY <1>4
        <5>3. Behind(i, hi)'
          BY <3>1, <4>3, <5>2
        <5>4. hi = PageSize * (page'[k] - 1)
          BY <1>4, <5>1, <5>2
        <5>5. Behind(i, PageSize * (page[k] - 1))'
          BY <5>3, <5>4 DEF Behind
        <5>6. QED
          BY <5>1, <5>5 DEF StillAhead
      <4>4. QED
        BY <2>2, <4>1, <4>2, <4>3 DEF StillAhead
    <3>7. CASE RecordSuccess(k)
      BY <2>2, <3>7 DEF RecordSuccess, StillAhead
    <3>8. QED
      BY <1>1, <1>5, <3>2, <3>3, <3>4, <3>5, <3>6, <3>7, OwnSteps
  <2>3. QED
    BY <1>1, <1>6, <2>1, <2>2 DEF NothingSkipped
<1>7. QED
  BY <1>2, <1>5, <1>6 DEF GoalsFollow

------------------------------------------------------------------------------

LEMMA InitIsGood == Init => IInv
<1> SUFFICES ASSUME Init PROVE IInv
  OBVIOUS
<1>1. /\ store \in Seq(1 .. created) /\ Len(store) = Initially
      /\ created = Initially /\ created \in 0 .. Initially + MaxEdits
  BY SiteSyncAssumption DEF Init
<1>2. /\ Absent \in Versions /\ 0 \in 0 .. MaxEdits /\ 1 \in Items
      /\ <<>> \in Seq(Entry) /\ Len(<<>>) = 0 /\ ToSet(<<>>) = {}
      /\ [item |-> 1, ver |-> Absent] \in Entry
      /\ PageSize * (1 - 1) = 0 /\ PageSize \in Nat /\ 0 \in 0 .. created
  BY <1>1, SiteSyncAssumption, Constants, Products DEF ToSet, Entry
<1>3. copy = [i \in Items |-> Absent] /\ copy \in [Items -> Versions]
      /\ ver = [i \in Items |-> 0] /\ ver \in [Items -> 0 .. MaxEdits]
  BY <1>2 DEF Init
<1>4. TypeOK
  BY <1>1, <1>2, <1>3 DEF Init, TypeOK
<1>5. EditsCount /\ FullPages /\ FromTheFirst
  BY <1>1, <1>2, <1>3, SiteSyncAssumption DEF Init, EditsCount, FullPages, FromTheFirst
<1>6. ReadIsHeld /\ NothingSkipped
  BY DEF Init, ReadIsHeld, NothingSkipped
<1>7. NothingOlder
  BY <1>3 DEF Init, NothingOlder, Absent
<1>8. QED
  BY <1>4, <1>5, <1>6, <1>7 DEF IInv

LEMMA StepIsGood == IInv /\ [Next]_vars => IInv'
<1> SUFFICES ASSUME IInv, [Next]_vars PROVE IInv'
  OBVIOUS
<1>1. Base /\ NothingOlder /\ ReadIsHeld /\ FromTheFirst
  BY DEF IInv, Base
<1>2. Base'
  BY <1>1, TypeStep
<1>3. FromTheFirst' /\ NothingOlder' /\ ReadIsHeld'
  BY <1>1, FirstStep, OlderStep, HoldsStep DEF HooksFollow
<1>4. QED
  BY <1>2, <1>3, SkipStep DEF IInv, Base

LEMMA AlwaysIInv == Spec => []IInv
  BY InitIsGood, StepIsGood, PTL DEF Spec

\* Whatever is pulled, written, cancelled or killed in whatever order, the copy,
\* the runs and the walks keep their types: a page holds at most PageSize items,
\* and a reported total never exceeds the items ever made (syncAllWooPages).
THEOREM TypeCorrect == Spec => []TypeOK
<1>1. IInv => TypeOK
  BY DEF IInv
<1>2. QED
  BY <1>1, AlwaysIInv, PTL

\* A sync that reports success has brought the copy up to the store as it was when
\* the walk began, for any number of items and any page size, although the list
\* grows and changes under the walk (syncAllWooPages, syncWooSite).
THEOREM SuccessMeansFresh == Spec => []SuccessIsFresh
<1>1. IInv => SuccessIsFresh
  <2> SUFFICES ASSUME IInv, NEW k \in Syncs, pc[k] = "marking", smooth[k], NEW i \in Items
               PROVE  copy[i] >= goal[k][i]
    BY DEF SuccessIsFresh
  <2>1. copy[i] >= goal[k][i] \/ StillAhead(k, i)
    BY DEF IInv, NothingSkipped
  <2>2. QED
    BY <2>1 DEF StillAhead
<1>2. QED
  BY <1>1, AlwaysIInv, PTL
==============================================================================
