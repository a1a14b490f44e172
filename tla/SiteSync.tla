------------------------------ MODULE SiteSync ------------------------------
(***************************************************************************)
(* The copy of a store that the API keeps by pulling it over WooCommerce   *)
(* REST (services/sites.ts, http/routes/merchant.ts) and by the webhooks of *)
(* the store (http/routes/webhooks.ts).                                    *)
(*                                                                         *)
(* One list of the store stands for those a sync walks one after the other *)
(* with the same loop: orders, products, customers and so on.  The list    *)
(* changes while it is walked: newest first, a new item shifts the pages.  *)
(***************************************************************************)
EXTENDS Integers, FiniteSets, Sequences, SequencesExt

CONSTANTS
    MaxSyncs,       \* bound on the background syncs started
    Events,         \* webhook deliveries of the store
    PageSize,       \* 100 in the code
    Initially,      \* items of the store at first
    MaxEdits,       \* bound on additions, edits and removals in the store
    MaxWriters      \* bound on the syncs started and the webhooks taken

ASSUME SiteSyncAssumption ==
    /\ MaxSyncs \in Nat /\ MaxWriters \in Nat
    /\ PageSize \in Nat \ {0}
    /\ Initially \in Nat /\ MaxEdits \in Nat \ {0}

Syncs == 1 .. MaxSyncs
Items == 1 .. Initially + MaxEdits
Absent == -1

VARIABLES
    store, ver,     \* the list, newest first; the version of each item
    created, edits,
    copy,           \* version of each item in the read model
    creds,          \* whether active credentials are stored
    row,            \* sync_run.status; "overdue" is running for over 30 minutes
    pc,             \* where the sync is
    page, synced, total, batch,     \* variables of syncAllWooPages
    goal,           \* the store when the walk began
    smooth,         \* nothing befell the walk that its result leaves out
    press,          \* the merchant's request for a sync
    event, holds    \* where the webhook is; the item and version it is about

storeVars == <<store, ver, created, edits>>
walk == <<page, synced, total, batch>>
ghost == <<goal, smooth>>
syncVars == <<row, pc, walk, ghost>>
hookVars == <<event, holds>>
vars == <<storeVars, copy, creds, syncVars, press, hookVars>>

Init ==
    /\ store = [i \in 1 .. Initially |-> Initially + 1 - i]
    /\ ver = [i \in Items |-> 0]
    /\ created = Initially /\ edits = 0
    /\ copy = [i \in Items |-> Absent]
    /\ creds = TRUE
    /\ row = [k \in Syncs |-> "none"]
    /\ pc = [k \in Syncs |-> "unused"]
    /\ page = [k \in Syncs |-> 1] /\ synced = [k \in Syncs |-> 0]
    /\ total = [k \in Syncs |-> 0] /\ batch = [k \in Syncs |-> <<>>]
    /\ goal = [k \in Syncs |-> copy] /\ smooth = [k \in Syncs |-> FALSE]
    /\ press = "idle"
    /\ event = [e \in Events |-> "none"]
    /\ holds = [e \in Events |-> [item |-> 1, ver |-> Absent]]

Goto(k, label) == pc' = [pc EXCEPT ![k] = label]

\* The loop is left, and its variables with it.
LeaveWalk(k) ==
    /\ page' = [page EXCEPT ![k] = 1] /\ synced' = [synced EXCEPT ![k] = 0]
    /\ total' = [total EXCEPT ![k] = 0] /\ batch' = [batch EXCEPT ![k] = <<>>]

Over(k) ==
    /\ Goto(k, "over")
    /\ LeaveWalk(k)
    /\ goal' = [goal EXCEPT ![k] = [i \in Items |-> Absent]]
    /\ smooth' = [smooth EXCEPT ![k] = FALSE]

Unfinished == {"running", "overdue"}

\* The copy once the items read are written, in any order of their versions.
Written(items) ==
    [i \in Items |->
        IF \E n \in DOMAIN items : items[n].item = i
        THEN (CHOOSE x \in ToSet(items) : x.item = i).ver ELSE copy[i]]

Started == {k \in Syncs : pc[k] # "unused"}
Taken == {e \in Events : event[e] # "none"}
MayBegin == Cardinality(Started) + Cardinality(Taken) < MaxWriters
Fresh(k) == pc[k] = "unused" /\ MayBegin /\ \A j \in 1 .. k - 1 : j \in Started

-----------------------------------------------------------------------------
(* The store. *)

Edit ==
    /\ edits < MaxEdits
    /\ edits' = edits + 1
    /\ UNCHANGED <<copy, creds, row, pc, walk, goal, press, hookVars>>

AddItem ==
    /\ Edit
    /\ created' = created + 1
    /\ store' = <<created + 1>> \o store
    /\ UNCHANGED <<ver, smooth>>

EditItem(i) ==
    /\ Edit
    /\ i \in ToSet(store)
    /\ ver' = [ver EXCEPT ![i] = @ + 1]
    /\ UNCHANGED <<store, created, smooth>>

\* The pages after the item move up: a walk under way can jump over one.
RemoveItem(n) ==
    /\ Edit
    /\ store' = RemoveAt(store, n)
    /\ smooth' = [k \in Syncs |-> FALSE]
    /\ UNCHANGED <<ver, created>>

-----------------------------------------------------------------------------
(* syncWooSite, in the background. *)

startSiteSync(k) == Fresh(k) /\ Goto(k, "opening")

\* getWooCredentials; without credentials the sync throws, and nobody listens.
OpenSync(k) ==
    /\ pc[k] = "opening"
    /\ IF creds THEN Goto(k, "inserting") /\ UNCHANGED <<walk, ghost>> ELSE Over(k)
    /\ UNCHANGED <<storeVars, copy, creds, row, press, hookVars>>

\* Somebody has read items and not written them yet.
Reading == (\E k \in Syncs : batch[k] # <<>>) \/ (\E e \in Events : holds[e].ver # Absent)

InsertRun(k) ==
    /\ pc[k] = "inserting"
    /\ row' = [row EXCEPT ![k] = "running"]
    /\ goal' = [goal EXCEPT ![k] =
                   [i \in Items |-> IF i \in ToSet(store) THEN ver[i] ELSE Absent]]
    /\ smooth' = [smooth EXCEPT ![k] = ~Reading]
    /\ Goto(k, "fetching")
    /\ UNCHANGED <<storeVars, copy, creds, walk, press, hookVars>>

Listed(ids) == [j \in DOMAIN ids |-> [item |-> ids[j], ver |-> ver[ids[j]]]]

\* Slip: a page goes on to the first item of the next.
PageOfStore_long(n) ==
    LET last == IF n * PageSize < Len(store) THEN n * PageSize + 1 ELSE Len(store)
    IN  Listed(SubSeq(store, (n - 1) * PageSize + 1, last))

PageOfStore(n) ==
    LET last == IF n * PageSize < Len(store) THEN n * PageSize ELSE Len(store)
    IN  Listed(SubSeq(store, (n - 1) * PageSize + 1, last))

\* Slip: the total is the one the first page reported.
ReportedTotal_first(k, reported) == IF page[k] = 1 THEN reported ELSE total[k]

ReportedTotal(k, reported) == IF reported > total[k] THEN reported ELSE total[k]

\* WooCommerce sends the total (x-wp-total) with every page.
FetchPage(k) ==
    /\ pc[k] = "fetching"
    /\ batch' = [batch EXCEPT ![k] = PageOfStore(page[k])]
    /\ total' = [total EXCEPT ![k] = ReportedTotal(k, Len(store))]
    /\ Goto(k, "writing")
    /\ UNCHANGED <<storeVars, copy, creds, row, page, synced, ghost, press, hookVars>>

\* An answer whose body is no list of items counts as an empty page.
FetchGarbage(k) ==
    /\ pc[k] = "fetching"
    /\ smooth' = [smooth EXCEPT ![k] = FALSE]
    /\ Goto(k, "writing")
    /\ UNCHANGED <<storeVars, copy, creds, row, walk, goal, press, hookVars>>

Exhausted(k) ==
    \/ Len(batch[k]) < PageSize
    \/ total[k] > 0 /\ synced[k] + Len(batch[k]) >= total[k]

WritePage(k) ==
    /\ pc[k] = "writing"
    /\ copy' = Written(batch[k])
    /\ \/ Exhausted(k) /\ LeaveWalk(k) /\ Goto(k, "succeeding")
       \/ /\ ~Exhausted(k)
          /\ page' = [page EXCEPT ![k] = @ + 1]
          /\ synced' = [synced EXCEPT ![k] = @ + Len(batch[k])]
          /\ batch' = [batch EXCEPT ![k] = <<>>]
          /\ Goto(k, "fetching") /\ UNCHANGED total
    /\ UNCHANGED <<storeVars, creds, row, ghost, press, hookVars>>

\* A request or a statement fails: items are written one by one.
StepFails(k) ==
    /\ pc[k] \in {"fetching", "writing", "succeeding"}
    /\ \E n \in 0 .. Len(batch[k]) : copy' = Written(SubSeq(batch[k], 1, n))
    /\ LeaveWalk(k) /\ Goto(k, "failing")
    /\ UNCHANGED <<storeVars, creds, row, ghost, press, hookVars>>

SetRow(k, status) ==
    /\ row' = [row EXCEPT ![k] = status]
    /\ UNCHANGED <<storeVars, copy, creds, press, hookVars>>

RecordSuccess(k) ==
    /\ pc[k] = "succeeding"
    /\ SetRow(k, "success") /\ Goto(k, "marking") /\ UNCHANGED <<walk, ghost>>

RecordFailure(k) == pc[k] = "failing" /\ SetRow(k, "failed") /\ Over(k)

\* last_synced_at; when that fails the run that succeeded is recorded as failed.
MarkSite(k) ==
    /\ pc[k] = "marking"
    /\ SetRow(k, row[k])
    /\ \/ Over(k)
       \/ Goto(k, "failing") /\ UNCHANGED <<walk, ghost>>

\* The process is killed: the row stays as it is.
SyncDies(k) ==
    /\ pc[k] \notin {"unused", "over"}
    /\ Over(k)
    /\ UNCHANGED <<storeVars, copy, creds, row, press, hookVars>>

HalfHourPasses(k) ==
    /\ row[k] = "running"
    /\ SetRow(k, "overdue")
    /\ UNCHANGED <<pc, walk, ghost>>

-----------------------------------------------------------------------------
(* The requests of the merchant. *)

\* Slip: only queued runs are cancelled.
CancelStale_never == row' = row

CancelStale ==
    row' = [k \in Syncs |-> IF row[k] = "overdue" THEN "cancelled" ELSE row[k]]

\* POST /merchant/sites/:id/sync.
PressSync ==
    /\ press = "idle" /\ press' = "checking"
    /\ CancelStale
    /\ UNCHANGED <<storeVars, copy, creds, pc, walk, ghost, hookVars>>

CheckInFlight ==
    /\ press = "checking" /\ press' = "idle"
    /\ IF (\A k \in Syncs : row[k] \notin Unfinished) /\ \E k \in Syncs : Fresh(k)
       THEN \E k \in Syncs : startSiteSync(k)
       ELSE UNCHANGED pc
    /\ UNCHANGED <<storeVars, copy, creds, row, walk, ghost, hookVars>>

\* verifyWooConnection ends: whatever runs is not looked at.
Verified(k) ==
    /\ creds' = TRUE
    /\ startSiteSync(k)
    /\ UNCHANGED <<storeVars, copy, row, walk, ghost, press, hookVars>>

disconnectSite ==
    /\ creds /\ creds' = FALSE
    /\ row' = [k \in Syncs |-> IF row[k] \in Unfinished THEN "cancelled" ELSE row[k]]
    /\ UNCHANGED <<storeVars, copy, pc, walk, ghost, press, hookVars>>

-----------------------------------------------------------------------------
(* Webhooks.  One that was recorded before is answered and does nothing.    *)

Hook(e, label, i, v) ==
    /\ event' = [event EXCEPT ![e] = label]
    /\ holds' = [holds EXCEPT ![e] = [item |-> i, ver |-> v]]
    /\ UNCHANGED <<storeVars, creds, syncVars, press>>

HookOver(e) == Hook(e, "over", 1, Absent)

recordEvent(e) ==
    /\ event[e] = "none" /\ MayBegin
    /\ \E i \in 1 .. created : Hook(e, "received", i, Absent)
    /\ UNCHANGED copy

\* The item is read from the store.
ReadResource(e) ==
    LET i == holds[e].item IN
    /\ event[e] = "received"
    /\ creds /\ i \in ToSet(store)
    /\ Hook(e, "read", i, ver[i])
    /\ UNCHANGED copy

applyWooWebhook(e) ==
    /\ event[e] = "read"
    /\ copy' = Written(<<holds[e]>>)
    /\ HookOver(e)

\* It is not signed, the credentials or the item are gone, a step fails, or the
\* process dies: it is not applied, and no later delivery of it is.
HookFails(e) ==
    /\ event[e] \in {"received", "read"}
    /\ HookOver(e)
    /\ UNCHANGED copy

-----------------------------------------------------------------------------
Work(k) ==
    \/ OpenSync(k) \/ InsertRun(k) \/ FetchPage(k) \/ FetchGarbage(k) \/ WritePage(k)
    \/ StepFails(k) \/ RecordSuccess(k) \/ RecordFailure(k) \/ MarkSite(k)

Next ==
    \/ AddItem
    \/ \E i \in Items : EditItem(i)
    \/ \E n \in DOMAIN store : RemoveItem(n)
    \/ \E k \in Syncs : Work(k) \/ SyncDies(k) \/ HalfHourPasses(k) \/ Verified(k)
    \/ PressSync \/ CheckInFlight \/ disconnectSite
    \/ \E e \in Events :
          recordEvent(e) \/ ReadResource(e) \/ applyWooWebhook(e) \/ HookFails(e)

Spec == Init /\ [][Next]_vars

\* Time passes, and the merchant asks for a sync again and again.  The syncs
\* themselves may stop anywhere.
FairSpec ==
    /\ Spec
    /\ WF_vars(\E k \in Syncs : HalfHourPasses(k))
    /\ WF_vars(PressSync \/ CheckInFlight)

-----------------------------------------------------------------------------
Versions == Absent .. MaxEdits

Entry == [item : Items, ver : Versions]

TypeOK ==
    /\ store \in Seq(1 .. created) /\ created \in 0 .. Initially + MaxEdits
    /\ edits \in 0 .. MaxEdits
    /\ ver \in [Items -> 0 .. MaxEdits] /\ copy \in [Items -> Versions]
    /\ creds \in BOOLEAN
    /\ goal \in [Syncs -> [Items -> Versions]] /\ smooth \in [Syncs -> BOOLEAN]
    /\ row \in [Syncs -> {"none", "running", "overdue", "success", "failed", "cancelled"}]
    /\ pc \in [Syncs -> {"unused", "opening", "inserting", "fetching", "writing",
                         "succeeding", "failing", "marking", "over"}]
    /\ page \in [Syncs -> Nat \ {0}] /\ synced \in [Syncs -> Nat]
    /\ total \in [Syncs -> 0 .. created]
    /\ batch \in [Syncs -> Seq(Entry)] /\ \A k \in Syncs : Len(batch[k]) <= PageSize
    /\ press \in {"idle", "checking"}
    /\ event \in [Events -> {"none", "received", "read", "over"}]
    /\ holds \in [Events -> Entry]

\* A sync that reports success leaves no item of the store older in the copy
\* than it was when the walk began, nor missing, although items are added and
\* edited, other syncs run beside it and webhooks were lost before - unless an
\* item was removed or an answer was unreadable meanwhile, or somebody still had
\* older items in hand when it began.
SuccessIsFresh ==
    \A k \in Syncs :
        pc[k] = "marking" /\ smooth[k] => \A i \in Items : copy[i] >= goal[k][i]

\* No run is shown as running for ever, even when its process died: the merchant
\* who asks again has it cancelled after half an hour.
RunEnds == \A k \in Syncs : row[k] \in Unfinished ~> row[k] \notin Unfinished
-----------------------------------------------------------------------------
(* The inductive invariant behind the first two.                            *)

\* Every edit makes at most one item or version, and the list holds no more
\* items than were made.
EditsCount ==
    /\ created <= Initially + edits /\ Len(store) <= created
    /\ \A i \in Items : ver[i] <= edits

\* The pages written before were full.
FullPages == \A k \in Syncs : synced[k] = PageSize * (page[k] - 1)

\* A walk begins at the first page.
FromTheFirst ==
    \A k \in Syncs : pc[k] \in {"unused", "opening", "inserting"} => page[k] = 1

\* What a webhook writes was read from the store.
ReadIsHeld == \A e \in Events : event[e] = "read" => holds[e].ver # Absent

\* The store never falls behind what a walk set out to copy, and while the walk
\* is smooth nobody holds anything older.
NothingOlder ==
    \A k \in Syncs :
        /\ \A i \in Items : goal[k][i] <= ver[i]
        /\ smooth[k] =>
              /\ \A other \in Syncs : \A x \in ToSet(batch[other]) : x.ver >= goal[k][x.item]
              /\ \A e \in Events : holds[e].ver # Absent => holds[e].ver >= goal[k][holds[e].item]

\* Item i stands in the store behind the first n.
Behind(i, n) == \E m \in DOMAIN store : store[m] = i /\ m > n

\* An item the walk set out to copy is copied, in the page it holds, or still
\* ahead of it; and then the page it holds is not the last.
StillAhead(k, i) ==
    /\ pc[k] = "fetching" => Behind(i, PageSize * (page[k] - 1))
    /\ pc[k] = "writing" =>
          \/ \E x \in ToSet(batch[k]) : x.item = i
          \/ ~Exhausted(k) /\ Behind(i, PageSize * page[k])
    /\ pc[k] \notin {"succeeding", "marking"}

NothingSkipped ==
    \A k \in Syncs : smooth[k] =>
        \A i \in Items : copy[i] >= goal[k][i] \/ StillAhead(k, i)

IInv ==
    /\ TypeOK /\ EditsCount /\ FullPages /\ FromTheFirst
    /\ ReadIsHeld /\ NothingOlder /\ NothingSkipped
=============================================================================
