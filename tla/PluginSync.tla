----------------------------- MODULE PluginSync -----------------------------
(***************************************************************************)
(* The WordPress plugin's chunked sync: a queue of entities, a page cursor *)
(* per entity and a scheduled hook that sends one page per run, all three  *)
(* kept in WordPress options that any PHP process may write at any time.   *)
(*                                                                         *)
(* A worker is a PHP process running the chunk hook: it reads the options, *)
(* spends up to a minute in a POST to /plugin/sync, then writes back what  *)
(* it computed from what it read.  A start (admin button or hourly cron)   *)
(* is another process.  Items are numbered in the order of the store's     *)
(* query (by id), and the store does not change during a sync, but reading *)
(* it may fail, silently.  Not modelled: the run id, a label no code       *)
(* branches on, and the delays; the plugin stays configured.               *)
(***************************************************************************)
EXTENDS Naturals, Sequences, FiniteSets

CONSTANTS
    Entities, FullQueue, IncrementalQueue,
    Count,          \* items the store has of each entity
    Blank,          \* entities read as none at all while WooCommerce is inactive
    Patchy,         \* entities whose items are left out one by one when they cannot be read
    Batch,          \* batch_size()
    Workers,        \* PHP processes that may run the chunk hook at once
    Scheduler,      \* "action_scheduler" or "wp_cron"
    MaxPending,     \* bound on chunk hooks scheduled and running together
    MaxFailures,    \* bound on failed requests
    MaxMisreads,    \* bound on chunks the builder gets short
    MaxCrashes      \* bound on PHP processes that die

ASSUME PluginSyncAssumption ==
    /\ FullQueue \in Seq(Entities)
    /\ IncrementalQueue \in Seq(Entities)
    /\ Count \in [Entities -> Nat]
    /\ Blank \subseteq Entities /\ Patchy \subseteq Entities
    /\ Batch \in Nat \ {0}
    /\ Scheduler \in {"action_scheduler", "wp_cron"}
    /\ MaxPending \in Nat \ {0}
    /\ MaxFailures \in Nat /\ MaxMisreads \in Nat
    /\ MaxCrashes \in Nat

VARIABLES
    queue,          \* option wcos_sync_queue
    cursor,         \* options wcos_sync_cursor_<entity>, 0 when absent
    lastStart,      \* kind of the latest start
    overlapped,     \* whether a start ever found a chunk scheduled or running
    starting,       \* kind of the start that has reset the cursors so far
    due,            \* chunk hooks scheduled and not yet run
    pc, held, page, \* of each worker: where it is, the queue and page it read,
    chunk,          \* and the items its builder got from the store
    readModel,      \* items of each entity the backend has ingested
    cut,            \* page at which an unreadable store has cut each entity short
                    \* since the latest start, 0 when it has not
    failures, misreads, crashes

options == <<queue, cursor>>
worker == <<pc, held, page, chunk>>
vars == <<options, lastStart, overlapped, starting, due, worker, readModel, cut, failures, misreads, crashes>>

Kinds == {"full", "incremental"}
PCs == {"idle", "reading", "posting", "advancing", "clearing", "popping"}

TypeOK ==
    /\ queue \in Seq(Entities)
    /\ cursor \in [Entities -> Nat]
    /\ lastStart \in Kinds \cup {"never"}
    /\ overlapped \in BOOLEAN
    /\ starting \in Kinds \cup {"no"}
    /\ due \in Nat
    /\ pc \in [Workers -> PCs]
    /\ held \in [Workers -> Seq(Entities)]
    /\ page \in [Workers -> Nat]
    /\ chunk \in [Workers -> SUBSET Nat]
    /\ readModel \in [Entities -> SUBSET Nat]
    /\ cut \in [Entities -> Nat]
    /\ failures \in 0..MaxFailures
    /\ misreads \in 0..MaxMisreads
    /\ crashes \in 0..MaxCrashes

Init ==
    /\ queue = <<>>
    /\ cursor = [e \in Entities |-> 0]
    /\ lastStart = "never"
    /\ overlapped = FALSE
    /\ starting = "no"
    /\ due = 0
    /\ pc = [w \in Workers |-> "idle"]
    /\ held = [w \in Workers |-> <<>>]
    /\ page = [w \in Workers |-> 0]
    /\ chunk = [w \in Workers |-> {}]
    /\ readModel = [e \in Entities |-> {}]
    /\ cut = [e \in Entities |-> 0]
    /\ failures = 0
    /\ misreads = 0
    /\ crashes = 0

------------------------------------------------------------------------------
(* Chunks.  The builder asks the store for Batch + 1 items of page p, counting *)
(* pages in steps of Batch + 1, and sends the first Batch of those it gets.    *)

Offset(p) == (p - 1) * (Batch + 1)
Fetched(e, p) == {i \in 1..Count[e] : Offset(p) < i /\ i <= Offset(p) + Batch + 1}

\* What the builder may get.  It answers an empty list while WooCommerce is
\* inactive and when get_terms fails, and leaves out a coupon that throws.
Readings(e, p) ==
    {Fetched(e, p)}
        \cup {{} : x \in {e} \cap Blank}
        \cup UNION {SUBSET Fetched(x, p) : x \in {e} \cap Patchy}

Sent(got) == {i \in got : Cardinality({j \in got : j < i}) < Batch}

\* Slip: only Batch items are fetched, so there never is one more.
More_noLookahead(got) == FALSE

More(got) == Cardinality(got) > Batch

Entity(w) == Head(held[w])

\* WordPress drops a single event like one already scheduled within ten
\* minutes; Action Scheduler keeps every action.
Schedule ==
    \/ due' = due + 1
    \/ Scheduler = "wp_cron" /\ due > 0 /\ due' = due

Release(w) ==
    /\ pc' = [pc EXCEPT ![w] = "idle"]
    /\ held' = [held EXCEPT ![w] = <<>>]
    /\ page' = [page EXCEPT ![w] = 0]
    /\ chunk' = [chunk EXCEPT ![w] = {}]

\* On from the request, whose chunk is not needed any more.
Goto(w, where) ==
    /\ pc' = [pc EXCEPT ![w] = where]
    /\ chunk' = [chunk EXCEPT ![w] = {}]
    /\ UNCHANGED <<held, page>>

------------------------------------------------------------------------------
(* start_full_sync_queue: the cursors are reset first, the queue is written *)
(* afterwards, and a chunk is scheduled.                                    *)

Busy == {w \in Workers : pc[w] # "idle"}
Quiet == due = 0 /\ Busy = {}

StartReset(kind) ==
    /\ starting = "no"
    /\ due < MaxPending
    /\ cursor' = [e \in Entities |-> 0]
    /\ starting' = kind
    /\ overlapped' = (overlapped \/ ~Quiet)
    /\ UNCHANGED <<queue, lastStart, due, worker, readModel, cut, failures, misreads, crashes>>

StartQueue ==
    /\ starting # "no"
    /\ due < MaxPending
    /\ queue' = IF starting = "full" THEN FullQueue ELSE IncrementalQueue
    /\ lastStart' = starting
    /\ starting' = "no"
    /\ cut' = [e \in Entities |-> 0]
    /\ Schedule
    /\ UNCHANGED <<overlapped, cursor, worker, readModel, failures, misreads, crashes>>

------------------------------------------------------------------------------
(* run_next_chunk. *)

ReadQueue(w) ==
    /\ pc[w] = "idle"
    /\ due > 0
    /\ due' = due - 1
    /\ IF queue = <<>>
         THEN UNCHANGED worker
         ELSE /\ pc' = [pc EXCEPT ![w] = "reading"]
              /\ held' = [held EXCEPT ![w] = queue]
              /\ UNCHANGED <<page, chunk>>
    /\ UNCHANGED <<options, lastStart, overlapped, starting, readModel, cut, failures, misreads, crashes>>

\* The cursor is read and the chunk of that page built.
ReadCursor(w) ==
    LET e == Entity(w)
        p == IF cursor[e] < 1 THEN 1 ELSE cursor[e]
    IN  /\ pc[w] = "reading"
        /\ pc' = [pc EXCEPT ![w] = "posting"]
        /\ page' = [page EXCEPT ![w] = p]
        /\ \E got \in Readings(e, p) :
              /\ chunk' = [chunk EXCEPT ![w] = got]
              /\ IF got = Fetched(e, p)
                   THEN UNCHANGED misreads
                   ELSE misreads < MaxMisreads /\ misreads' = misreads + 1
        /\ UNCHANGED <<options, lastStart, overlapped, starting, due, held, readModel, cut,
                       failures, crashes>>

\* The backend ingests the chunk and answers 2xx, also when it is empty; what
\* comes next depends on the chunk alone.
PostSucceeds(w) ==
    LET e == Entity(w)
    IN  /\ pc[w] = "posting"
        /\ readModel' = [readModel EXCEPT ![e] = @ \cup Sent(chunk[w])]
        /\ cut' = IF chunk[w] = Fetched(e, page[w]) THEN cut ELSE [cut EXCEPT ![e] = page[w]]
        /\ Goto(w, IF More(chunk[w]) THEN "advancing" ELSE "clearing")
        /\ UNCHANGED <<options, lastStart, overlapped, starting, due, failures, misreads, crashes>>

\* Slip: the error branch does not schedule the next attempt.
PostFails_givesUp(w) ==
    /\ pc[w] = "posting"
    /\ failures < MaxFailures
    /\ failures' = failures + 1
    /\ Release(w)
    /\ UNCHANGED <<options, lastStart, overlapped, starting, due, readModel, cut, misreads, crashes>>

\* Slip: the answer of the backend is not looked at.
PostFails_movesOn(w) ==
    /\ pc[w] = "posting"
    /\ failures < MaxFailures
    /\ failures' = failures + 1
    /\ Goto(w, IF More(chunk[w]) THEN "advancing" ELSE "clearing")
    /\ UNCHANGED <<options, lastStart, overlapped, starting, due, readModel, cut, misreads, crashes>>

\* The request fails, the ingest stops half way (it is not a transaction), or
\* the answer is lost after all of it: the same page is tried again later.
PostFails(w) ==
    LET e == Entity(w)
    IN  /\ pc[w] = "posting"
        /\ failures < MaxFailures
        /\ failures' = failures + 1
        /\ \E last \in 0..Count[e] :
              readModel' = [readModel EXCEPT ![e] =
                              @ \cup {i \in Sent(chunk[w]) : i <= last}]
        /\ Schedule
        /\ Release(w)
        /\ UNCHANGED <<options, lastStart, overlapped, starting, cut, misreads, crashes>>

Advance(w) ==
    /\ pc[w] = "advancing"
    /\ cursor' = [cursor EXCEPT ![Entity(w)] = page[w] + 1]
    /\ Schedule
    /\ Release(w)
    /\ UNCHANGED <<queue, lastStart, overlapped, starting, readModel, cut, failures, misreads, crashes>>

ClearCursor(w) ==
    /\ pc[w] = "clearing"
    /\ cursor' = [cursor EXCEPT ![Entity(w)] = 0]
    /\ Goto(w, "popping")
    /\ UNCHANGED <<queue, lastStart, overlapped, starting, due, readModel, cut, failures, misreads, crashes>>

\* Slip: array_shift returns the entity it removed, and that is stored.
PopEntity_storesShifted(w) ==
    /\ pc[w] = "popping"
    /\ queue' = Entity(w)
    /\ Release(w)
    /\ UNCHANGED <<cursor, lastStart, overlapped, starting, due, readModel, cut, failures, misreads, crashes>>

\* The queue that is shifted and stored is the one read before the request.
PopEntity(w) ==
    /\ pc[w] = "popping"
    /\ queue' = Tail(held[w])
    /\ IF queue' = <<>> THEN UNCHANGED due ELSE Schedule
    /\ Release(w)
    /\ UNCHANGED <<cursor, lastStart, overlapped, starting, readModel, cut, failures, misreads, crashes>>

\* PHP's time limit or a restart ends the process; nothing reschedules it.
WorkerDies(w) ==
    /\ pc[w] # "idle"
    /\ crashes < MaxCrashes
    /\ crashes' = crashes + 1
    /\ Release(w)
    /\ UNCHANGED <<options, lastStart, overlapped, starting, due, readModel, cut, failures, misreads>>

RunChunk(w) ==
    \/ ReadQueue(w)
    \/ ReadCursor(w)
    \/ PostSucceeds(w)
    \/ PostFails(w)
    \/ Advance(w)
    \/ ClearCursor(w)
    \/ PopEntity(w)

Next ==
    \/ \E kind \in Kinds : StartReset(kind)
    \/ StartQueue
    \/ \E w \in Workers : RunChunk(w) \/ WorkerDies(w)

Spec == Init /\ [][Next]_vars

\* A scheduled hook is run and a running PHP process goes on; a start that has
\* begun is finished.
Fairness ==
    /\ WF_vars(StartQueue)
    /\ \A w \in Workers : WF_vars(RunChunk(w))
FairSpec == Spec /\ Fairness

------------------------------------------------------------------------------
(* Safety. *)

Ingested(e, p) == Sent(Fetched(e, p)) \subseteq readModel[e]
PagesBefore(e, p) == \A q \in 1..(p - 1) : Ingested(e, q)

\* Whatever starts, failures, unreadable items and crashes interleave, a sync
\* resumes without a gap: the backend holds every page a cursor has moved past
\* (class-wcos-sync-state.php: "resume safely after failures or timeouts").
ResumesWithoutGap == \A e \in Entities : PagesBefore(e, cursor[e])

EveryPage(e) == \A p \in 1..(Count[e] + 1) : Ingested(e, p)
LatestQueue == IF lastStart = "full" THEN FullQueue ELSE IncrementalQueue

\* While no start overlaps a sync, an entity leaves the queue only after every
\* page of it was ingested, through failures, half-done ingests, retries, dead
\* processes and later starts that resume after one.  The exception is an
\* answer the builder got short and the backend accepted: the entity ends there
\* as if the store had no more, with the pages before that one ingested; one
\* whose request failed is built anew and costs nothing.
LeftQueueMeansIngested ==
    lastStart # "never" /\ ~overlapped =>
        \A i \in DOMAIN LatestQueue :
            LET e == LatestQueue[i]
            IN  \/ \E j \in DOMAIN queue : queue[j] = e
                \/ EveryPage(e)
                \/ cut[e] > 0 /\ PagesBefore(e, cut[e])

\* A full sync that is over has sent every item of the store ("The plugin runs
\* the initial full sync in background batches, retries failures",
\* DEPLOYMENT.md).
FullSyncSendsAll ==
    lastStart = "full" /\ starting = "no" /\ ~overlapped /\ Quiet /\ queue = <<>> =>
        \A e \in Entities : readModel[e] = 1..Count[e]

------------------------------------------------------------------------------
(* The inductive invariant behind ResumesWithoutGap: what a worker read from *)
(* a cursor stays true of the backend, and it works on an entity.            *)

WorkerResumes ==
    \A w \in Workers :
        /\ pc[w] # "idle" => held[w] # <<>>
        /\ pc[w] \in {"posting", "advancing"} => PagesBefore(Entity(w), page[w])
        /\ pc[w] = "posting" => page[w] > 0 /\ chunk[w] \subseteq Fetched(Entity(w), page[w])
        /\ pc[w] = "advancing" => Ingested(Entity(w), page[w])

\* A chunk that was got short is one of a page that a cursor had reached.
CutIsReached == \A e \in Entities : PagesBefore(e, cut[e])

IInv == TypeOK /\ ResumesWithoutGap /\ WorkerResumes /\ CutIsReached

\* What LeftQueueMeansIngested needs besides: while no start overlaps, there is
\* one hook or one worker, and the worker's copy of the queue is the queue ...
OneAtATime ==
    ~overlapped =>
        /\ starting # "no" => Quiet
        /\ due <= 1
        /\ \A w \in Busy : due = 0 /\ Busy = {w} /\ held[w] = queue

\* ... and a worker about to take an entity from the queue is done with it, or
\* was told there is no more.
EntityIsDone ==
    \A w \in Workers : ~overlapped /\ pc[w] \in {"clearing", "popping"} =>
        EveryPage(Entity(w)) \/ cut[Entity(w)] > 0

------------------------------------------------------------------------------
\* A sync comes to its end, the queue becomes empty, once nothing starts it anew
\* and unless a process dies: failed requests and overlapping workers delay it,
\* they do not stop it (under FairSpec).
SyncFinishes ==
    ([](crashes = 0) /\ <>[][\A kind \in Kinds : ~StartReset(kind)]_vars)
        => (lastStart # "never" ~> queue = <<>>)
==============================================================================
