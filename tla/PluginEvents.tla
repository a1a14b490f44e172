---------------------------- MODULE PluginEvents ----------------------------
(***************************************************************************)
(* The WordPress plugin's event queue and its delivery to /plugin/events.  *)
(*                                                                         *)
(* Shop requests append events to one WordPress option; a scheduled hook   *)
(* posts the newest ones to the backend and removes them once the backend  *)
(* has answered 2xx.  Each of these is a PHP process that reads the option *)
(* and writes it back later.  Without a persistent object cache get_option *)
(* reads the database once per process and answers from memory afterwards. *)
(* The backend's handler runs on when the plugin has stopped waiting.      *)
(*                                                                         *)
(* Events are numbered as they happen.  The nonce of a request is fresh on *)
(* every attempt, so it never stops one here.                              *)
(***************************************************************************)
EXTENDS Naturals, Sequences, FiniteSets, Functions

CONSTANTS
    MaxEvents,      \* bound on the events that happen
    Keys, KeyOf,    \* idempotency key of each event
    MaxQueue, MaxBatch,
    Shoppers,       \* shop requests that may capture events at once
    Deliverers,     \* PHP processes that may run the delivery hook at once
    Handlers,       \* backend requests that may be in flight at once
    MaxFailures,    \* bound on deliveries that fail
    NoHandler

Events == 1..MaxEvents

ASSUME PluginEventsAssumption ==
    /\ MaxEvents \in Nat
    /\ KeyOf \in [Events -> Keys]
    /\ MaxQueue \in Nat \ {0}
    /\ MaxBatch \in Nat \ {0}
    /\ MaxFailures \in Nat
    /\ NoHandler \notin Handlers

VARIABLES
    sharedCache,    \* whether the site has a persistent object cache
    captured,       \* number of events that happened so far
    queue,          \* option wcos_event_queue, oldest first
    dropped,        \* events cut by the cap or cleared by the administrator
    due,            \* delivery hooks scheduled and not yet run
    shopper,        \* event each shop request appends, and the queue it read
    pc, seen, batch, \* of each deliverer: where it is, its copy of the queue,
                    \* and the events it sends or has still to remove
    waitsFor,       \* backend request a deliverer waits for
    handler,        \* of each backend request: state, events, next
    recorded,       \* keys in the plugin_event table
    failures

shop == <<captured, shopper>>
deliverer == <<pc, seen, batch, waitsFor>>
backend == <<handler, recorded>>
vars == <<sharedCache, shop, queue, dropped, due, deliverer, backend, failures>>

EventsOf(s) == {s[i] : i \in DOMAIN s}
NoEvent == [event |-> 0, read |-> <<>>]
NoRequest == [at |-> "idle", events |-> <<>>, next |-> 1]

TypeOK ==
    /\ sharedCache \in BOOLEAN
    /\ captured \in 0..MaxEvents
    /\ queue \in Seq(Events) /\ Len(queue) <= MaxQueue
    /\ dropped \subseteq Events
    /\ due \in Nat
    /\ shopper \in [Shoppers -> [event : 0..MaxEvents, read : Seq(Events)]]
    /\ pc \in [Deliverers -> {"idle", "waiting", "removing"}]
    /\ seen \in [Deliverers -> Seq(Events)]
    /\ batch \in [Deliverers -> Seq(Events)]
    /\ waitsFor \in [Deliverers -> Handlers \cup {NoHandler}]
    /\ handler \in [Handlers -> [at : {"idle", "ingesting", "answering"},
                                 events : Seq(Events), next : Nat]]
    /\ recorded \subseteq Keys
    /\ failures \in 0..MaxFailures

Init ==
    /\ sharedCache \in BOOLEAN
    /\ captured = 0
    /\ queue = <<>>
    /\ dropped = {}
    /\ due = 0
    /\ shopper = [s \in Shoppers |-> NoEvent]
    /\ pc = [d \in Deliverers |-> "idle"]
    /\ seen = [d \in Deliverers |-> <<>>]
    /\ batch = [d \in Deliverers |-> <<>>]
    /\ waitsFor = [d \in Deliverers |-> NoHandler]
    /\ handler = [h \in Handlers |-> NoRequest]
    /\ recorded = {}
    /\ failures = 0

------------------------------------------------------------------------------
(* add_event: read the option, append, cut to the newest MaxQueue, write. *)

CaptureRead(s) ==
    /\ shopper[s] = NoEvent
    /\ captured < MaxEvents
    /\ captured' = captured + 1
    /\ shopper' = [shopper EXCEPT ![s] = [event |-> captured + 1, read |-> queue]]
    /\ UNCHANGED <<sharedCache, queue, dropped, due, deliverer, backend, failures>>

Newest(s, n) == SubSeq(s, IF Len(s) > n THEN Len(s) - n + 1 ELSE 1, Len(s))

\* Slip: the cap is checked before the event is appended.
Capped_before(s, e) == Append(Newest(s, MaxQueue), e)

Capped(s, e) == Newest(Append(s, e), MaxQueue)

\* Action Scheduler keeps every hook, WordPress drops one like a hook that is
\* already scheduled.
Schedule ==
    \/ due' = due + 1
    \/ /\ due > 0
       /\ due' = due

CaptureWrite(s) ==
    LET e == shopper[s].event
    IN  /\ e # 0
        /\ queue' = Capped(shopper[s].read, e)
        /\ dropped' = dropped \cup (EventsOf(shopper[s].read) \ EventsOf(queue'))
        /\ shopper' = [shopper EXCEPT ![s] = NoEvent]
        /\ Schedule
        /\ UNCHANGED <<sharedCache, captured, deliverer, backend, failures>>

ClearEvents ==
    /\ queue # <<>>
    /\ queue' = <<>>
    /\ dropped' = dropped \cup EventsOf(queue)
    /\ UNCHANGED <<sharedCache, shop, due, deliverer, backend, failures>>

------------------------------------------------------------------------------
(* deliver_pending_events: the newest MaxBatch events, newest first. *)

BatchOf(s) ==
    LET n == IF Len(s) < MaxBatch THEN Len(s) ELSE MaxBatch
    IN  [i \in 1..n |-> s[Len(s) + 1 - i]]

DeliverNothing(d) ==
    /\ pc[d] = "idle"
    /\ due > 0
    /\ queue = <<>>
    /\ due' = due - 1
    /\ UNCHANGED <<sharedCache, shop, queue, dropped, deliverer, backend, failures>>

DeliverBatch(d, h) ==
    /\ pc[d] = "idle"
    /\ due > 0
    /\ queue # <<>>
    /\ handler[h] = NoRequest
    /\ due' = due - 1
    /\ pc' = [pc EXCEPT ![d] = "waiting"]
    /\ seen' = [seen EXCEPT ![d] = queue]
    /\ batch' = [batch EXCEPT ![d] = BatchOf(queue)]
    /\ waitsFor' = [waitsFor EXCEPT ![d] = h]
    /\ handler' = [handler EXCEPT ![h] = [NoRequest EXCEPT !.at = "ingesting",
                                                           !.events = BatchOf(queue)]]
    /\ UNCHANGED <<sharedCache, shop, queue, dropped, recorded, failures>>

\* The queue as the deliverer's process sees it: the copy it read before its
\* request, or with a shared cache the current one.
Copy(d) == IF sharedCache THEN queue ELSE seen[d]

\* Slip: the test is the wrong way round.
ScheduleUnlessEmpty_inverted(q) == IF q # <<>> THEN UNCHANGED due ELSE Schedule

ScheduleUnlessEmpty(q) == IF q = <<>> THEN UNCHANGED due ELSE Schedule

Release(d) ==
    /\ pc' = [pc EXCEPT ![d] = "idle"]
    /\ seen' = [seen EXCEPT ![d] = <<>>]
    /\ batch' = [batch EXCEPT ![d] = <<>>]
    /\ waitsFor' = [waitsFor EXCEPT ![d] = NoHandler]

\* Slip: a batch that failed is put back although it never left the queue.
PostFails_requeues(d, dies) ==
    /\ pc[d] = "waiting"
    /\ failures < MaxFailures
    /\ failures' = failures + 1
    /\ queue' = Newest(queue \o batch[d], MaxQueue)
    /\ ScheduleUnlessEmpty(Copy(d))
    /\ Release(d)
    /\ UNCHANGED <<sharedCache, shop, dropped, backend>>

\* The plugin gives up on its request, which may go on or be over; the batch
\* stays queued and a later run is scheduled.
PostFails(d, dies) ==
    /\ pc[d] = "waiting"
    /\ failures < MaxFailures
    /\ failures' = failures + 1
    /\ handler' = IF dies THEN [handler EXCEPT ![waitsFor[d]] = NoRequest] ELSE handler
    /\ ScheduleUnlessEmpty(Copy(d))
    /\ Release(d)
    /\ UNCHANGED <<sharedCache, shop, queue, dropped, recorded>>

\* What stays of s without e, in its order: the sets below have one element.
Orders(places) ==
    {at \in Bijection(1..Cardinality(places), places) :
        \A i, j \in DOMAIN at : i < j => at[i] < at[j]}
Without(s, e) ==
    {[i \in DOMAIN at |-> s[at[i]]] : at \in Orders({i \in DOMAIN s : s[i] # e})}

\* The events are removed one by one, each time from the process's copy.
\* (The instant between that read and its write is left out.)
Removed(d) == Without(Copy(d), Head(batch[d]))

RemoveEvent(d) ==
    /\ pc[d] = "removing"
    /\ Len(batch[d]) > 1
    /\ queue' \in Removed(d)
    /\ seen' = [seen EXCEPT ![d] = queue']
    /\ batch' = [batch EXCEPT ![d] = Tail(@)]
    /\ UNCHANGED <<sharedCache, shop, dropped, due, pc, waitsFor, backend, failures>>

RemoveLast(d) ==
    /\ pc[d] = "removing"
    /\ Len(batch[d]) = 1
    /\ queue' \in Removed(d)
    /\ ScheduleUnlessEmpty(queue')
    /\ Release(d)
    /\ UNCHANGED <<sharedCache, shop, dropped, backend, failures>>

------------------------------------------------------------------------------
(* POST /plugin/events. *)

\* Slip: an event that is known already ends the loop.
IngestEvent_stopsAtKnown(h) ==
    LET r == handler[h]
        key == KeyOf[r.events[r.next]]
        last == r.next = Len(r.events) \/ key \in recorded
    IN  /\ r.at = "ingesting"
        /\ handler' = [handler EXCEPT ![h].at = IF last THEN "answering" ELSE @,
                                      ![h].next = @ + 1]
        /\ recorded' = recorded \cup {key}
        /\ UNCHANGED <<sharedCache, shop, queue, dropped, due, deliverer, failures>>

\* INSERT .. ON CONFLICT DO NOTHING, event by event.  The audit rows that
\* follow the last one are left out.
IngestEvent(h) ==
    LET r == handler[h]
        last == r.next = Len(r.events)
    IN  /\ r.at = "ingesting"
        /\ recorded' = recorded \cup {KeyOf[r.events[r.next]]}
        /\ handler' = [handler EXCEPT ![h].at = IF last THEN "answering" ELSE @,
                                      ![h].next = @ + 1]
        /\ UNCHANGED <<sharedCache, shop, queue, dropped, due, deliverer, failures>>

\* The 2xx answer reaches the deliverer that still waits for it, if any.
Answer(h) ==
    /\ handler[h].at = "answering"
    /\ handler' = [handler EXCEPT ![h] = NoRequest]
    /\ pc' = [d \in Deliverers |-> IF waitsFor[d] = h THEN "removing" ELSE pc[d]]
    /\ waitsFor' = [d \in Deliverers |-> IF waitsFor[d] = h THEN NoHandler ELSE waitsFor[d]]
    /\ UNCHANGED <<sharedCache, shop, queue, dropped, due, seen, batch, recorded, failures>>

------------------------------------------------------------------------------
Deliver(d) ==
    \/ DeliverNothing(d)
    \/ \E h \in Handlers : DeliverBatch(d, h)
    \/ RemoveEvent(d)
    \/ RemoveLast(d)

Serve(h) == IngestEvent(h) \/ Answer(h)

Next ==
    \/ \E s \in Shoppers : CaptureRead(s) \/ CaptureWrite(s)
    \/ ClearEvents
    \/ \E d \in Deliverers : Deliver(d) \/ \E dies \in BOOLEAN : PostFails(d, dies)
    \/ \E h \in Handlers : Serve(h)

Spec == Init /\ [][Next]_vars

\* A scheduled hook is run, and PHP processes and backend requests go on.
Fairness ==
    /\ \A s \in Shoppers : WF_vars(CaptureWrite(s))
    /\ \A d \in Deliverers : WF_vars(Deliver(d))
    /\ \A h \in Handlers : WF_vars(Serve(h))
FairSpec == Spec /\ Fairness

------------------------------------------------------------------------------
(* Safety. *)

\* An event is taken out of the queue as delivered only when its key is on
\* record, whatever answers were lost and requests orphaned ("delivered events
\* are removed from the local queue", class-wcos-event-deliverer.php).
RemovedIsRecorded ==
    \A d \in Deliverers :
        pc[d] = "removing" => \A e \in EventsOf(batch[d]) : KeyOf[e] \in recorded

\* An event waits in the queue once: neither a retry nor a process writing back
\* an old copy of the option duplicates it.
Once(s) == \A i, j \in DOMAIN s : s[i] = s[j] => i = j
QueuedOnce == Once(queue)

\* An event that happened is being captured, waits in the queue, was cut or
\* cleared, or is on record: the bridge pushes the store's change events
\* (DEPLOYMENT.md).
NoEventLost ==
    \A e \in 1..captured :
        \/ \E s \in Shoppers : shopper[s].event = e
        \/ e \in EventsOf(queue)
        \/ e \in dropped
        \/ KeyOf[e] \in recorded

------------------------------------------------------------------------------
(* The inductive invariant behind the first two. *)

\* A copy of the queue is like the queue, and older than what its holder adds.
CopiesAreQueues ==
    /\ \A e \in EventsOf(queue) : e <= captured
    /\ \A d \in Deliverers :
          /\ Once(seen[d]) /\ Len(seen[d]) <= MaxQueue
          /\ \A e \in EventsOf(seen[d]) : e <= captured
    /\ \A s \in Shoppers :
          /\ Once(shopper[s].read) /\ shopper[s].event <= captured
          /\ \A e \in EventsOf(shopper[s].read) : e < shopper[s].event

\* A deliverer waits for a request of its own, which has its batch.
WaitsForItsOwn ==
    \A d \in Deliverers :
        /\ pc[d] = "waiting" <=> waitsFor[d] # NoHandler
        /\ pc[d] = "waiting" => /\ handler[waitsFor[d]].at # "idle"
                               /\ handler[waitsFor[d]].events = batch[d]
                               /\ \A other \in Deliverers :
                                     waitsFor[other] = waitsFor[d] => other = d

\* The backend has the events it has gone through on record, and stops after
\* the last one.
IngestedIsRecorded ==
    \A h \in Handlers :
        LET r == handler[h]
        IN  /\ r.at = "ingesting" => r.next \in DOMAIN r.events
            /\ r.at = "answering" => r.next = Len(r.events) + 1
            /\ r.at # "idle" =>
                  \A i \in DOMAIN r.events : i < r.next => KeyOf[r.events[i]] \in recorded

IInv ==
    /\ TypeOK /\ QueuedOnce /\ CopiesAreQueues
    /\ WaitsForItsOwn /\ IngestedIsRecorded /\ RemovedIsRecorded

------------------------------------------------------------------------------
\* An event that waits in the queue leaves it, failed deliveries or not.
QueueDrains ==
    \A e \in Events : e \in EventsOf(queue) ~> e \notin EventsOf(queue)
==============================================================================
