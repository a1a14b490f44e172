------------------------- MODULE PluginEventsProofs -------------------------
(***************************************************************************)
(* The event queue of the plugin, for any caps, any number of shop         *)
(* requests, delivery hooks and backend requests, and any keys.            *)
(*                                                                         *)
(* Every writer of the option writes back what it read before, so what the *)
(* queue is at any time is one of the copies: the invariant speaks of the  *)
(* copies.  And a deliverer removes its batch on the word of a request, so *)
(* the invariant ties the batch to the request it waits for.               *)
(***************************************************************************)
EXTENDS PluginEvents, Integers, FiniteSetTheorems, SequenceTheorems, TLAPS

------------------------------------------------------------------------------
(* Sequences of events. *)

LEMMA SeqOfFunction ==
    ASSUME NEW S, NEW n \in Nat, NEW f \in [1..n -> S]
    PROVE  f \in Seq(S) /\ Len(f) = n /\ DOMAIN f = 1..n
  OBVIOUS

\* The end of a sequence, from place m on.
LEMMA EndOf ==
    ASSUME NEW s \in Seq(Events), NEW m \in 1..(Len(s) + 1)
    PROVE  LET t == SubSeq(s, m, Len(s))
           IN  /\ t \in Seq(Events) /\ Len(t) = Len(s) - m + 1
               /\ \A i \in DOMAIN t : m + i - 1 \in DOMAIN s /\ t[i] = s[m + i - 1]
               /\ EventsOf(t) \subseteq EventsOf(s)
               /\ Once(s) => Once(t)
<1> DEFINE t == SubSeq(s, m, Len(s))
<1>1. Len(s) \in Nat /\ DOMAIN s = 1..Len(s) /\ m \in Int /\ m >= 1 /\ m <= Len(s) + 1
  OBVIOUS
<1>2. \A i \in m..Len(s) : s[i] \in Events
  BY <1>1
<1>3. /\ t \in Seq(Events) /\ Len(t) = IF m <= Len(s) THEN Len(s) - m + 1 ELSE 0
      /\ \A i \in 1..(Len(s) - m + 1) : t[i] = s[m + i - 1]
  BY <1>1, <1>2, SubSeqProperties
<1>4. Len(t) = Len(s) - m + 1
  BY <1>1, <1>3
<1>5. DOMAIN t = 1..(Len(s) - m + 1)
  BY <1>3, <1>4
<1> HIDE DEF t
<1>6. \A i \in DOMAIN t : m + i - 1 \in DOMAIN s /\ t[i] = s[m + i - 1]
  BY <1>1, <1>3, <1>5
<1>7. EventsOf(t) \subseteq EventsOf(s)
  BY <1>6 DEF EventsOf
<1>8. Once(s) => Once(t)
  <2> SUFFICES ASSUME Once(s), NEW i \in DOMAIN t, NEW j \in DOMAIN t, t[i] = t[j]
               PROVE  i = j
    BY DEF Once
  <2>1. m + i - 1 = m + j - 1
    BY <1>6 DEF Once
  <2>2. QED
    BY <1>1, <1>5, <2>1
<1>9. QED
  BY <1>3, <1>4, <1>6, <1>7, <1>8 DEF t

\* The newest n of a sequence.
LEMMA NewestOf ==
    ASSUME NEW s \in Seq(Events), NEW n \in Nat \ {0}
    PROVE  /\ Newest(s, n) \in Seq(Events) /\ Len(Newest(s, n)) <= n
           /\ EventsOf(Newest(s, n)) \subseteq EventsOf(s)
           /\ Once(s) => Once(Newest(s, n))
<1>1. Len(s) \in Nat
  OBVIOUS
<1>2. CASE Len(s) > n
  <2>1. Len(s) - n + 1 \in 1..(Len(s) + 1) /\ Len(s) - (Len(s) - n + 1) + 1 = n
    BY <1>1, <1>2
  <2>2. Newest(s, n) = SubSeq(s, Len(s) - n + 1, Len(s))
    BY <1>2 DEF Newest
  <2>3. QED
    BY <2>1, <2>2, EndOf
<1>3. CASE ~(Len(s) > n)
  <2>1. 1 \in 1..(Len(s) + 1) /\ Len(s) - 1 + 1 <= n
    BY <1>1, <1>3
  <2>2. Newest(s, n) = SubSeq(s, 1, Len(s))
    BY <1>3 DEF Newest
  <2>3. QED
    BY <2>1, <2>2, EndOf
<1>4. QED
  BY <1>2, <1>3

LEMMA AppendOf ==
    ASSUME NEW s \in Seq(Events), NEW e \in Events
    PROVE  /\ Append(s, e) \in Seq(Events)
           /\ EventsOf(Append(s, e)) = EventsOf(s) \cup {e}
           /\ Once(s) /\ e \notin EventsOf(s) => Once(Append(s, e))
<1>1. /\ Append(s, e) \in Seq(Events)
      /\ DOMAIN Append(s, e) = 1..(Len(s) + 1) /\ DOMAIN s = 1..Len(s) /\ Len(s) \in Nat
      /\ \A i \in 1..Len(s) : Append(s, e)[i] = s[i]
      /\ Append(s, e)[Len(s) + 1] = e
  BY AppendProperties
<1>2. EventsOf(Append(s, e)) = EventsOf(s) \cup {e}
  BY <1>1 DEF EventsOf
<1>3. Once(s) /\ e \notin EventsOf(s) => Once(Append(s, e))
  BY <1>1 DEF Once, EventsOf
<1>4. QED
  BY <1>1, <1>2, <1>3

\* A sequence without one of its events.
LEMMA WithoutOf ==
    ASSUME NEW s \in Seq(Events), NEW e, NEW t \in Without(s, e)
    PROVE  /\ t \in Seq(Events) /\ Len(t) <= Len(s)
           /\ EventsOf(t) \subseteq EventsOf(s)
           /\ Once(s) => Once(t)
<1> DEFINE places == {i \in DOMAIN s : s[i] # e}
           n == Cardinality(places)
<1>1. PICK at \in Orders(places) : t = [i \in DOMAIN at |-> s[at[i]]]
  BY DEF Without
<1>2. DOMAIN s = 1..Len(s) /\ Len(s) \in Nat
  OBVIOUS
<1>3. IsFiniteSet(1..Len(s)) /\ Cardinality(1..Len(s)) = Len(s)
  BY <1>2, FS_Interval
<1>4. n \in Nat /\ n <= Len(s)
  BY <1>2, <1>3, FS_Subset, FS_CardinalityType
<1>5. at \in [1..n -> places] /\ \A i, j \in DOMAIN at : i < j => at[i] < at[j]
  BY <1>1 DEF Orders, Bijection, Injection
<1>6. t \in [1..n -> Events]
  BY <1>1, <1>2, <1>5
<1>7. t \in Seq(Events) /\ Len(t) = n /\ DOMAIN t = 1..n
  BY <1>4, <1>6, SeqOfFunction
<1>8. \A i \in DOMAIN t : at[i] \in DOMAIN s /\ t[i] = s[at[i]]
  BY <1>1, <1>5, <1>7
<1>9. EventsOf(t) \subseteq EventsOf(s)
  BY <1>8 DEF EventsOf
<1>10. Once(s) => Once(t)
  <2> SUFFICES ASSUME Once(s), NEW i \in DOMAIN t, NEW j \in DOMAIN t, t[i] = t[j]
               PROVE  i = j
    BY DEF Once
  <2>1. at[i] = at[j] /\ at[i] \in Nat /\ at[j] \in Nat
    BY <1>2, <1>8 DEF Once
  <2>2. ~(i < j) /\ ~(j < i)
    BY <1>5, <1>7, <2>1
  <2>3. QED
    BY <1>4, <1>7, <2>2
<1>11. QED
  BY <1>4, <1>7, <1>9, <1>10

LEMMA BatchIs ==
    ASSUME NEW s \in Seq(Events), s # <<>>
    PROVE  BatchOf(s) \in Seq(Events) /\ 1 \in DOMAIN BatchOf(s)
<1> DEFINE n == IF Len(s) < MaxBatch THEN Len(s) ELSE MaxBatch
<1>1. Len(s) \in Nat /\ Len(s) # 0 /\ DOMAIN s = 1..Len(s)
  OBVIOUS
<1>2. n \in Nat /\ n >= 1 /\ n <= Len(s)
  BY <1>1, PluginEventsAssumption
<1>3. BatchOf(s) = [i \in 1..n |-> s[Len(s) + 1 - i]]
  BY DEF BatchOf
<1>4. \A i \in 1..n : s[Len(s) + 1 - i] \in Events
  BY <1>1, <1>2
<1>5. BatchOf(s) \in [1..n -> Events]
  BY <1>3, <1>4
<1>6. QED
  BY <1>2, <1>5, SeqOfFunction

------------------------------------------------------------------------------
(* The queue and its copies. *)

\* What every copy of the queue is when the first n events have happened.
QueueUpTo(q, n) ==
    /\ q \in Seq(Events) /\ Len(q) <= MaxQueue
    /\ Once(q) /\ \A e \in EventsOf(q) : e <= n

Copies == TypeOK /\ QueuedOnce /\ CopiesAreQueues

LEMMA EmptyQueue ==
    ASSUME NEW n
    PROVE  QueueUpTo(<<>>, n)
<1>1. <<>> \in Seq(Events) /\ Len(<<>>) <= MaxQueue /\ DOMAIN <<>> = {}
  BY PluginEventsAssumption
<1>2. QED
  BY <1>1 DEF QueueUpTo, Once, EventsOf

LEMMA EventsOfTyped ==
    ASSUME NEW q \in Seq(Events)
    PROVE  EventsOf(q) \subseteq Events
  BY DEF EventsOf

LEMMA CopiesAre ==
    ASSUME Copies
    PROVE  /\ QueueUpTo(queue, captured)
           /\ \A d \in Deliverers : QueueUpTo(seen[d], captured) /\ QueueUpTo(Copy(d), captured)
  BY DEF Copies, TypeOK, QueuedOnce, CopiesAreQueues, QueueUpTo, Copy

LEMMA CaptureQueue ==
    ASSUME Copies, NEW s \in Shoppers, CaptureWrite(s)
    PROVE  QueueUpTo(queue', captured)
<1> DEFINE e == shopper[s].event
           read == shopper[s].read
<1>1. /\ e \in 0..MaxEvents /\ read \in Seq(Events) /\ e # 0
      /\ Once(read) /\ e <= captured /\ \A f \in EventsOf(read) : f < e
      /\ queue' = Newest(Append(read, e), MaxQueue) /\ captured \in Nat
  BY DEF Copies, TypeOK, CopiesAreQueues, CaptureWrite, Capped
<1>2. e \in Events /\ e \notin EventsOf(read)
  BY <1>1, PluginEventsAssumption DEF Events
<1>3. /\ Append(read, e) \in Seq(Events) /\ Once(Append(read, e))
      /\ EventsOf(Append(read, e)) = EventsOf(read) \cup {e}
  BY <1>1, <1>2, AppendOf
<1>4. /\ queue' \in Seq(Events) /\ Len(queue') <= MaxQueue /\ Once(queue')
      /\ EventsOf(queue') \subseteq EventsOf(read) \cup {e}
  BY <1>1, <1>3, NewestOf, PluginEventsAssumption
<1>5. \A f \in EventsOf(read) \cup {e} : f <= captured
  <2>1. EventsOf(read) \subseteq Nat
    BY <1>1, EventsOfTyped DEF Events
  <2>2. QED
    BY <1>1, <2>1
<1>6. QED
  BY <1>4, <1>5 DEF QueueUpTo

LEMMA RemovedQueue ==
    ASSUME Copies, NEW d \in Deliverers, queue' \in Removed(d)
    PROVE  QueueUpTo(queue', captured)
<1>1. QueueUpTo(Copy(d), captured)
  BY CopiesAre
<1>2. /\ queue' \in Seq(Events) /\ Len(queue') <= Len(Copy(d))
      /\ EventsOf(queue') \subseteq EventsOf(Copy(d)) /\ Once(queue')
  BY <1>1, WithoutOf DEF QueueUpTo, Removed
<1>3. Len(queue') <= MaxQueue
  <2>1. Len(queue') \in Nat /\ Len(Copy(d)) \in Nat /\ Len(Copy(d)) <= MaxQueue
    BY <1>1, <1>2 DEF QueueUpTo
  <2>2. QED
    BY <1>2, <2>1, PluginEventsAssumption
<1>4. QED
  BY <1>1, <1>2, <1>3 DEF QueueUpTo

LEMMA QueueStays ==
    ASSUME Copies, [Next]_vars
    PROVE  /\ QueueUpTo(queue', captured')
           /\ captured' \in 0..MaxEvents /\ captured <= captured'
<1>1. captured' \in 0..MaxEvents /\ captured <= captured'
  <2>1. captured \in 0..MaxEvents
    BY DEF Copies, TypeOK
  <2>2. ASSUME NEW s \in Shoppers, CaptureRead(s)
        PROVE  captured' \in 0..MaxEvents /\ captured <= captured'
    <3>1. captured' = captured + 1 /\ captured < MaxEvents
      BY <2>2 DEF CaptureRead
    <3>2. QED
      BY <2>1, <3>1, PluginEventsAssumption
  <2>3. CASE captured' = captured
    BY <2>1, <2>3
  <2>4. captured' = captured \/ \E s \in Shoppers : CaptureRead(s)
    BY DEF Next, vars, shop, Deliver, Serve, CaptureWrite, ClearEvents, DeliverNothing,
           DeliverBatch, RemoveEvent, RemoveLast, PostFails, IngestEvent, Answer
  <2>5. QED
    BY <2>2, <2>3, <2>4
<1>2. QueueUpTo(queue', captured)
  <2>1. ASSUME NEW s \in Shoppers, CaptureWrite(s) PROVE QueueUpTo(queue', captured)
    BY <2>1, CaptureQueue
  <2>2. CASE ClearEvents
    BY <2>2, EmptyQueue DEF ClearEvents
  <2>3. ASSUME NEW d \in Deliverers, RemoveEvent(d) \/ RemoveLast(d)
        PROVE  QueueUpTo(queue', captured)
    BY <2>3, RemovedQueue DEF RemoveEvent, RemoveLast
  <2>4. CASE queue' = queue
    BY <2>4, CopiesAre
  <2>5. \/ \E s \in Shoppers : CaptureWrite(s)
        \/ ClearEvents
        \/ \E d \in Deliverers : RemoveEvent(d) \/ RemoveLast(d)
        \/ queue' = queue
    BY DEF Next, vars, Deliver, Serve, CaptureRead, DeliverNothing, DeliverBatch, PostFails,
           IngestEvent, Answer
  <2>6. QED
    BY <2>1, <2>2, <2>3, <2>4, <2>5
<1>3. QED
  <2>1. \A e \in EventsOf(queue') : e \in Nat
    BY <1>2, EventsOfTyped DEF QueueUpTo, Events
  <2>2. captured \in Nat /\ captured' \in Nat
    BY <1>1 DEF Copies, TypeOK
  <2>3. \A e \in EventsOf(queue') : e <= captured'
    BY <1>1, <1>2, <2>1, <2>2 DEF QueueUpTo
  <2>4. QED
    BY <1>1, <1>2, <2>3 DEF QueueUpTo

LEMMA QueuedOnceStays ==
    ASSUME Copies, [Next]_vars
    PROVE  QueuedOnce'
  BY QueueStays DEF QueueUpTo, QueuedOnce, Once

\* The copy of a deliverer.
LEMMA SeenStays ==
    ASSUME Copies, [Next]_vars
    PROVE  /\ seen' \in [Deliverers -> Seq(Events)]
           /\ \A d \in Deliverers : QueueUpTo(seen'[d], captured')
<1>1. /\ seen \in [Deliverers -> Seq(Events)]
      /\ \A d \in Deliverers : QueueUpTo(seen[d], captured')
  <2>1. ASSUME NEW d \in Deliverers PROVE QueueUpTo(seen[d], captured')
    <3>1. QueueUpTo(seen[d], captured)
      BY CopiesAre
    <3>2. \A e \in EventsOf(seen[d]) : e \in Nat
      BY <3>1, EventsOfTyped DEF QueueUpTo, Events
    <3>3. captured \in Nat /\ captured' \in Nat /\ captured <= captured'
      BY QueueStays DEF Copies, TypeOK
    <3>4. QED
      BY <3>1, <3>2, <3>3 DEF QueueUpTo
  <2>2. QED
    BY <2>1 DEF Copies, TypeOK
<1>2. ASSUME NEW d \in Deliverers, NEW q, seen' = [seen EXCEPT ![d] = q],
             QueueUpTo(q, captured')
      PROVE  /\ seen' \in [Deliverers -> Seq(Events)]
             /\ \A other \in Deliverers : QueueUpTo(seen'[other], captured')
  BY <1>1, <1>2 DEF QueueUpTo
<1>3. CASE seen' = seen
  BY <1>1, <1>3
<1>4. ASSUME NEW d \in Deliverers, NEW h \in Handlers, DeliverBatch(d, h)
      PROVE  seen' = [seen EXCEPT ![d] = queue'] /\ QueueUpTo(queue', captured')
  BY <1>4, QueueStays DEF DeliverBatch
<1>5. ASSUME NEW d \in Deliverers, RemoveEvent(d)
      PROVE  seen' = [seen EXCEPT ![d] = queue'] /\ QueueUpTo(queue', captured')
  BY <1>5, QueueStays DEF RemoveEvent
<1>6. ASSUME NEW d \in Deliverers, RemoveLast(d) \/ \E dies \in BOOLEAN : PostFails(d, dies)
      PROVE  seen' = [seen EXCEPT ![d] = <<>>] /\ QueueUpTo(<<>>, captured')
  BY <1>6, EmptyQueue DEF RemoveLast, PostFails, Release
<1>7. \/ seen' = seen
      \/ \E d \in Deliverers : \/ \E h \in Handlers : DeliverBatch(d, h)
                              \/ RemoveEvent(d) \/ RemoveLast(d)
                              \/ \E dies \in BOOLEAN : PostFails(d, dies)
  BY DEF Next, vars, deliverer, Deliver, Serve, CaptureRead, CaptureWrite, ClearEvents,
         DeliverNothing, IngestEvent, Answer
<1>8. QED
  BY <1>2, <1>3, <1>4, <1>5, <1>6, <1>7

\* The copy of a shop request.
ShopperUpTo(r, n) ==
    /\ r \in [event : 0..MaxEvents, read : Seq(Events)]
    /\ Once(r.read) /\ r.event <= n
    /\ \A e \in EventsOf(r.read) : e < r.event

LEMMA ShopperStays ==
    ASSUME Copies, [Next]_vars
    PROVE  /\ shopper' \in [Shoppers -> [event : 0..MaxEvents, read : Seq(Events)]]
           /\ \A s \in Shoppers : ShopperUpTo(shopper'[s], captured')
<1>1. /\ captured \in Nat /\ captured' \in Nat /\ captured <= captured'
      /\ captured' \in 0..MaxEvents
  BY QueueStays DEF Copies, TypeOK
<1>2. \A s \in Shoppers : ShopperUpTo(shopper[s], captured')
  <2> SUFFICES ASSUME NEW s \in Shoppers PROVE ShopperUpTo(shopper[s], captured')
    OBVIOUS
  <2>1. /\ shopper[s] \in [event : 0..MaxEvents, read : Seq(Events)] /\ Once(shopper[s].read)
        /\ shopper[s].event <= captured
        /\ \A e \in EventsOf(shopper[s].read) : e < shopper[s].event
    BY DEF Copies, TypeOK, CopiesAreQueues
  <2>2. shopper[s].event \in Nat
    BY <2>1
  <2>3. shopper[s].event <= captured'
    BY <1>1, <2>1, <2>2
  <2>4. QED
    BY <2>1, <2>3 DEF ShopperUpTo
<1>3. ASSUME NEW s \in Shoppers, NEW r, shopper' = [shopper EXCEPT ![s] = r],
             ShopperUpTo(r, captured')
      PROVE  /\ shopper' \in [Shoppers -> [event : 0..MaxEvents, read : Seq(Events)]]
             /\ \A other \in Shoppers : ShopperUpTo(shopper'[other], captured')
  BY <1>2, <1>3 DEF ShopperUpTo, Copies, TypeOK
<1>4. CASE shopper' = shopper
  BY <1>2, <1>4 DEF Copies, TypeOK
<1>5. ASSUME NEW s \in Shoppers, CaptureRead(s)
      PROVE  /\ shopper' = [shopper EXCEPT ![s] = [event |-> captured + 1, read |-> queue]]
             /\ ShopperUpTo([event |-> captured + 1, read |-> queue], captured')
  <2>1. captured' = captured + 1
    BY <1>5 DEF CaptureRead
  <2>2. QueueUpTo(queue, captured)
    BY CopiesAre
  <2>3. \A e \in EventsOf(queue) : e < captured + 1
    <3>1. \A e \in EventsOf(queue) : e \in Nat /\ e <= captured
      BY <2>2, EventsOfTyped DEF QueueUpTo, Events
    <3>2. QED
      BY <1>1, <3>1
  <2>4. ShopperUpTo([event |-> captured + 1, read |-> queue], captured')
    BY <1>1, <2>1, <2>2, <2>3 DEF ShopperUpTo, QueueUpTo
  <2>5. QED
    BY <1>5, <2>4 DEF CaptureRead
<1>6. ASSUME NEW s \in Shoppers, CaptureWrite(s)
      PROVE  shopper' = [shopper EXCEPT ![s] = NoEvent] /\ ShopperUpTo(NoEvent, captured')
  <2>1. QueueUpTo(<<>>, captured')
    BY EmptyQueue
  <2>2. NoEvent \in [event : 0..MaxEvents, read : Seq(Events)] /\ NoEvent.event <= captured'
    BY <1>1, PluginEventsAssumption DEF NoEvent
  <2>3. NoEvent.read = <<>> /\ EventsOf(<<>>) = {}
    BY DEF NoEvent, EventsOf
  <2>4. QED
    BY <1>6, <2>1, <2>2, <2>3 DEF CaptureWrite, ShopperUpTo, QueueUpTo
<1>7. shopper' = shopper \/ \E s \in Shoppers : CaptureRead(s) \/ CaptureWrite(s)
  BY DEF Next, vars, shop, Deliver, Serve, ClearEvents, DeliverNothing, DeliverBatch, RemoveEvent,
         RemoveLast, PostFails, IngestEvent, Answer
<1>8. QED
  BY <1>3, <1>4, <1>5, <1>6, <1>7

LEMMA CopiesStay ==
    ASSUME Copies, [Next]_vars
    PROVE  CopiesAreQueues'
  BY QueueStays, SeenStays, ShopperStays DEF CopiesAreQueues, QueueUpTo, ShopperUpTo, Once, EventsOf

------------------------------------------------------------------------------
(* The backend's requests. *)

Request == [at : {"idle", "ingesting", "answering"}, events : Seq(Events), next : Nat]

\* A request has on record what it has gone through.
RequestIs(r, keys) ==
    /\ r \in Request
    /\ r.at = "ingesting" => r.next \in DOMAIN r.events
    /\ r.at = "answering" => r.next = Len(r.events) + 1
    /\ r.at # "idle" => \A i \in DOMAIN r.events : i < r.next => KeyOf[r.events[i]] \in keys

LEMMA RequestUpdates ==
    ASSUME NEW r \in Request, NEW at \in {"idle", "ingesting", "answering"},
           NEW events \in Seq(Events), NEW next \in Nat
    PROVE  [r EXCEPT !.at = at, !.events = events] \in Request
           /\ [r EXCEPT !.at = at, !.next = next] \in Request
  BY DEF Request

LEMMA NoRequestIs ==
    ASSUME NEW keys
    PROVE  RequestIs(NoRequest, keys)
<1>1. <<>> \in Seq(Events)
  OBVIOUS
<1>2. NoRequest \in Request
  BY <1>1 DEF NoRequest, Request
<1>3. NoRequest.at = "idle"
  BY DEF NoRequest
<1>4. QED
  BY <1>2, <1>3 DEF RequestIs

LEMMA NewRequestIs ==
    ASSUME NEW s \in Seq(Events), s # <<>>, NEW keys
    PROVE  LET r == [NoRequest EXCEPT !.at = "ingesting", !.events = BatchOf(s)]
           IN  RequestIs(r, keys) /\ r.at = "ingesting" /\ r.events = BatchOf(s)
<1> DEFINE r == [NoRequest EXCEPT !.at = "ingesting", !.events = BatchOf(s)]
<1>1. BatchOf(s) \in Seq(Events) /\ 1 \in DOMAIN BatchOf(s)
  BY BatchIs
<1>2. NoRequest \in Request
  BY NoRequestIs DEF RequestIs
<1>3. r \in Request
  BY <1>1, <1>2, RequestUpdates
<1>4. r.at = "ingesting" /\ r.events = BatchOf(s) /\ r.next = 1
  BY DEF NoRequest
<1>5. \A i \in DOMAIN BatchOf(s) : ~(i < 1)
  <2>1. DOMAIN BatchOf(s) = 1..Len(BatchOf(s))
    BY <1>1
  <2>2. QED
    BY <2>1
<1> HIDE DEF r
<1>6. RequestIs(r, keys)
  BY <1>1, <1>3, <1>4, <1>5 DEF RequestIs
<1>7. QED
  BY <1>4, <1>6 DEF r

\* One turn of the loop of ingestEvents.
LEMMA IngestedRequestIs ==
    ASSUME NEW r, NEW keys, RequestIs(r, keys), r.at = "ingesting",
           NEW at, at = IF r.next = Len(r.events) THEN "answering" ELSE r.at
    PROVE  LET new == [r EXCEPT !.at = at, !.next = r.next + 1]
           IN  /\ RequestIs(new, keys \cup {KeyOf[r.events[r.next]]})
               /\ new.at # "idle" /\ new.events = r.events
<1> DEFINE new == [r EXCEPT !.at = at, !.next = r.next + 1]
           more == keys \cup {KeyOf[r.events[r.next]]}
<1>1. /\ r \in Request /\ r.next \in DOMAIN r.events
      /\ \A i \in DOMAIN r.events : i < r.next => KeyOf[r.events[i]] \in keys
  BY DEF RequestIs
<1>2. r.events \in Seq(Events) /\ r.next \in Nat
  BY <1>1 DEF Request
<1>3. DOMAIN r.events = 1..Len(r.events) /\ Len(r.events) \in Nat /\ r.next + 1 \in Nat
  BY <1>2
<1>4. at \in {"ingesting", "answering"}
  OBVIOUS
<1>5. new \in Request
  BY <1>1, <1>2, <1>3, <1>4, RequestUpdates
<1>6. new.at = at /\ new.events = r.events /\ new.next = r.next + 1
  BY <1>1 DEF Request
<1>7. at = "ingesting" => r.next + 1 \in DOMAIN r.events
  BY <1>1, <1>2, <1>3
<1>8. at = "answering" => r.next + 1 = Len(r.events) + 1
  OBVIOUS
<1>9. \A i \in DOMAIN r.events : i < r.next + 1 => KeyOf[r.events[i]] \in more
  <2> SUFFICES ASSUME NEW i \in DOMAIN r.events, i < r.next + 1
               PROVE  KeyOf[r.events[i]] \in more
    OBVIOUS
  <2>1. i < r.next \/ i = r.next
    BY <1>2, <1>3
  <2>2. QED
    BY <1>1, <2>1
<1> HIDE DEF new, more
<1>10. RequestIs(new, more)
  BY <1>5, <1>6, <1>7, <1>8, <1>9 DEF RequestIs
<1>11. QED
  BY <1>4, <1>6, <1>10 DEF new, more

LEMMA RequestStays ==
    ASSUME NEW r, NEW keys, NEW more, RequestIs(r, keys), keys \subseteq more
    PROVE  RequestIs(r, more)
  BY DEF RequestIs

Backend == TypeOK /\ IngestedIsRecorded

LEMMA RequestsAre ==
    ASSUME Backend, NEW h \in Handlers
    PROVE  RequestIs(handler[h], recorded)
  BY DEF Backend, TypeOK, IngestedIsRecorded, RequestIs, Request

LEMMA IngestHandler ==
    ASSUME Backend, NEW h \in Handlers, IngestEvent(h)
    PROVE  /\ recorded' = recorded \cup {KeyOf[handler[h].events[handler[h].next]]}
           /\ \E r : /\ handler' = [handler EXCEPT ![h] = r] /\ RequestIs(r, recorded')
                    /\ r.at # "idle" /\ r.events = handler[h].events
<1> DEFINE r == handler[h]
           at == IF r.next = Len(r.events) THEN "answering" ELSE r.at
           new == [r EXCEPT !.at = at, !.next = r.next + 1]
<1>1. /\ r.at = "ingesting"
      /\ recorded' = recorded \cup {KeyOf[r.events[r.next]]}
      /\ handler' = [handler EXCEPT ![h].at = at, ![h].next = @ + 1]
  BY DEF IngestEvent
<1>2. RequestIs(r, recorded)
  BY RequestsAre
<1>3. handler \in [Handlers -> Request] /\ r \in Request
  BY DEF Backend, TypeOK, Request
<1>4. handler' = [handler EXCEPT ![h] = new]
  BY <1>1, <1>3 DEF Request
<1>5. RequestIs(new, recorded') /\ new.at # "idle" /\ new.events = r.events
  BY <1>1, <1>2, IngestedRequestIs
<1>6. QED
  BY <1>1, <1>4, <1>5

LEMMA BackendStays ==
    ASSUME Backend, [Next]_vars
    PROVE  /\ handler' \in [Handlers -> Request]
           /\ \A h \in Handlers : RequestIs(handler'[h], recorded')
           /\ recorded \subseteq recorded' /\ recorded' \subseteq Keys
<1>1. recorded \subseteq recorded' /\ recorded' \subseteq Keys
  <2>1. recorded \subseteq Keys
    BY DEF Backend, TypeOK
  <2>2. ASSUME NEW h \in Handlers, IngestEvent(h)
        PROVE  recorded \subseteq recorded' /\ recorded' \subseteq Keys
    <3>1. recorded' = recorded \cup {KeyOf[handler[h].events[handler[h].next]]}
      BY <2>2, IngestHandler
    <3>2. handler[h].next \in DOMAIN handler[h].events /\ handler[h].events \in Seq(Events)
      BY <2>2, RequestsAre DEF RequestIs, Request, IngestEvent
    <3>3. KeyOf[handler[h].events[handler[h].next]] \in Keys
      BY <3>2, PluginEventsAssumption
    <3>4. QED
      BY <2>1, <3>1, <3>3
  <2>3. recorded' = recorded \/ \E h \in Handlers : IngestEvent(h)
    BY DEF Next, vars, backend, Deliver, Serve, CaptureRead, CaptureWrite, ClearEvents,
           DeliverNothing, DeliverBatch, RemoveEvent, RemoveLast, PostFails, Answer
  <2>4. QED
    BY <2>1, <2>2, <2>3
<1>2. handler \in [Handlers -> Request] /\ \A h \in Handlers : RequestIs(handler[h], recorded')
  BY <1>1, RequestsAre, RequestStays DEF Backend, TypeOK, Request
<1>3. ASSUME NEW h, NEW r, handler' = [handler EXCEPT ![h] = r], RequestIs(r, recorded')
      PROVE  handler' \in [Handlers -> Request]
             /\ \A other \in Handlers : RequestIs(handler'[other], recorded')
  BY <1>2, <1>3 DEF RequestIs
<1>4. CASE handler' = handler
  BY <1>1, <1>2, <1>4
<1>5. ASSUME NEW d \in Deliverers, NEW h \in Handlers, DeliverBatch(d, h)
      PROVE  \E r : handler' = [handler EXCEPT ![h] = r] /\ RequestIs(r, recorded')
  <2>1. queue \in Seq(Events) /\ queue # <<>>
    BY <1>5 DEF DeliverBatch, Backend, TypeOK
  <2>2. RequestIs([NoRequest EXCEPT !.at = "ingesting", !.events = BatchOf(queue)], recorded')
    BY <2>1, NewRequestIs
  <2>3. QED
    BY <1>5, <2>2 DEF DeliverBatch
<1>6. ASSUME NEW h \in Handlers, IngestEvent(h)
      PROVE  \E r : handler' = [handler EXCEPT ![h] = r] /\ RequestIs(r, recorded')
  BY <1>6, IngestHandler
<1>7. ASSUME NEW h, handler' = [handler EXCEPT ![h] = NoRequest]
      PROVE  \E r : handler' = [handler EXCEPT ![h] = r] /\ RequestIs(r, recorded')
  BY <1>7, NoRequestIs
<1>8. \/ handler' = handler
      \/ \E h \in Handlers : \/ \E d \in Deliverers : DeliverBatch(d, h)
                            \/ IngestEvent(h)
      \/ \E h : handler' = [handler EXCEPT ![h] = NoRequest]
  BY DEF Next, vars, backend, Deliver, Serve, CaptureRead, CaptureWrite, ClearEvents,
         DeliverNothing, RemoveEvent, RemoveLast, PostFails, Answer
<1>9. QED
  BY <1>1, <1>3, <1>4, <1>5, <1>6, <1>7, <1>8

LEMMA IngestedStays ==
    ASSUME Backend, [Next]_vars
    PROVE  IngestedIsRecorded'
  BY BackendStays DEF IngestedIsRecorded, RequestIs

------------------------------------------------------------------------------
(* The deliverers. *)

Bridge == TypeOK /\ IngestedIsRecorded /\ WaitsForItsOwn /\ RemovedIsRecorded

\* The actions that change a deliverer or the request it may wait for.
LEMMA DelivererSteps ==
    ASSUME [Next]_vars
    PROVE  \/ /\ UNCHANGED <<pc, batch, waitsFor>>
              /\ \/ handler' = handler
                 \/ \E h \in Handlers : IngestEvent(h)
           \/ \E d \in Deliverers, h \in Handlers : DeliverBatch(d, h)
           \/ \E d \in Deliverers, dies \in BOOLEAN : PostFails(d, dies)
           \/ \E d \in Deliverers : RemoveEvent(d) \/ RemoveLast(d)
           \/ \E h \in Handlers : Answer(h)
  BY DEF Next, vars, deliverer, backend, Deliver, Serve, CaptureRead, CaptureWrite, ClearEvents,
         DeliverNothing, IngestEvent

LEMMA DeliverersTyped ==
    ASSUME Bridge, [Next]_vars
    PROVE  /\ pc' \in [Deliverers -> {"idle", "waiting", "removing"}]
           /\ waitsFor' \in [Deliverers -> Handlers \cup {NoHandler}]
           /\ batch' \in [Deliverers -> Seq(Events)]
<1>1. /\ pc \in [Deliverers -> {"idle", "waiting", "removing"}]
      /\ waitsFor \in [Deliverers -> Handlers \cup {NoHandler}]
      /\ batch \in [Deliverers -> Seq(Events)] /\ queue \in Seq(Events)
  BY DEF Bridge, TypeOK
<1>2. ASSUME NEW d \in Deliverers, NEW h \in Handlers, DeliverBatch(d, h)
      PROVE  /\ pc' \in [Deliverers -> {"idle", "waiting", "removing"}]
             /\ waitsFor' \in [Deliverers -> Handlers \cup {NoHandler}]
             /\ batch' \in [Deliverers -> Seq(Events)]
  <2>1. BatchOf(queue) \in Seq(Events)
    BY <1>1, <1>2, BatchIs DEF DeliverBatch
  <2>2. QED
    BY <1>1, <1>2, <2>1 DEF DeliverBatch
<1>3. ASSUME NEW d \in Deliverers, Release(d)
      PROVE  /\ pc' \in [Deliverers -> {"idle", "waiting", "removing"}]
             /\ waitsFor' \in [Deliverers -> Handlers \cup {NoHandler}]
             /\ batch' \in [Deliverers -> Seq(Events)]
  <2>1. <<>> \in Seq(Events)
    OBVIOUS
  <2>2. QED
    BY <1>1, <1>3, <2>1 DEF Release
<1>4. ASSUME NEW d \in Deliverers, RemoveEvent(d)
      PROVE  /\ pc' \in [Deliverers -> {"idle", "waiting", "removing"}]
             /\ waitsFor' \in [Deliverers -> Handlers \cup {NoHandler}]
             /\ batch' \in [Deliverers -> Seq(Events)]
  <2>1. batch[d] \in Seq(Events) /\ Len(batch[d]) > 1
    BY <1>1, <1>4 DEF RemoveEvent
  <2>2. Tail(batch[d]) \in Seq(Events)
    BY <2>1
  <2>3. QED
    BY <1>1, <1>4, <2>2 DEF RemoveEvent
<1>5. ASSUME NEW h \in Handlers, Answer(h)
      PROVE  /\ pc' \in [Deliverers -> {"idle", "waiting", "removing"}]
             /\ waitsFor' \in [Deliverers -> Handlers \cup {NoHandler}]
             /\ batch' \in [Deliverers -> Seq(Events)]
  BY <1>1, <1>5 DEF Answer
<1>6. CASE UNCHANGED <<pc, batch, waitsFor>>
  BY <1>1, <1>6
<1>7. QED
  BY <1>2, <1>3, <1>4, <1>5, <1>6, DelivererSteps DEF PostFails, RemoveLast

\* What the two parts say of one deliverer.
Waits(d) ==
    /\ pc[d] = "waiting" <=> waitsFor[d] # NoHandler
    /\ pc[d] = "waiting" => /\ handler[waitsFor[d]].at # "idle"
                           /\ handler[waitsFor[d]].events = batch[d]
                           /\ \A other \in Deliverers :
                                 waitsFor[other] = waitsFor[d] => other = d
BatchRecorded(d) ==
    pc[d] = "removing" => \A e \in EventsOf(batch[d]) : KeyOf[e] \in recorded

LEMMA BridgeIs ==
    ASSUME Bridge, NEW d \in Deliverers
    PROVE  Waits(d) /\ BatchRecorded(d)
  BY DEF Bridge, WaitsForItsOwn, RemovedIsRecorded, Waits, BatchRecorded

LEMMA BridgeTyped ==
    ASSUME Bridge
    PROVE  /\ pc \in [Deliverers -> {"idle", "waiting", "removing"}]
           /\ waitsFor \in [Deliverers -> Handlers \cup {NoHandler}]
           /\ batch \in [Deliverers -> Seq(Events)]
           /\ handler \in [Handlers -> Request]
           /\ NoHandler \notin Handlers
  BY PluginEventsAssumption DEF Bridge, TypeOK, Request

LEMMA DeliverWaits ==
    ASSUME Bridge, NEW d \in Deliverers, NEW h \in Handlers, DeliverBatch(d, h),
           NEW e \in Deliverers
    PROVE  Waits(e)' /\ BatchRecorded(e)'
<1>1. /\ pc[d] = "idle" /\ handler[h] = NoRequest
      /\ pc' = [pc EXCEPT ![d] = "waiting"]
      /\ batch' = [batch EXCEPT ![d] = BatchOf(queue)]
      /\ waitsFor' = [waitsFor EXCEPT ![d] = h]
      /\ handler' = [handler EXCEPT ![h] = [NoRequest EXCEPT !.at = "ingesting",
                                                           !.events = BatchOf(queue)]]
      /\ recorded' = recorded
  BY DEF DeliverBatch
<1>2. \A f \in Deliverers : waitsFor[f] # h
  BY <1>1, BridgeIs, BridgeTyped DEF Waits, NoRequest
<1>3. CASE e = d
  <2>1. handler'[h].at = "ingesting" /\ handler'[h].events = BatchOf(queue)
    BY <1>1, BridgeTyped DEF NoRequest
  <2>2. pc'[e] = "waiting" /\ waitsFor'[e] = h /\ batch'[e] = BatchOf(queue)
    BY <1>1, <1>3, BridgeTyped
  <2>3. \A other \in Deliverers : waitsFor'[other] = waitsFor'[e] => other = e
    BY <1>1, <1>2, <1>3, BridgeTyped
  <2>4. QED
    BY <2>1, <2>2, <2>3, BridgeTyped DEF Waits, BatchRecorded
<1>4. CASE e # d
  <2>1. pc'[e] = pc[e] /\ waitsFor'[e] = waitsFor[e] /\ batch'[e] = batch[e]
    BY <1>1, <1>4, BridgeTyped
  <2>2. \A g \in Handlers : g # h => handler'[g] = handler[g]
    BY <1>1, BridgeTyped
  <2>3. \A other \in Deliverers : waitsFor'[other] \in {waitsFor[other], h}
    BY <1>1, BridgeTyped
  <2>4. BatchRecorded(e)'
    BY <1>1, <2>1, BridgeIs DEF BatchRecorded
  <2>5. Waits(e)'
    <3>1. pc'[e] = "waiting" <=> waitsFor'[e] # NoHandler
      BY <2>1, BridgeIs DEF Waits
    <3>2. ASSUME pc'[e] = "waiting"
          PROVE  /\ handler'[waitsFor'[e]].at # "idle"
                 /\ handler'[waitsFor'[e]].events = batch'[e]
                 /\ \A other \in Deliverers : waitsFor'[other] = waitsFor'[e] => other = e
      <4>1. waitsFor[e] \in Handlers /\ waitsFor[e] # h
        BY <1>2, <2>1, <3>2, BridgeIs, BridgeTyped DEF Waits
      <4>2. handler'[waitsFor'[e]] = handler[waitsFor[e]]
        BY <2>1, <2>2, <4>1
      <4>3. pc[e] = "waiting" /\ Waits(e)
        BY <2>1, <3>2, BridgeIs
      <4>4. \A other \in Deliverers : waitsFor'[other] = waitsFor'[e] => other = e
        BY <2>1, <2>3, <4>1, <4>3 DEF Waits
      <4>5. QED
        BY <2>1, <4>2, <4>3, <4>4 DEF Waits
    <3>3. QED
      BY <3>1, <3>2 DEF Waits
  <2>6. QED
    BY <2>4, <2>5
<1>5. QED
  BY <1>3, <1>4

\* A deliverer that is let go is idle; the others keep their requests.
LEMMA ReleaseWaits ==
    ASSUME Bridge, NEW d \in Deliverers, Release(d), recorded' = recorded,
           \A g \in Handlers : g # waitsFor[d] => handler'[g] = handler[g],
           NEW e \in Deliverers
    PROVE  Waits(e)' /\ BatchRecorded(e)'
<1>1. /\ pc' = [pc EXCEPT ![d] = "idle"] /\ waitsFor' = [waitsFor EXCEPT ![d] = NoHandler]
      /\ batch' = [batch EXCEPT ![d] = <<>>]
  BY DEF Release
<1>2. CASE e = d
  <2>1. pc'[e] = "idle" /\ waitsFor'[e] = NoHandler
    BY <1>1, <1>2, BridgeTyped
  <2>2. QED
    BY <2>1 DEF Waits, BatchRecorded
<1>3. CASE e # d
  <2>1. pc'[e] = pc[e] /\ waitsFor'[e] = waitsFor[e] /\ batch'[e] = batch[e]
    BY <1>1, <1>3, BridgeTyped
  <2>2. \A other \in Deliverers : waitsFor'[other] \in {waitsFor[other], NoHandler}
    BY <1>1, BridgeTyped
  <2>3. BatchRecorded(e)'
    BY <2>1, BridgeIs DEF BatchRecorded
  <2>4. Waits(e)'
    <3>1. pc'[e] = "waiting" <=> waitsFor'[e] # NoHandler
      BY <2>1, BridgeIs DEF Waits
    <3>2. ASSUME pc'[e] = "waiting"
          PROVE  /\ handler'[waitsFor'[e]].at # "idle"
                 /\ handler'[waitsFor'[e]].events = batch'[e]
                 /\ \A other \in Deliverers : waitsFor'[other] = waitsFor'[e] => other = e
      <4>1. waitsFor[e] \in Handlers /\ waitsFor[e] # NoHandler
        BY <2>1, <3>2, BridgeIs, BridgeTyped DEF Waits
      <4>2. waitsFor[d] # waitsFor[e]
        BY <1>3, <2>1, <3>2, BridgeIs DEF Waits
      <4>3. QED
        BY <2>1, <2>2, <3>2, <4>1, <4>2, BridgeIs DEF Waits
    <3>3. QED
      BY <3>1, <3>2 DEF Waits
  <2>5. QED
    BY <2>3, <2>4
<1>4. QED
  BY <1>2, <1>3

LEMMA RemoveWaits ==
    ASSUME Bridge, NEW d \in Deliverers, RemoveEvent(d), NEW e \in Deliverers
    PROVE  Waits(e)' /\ BatchRecorded(e)'
<1>1. /\ pc[d] = "removing" /\ pc' = pc /\ waitsFor' = waitsFor /\ handler' = handler
      /\ recorded' = recorded /\ batch' = [batch EXCEPT ![d] = Tail(batch[d])]
      /\ Len(batch[d]) > 1
  BY DEF RemoveEvent, backend
<1>2. CASE e = d
  <2>1. batch[d] \in Seq(Events) /\ batch'[d] = Tail(batch[d])
    BY <1>1, BridgeTyped
  <2>2. EventsOf(batch'[d]) \subseteq EventsOf(batch[d])
    <3>1. /\ DOMAIN Tail(batch[d]) = 1..(Len(batch[d]) - 1) /\ DOMAIN batch[d] = 1..Len(batch[d])
          /\ \A i \in 1..(Len(batch[d]) - 1) : Tail(batch[d])[i] = batch[d][i + 1]
      BY <1>1, <2>1
    <3>2. \A i \in 1..(Len(batch[d]) - 1) : i + 1 \in DOMAIN batch[d]
      BY <2>1, <3>1
    <3>3. QED
      BY <2>1, <3>1, <3>2 DEF EventsOf
  <2>3. BatchRecorded(e)'
    BY <1>1, <1>2, <2>2, BridgeIs DEF BatchRecorded
  <2>4. Waits(e)'
    BY <1>1, <1>2, BridgeIs DEF Waits
  <2>5. QED
    BY <2>3, <2>4
<1>3. CASE e # d
  <2>1. batch'[e] = batch[e]
    BY <1>1, <1>3, BridgeTyped
  <2>2. QED
    BY <1>1, <2>1, BridgeIs DEF Waits, BatchRecorded
<1>4. QED
  BY <1>2, <1>3

LEMMA IngestWaits ==
    ASSUME Bridge, NEW h \in Handlers, IngestEvent(h), NEW e \in Deliverers
    PROVE  Waits(e)' /\ BatchRecorded(e)'
<1>1. UNCHANGED <<pc, batch, waitsFor>>
  BY DEF IngestEvent, deliverer
<1>2. PICK r : /\ handler' = [handler EXCEPT ![h] = r]
               /\ r.at # "idle" /\ r.events = handler[h].events
  BY IngestHandler DEF Bridge, Backend
<1>3. recorded \subseteq recorded'
  BY IngestHandler DEF Bridge, Backend
<1>4. \A g \in Handlers : /\ handler'[g].at # "idle" \/ handler'[g] = handler[g]
                         /\ handler'[g].events = handler[g].events
  BY <1>2, BridgeTyped
<1>5. BatchRecorded(e)'
  BY <1>1, <1>3, BridgeIs DEF BatchRecorded
<1>6. Waits(e)'
  <2>1. pc[e] = "waiting" => waitsFor[e] \in Handlers
    BY BridgeIs, BridgeTyped DEF Waits
  <2>2. QED
    BY <1>1, <1>4, <2>1, BridgeIs DEF Waits
<1>7. QED
  BY <1>5, <1>6

LEMMA AnswerWaits ==
    ASSUME Bridge, NEW h \in Handlers, Answer(h), NEW e \in Deliverers
    PROVE  Waits(e)' /\ BatchRecorded(e)'
<1>1. /\ handler[h].at = "answering" /\ handler' = [handler EXCEPT ![h] = NoRequest]
      /\ pc' = [d \in Deliverers |-> IF waitsFor[d] = h THEN "removing" ELSE pc[d]]
      /\ waitsFor' = [d \in Deliverers |-> IF waitsFor[d] = h THEN NoHandler ELSE waitsFor[d]]
      /\ batch' = batch /\ recorded' = recorded
  BY DEF Answer
<1>2. CASE waitsFor[e] = h
  <2>1. pc'[e] = "removing" /\ waitsFor'[e] = NoHandler
    BY <1>1, <1>2
  <2>2. batch[e] = handler[h].events
    BY <1>2, BridgeIs, BridgeTyped DEF Waits
  <2>3. \A i \in DOMAIN batch[e] : KeyOf[batch[e][i]] \in recorded
    <3>1. RequestIs(handler[h], recorded)
      BY RequestsAre DEF Bridge, Backend
    <3>2. batch[e] \in Seq(Events) /\ handler[h].next = Len(batch[e]) + 1
      BY <1>1, <2>2, <3>1, BridgeTyped DEF RequestIs
    <3>3. \A i \in DOMAIN batch[e] : i < Len(batch[e]) + 1
      BY <3>2
    <3>4. QED
      BY <1>1, <2>2, <3>1, <3>2, <3>3 DEF RequestIs
  <2>4. BatchRecorded(e)'
    BY <1>1, <2>3 DEF BatchRecorded, EventsOf
  <2>5. Waits(e)'
    BY <2>1 DEF Waits
  <2>6. QED
    BY <2>4, <2>5
<1>3. CASE waitsFor[e] # h
  <2>1. pc'[e] = pc[e] /\ waitsFor'[e] = waitsFor[e]
    BY <1>1, <1>3
  <2>2. \A g \in Handlers : g # h => handler'[g] = handler[g]
    BY <1>1, BridgeTyped
  <2>3. \A other \in Deliverers : waitsFor'[other] \in {waitsFor[other], NoHandler}
    BY <1>1
  <2>4. BatchRecorded(e)'
    BY <1>1, <2>1, BridgeIs DEF BatchRecorded
  <2>5. pc[e] = "waiting" => waitsFor[e] \in Handlers
    BY BridgeIs, BridgeTyped DEF Waits
  <2>6. Waits(e)'
    BY <1>1, <1>3, <2>1, <2>2, <2>3, <2>5, BridgeIs DEF Waits
  <2>7. QED
    BY <2>4, <2>6
<1>4. QED
  BY <1>2, <1>3

LEMMA BridgeStays ==
    ASSUME Bridge, [Next]_vars, NEW e \in Deliverers
    PROVE  Waits(e)' /\ BatchRecorded(e)'
<1>1. recorded \subseteq recorded'
  BY BackendStays DEF Bridge, Backend
<1>2. CASE UNCHANGED <<pc, batch, waitsFor>> /\ handler' = handler
  BY <1>1, <1>2, BridgeIs DEF Waits, BatchRecorded
<1>3. ASSUME NEW d \in Deliverers, NEW dies \in BOOLEAN, PostFails(d, dies)
      PROVE  Waits(e)' /\ BatchRecorded(e)'
  <2>1. Release(d) /\ recorded' = recorded
    BY <1>3 DEF PostFails
  <2>2. \A g \in Handlers : g # waitsFor[d] => handler'[g] = handler[g]
    BY <1>3, BridgeTyped DEF PostFails
  <2>3. QED
    BY <2>1, <2>2, ReleaseWaits
<1>4. ASSUME NEW d \in Deliverers, RemoveLast(d)
      PROVE  Waits(e)' /\ BatchRecorded(e)'
  <2>1. Release(d) /\ recorded' = recorded /\ handler' = handler
    BY <1>4 DEF RemoveLast, backend
  <2>2. QED
    BY <2>1, ReleaseWaits
<1>5. QED
  BY <1>2, <1>3, <1>4, DelivererSteps, DeliverWaits, RemoveWaits, IngestWaits, AnswerWaits

------------------------------------------------------------------------------
(* The invariant. *)

LEMMA InitCopies == Init => CopiesAreQueues
<1> SUFFICES ASSUME Init PROVE CopiesAreQueues
  OBVIOUS
<1>1. QueueUpTo(<<>>, 0)
  BY EmptyQueue
<1>2. captured = 0 /\ queue = <<>> /\ EventsOf(<<>>) = {}
  BY DEF Init, EventsOf
<1>3. \A d \in Deliverers : seen[d] = <<>>
  BY DEF Init
<1>4. \A s \in Shoppers : shopper[s].read = <<>> /\ shopper[s].event = 0
  BY DEF Init, NoEvent
<1>5. QED
  BY <1>1, <1>2, <1>3, <1>4 DEF QueueUpTo, CopiesAreQueues

LEMMA InitTyped == Init => TypeOK
<1> SUFFICES ASSUME Init PROVE TypeOK
  OBVIOUS
<1>1. <<>> \in Seq(Events) /\ Len(<<>>) = 0
  OBVIOUS
<1>2. NoEvent \in [event : 0..MaxEvents, read : Seq(Events)]
  BY <1>1, PluginEventsAssumption DEF NoEvent
<1>3. NoRequest \in Request
  BY NoRequestIs DEF RequestIs
<1>4. /\ queue \in Seq(Events) /\ Len(queue) <= MaxQueue
      /\ seen \in [Deliverers -> Seq(Events)] /\ batch \in [Deliverers -> Seq(Events)]
  BY <1>1, PluginEventsAssumption DEF Init
<1>5. /\ shopper \in [Shoppers -> [event : 0..MaxEvents, read : Seq(Events)]]
      /\ handler \in [Handlers -> Request]
  BY <1>2, <1>3 DEF Init
<1>6. /\ pc \in [Deliverers -> {"idle", "waiting", "removing"}]
      /\ waitsFor \in [Deliverers -> Handlers \cup {NoHandler}]
  BY DEF Init
<1>7. /\ sharedCache \in BOOLEAN /\ captured \in 0..MaxEvents /\ dropped \subseteq Events
      /\ due \in Nat /\ recorded \subseteq Keys /\ failures \in 0..MaxFailures
  BY PluginEventsAssumption DEF Init
<1>8. QED
  BY <1>4, <1>5, <1>6, <1>7 DEF TypeOK, Request

LEMMA InitInvariant == Init => IInv
<1> SUFFICES ASSUME Init PROVE IInv
  OBVIOUS
<1>1. QueuedOnce
  BY EmptyQueue DEF Init, QueuedOnce, QueueUpTo
<1>2. WaitsForItsOwn
  BY DEF Init, WaitsForItsOwn
<1>3. IngestedIsRecorded
  BY DEF Init, IngestedIsRecorded, NoRequest
<1>4. RemovedIsRecorded
  BY DEF Init, RemovedIsRecorded
<1>5. QED
  BY <1>1, <1>2, <1>3, <1>4, InitCopies, InitTyped DEF IInv

\* The hooks that are scheduled, the events that were cut, and the failures.
LEMMA CountersStay ==
    ASSUME TypeOK, queue' \in Seq(Events), [Next]_vars
    PROVE  /\ sharedCache' \in BOOLEAN /\ due' \in Nat
           /\ dropped' \subseteq Events /\ failures' \in 0..MaxFailures
<1>1. sharedCache' \in BOOLEAN
  BY DEF TypeOK, Next, vars, Deliver, Serve, CaptureRead, CaptureWrite, ClearEvents,
         DeliverNothing, DeliverBatch, RemoveEvent, RemoveLast, PostFails, IngestEvent, Answer
<1>2. due' \in Nat
  <2>1. due \in Nat
    BY DEF TypeOK
  <2>2. \/ due' = due \/ due' = due + 1
        \/ due > 0 /\ due' = due - 1
    BY DEF Next, vars, Deliver, Serve, CaptureRead, CaptureWrite, ClearEvents,
           DeliverNothing, DeliverBatch, RemoveEvent, RemoveLast, PostFails, IngestEvent, Answer,
           Schedule, ScheduleUnlessEmpty
  <2>3. QED
    BY <2>1, <2>2
<1>3. dropped' \subseteq Events
  <2>1. ASSUME NEW s \in Shoppers, CaptureWrite(s) PROVE dropped' \subseteq Events
    <3>1. EventsOf(shopper[s].read) \subseteq Events
      BY EventsOfTyped DEF TypeOK
    <3>2. QED
      BY <2>1, <3>1 DEF CaptureWrite, TypeOK
  <2>2. CASE ClearEvents
    BY <2>2, EventsOfTyped DEF ClearEvents, TypeOK
  <2>3. CASE dropped' = dropped
    BY <2>3 DEF TypeOK
  <2>4. dropped' = dropped \/ ClearEvents \/ \E s \in Shoppers : CaptureWrite(s)
    BY DEF Next, vars, Deliver, Serve, CaptureRead, DeliverNothing, DeliverBatch, RemoveEvent,
           RemoveLast, PostFails, IngestEvent, Answer
  <2>5. QED
    BY <2>1, <2>2, <2>3, <2>4
<1>4. failures' \in 0..MaxFailures
  <2>1. failures \in 0..MaxFailures
    BY DEF TypeOK
  <2>2. ASSUME NEW d \in Deliverers, NEW dies \in BOOLEAN, PostFails(d, dies)
        PROVE  failures' \in 0..MaxFailures
    <3>1. failures < MaxFailures /\ failures' = failures + 1
      BY <2>2 DEF PostFails
    <3>2. QED
      BY <2>1, <3>1, PluginEventsAssumption
  <2>3. \/ failures' = failures
        \/ \E d \in Deliverers, dies \in BOOLEAN : PostFails(d, dies)
    BY DEF Next, vars, Deliver, Serve, CaptureRead, CaptureWrite, ClearEvents,
           DeliverNothing, DeliverBatch, RemoveEvent, RemoveLast, IngestEvent, Answer
  <2>4. QED
    BY <2>1, <2>2, <2>3
<1>5. QED
  BY <1>1, <1>2, <1>3, <1>4

LEMMA NextInvariant == IInv /\ [Next]_vars => IInv'
<1> SUFFICES ASSUME IInv, [Next]_vars PROVE IInv'
  OBVIOUS
<1>1. Copies /\ Backend /\ Bridge
  BY DEF IInv, Copies, Backend, Bridge
<1>2. queue' \in Seq(Events) /\ Len(queue') <= MaxQueue /\ captured' \in 0..MaxEvents
  BY <1>1, QueueStays DEF QueueUpTo
<1>3. QueuedOnce' /\ CopiesAreQueues'
  BY <1>1, QueuedOnceStays, CopiesStay
<1>4. IngestedIsRecorded'
  BY <1>1, IngestedStays
<1>5. WaitsForItsOwn'
  BY <1>1, BridgeStays DEF WaitsForItsOwn, Waits
<1>6. RemovedIsRecorded'
  BY <1>1, BridgeStays DEF RemovedIsRecorded, BatchRecorded
<1>7. TypeOK'
  <2>1. /\ sharedCache' \in BOOLEAN /\ due' \in Nat
        /\ dropped' \subseteq Events /\ failures' \in 0..MaxFailures
    BY <1>1, <1>2, CountersStay DEF Copies
  <2>2. /\ shopper' \in [Shoppers -> [event : 0..MaxEvents, read : Seq(Events)]]
        /\ seen' \in [Deliverers -> Seq(Events)]
    BY <1>1, SeenStays, ShopperStays
  <2>3. handler' \in [Handlers -> Request] /\ recorded' \subseteq Keys
    BY <1>1, BackendStays
  <2>4. /\ pc' \in [Deliverers -> {"idle", "waiting", "removing"}]
        /\ waitsFor' \in [Deliverers -> Handlers \cup {NoHandler}]
        /\ batch' \in [Deliverers -> Seq(Events)]
    BY <1>1, DeliverersTyped
  <2>5. QED
    BY <1>2, <2>1, <2>2, <2>3, <2>4 DEF TypeOK, Request
<1>8. QED
  BY <1>3, <1>4, <1>5, <1>6, <1>7 DEF IInv

\* The inductive invariant, in every state.
LEMMA Invariant == Spec => []IInv
<1>1. QED
  BY InitInvariant, NextInvariant, PTL DEF Spec

\* The option never holds more than MAX_QUEUE events, whichever process writes
\* back which copy of it (add_event, remove_event), and every copy, batch and
\* request is made of events that happened.
THEOREM TypeCorrect == Spec => []TypeOK
<1>1. IInv => TypeOK
  BY DEF IInv
<1>2. QED
  BY <1>1, Invariant, PTL

\* An event waits in the queue once, although add_event and remove_event write
\* back copies other processes have overtaken: a copy that brings delivered
\* events back brings each of them back once.
THEOREM EventsAreQueuedOnce == Spec => []QueuedOnce
<1>1. IInv => QueuedOnce
  BY DEF IInv
<1>2. QED
  BY <1>1, Invariant, PTL

\* deliver_batch removes an event only after ingestEvents has recorded its key,
\* however many requests it gave up on are still running.
THEOREM OnlyRecordedIsRemoved == Spec => []RemovedIsRecorded
<1>1. IInv => RemovedIsRecorded
  BY DEF IInv
<1>2. QED
  BY <1>1, Invariant, PTL
==============================================================================
