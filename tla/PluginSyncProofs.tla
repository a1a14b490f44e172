-------------------------- MODULE PluginSyncProofs --------------------------
(***************************************************************************)
(* ResumesWithoutGap for every set of entities and workers, every store    *)
(* and every bound.  A cursor only ever moves past a page that the worker  *)
(* moving it has seen ingested, and that worker took its page from a       *)
(* cursor: WorkerResumes carries the claim from the read to the write.     *)
(***************************************************************************)
EXTENDS PluginSync, Integers, FiniteSetTheorems, TLAPS

LEMMA HeadAndTail ==
    ASSUME NEW S, NEW s \in Seq(S), s # <<>>
    PROVE  Head(s) \in S /\ Tail(s) \in Seq(S)
OBVIOUS

(* Moving a worker along and letting it go keep its variables typed. *)
LEMMA WorkerTyped ==
    ASSUME TypeOK, NEW w \in Workers, NEW where \in PCs, Goto(w, where) \/ Release(w)
    PROVE  /\ pc' \in [Workers -> PCs]
           /\ held' \in [Workers -> Seq(Entities)]
           /\ page' \in [Workers -> Nat]
           /\ chunk' \in [Workers -> SUBSET Nat]
<1>1. <<>> \in Seq(Entities) OBVIOUS
<1>2. CASE Goto(w, where) BY <1>2 DEF TypeOK, Goto
<1>3. CASE Release(w)
  <2>1. pc' \in [Workers -> PCs] BY <1>3 DEF TypeOK, Release, PCs
  <2>2. held' \in [Workers -> Seq(Entities)] BY <1>1, <1>3 DEF TypeOK, Release
  <2>3. page' \in [Workers -> Nat] /\ chunk' \in [Workers -> SUBSET Nat]
    BY <1>3 DEF TypeOK, Release
  <2> QED BY <2>1, <2>2, <2>3
<1> QED BY <1>2, <1>3

LEMMA ScheduleTyped == ASSUME TypeOK, Schedule PROVE due' \in Nat
BY DEF TypeOK, Schedule

(* A worker that is under way holds a queue with a first entity. *)
LEMMA EntityTyped ==
    ASSUME TypeOK, WorkerResumes, NEW w \in Workers, pc[w] # "idle"
    PROVE  Entity(w) \in Entities /\ Tail(held[w]) \in Seq(Entities)
<1>1. held[w] \in Seq(Entities) /\ held[w] # <<>> BY DEF TypeOK, WorkerResumes
<1> QED BY <1>1, HeadAndTail DEF Entity

------------------------------------------------------------------------------
(* Chunks. *)

LEMMA SentIsGot == ASSUME NEW got PROVE Sent(got) \subseteq got
BY DEF Sent

LEMMA ReadingsAreFetched ==
    ASSUME NEW e, NEW p, NEW got \in Readings(e, p)
    PROVE  got \subseteq Fetched(e, p)
BY DEF Readings

LEMMA FetchedTyped ==
    ASSUME NEW e \in Entities, NEW p \in Nat
    PROVE  /\ Fetched(e, p) \subseteq Nat
           /\ Offset(p) \in Int /\ Batch \in Nat /\ Count[e] \in Nat
BY PluginSyncAssumption DEF Fetched, Offset

(* The query asks for one item more than a chunk holds. *)
LEMMA Window ==
    ASSUME NEW p \in Nat
    PROVE  LET all == (Offset(p) + 1)..(Offset(p) + Batch + 1)
           IN  IsFiniteSet(all) /\ Cardinality(all) = Batch + 1
<1>1. Offset(p) \in Int /\ Batch \in Nat BY PluginSyncAssumption DEF Offset
<1>2. Offset(p) + 1 \in Int /\ Offset(p) + Batch + 1 \in Int BY <1>1
<1> QED BY <1>1, <1>2, FS_Interval

(* So a chunk with more to come was read in full ... *)
LEMMA MoreIsFull ==
    ASSUME NEW e \in Entities, NEW p \in Nat, NEW got, got \subseteq Fetched(e, p), More(got)
    PROVE  got = Fetched(e, p)
<1> DEFINE all == (Offset(p) + 1)..(Offset(p) + Batch + 1)
<1>1. Fetched(e, p) \subseteq all BY FetchedTyped DEF Fetched
<1>2. got \subseteq all BY <1>1
<1>3. IsFiniteSet(all) /\ Cardinality(all) = Batch + 1 /\ Batch \in Nat
  BY Window, PluginSyncAssumption
<1> HIDE DEF all
<1>4. Cardinality(got) \in Nat /\ Cardinality(got) <= Cardinality(all)
  BY <1>2, <1>3, FS_Subset, FS_CardinalityType
<1>5. Cardinality(got) = Cardinality(all) BY <1>3, <1>4 DEF More
<1>6. got = all BY <1>2, <1>3, <1>5, FS_Subset
<1> QED BY <1>1, <1>6

(* ... and after one without, read in full, the store has no other page. *)
LEMMA LaterPagesAreEmpty ==
    ASSUME NEW e \in Entities, NEW p \in Nat, p > 0, ~More(Fetched(e, p)),
           NEW q \in Nat, q > p
    PROVE  Fetched(e, q) = {}
<1>1. Count[e] \in Nat /\ Batch \in Nat BY PluginSyncAssumption
<1> DEFINE size == Batch + 1
           n == q - 1 - p
<1>2. n \in Nat /\ size \in Nat /\ p - 1 \in Nat BY <1>1
<1>3. n * size >= 0 BY <1>2
<1>4. (q - 1) * size = (p - 1) * size + size + n * size BY <1>1, <1>2
<1>5. Offset(q) >= Offset(p) + Batch + 1 BY <1>1, <1>3, <1>4 DEF Offset
<1>6. Offset(p) \in Nat /\ Offset(q) \in Int BY <1>1, <1>2 DEF Offset
<1>7. Count[e] <= Offset(p) + Batch
  <2> SUFFICES ASSUME Count[e] > Offset(p) + Batch PROVE FALSE BY <1>1, <1>6
  <2>1. Fetched(e, p) = (Offset(p) + 1)..(Offset(p) + Batch + 1)
    BY <1>1, <1>6 DEF Fetched
  <2> QED BY <1>1, <2>1, Window DEF More
<1>8. Count[e] < Offset(q) BY <1>1, <1>5, <1>6, <1>7
<1> QED BY <1>1, <1>6, <1>8 DEF Fetched

------------------------------------------------------------------------------
(* TypeOK. *)

LEMMA InitTyped == Init => TypeOK
<1> SUFFICES ASSUME Init PROVE TypeOK OBVIOUS
<1>1. overlapped \in BOOLEAN BY DEF Init
<1> QED BY <1>1, PluginSyncAssumption DEF Init, TypeOK, PCs, Kinds

LEMMA NextTyped == IInv /\ [Next]_vars => TypeOK'
<1> SUFFICES ASSUME IInv, [Next]_vars PROVE TypeOK' OBVIOUS
<1>1. TypeOK /\ WorkerResumes BY DEF IInv
<1>2. ASSUME NEW kind \in Kinds, StartReset(kind) PROVE TypeOK'
  BY <1>1, <1>2 DEF TypeOK, StartReset, worker
<1>3. CASE StartQueue
  BY <1>1, <1>3, ScheduleTyped, PluginSyncAssumption DEF TypeOK, StartQueue, worker
<1>4. ASSUME NEW w \in Workers, ReadQueue(w) PROVE TypeOK'
  <2>1. due' \in Nat BY <1>1, <1>4 DEF TypeOK, ReadQueue
  <2>2. pc' \in [Workers -> PCs] BY <1>1, <1>4 DEF TypeOK, ReadQueue, worker, PCs
  <2>3. held' \in [Workers -> Seq(Entities)] BY <1>1, <1>4 DEF TypeOK, ReadQueue, worker
  <2>4. page' = page /\ chunk' = chunk BY <1>4 DEF ReadQueue, worker
  <2> QED BY <1>1, <1>4, <2>1, <2>2, <2>3, <2>4 DEF TypeOK, ReadQueue, options
<1>5. ASSUME NEW w \in Workers, ReadCursor(w) PROVE TypeOK'
  <2>1. Entity(w) \in Entities /\ cursor[Entity(w)] \in Nat
    BY <1>1, <1>5, EntityTyped DEF TypeOK, ReadCursor
  <2> DEFINE p == IF cursor[Entity(w)] < 1 THEN 1 ELSE cursor[Entity(w)]
  <2>2. PICK got \in Readings(Entity(w), p) :
           /\ chunk' = [chunk EXCEPT ![w] = got]
           /\ IF got = Fetched(Entity(w), p)
                THEN UNCHANGED misreads
                ELSE misreads < MaxMisreads /\ misreads' = misreads + 1
    BY <1>5 DEF ReadCursor
  <2>3. p \in Nat BY <2>1
  <2>4. got \subseteq Nat BY <2>1, <2>2, <2>3, ReadingsAreFetched, FetchedTyped
  <2>5. chunk' \in [Workers -> SUBSET Nat] BY <1>1, <2>2, <2>4 DEF TypeOK
  <2>6. misreads' \in 0..MaxMisreads
    BY <1>1, <2>2, PluginSyncAssumption DEF TypeOK
  <2> QED BY <1>1, <1>5, <2>1, <2>5, <2>6 DEF TypeOK, ReadCursor, options, PCs
<1>6. ASSUME NEW w \in Workers, PostSucceeds(w) PROVE TypeOK'
  <2>1. Entity(w) \in Entities BY <1>1, <1>6, EntityTyped DEF PostSucceeds
  <2>2. page[w] \in Nat BY <1>1 DEF TypeOK
  <2>3. Sent(chunk[w]) \subseteq Nat BY <1>1, SentIsGot DEF TypeOK
  <2>4. readModel' \in [Entities -> SUBSET Nat]
    BY <1>1, <1>6, <2>1, <2>3 DEF TypeOK, PostSucceeds
  <2>5. cut' \in [Entities -> Nat] BY <1>1, <1>6, <2>1, <2>2 DEF TypeOK, PostSucceeds
  <2> QED BY <1>1, <1>6, <2>4, <2>5, WorkerTyped DEF TypeOK, PostSucceeds, options, PCs
<1>7. ASSUME NEW w \in Workers, PostFails(w) PROVE TypeOK'
  <2>1. Entity(w) \in Entities BY <1>1, <1>7, EntityTyped DEF PostFails
  <2>2. page[w] \in Nat BY <1>1 DEF TypeOK
  <2>3. Sent(chunk[w]) \subseteq Nat BY <1>1, SentIsGot DEF TypeOK
  <2>4. readModel' \in [Entities -> SUBSET Nat]
    BY <1>1, <1>7, <2>1, <2>3 DEF TypeOK, PostFails
  <2>5. due' \in Nat BY <1>1, <1>7, ScheduleTyped DEF PostFails
  <2>6. failures' \in 0..MaxFailures
    BY <1>1, <1>7, PluginSyncAssumption DEF TypeOK, PostFails
  <2>7. "idle" \in PCs BY DEF PCs
  <2> QED BY <1>1, <1>7, <2>4, <2>5, <2>6, <2>7, WorkerTyped DEF TypeOK, PostFails, options
<1>8. ASSUME NEW w \in Workers, Advance(w) PROVE TypeOK'
  <2>1. Entity(w) \in Entities BY <1>1, <1>8, EntityTyped DEF Advance
  <2>2. cursor' \in [Entities -> Nat] BY <1>1, <1>8, <2>1 DEF TypeOK, Advance
  <2>3. "idle" \in PCs BY DEF PCs
  <2> QED BY <1>1, <1>8, <2>2, <2>3, ScheduleTyped, WorkerTyped DEF TypeOK, Advance
<1>9. ASSUME NEW w \in Workers, ClearCursor(w) PROVE TypeOK'
  <2>1. Entity(w) \in Entities BY <1>1, <1>9, EntityTyped DEF ClearCursor
  <2>2. cursor' \in [Entities -> Nat] BY <1>1, <1>9, <2>1 DEF TypeOK, ClearCursor
  <2>3. "popping" \in PCs BY DEF PCs
  <2> QED BY <1>1, <1>9, <2>2, <2>3, WorkerTyped DEF TypeOK, ClearCursor
<1>10. ASSUME NEW w \in Workers, PopEntity(w) PROVE TypeOK'
  <2>1. queue' \in Seq(Entities) BY <1>1, <1>10, EntityTyped DEF PopEntity
  <2>2. due' \in Nat BY <1>1, <1>10, ScheduleTyped DEF PopEntity, TypeOK
  <2>3. "idle" \in PCs BY DEF PCs
  <2> QED BY <1>1, <1>10, <2>1, <2>2, <2>3, WorkerTyped DEF TypeOK, PopEntity
<1>11. ASSUME NEW w \in Workers, WorkerDies(w) PROVE TypeOK'
  <2>1. crashes' \in 0..MaxCrashes
    BY <1>1, <1>11, PluginSyncAssumption DEF TypeOK, WorkerDies
  <2>2. "idle" \in PCs BY DEF PCs
  <2> QED BY <1>1, <1>11, <2>1, <2>2, WorkerTyped DEF TypeOK, WorkerDies, options
<1>12. CASE UNCHANGED vars BY <1>1, <1>12 DEF TypeOK, vars, options, worker
<1> QED
  BY <1>2, <1>3, <1>4, <1>5, <1>6, <1>7, <1>8, <1>9, <1>10, <1>11, <1>12 DEF Next, RunChunk

------------------------------------------------------------------------------
(* What was ingested stays ingested. *)

LEMMA ReadModelGrows ==
    ASSUME IInv, [Next]_vars
    PROVE  \A e \in Entities : readModel[e] \subseteq readModel'[e]
<1>1. TypeOK /\ WorkerResumes BY DEF IInv
<1>2. ASSUME NEW w \in Workers, PostSucceeds(w)
      PROVE  \A e \in Entities : readModel[e] \subseteq readModel'[e]
  BY <1>1, <1>2 DEF TypeOK, PostSucceeds
<1>3. ASSUME NEW w \in Workers, PostFails(w)
      PROVE  \A e \in Entities : readModel[e] \subseteq readModel'[e]
  BY <1>1, <1>3 DEF TypeOK, PostFails
<1>4. CASE UNCHANGED readModel BY <1>4
<1> QED
  BY <1>2, <1>3, <1>4 DEF Next, RunChunk, StartReset, StartQueue, ReadQueue, ReadCursor,
     Advance, ClearCursor, PopEntity, WorkerDies, vars

LEMMA IngestedStays ==
    ASSUME IInv, [Next]_vars, NEW e \in Entities, NEW p
    PROVE  /\ Ingested(e, p) => Ingested(e, p)'
           /\ PagesBefore(e, p) => PagesBefore(e, p)'
BY ReadModelGrows DEF Ingested, PagesBefore

------------------------------------------------------------------------------
(* ResumesWithoutGap and WorkerResumes. *)

LEMMA InitResumes == Init => ResumesWithoutGap /\ WorkerResumes /\ CutIsReached
BY DEF Init, ResumesWithoutGap, WorkerResumes, CutIsReached, PagesBefore

LEMMA NextResumes == IInv /\ [Next]_vars => ResumesWithoutGap'
<1> SUFFICES ASSUME IInv, [Next]_vars, NEW e \in Entities PROVE PagesBefore(e, cursor[e])'
  BY DEF ResumesWithoutGap
<1>1. TypeOK /\ WorkerResumes /\ PagesBefore(e, cursor[e])
  BY DEF IInv, ResumesWithoutGap
<1>2. CASE cursor'[e] = cursor[e]
  BY <1>1, <1>2, IngestedStays DEF PagesBefore, Ingested
<1>3. CASE cursor'[e] = 0 BY <1>3 DEF PagesBefore
<1>4. ASSUME NEW w \in Workers, Advance(w), Entity(w) = e PROVE PagesBefore(e, cursor[e])'
  <2>1. cursor'[e] = page[w] + 1 /\ page[w] \in Nat BY <1>1, <1>4 DEF TypeOK, Advance
  <2>2. PagesBefore(e, page[w]) /\ Ingested(e, page[w])
    BY <1>1, <1>4 DEF WorkerResumes, Advance
  <2>3. ASSUME NEW q \in 1..page[w] PROVE Ingested(e, q)
    <3>1. CASE q = page[w] BY <2>2, <3>1
    <3>2. CASE q \in 1..(page[w] - 1) BY <2>2, <3>2 DEF PagesBefore
    <3> QED BY <2>1, <3>1, <3>2
  <2>4. \A q \in 1..page[w] : Ingested(e, q)' BY <2>3, IngestedStays
  <2>5. \A q \in 1..(cursor'[e] - 1) : Ingested(e, q)' BY <2>1, <2>4
  <2> QED BY <2>5 DEF PagesBefore
<1>5. CASE cursor' # cursor
  <2>1. ASSUME NEW kind \in Kinds, StartReset(kind) PROVE cursor'[e] = 0 BY <2>1 DEF StartReset
  <2>2. ASSUME NEW w \in Workers, ClearCursor(w) PROVE cursor'[e] \in {0, cursor[e]}
    BY <1>1, <2>2 DEF TypeOK, ClearCursor
  <2>3. ASSUME NEW w \in Workers, Advance(w), Entity(w) # e PROVE cursor'[e] = cursor[e]
    BY <1>1, <2>3 DEF TypeOK, Advance
  <2> QED
    BY <1>2, <1>3, <1>4, <1>5, <2>1, <2>2, <2>3 DEF Next, RunChunk, StartQueue, ReadQueue,
       ReadCursor, PostSucceeds, PostFails, PopEntity, WorkerDies, vars, options
<1> QED BY <1>2, <1>5

(* A cut is at the page the worker had read from a cursor. *)
LEMMA NextCut == IInv /\ [Next]_vars => CutIsReached'
<1> SUFFICES ASSUME IInv, [Next]_vars, NEW e \in Entities PROVE PagesBefore(e, cut[e])'
  BY DEF CutIsReached
<1>1. TypeOK /\ WorkerResumes /\ PagesBefore(e, cut[e])
  BY DEF IInv, CutIsReached
<1>2. CASE cut'[e] = cut[e]
  BY <1>1, <1>2, IngestedStays DEF PagesBefore, Ingested
<1>3. CASE cut'[e] = 0 BY <1>3 DEF PagesBefore
<1>4. ASSUME NEW w \in Workers, PostSucceeds(w), cut'[e] # cut[e] PROVE PagesBefore(e, cut[e])'
  <2>1. Entity(w) \in Entities BY <1>1, <1>4, EntityTyped DEF PostSucceeds
  <2>2. e = Entity(w) /\ cut'[e] = page[w]
    BY <1>1, <1>4, <2>1 DEF TypeOK, PostSucceeds
  <2>3. PagesBefore(e, page[w]) BY <1>1, <1>4, <2>2 DEF WorkerResumes, PostSucceeds
  <2> QED BY <2>2, <2>3, IngestedStays DEF PagesBefore, Ingested
<1>5. CASE StartQueue BY <1>3, <1>5 DEF StartQueue
<1>6. CASE UNCHANGED cut BY <1>2, <1>6
<1> QED
  BY <1>2, <1>4, <1>5, <1>6 DEF Next, RunChunk, StartReset, ReadQueue, ReadCursor,
     PostFails, Advance, ClearCursor, PopEntity, WorkerDies, vars

(* A worker's step leaves the other workers as they are. *)
LEMMA OthersWait ==
    ASSUME TypeOK, NEW v \in Workers, NEW w \in Workers, w # v, RunChunk(w) \/ WorkerDies(w)
    PROVE  pc'[v] = pc[v] /\ held'[v] = held[v] /\ page'[v] = page[v] /\ chunk'[v] = chunk[v]
BY DEF TypeOK, RunChunk, ReadQueue, ReadCursor, PostSucceeds, PostFails, Advance,
   ClearCursor, PopEntity, WorkerDies, Release, Goto, worker

LEMMA NextWorkers == IInv /\ [Next]_vars => WorkerResumes'
<1> SUFFICES ASSUME IInv, [Next]_vars, NEW v \in Workers
             PROVE /\ pc'[v] # "idle" => held'[v] # <<>>
                   /\ pc'[v] \in {"posting", "advancing"} => PagesBefore(Entity(v), page[v])'
                   /\ pc'[v] = "posting" => page'[v] > 0 /\ (chunk[v] \subseteq Fetched(Entity(v), page[v]))'
                   /\ pc'[v] = "advancing" => Ingested(Entity(v), page[v])'
  BY DEF WorkerResumes
<1> DEFINE Resumes(u) ==
      /\ pc'[u] # "idle" => held'[u] # <<>>
      /\ pc'[u] \in {"posting", "advancing"} => PagesBefore(Entity(u), page[u])'
      /\ pc'[u] = "posting" => page'[u] > 0 /\ (chunk[u] \subseteq Fetched(Entity(u), page[u]))'
      /\ pc'[u] = "advancing" => Ingested(Entity(u), page[u])'
<1>1. TypeOK /\ WorkerResumes /\ ResumesWithoutGap BY DEF IInv
<1>2. CASE pc'[v] = "idle" BY <1>2
<1>3. CASE pc'[v] = pc[v] /\ held'[v] = held[v] /\ page'[v] = page[v] /\ chunk'[v] = chunk[v]
  <2>1. CASE pc[v] = "idle" BY <1>3, <2>1
  <2>2. CASE pc[v] # "idle"
    <3>1. Entity(v) \in Entities /\ Entity(v)' = Entity(v)
      BY <1>1, <1>3, <2>2, EntityTyped DEF Entity
    <3>2. PagesBefore(Entity(v), page[v]) => PagesBefore(Entity(v), page[v])'
      BY <1>3, <3>1, IngestedStays DEF PagesBefore, Ingested
    <3>3. Ingested(Entity(v), page[v]) => Ingested(Entity(v), page[v])'
      BY <1>3, <3>1, IngestedStays DEF Ingested
    <3>4. pc[v] = "posting" => (chunk[v] \subseteq Fetched(Entity(v), page[v]))'
      BY <1>1, <1>3, <3>1 DEF WorkerResumes
    <3> QED BY <1>1, <1>3, <2>2, <3>2, <3>3, <3>4 DEF WorkerResumes
  <2> QED BY <2>1, <2>2
<1>4. ASSUME ReadQueue(v) PROVE Resumes(v)
  BY <1>1, <1>3, <1>4 DEF TypeOK, ReadQueue, worker
<1>5. ASSUME ReadCursor(v) PROVE Resumes(v)
  <2>1. Entity(v) \in Entities BY <1>1, <1>5, EntityTyped DEF ReadCursor
  <2>2. pc'[v] = "posting" /\ held'[v] = held[v] /\ held[v] # <<>>
    BY <1>1, <1>5 DEF TypeOK, ReadCursor, WorkerResumes
  <2>3. page'[v] = IF cursor[Entity(v)] < 1 THEN 1 ELSE cursor[Entity(v)]
    BY <1>1, <1>5 DEF TypeOK, ReadCursor
  <2>4. PagesBefore(Entity(v), page'[v])
    BY <1>1, <2>1, <2>3 DEF TypeOK, ResumesWithoutGap, PagesBefore
  <2>5. Entity(v)' = Entity(v) BY <2>2 DEF Entity
  <2>6. PagesBefore(Entity(v), page[v])'
    BY <2>1, <2>4, <2>5, IngestedStays DEF PagesBefore, Ingested
  <2>7. PICK got \in Readings(Entity(v), page'[v]) : chunk'[v] = got
    BY <1>1, <1>5, <2>3 DEF TypeOK, ReadCursor
  <2>8. (chunk[v] \subseteq Fetched(Entity(v), page[v]))'
    BY <2>5, <2>7, ReadingsAreFetched
  <2>9. page'[v] > 0 BY <1>1, <2>1, <2>3 DEF TypeOK
  <2> QED BY <2>2, <2>6, <2>8, <2>9
<1>6. ASSUME PostSucceeds(v) PROVE Resumes(v)
  <2>1. Entity(v) \in Entities BY <1>1, <1>6, EntityTyped DEF PostSucceeds
  <2>2. /\ pc'[v] \in {"advancing", "clearing"} /\ held[v] # <<>>
        /\ held'[v] = held[v] /\ page'[v] = page[v]
    BY <1>1, <1>6 DEF TypeOK, PostSucceeds, Goto, WorkerResumes
  <2>3. Entity(v)' = Entity(v) BY <2>2 DEF Entity
  <2>4. PagesBefore(Entity(v), page[v]) BY <1>1, <1>6 DEF WorkerResumes, PostSucceeds
  <2>5. PagesBefore(Entity(v), page[v])'
    BY <2>1, <2>2, <2>3, <2>4, IngestedStays DEF PagesBefore, Ingested
  <2>6. Sent(chunk[v]) \subseteq readModel'[Entity(v)]
    BY <1>1, <1>6, <2>1 DEF TypeOK, PostSucceeds
  <2>7. ASSUME pc'[v] = "advancing" PROVE Ingested(Entity(v), page[v])'
    <3>1. More(chunk[v]) BY <1>1, <1>6, <2>7 DEF TypeOK, PostSucceeds, Goto
    <3>2. chunk[v] \subseteq Fetched(Entity(v), page[v]) /\ page[v] \in Nat
      BY <1>1, <1>6 DEF WorkerResumes, PostSucceeds, TypeOK
    <3>3. chunk[v] = Fetched(Entity(v), page[v]) BY <2>1, <3>1, <3>2, MoreIsFull
    <3> QED BY <2>2, <2>3, <2>6, <3>3 DEF Ingested
  <2> QED BY <2>2, <2>5, <2>7
<1>7. ASSUME ClearCursor(v) PROVE Resumes(v)
  BY <1>1, <1>7 DEF TypeOK, ClearCursor, Goto, WorkerResumes
<1>8. ASSUME NEW w \in Workers, w # v, RunChunk(w) \/ WorkerDies(w)
      PROVE  pc'[v] = pc[v] /\ held'[v] = held[v] /\ page'[v] = page[v] /\ chunk'[v] = chunk[v]
  BY <1>1, <1>8, OthersWait
<1>9. ASSUME PostFails(v) \/ Advance(v) \/ PopEntity(v) \/ WorkerDies(v) PROVE pc'[v] = "idle"
  BY <1>1, <1>9 DEF TypeOK, PostFails, Advance, PopEntity, WorkerDies, Release
<1>10. ASSUME (\E kind \in Kinds : StartReset(kind)) \/ StartQueue \/ UNCHANGED vars
       PROVE  pc'[v] = pc[v] /\ held'[v] = held[v] /\ page'[v] = page[v] /\ chunk'[v] = chunk[v]
  BY <1>10 DEF StartReset, StartQueue, vars, worker
<1> QED
  BY <1>2, <1>3, <1>4, <1>5, <1>6, <1>7, <1>8, <1>9, <1>10 DEF Next, RunChunk

------------------------------------------------------------------------------
(* EntityIsDone: the last page of an entity is the last there is. *)

LEMMA EveryPageStays ==
    ASSUME IInv, [Next]_vars, NEW e \in Entities, EveryPage(e)
    PROVE  EveryPage(e)'
<1>1. \A p \in 1..(Count[e] + 1) : Ingested(e, p)' BY IngestedStays DEF EveryPage
<1> QED BY <1>1 DEF EveryPage

LEMMA CutStays ==
    ASSUME IInv, [Next]_vars, ~StartQueue, NEW e \in Entities, cut[e] > 0
    PROVE  cut'[e] > 0
<1>1. TypeOK /\ WorkerResumes BY DEF IInv
<1>2. ASSUME NEW w \in Workers, PostSucceeds(w) PROVE cut'[e] > 0
  <2>1. page[w] > 0 BY <1>1, <1>2 DEF WorkerResumes, PostSucceeds
  <2> QED BY <1>1, <1>2, <2>1 DEF TypeOK, PostSucceeds
<1>3. CASE UNCHANGED cut BY <1>3
<1> QED
  BY <1>2, <1>3 DEF Next, RunChunk, StartReset, ReadQueue, ReadCursor,
     PostFails, Advance, ClearCursor, PopEntity, WorkerDies, vars

LEMMA OverlapIsKept == ASSUME [Next]_vars, ~overlapped' PROVE ~overlapped
<1>1. ASSUME NEW kind \in Kinds, StartReset(kind) PROVE ~overlapped
  BY <1>1 DEF StartReset
<1>2. CASE overlapped' = overlapped BY <1>2
<1> QED
  BY <1>1, <1>2 DEF Next, RunChunk, StartQueue, ReadQueue, ReadCursor, PostSucceeds, PostFails,
     Advance, ClearCursor, PopEntity, WorkerDies, vars

(* An entity that is done stays done: nothing but a start forgets its cut. *)
LEMMA NextDone == IInv /\ OneAtATime /\ EntityIsDone /\ [Next]_vars => EntityIsDone'
<1> SUFFICES ASSUME IInv, OneAtATime, EntityIsDone, [Next]_vars, ~overlapped', NEW v \in Workers,
                    pc'[v] \in {"clearing", "popping"}
             PROVE  EveryPage(Entity(v))' \/ cut'[Entity(v)'] > 0
  BY DEF EntityIsDone
<1>1. TypeOK /\ WorkerResumes BY DEF IInv
<1>2. ~overlapped BY OverlapIsKept
<1>3. ASSUME pc[v] \in {"clearing", "popping"}, held'[v] = held[v], ~StartQueue
      PROVE  EveryPage(Entity(v))' \/ cut'[Entity(v)'] > 0
  <2>1. Entity(v) \in Entities /\ Entity(v)' = Entity(v)
    BY <1>1, <1>3, EntityTyped DEF Entity
  <2>2. EveryPage(Entity(v)) \/ cut[Entity(v)] > 0 BY <1>2, <1>3 DEF EntityIsDone
  <2>3. cut[Entity(v)] > 0 => cut'[Entity(v)] > 0 BY <1>3, <2>1, CutStays
  <2> QED BY <2>1, <2>2, <2>3, EveryPageStays DEF EveryPage, Ingested
<1>4. ASSUME PostSucceeds(v) PROVE EveryPage(Entity(v))' \/ cut'[Entity(v)'] > 0
  <2> DEFINE e == Entity(v)
  <2>1. e \in Entities /\ page[v] \in Nat /\ page[v] > 0
    BY <1>1, <1>4, EntityTyped DEF PostSucceeds, TypeOK, WorkerResumes
  <2>2. held'[v] = held[v] /\ page'[v] = page[v] /\ ~More(chunk[v])
    BY <1>1, <1>4 DEF TypeOK, PostSucceeds, Goto
  <2>3. Entity(v)' = e BY <2>2 DEF Entity
  <2>4. CASE chunk[v] # Fetched(e, page[v])
    <3>1. cut'[e] = page[v] BY <1>1, <1>4, <2>1, <2>4 DEF TypeOK, PostSucceeds
    <3> QED BY <2>1, <2>3, <3>1
  <2>5. CASE chunk[v] = Fetched(e, page[v])
    <3>1. PagesBefore(e, page[v]) BY <1>1, <1>4 DEF WorkerResumes, PostSucceeds
    <3>2. \A q \in 1..(page[v] - 1) : Sent(Fetched(e, q)) \subseteq readModel'[e]
      BY <2>1, <3>1, ReadModelGrows DEF PagesBefore, Ingested
    <3>3. Sent(Fetched(e, page[v])) \subseteq readModel'[e]
      BY <1>1, <1>4, <2>1, <2>5 DEF TypeOK, PostSucceeds
    <3>4. ASSUME NEW q \in 1..(Count[e] + 1) PROVE Sent(Fetched(e, q)) \subseteq readModel'[e]
      <4>1. q \in Nat /\ q >= 1 BY <2>1, PluginSyncAssumption
      <4>2. CASE q < page[v] BY <2>1, <3>2, <4>1, <4>2
      <4>3. CASE q = page[v] BY <3>3, <4>3
      <4>4. CASE q > page[v]
        <5>1. Fetched(e, q) = {} BY <2>1, <2>2, <2>5, <4>1, <4>4, LaterPagesAreEmpty
        <5> QED BY <5>1, SentIsGot
      <4> QED BY <2>1, <4>1, <4>2, <4>3, <4>4
    <3> QED BY <2>3, <3>4 DEF EveryPage, Ingested
  <2> QED BY <2>4, <2>5
<1>5. ASSUME ClearCursor(v) PROVE pc[v] = "clearing" /\ held'[v] = held[v]
  BY <1>5 DEF ClearCursor, Goto
<1>6. ASSUME NEW w \in Workers, w # v, RunChunk(w) \/ WorkerDies(w)
      PROVE  pc'[v] = pc[v] /\ held'[v] = held[v]
  BY <1>1, <1>6, OthersWait
<1>7. ASSUME ReadQueue(v) PROVE pc[v] = "idle" /\ pc'[v] \in {"idle", "reading"}
  BY <1>1, <1>7 DEF TypeOK, ReadQueue, worker
<1>8. ASSUME ReadCursor(v) PROVE pc'[v] = "posting" BY <1>1, <1>8 DEF TypeOK, ReadCursor
<1>9. ASSUME PostFails(v) \/ Advance(v) \/ PopEntity(v) \/ WorkerDies(v) PROVE pc'[v] = "idle"
  BY <1>1, <1>9 DEF TypeOK, PostFails, Advance, PopEntity, WorkerDies, Release
<1>10. ASSUME (\E kind \in Kinds : StartReset(kind)) \/ UNCHANGED vars
       PROVE  pc'[v] = pc[v] /\ held'[v] = held[v]
  BY <1>10 DEF StartReset, vars, worker
<1>11. CASE StartQueue
  <2>1. Busy = {} BY <1>2, <1>11 DEF StartQueue, OneAtATime, Quiet
  <2>2. pc'[v] = "idle" BY <1>11, <2>1 DEF StartQueue, worker, Busy
  <2> QED BY <2>2
<1>12. CASE ~StartQueue
  BY <1>3, <1>4, <1>5, <1>6, <1>7, <1>8, <1>9, <1>10, <1>12 DEF Next, RunChunk
<1> QED BY <1>11, <1>12

------------------------------------------------------------------------------
(* OneAtATime: the one hook becomes the one worker, and the worker the hook. *)

LEMMA NextOne == TypeOK /\ OneAtATime /\ [Next]_vars => OneAtATime'
<1> SUFFICES ASSUME TypeOK, OneAtATime, [Next]_vars, ~overlapped' PROVE OneAtATime'
  BY DEF OneAtATime
<1>1. due \in Nat BY DEF TypeOK
<1>2. ~overlapped BY OverlapIsKept
<1>3. /\ starting # "no" => Quiet
      /\ due <= 1
      /\ \A w \in Busy : due = 0 /\ Busy = {w} /\ held[w] = queue
  BY <1>2 DEF OneAtATime
<1>4. ASSUME NEW kind \in Kinds, StartReset(kind) PROVE OneAtATime'
  <2>1. due = 0 /\ Busy = {} BY <1>4 DEF StartReset, Quiet
  <2>2. due' = 0 /\ Busy' = {} BY <1>4, <2>1 DEF StartReset, Busy, worker
  <2> QED BY <2>2 DEF OneAtATime, Quiet
<1>5. CASE StartQueue
  <2>1. due = 0 /\ Busy = {} BY <1>3, <1>5 DEF StartQueue, Quiet
  <2>2. due' = 1 /\ Busy' = {} /\ starting' = "no"
    BY <1>5, <2>1 DEF StartQueue, Busy, worker, Schedule
  <2> QED BY <2>2 DEF OneAtATime
<1>6. ASSUME NEW w \in Workers, ReadQueue(w) PROVE OneAtATime'
  <2>1. due > 0 /\ due' = due - 1 BY <1>6 DEF ReadQueue
  <2>2. Busy = {} /\ due' = 0 /\ starting = "no" BY <1>1, <1>3, <2>1 DEF Quiet
  <2>3. starting' = "no" /\ queue' = queue BY <1>6, <2>2 DEF ReadQueue, options
  <2>4. CASE queue = <<>>
    <3>1. Busy' = {} BY <1>6, <2>2, <2>4 DEF ReadQueue, worker, Busy
    <3> QED BY <2>2, <2>3, <3>1 DEF OneAtATime
  <2>5. CASE queue # <<>>
    <3>1. pc' = [pc EXCEPT ![w] = "reading"] /\ held' = [held EXCEPT ![w] = queue]
      BY <1>6, <2>5 DEF ReadQueue
    <3>2. Busy' = {w} BY <2>2, <3>1 DEF Busy, TypeOK
    <3>3. held'[w] = queue BY <3>1 DEF TypeOK
    <3> QED BY <2>2, <2>3, <3>2, <3>3 DEF OneAtATime
  <2> QED BY <2>4, <2>5
<1>7. ASSUME NEW w \in Workers, pc[w] # "idle"
      PROVE  Busy = {w} /\ due = 0 /\ starting = "no" /\ held[w] = queue
  <2>1. w \in Busy BY <1>7 DEF Busy
  <2> QED BY <1>3, <2>1 DEF Quiet
<1>8. ASSUME NEW w \in Workers, ReadCursor(w) \/ PostSucceeds(w) \/ ClearCursor(w)
      PROVE  OneAtATime'
  <2>1. Busy = {w} /\ due = 0 /\ starting = "no" /\ held[w] = queue
    BY <1>7, <1>8 DEF ReadCursor, PostSucceeds, ClearCursor
  <2>2. Busy' = {w}
    BY <1>8, <2>1 DEF ReadCursor, PostSucceeds, ClearCursor, Goto, Busy, TypeOK
  <2>3. due' = 0 /\ starting' = "no" /\ held' = held /\ queue' = queue
    BY <1>8, <2>1 DEF ReadCursor, PostSucceeds, ClearCursor, Goto, options
  <2> QED BY <2>1, <2>2, <2>3 DEF OneAtATime
<1>9. ASSUME NEW w \in Workers, PostFails(w) \/ Advance(w) \/ PopEntity(w) \/ WorkerDies(w)
      PROVE  OneAtATime'
  <2>1. Busy = {w} /\ due = 0 /\ starting = "no"
    BY <1>7, <1>9 DEF PostFails, Advance, PopEntity, WorkerDies
  <2>2. Busy' = {}
    BY <1>9, <2>1 DEF PostFails, Advance, PopEntity, WorkerDies, Release, Busy, TypeOK
  <2>3. due' \in {0, 1} /\ starting' = "no"
    BY <1>9, <2>1 DEF PostFails, Advance, PopEntity, WorkerDies, Schedule
  <2> QED BY <2>2, <2>3 DEF OneAtATime
<1>10. CASE UNCHANGED vars
  BY <1>3, <1>10 DEF OneAtATime, vars, options, worker, Quiet, Busy
<1>11. ASSUME NEW w \in Workers, RunChunk(w) \/ WorkerDies(w) PROVE OneAtATime'
  BY <1>6, <1>8, <1>9, <1>11 DEF RunChunk
<1> QED BY <1>4, <1>5, <1>10, <1>11 DEF Next

------------------------------------------------------------------------------
(* LeftQueueMeansIngested. *)

(* What LeftQueueMeansIngested asks of an entity that is not in the queue. *)
Over(e) == EveryPage(e) \/ (cut[e] > 0 /\ PagesBefore(e, cut[e]))

LEMMA LeftMeansOver ==
    LeftQueueMeansIngested <=>
        (lastStart # "never" /\ ~overlapped =>
            \A i \in DOMAIN LatestQueue :
                (\E j \in DOMAIN queue : queue[j] = LatestQueue[i]) \/ Over(LatestQueue[i]))
BY DEF LeftQueueMeansIngested, Over

LEMMA NextLeft ==
    IInv /\ OneAtATime /\ EntityIsDone /\ LeftQueueMeansIngested /\ [Next]_vars
        => LeftQueueMeansIngested'
<1> SUFFICES ASSUME IInv, OneAtATime, EntityIsDone, LeftQueueMeansIngested, [Next]_vars,
                    lastStart' # "never", ~overlapped', NEW i \in DOMAIN LatestQueue'
             PROVE  \/ \E j \in DOMAIN queue' : queue'[j] = LatestQueue'[i]
                    \/ EveryPage(LatestQueue[i])'
                    \/ /\ cut'[LatestQueue'[i]] > 0
                       /\ PagesBefore(LatestQueue[i], cut[LatestQueue[i]])'
  BY DEF LeftQueueMeansIngested
<1>1. TypeOK BY DEF IInv
<1>2. ~overlapped BY OverlapIsKept
<1>3. CASE StartQueue
  <2>1. queue' = LatestQueue' BY <1>3 DEF StartQueue, LatestQueue
  <2> QED BY <2>1
<1>4. CASE ~StartQueue
  <2>0. lastStart' = lastStart
    BY <1>4 DEF Next, RunChunk, StartReset, ReadQueue, ReadCursor, PostSucceeds, PostFails,
       Advance, ClearCursor, PopEntity, WorkerDies, vars
  <2>1. LatestQueue' = LatestQueue BY <2>0 DEF LatestQueue
  <2> DEFINE e == LatestQueue[i]
  <2>2. e \in Entities
    BY <2>1, PluginSyncAssumption DEF LatestQueue
  <2>3. (\E j \in DOMAIN queue : queue[j] = e) \/ Over(e)
    BY <1>2, <2>0, <2>1, LeftMeansOver
  <2>4. ASSUME NEW x \in Entities, Over(x)
        PROVE  EveryPage(x)' \/ (cut'[x] > 0 /\ PagesBefore(x, cut[x])')
    <3>1. PagesBefore(x, cut[x])' BY NextCut DEF CutIsReached
    <3> QED BY <1>4, <2>4, <3>1, CutStays, EveryPageStays DEF Over
  <2>5. ASSUME Over(e)
        PROVE  \/ EveryPage(LatestQueue[i])'
               \/ /\ cut'[LatestQueue'[i]] > 0
                  /\ PagesBefore(LatestQueue[i], cut[LatestQueue[i]])'
    BY <2>1, <2>2, <2>4, <2>5 DEF EveryPage, PagesBefore, Ingested
  <2>6. CASE queue' = queue BY <2>1, <2>3, <2>5, <2>6
  <2>7. ASSUME NEW w \in Workers, PopEntity(w),
               NEW j \in DOMAIN queue, queue[j] = e
        PROVE  (\E k \in DOMAIN queue' : queue'[k] = e) \/ Over(e)
    <3>1. held[w] = queue /\ (EveryPage(Entity(w)) \/ cut[Entity(w)] > 0)
      BY <1>2, <2>7 DEF PopEntity, OneAtATime, Busy, EntityIsDone
    <3>2. queue' = Tail(queue) /\ queue \in Seq(Entities) /\ queue # <<>>
      BY <1>1, <2>7, <3>1 DEF PopEntity, TypeOK
    <3>3. CASE j = 1
      <4>1. e = Entity(w) BY <2>7, <3>1, <3>2, <3>3 DEF Entity
      <4>2. PagesBefore(e, cut[e]) BY <2>2 DEF IInv, CutIsReached
      <4> QED BY <3>1, <4>1, <4>2 DEF Over
    <3>4. CASE j # 1
      <4>1. j \in 2..Len(queue) BY <3>2, <3>4
      <4>2. j - 1 \in DOMAIN queue' /\ queue'[j - 1] = queue[j] BY <3>2, <4>1
      <4> QED BY <2>7, <4>2
    <3> QED BY <3>3, <3>4
  <2>8. CASE \E w \in Workers : PopEntity(w)
    BY <2>1, <2>3, <2>5, <2>7, <2>8
  <2>9. queue' = queue \/ \E w \in Workers : PopEntity(w)
    BY <1>4 DEF Next, RunChunk, StartReset, ReadQueue, ReadCursor, PostSucceeds, PostFails,
       Advance, ClearCursor, WorkerDies, vars, options
  <2> QED BY <2>6, <2>8, <2>9
<1> QED BY <1>3, <1>4

------------------------------------------------------------------------------
LEMMA Inductive == Spec => []IInv
<1>1. Init => IInv BY InitTyped, InitResumes DEF IInv
<1>2. IInv /\ [Next]_vars => IInv' BY NextTyped, NextResumes, NextWorkers, NextCut DEF IInv
<1> QED BY <1>1, <1>2, PTL DEF Spec

(* The options, the workers and the backend's read model keep their types. *)
THEOREM SyncTypeCorrect == Spec => []TypeOK
<1>1. IInv => TypeOK BY DEF IInv
<1> QED BY <1>1, Inductive, PTL

(* The backend holds every page a cursor has moved past, whatever starts,
   failures, unreadable items, half-done ingests and crashes interleave. *)
THEOREM NoGapBehindCursor == Spec => []ResumesWithoutGap
<1>1. IInv => ResumesWithoutGap BY DEF IInv
<1> QED BY <1>1, Inductive, PTL

(* While no start overlaps a sync, an entity leaves the queue only when the
   backend has every page of it, or every page before the one that the builder
   got short and the backend accepted: the one worker there is pops the entity
   whose last chunk it saw ingested, from a copy of the queue that is still the
   queue. *)
THEOREM LeftQueueIsIngested == Spec => []LeftQueueMeansIngested
<1> DEFINE Sole == OneAtATime /\ EntityIsDone /\ LeftQueueMeansIngested
<1>1. Init => Sole
  BY DEF Init, OneAtATime, Busy, Quiet, EntityIsDone, LeftQueueMeansIngested
<1>2. IInv /\ Sole /\ [Next]_vars => Sole'
  BY NextOne, NextDone, NextLeft DEF IInv
<1>3. Sole => LeftQueueMeansIngested OBVIOUS
<1> HIDE DEF Sole
<1> QED BY <1>1, <1>2, <1>3, Inductive, PTL DEF Spec
==============================================================================
