---------------------------- MODULE MemoryOutbox ----------------------------
(***************************************************************************)
(* Long-term memory: MongoDB is the source of truth, Chroma holds vectors  *)
(* that are projected from it by one background worker                     *)
(* (services/orchestrator/storage_manager.py, outbox_worker.py and the     *)
(* edits memory_consolidator.py applies).                                  *)
(*                                                                         *)
(* Every write to a document sets outbox.processed to False in the same    *)
(* Mongo update.  The worker finds a batch of unprocessed documents, and   *)
(* for each one upserts the Chroma point, appends to the `tasks` stream    *)
(* and then sets outbox.processed to True, in three separate awaits: every *)
(* other coroutine may run between them.  The documents of a batch are the *)
(* ones the find returned (Motor fetches a whole batch of up to 101        *)
(* documents, the limit is 100), not what Mongo holds when each one is     *)
(* projected.                                                              *)
(*                                                                         *)
(* A document's text never changes, so it is its id.  What the projection  *)
(* can get wrong is the metadata: validity (valid_to) and importance.      *)
(* `ver` counts the writes to a document; it exists in the model only, to  *)
(* tell two projections of the same document apart.                        *)
(***************************************************************************)
EXTENDS Naturals

CONSTANTS
  Episodes,   \* ids of the documents of the `episodes` collection
  Memories,   \* ids of the documents of the `memories` collection
  Tasks,      \* background coroutines that edit memories
  Importance, \* the levels of `importance` a document is stored with or reaches
  Permanent,  \* the cap (5.0); from there on a memory never expires
  MaxVer,     \* bound: writes to one document
  MaxFaults   \* bound: crashes of the process and failed worker passes

ASSUME OutboxAssumption ==
  /\ Episodes \cap Memories = {}
  /\ Permanent \in Nat /\ Permanent \in Importance
  /\ Importance \subseteq 1 .. Permanent
  /\ \A i \in Importance \ {Permanent} : i + 1 \in Importance
  /\ MaxVer \in Nat \ {0}
  /\ MaxFaults \in Nat

VARIABLES
  doc,     \* Mongo: id -> document, or Absent before it is stored
  chroma,  \* Chroma: id -> metadata of its point, or NoPoint
  stream,  \* ids the `tasks` stream has at least one entry for
  coll,    \* worker: the collection process_once is at
  step,    \* worker: its next await
  batch,   \* worker: id -> metadata read by the find, or NoPoint
  cur,     \* worker: the document being projected
  task,    \* task -> what it is in the middle of
  raced,   \* history: ids written after the worker's find read them
  faults   \* crashes and failed passes so far

worker == <<coll, step, batch, cur>>
outboxVars == <<doc, chroma, stream, coll, step, batch, cur, task, raced, faults>>

Ids == Episodes \cup Memories
Absent == [ver |-> 0]
NoPoint == [ver |-> 0]
NoId == "none"

Meta == [open : BOOLEAN, imp : Importance, ver : 1 .. MaxVer]
Document == [open : BOOLEAN, imp : Importance, ver : 1 .. MaxVer,
             expired : BOOLEAN, processed : BOOLEAN]

Stored(m) == doc[m] # Absent
MetaOf(d) == [open |-> d.open, imp |-> d.imp, ver |-> d.ver]

Idle == [op |-> "idle"]
Boosting == [op : {"boost"}, id : Memories, imp : Importance]
Decaying == [op : {"decay"}, todo : SUBSET Memories]
Superseding == [op : {"supersede"}, new : Memories, imp : Importance]

OutboxTypeOK ==
  /\ doc \in [Ids -> Document \cup {Absent}]
  /\ chroma \in [Ids -> Meta \cup {NoPoint}]
  /\ stream \subseteq Ids
  /\ coll \in {"episodes", "memories"}
  /\ step \in {"find", "upsert", "xadd", "mark"}
  /\ batch \in [Ids -> Meta \cup {NoPoint}]
  /\ cur \in Ids \cup {NoId}
  /\ task \in [Tasks -> {Idle} \cup Boosting \cup Decaying \cup Superseding]
  /\ raced \subseteq Ids
  /\ faults \in 0 .. MaxFaults

OutboxInit ==
  /\ doc = [m \in Ids |-> Absent]
  /\ chroma = [m \in Ids |-> NoPoint]
  /\ stream = {}
  /\ coll = "episodes"
  /\ step = "find"
  /\ batch = [m \in Ids |-> NoPoint]
  /\ cur = NoId
  /\ task = [t \in Tasks |-> Idle]
  /\ raced = {}
  /\ faults = 0

-----------------------------------------------------------------------------
(* Writers: one Mongo write each, which re-opens the outbox.               *)

\* Mutant: a replace_one(upsert=True) in place of insert_one.
InsertOverwrites(m, i) ==
  doc' = [doc EXCEPT ![m] = [open |-> TRUE, imp |-> i, ver |-> 1,
                             expired |-> FALSE, processed |-> FALSE]]

Insert(m, i) ==
  /\ ~Stored(m)
  /\ doc' = [doc EXCEPT ![m] = [open |-> TRUE, imp |-> i, ver |-> 1,
                                expired |-> FALSE, processed |-> FALSE]]

\* Mutant: the update forgets to re-open the outbox.
RewrittenQuietly(d, open, imp, expired) ==
  [open |-> open, imp |-> imp, ver |-> d.ver + 1,
   expired |-> expired, processed |-> d.processed]

\* What update_one({_id: m}, {$set: ..., outbox.processed: False}) leaves of d.
Rewritten(d, open, imp, expired) ==
  [open |-> open, imp |-> imp, ver |-> d.ver + 1,
   expired |-> expired, processed |-> FALSE]

\* A document in the worker's batch is now newer than what the worker read.
MarkRaced(m) == raced' = IF batch[m] # NoPoint THEN raced \cup {m} ELSE raced

\* The update matches nothing when the document does not exist.
SetClosed(m) ==
  IF Stored(m)
  THEN /\ doc[m].ver < MaxVer
       /\ doc' = [doc EXCEPT ![m] = Rewritten(@, FALSE, @.imp, @.expired)]
       /\ MarkRaced(m)
  ELSE UNCHANGED <<doc, raced>>

StoreEpisode(e) ==
  /\ \E i \in Importance : Insert(e, i)
  /\ UNCHANGED <<chroma, stream, worker, task, raced, faults>>

StoreMemory(m) ==
  /\ \E i \in Importance : Insert(m, i)
  /\ UNCHANGED <<chroma, stream, worker, task, raced, faults>>

CloseMemory(m) ==
  /\ SetClosed(m)
  /\ UNCHANGED <<chroma, stream, worker, task, faults>>

\* expires_at of a memory passes.  At the cap expires_at is None.
Expire(m) ==
  /\ Stored(m)
  /\ doc[m].imp # Permanent
  /\ ~doc[m].expired
  /\ doc' = [doc EXCEPT ![m].expired = TRUE]
  /\ UNCHANGED <<chroma, stream, worker, task, raced, faults>>

-----------------------------------------------------------------------------
(* Tasks: edits that take more than one await.                             *)

\* boost_memory_importance: find_one, then update_one with the sum.
BoostRead(t, m) ==
  /\ task[t] = Idle
  /\ Stored(m)
  /\ task' = [task EXCEPT ![t] = [op |-> "boost", id |-> m, imp |-> doc[m].imp]]
  /\ UNCHANGED <<doc, chroma, stream, worker, raced, faults>>

\* Mutant: the cap is dropped.
RaiseUncapped(i) == i + 1

Raise(i) == IF i < Permanent THEN i + 1 ELSE Permanent

\* Mutant: a memory that is used again counts as current again.
BoostReopens(t) ==
  /\ task[t].op = "boost"
  /\ LET m == task[t].id IN
       /\ doc[m].ver < MaxVer
       /\ doc' = [doc EXCEPT ![m] = Rewritten(@, TRUE, Raise(task[t].imp), FALSE)]
       /\ MarkRaced(m)
  /\ task' = [task EXCEPT ![t] = Idle]
  /\ UNCHANGED <<chroma, stream, worker, faults>>

BoostWrite(t) ==
  /\ task[t].op = "boost"
  /\ LET m == task[t].id IN
       /\ doc[m].ver < MaxVer
       /\ doc' = [doc EXCEPT ![m] = Rewritten(@, @.open, Raise(task[t].imp), FALSE)]
       /\ MarkRaced(m)
  /\ task' = [task EXCEPT ![t] = Idle]
  /\ UNCHANGED <<chroma, stream, worker, faults>>

\* decay_expired_memories: list the open expired memories, then close each.
DecayList(t) ==
  /\ task[t] = Idle
  /\ LET hits == {m \in Memories : Stored(m) /\ doc[m].open /\ doc[m].expired} IN
       /\ hits # {}
       /\ task' = [task EXCEPT ![t] = [op |-> "decay", todo |-> hits]]
  /\ UNCHANGED <<doc, chroma, stream, worker, raced, faults>>

DecayClose(t, m) ==
  /\ task[t].op = "decay"
  /\ m \in task[t].todo
  /\ SetClosed(m)
  /\ LET rest == task[t].todo \ {m} IN
       task' = [task EXCEPT ![t] = IF rest = {} THEN Idle
                                   ELSE [op |-> "decay", todo |-> rest]]
  /\ UNCHANGED <<chroma, stream, worker, faults>>

\* SemanticMemory.supersede: close the old fact, then store the new one.
SupersedeClose(t, old, new) ==
  /\ task[t] = Idle
  /\ Stored(old) /\ ~Stored(new)
  /\ \A u \in Tasks : task[u].op = "supersede" => task[u].new # new
  /\ SetClosed(old)
  /\ \E i \in Importance :
       task' = [task EXCEPT ![t] = [op |-> "supersede", new |-> new, imp |-> i]]
  /\ UNCHANGED <<chroma, stream, worker, faults>>

SupersedeStore(t) ==
  /\ task[t].op = "supersede"
  /\ Insert(task[t].new, task[t].imp)
  /\ task' = [task EXCEPT ![t] = Idle]
  /\ UNCHANGED <<chroma, stream, worker, raced, faults>>

-----------------------------------------------------------------------------
(* OutboxWorker.process_once                                               *)

Collection == IF coll = "episodes" THEN Episodes ELSE Memories
Pending == {m \in Collection : Stored(m) /\ ~doc[m].processed}
InBatch == {m \in Ids : batch[m] # NoPoint}

Find ==
  /\ step = "find"
  /\ batch' = [m \in Ids |-> IF m \in Pending THEN MetaOf(doc[m]) ELSE NoPoint]
  /\ raced' = raced \ Pending
  /\ step' = "upsert"
  /\ UNCHANGED <<doc, chroma, stream, coll, cur, task, faults>>

\* Mutant: an error of the upsert is swallowed and the document goes on.
UpsertSwallowed(m) ==
  /\ step = "upsert"
  /\ m \in InBatch
  /\ cur' = m
  /\ step' = "xadd"
  /\ UNCHANGED <<doc, chroma, stream, coll, batch, task, raced, faults>>

Upsert(m) ==
  /\ step = "upsert"
  /\ m \in InBatch
  /\ chroma' = [chroma EXCEPT ![m] = batch[m]]
  /\ cur' = m
  /\ step' = "xadd"
  /\ UNCHANGED <<doc, stream, coll, batch, task, raced, faults>>

XAdd ==
  /\ step = "xadd"
  /\ stream' = stream \cup {cur}
  /\ step' = "mark"
  /\ UNCHANGED <<doc, chroma, coll, batch, cur, task, raced, faults>>

\* update_one({_id: cur}, {$set: {outbox.processed: True}}), whatever the
\* document has become since it was read.
Mark ==
  /\ step = "mark"
  /\ doc' = [doc EXCEPT ![cur].processed = TRUE]
  /\ batch' = [batch EXCEPT ![cur] = NoPoint]
  /\ cur' = NoId
  /\ step' = "upsert"
  /\ UNCHANGED <<chroma, stream, coll, task, raced, faults>>

\* Mutant: the pass returns after its first collection.
ExhaustedEarly ==
  /\ step = "upsert"
  /\ InBatch = {}
  /\ step' = "find"
  /\ UNCHANGED <<doc, chroma, stream, coll, batch, cur, task, raced, faults>>

\* The cursor is exhausted: the other collection, or the next poll.
Exhausted ==
  /\ step = "upsert"
  /\ InBatch = {}
  /\ coll' = IF coll = "episodes" THEN "memories" ELSE "episodes"
  /\ step' = "find"
  /\ UNCHANGED <<doc, chroma, stream, batch, cur, task, raced, faults>>

AbandonPass ==
  /\ coll' = "episodes"
  /\ step' = "find"
  /\ batch' = [m \in Ids |-> NoPoint]
  /\ cur' = NoId

\* A call of the pass raises: run() logs it, drops the batch and polls again.
WorkerFails ==
  /\ step # "find"
  /\ faults < MaxFaults
  /\ faults' = faults + 1
  /\ AbandonPass
  /\ UNCHANGED <<doc, chroma, stream, task, raced>>

\* The orchestrator process dies and starts again: every coroutine is gone.
CrashOutbox ==
  /\ faults < MaxFaults
  /\ faults' = faults + 1
  /\ AbandonPass
  /\ task' = [t \in Tasks |-> Idle]
  /\ UNCHANGED <<doc, chroma, stream, raced>>

-----------------------------------------------------------------------------
WriterNext ==
  \/ \E e \in Episodes : StoreEpisode(e)
  \/ \E m \in Memories : StoreMemory(m) \/ CloseMemory(m) \/ Expire(m)

TaskNext(t) ==
  \/ \E m \in Memories : BoostRead(t, m) \/ DecayClose(t, m)
  \/ BoostWrite(t)
  \/ DecayList(t)
  \/ \E old, new \in Memories : SupersedeClose(t, old, new)
  \/ SupersedeStore(t)

WorkerNext == Find \/ (\E m \in Ids : Upsert(m)) \/ XAdd \/ Mark \/ Exhausted

OutboxNext ==
  \/ WriterNext
  \/ \E t \in Tasks : TaskNext(t)
  \/ WorkerNext
  \/ WorkerFails
  \/ CrashOutbox

OutboxSpec == OutboxInit /\ [][OutboxNext]_outboxVars

\* run() polls for as long as the process lives, so the worker never stops
\* while it has a next await; writers and tasks are under no obligation.
FairOutboxSpec == OutboxSpec /\ WF_outboxVars(WorkerNext)

-----------------------------------------------------------------------------
(* Properties                                                              *)

\* Crash safety of the projection order (upsert, announce, then mark): a
\* document marked processed has its Chroma point and its stream entry, after
\* any crash or failed pass.
ProcessedIsProjected ==
  \A m \in Ids : Stored(m) /\ doc[m].processed
                   => chroma[m] # NoPoint /\ m \in stream

\* The only way a processed document's point can differ from it is a write that
\* fell between the worker's find and its mark.
StaleOnlyByRace ==
  \A m \in Ids : Stored(m) /\ doc[m].processed /\ m \notin raced
                   => chroma[m] = MetaOf(doc[m])

\* A memory once closed is never current again, in Mongo or in Chroma, whatever
\* boosts, sweeps and retried projections overlap with the close.
ClosedForGood ==
  [][\A m \in Ids :
       /\ Stored(m) /\ ~doc[m].open => ~doc'[m].open
       /\ chroma[m] # NoPoint /\ ~chroma[m].open => ~chroma'[m].open]_outboxVars

\* "Re-projects (re-opens outbox) so the OutboxWorker updates Chroma metadata"
\* (close_memory): a processed document is projected as it is.
ProcessedIsCurrent ==
  \A m \in Ids : Stored(m) /\ doc[m].processed => chroma[m] = MetaOf(doc[m])

\* The projection implements the abstract view: Chroma only moves forward, to
\* metadata the document has had, one write of a document at a time.
View == INSTANCE ProjectedView WITH
          Item <- Ids, MaxVersion <- MaxVer,
          source <- [m \in Ids |-> doc[m].ver],
          view <- [m \in Ids |-> chroma[m].ver]

ImplementsView == View!Spec

\* Every write reaches Chroma, or is one a race has hidden.
EveryWriteProjected ==
  \A m \in Ids : \A v \in 1 .. MaxVer :
    doc[m].ver = v ~> chroma[m].ver >= v \/ m \in raced
=============================================================================
