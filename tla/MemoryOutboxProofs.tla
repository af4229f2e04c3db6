------------------------ MODULE MemoryOutboxProofs ------------------------
(***************************************************************************)
(* Proofs about MemoryOutbox, for every set of documents and tasks and     *)
(* every bound.  The inductive invariant IInv says, besides the types,     *)
(* what the worker's local copies have to do with the two stores: a copy   *)
(* is never newer than its document, never older than the point it will    *)
(* replace, and it is the document itself unless a write raced with it.    *)
(***************************************************************************)
EXTENDS MemoryOutbox, TLAPS

TaskInv ==
  \A t \in Tasks : task[t].op = "boost" => Stored(task[t].id)

CursorInv ==
  /\ step = "find" => \A m \in Ids : batch[m] = NoPoint
  /\ step \in {"xadd", "mark"} => /\ cur \in Ids
                                  /\ batch[cur] # NoPoint
                                  /\ chroma[cur] = batch[cur]
  /\ step = "mark" => cur \in stream

\* x is a copy of document m taken at some earlier time.
CopyOf(x, m) ==
  /\ Stored(m)
  /\ x.ver <= doc[m].ver
  /\ ~x.open => ~doc[m].open

BatchInv ==
  \A m \in Ids : batch[m] # NoPoint =>
    /\ CopyOf(batch[m], m)
    /\ m \notin raced => batch[m] = MetaOf(doc[m])
    /\ chroma[m] # NoPoint => /\ chroma[m].ver <= batch[m].ver
                              /\ ~chroma[m].open => ~batch[m].open

ChromaInv ==
  \A m \in Ids : chroma[m] # NoPoint => CopyOf(chroma[m], m)

IInv ==
  /\ OutboxTypeOK
  /\ TaskInv
  /\ CursorInv
  /\ BatchInv
  /\ ChromaInv
  /\ ProcessedIsProjected
  /\ StaleOnlyByRace

-----------------------------------------------------------------------------
(* A document, a copy of one and the two "nothing" values are different.   *)
LEMMA Distinct ==
  /\ \A d \in Document : /\ d # Absent
                         /\ d.ver \in 1 .. MaxVer
                         /\ d.open \in BOOLEAN
                         /\ d.imp \in Importance
                         /\ d.expired \in BOOLEAN
                         /\ d.processed \in BOOLEAN
                         /\ MetaOf(d) \in Meta
  /\ \A x \in Meta : /\ x # NoPoint
                     /\ x.ver \in 1 .. MaxVer
                     /\ x.open \in BOOLEAN
  /\ Absent.ver = 0 /\ NoPoint.ver = 0
<1>1. \A d \in Document : d.ver \in 1 .. MaxVer /\ d.open \in BOOLEAN /\ d.imp \in Importance
                          /\ d.expired \in BOOLEAN /\ d.processed \in BOOLEAN
  BY DEF Document
<1>2. \A x \in Meta : x.ver \in 1 .. MaxVer /\ x.open \in BOOLEAN
  BY DEF Meta
<1>3. Absent.ver = 0 /\ NoPoint.ver = 0
  BY DEF Absent, NoPoint
<1>4. \A d \in Document : MetaOf(d) \in Meta
  BY <1>1 DEF MetaOf, Meta
<1> QED
  BY <1>1, <1>2, <1>3, <1>4

-----------------------------------------------------------------------------
(* One write of one document, as every writer makes it.                    *)
OneWrite(m, d) ==
  /\ m \in Ids
  /\ d \in Document
  /\ ~d.processed
  /\ d.ver = doc[m].ver + 1
  /\ Stored(m) /\ ~doc[m].open => ~d.open
  /\ doc' = [doc EXCEPT ![m] = d]
  /\ raced' = IF batch[m] # NoPoint THEN raced \cup {m} ELSE raced
  /\ UNCHANGED <<chroma, stream, worker>>

LEMMA OneWriteInv ==
  ASSUME IInv, NEW m, NEW d, OneWrite(m, d)
  PROVE  /\ doc' \in [Ids -> Document \cup {Absent}]
         /\ raced' \subseteq Ids
         /\ \A n \in Ids : Stored(n) => Stored(n)'
         /\ CursorInv' /\ BatchInv' /\ ChromaInv'
         /\ ProcessedIsProjected' /\ StaleOnlyByRace'
<1> USE DEF IInv, OutboxTypeOK, OneWrite, worker
<1>1. /\ doc' \in [Ids -> Document \cup {Absent}]
      /\ doc'[m] = d
      /\ \A n \in Ids : n # m => doc'[n] = doc[n]
  OBVIOUS
<1>2. raced' \subseteq Ids
  OBVIOUS
<1>3. \A n \in Ids : Stored(n) => Stored(n)'
  BY <1>1, Distinct DEF Stored
<1>4. CursorInv'
  BY DEF CursorInv
<1>5. ASSUME NEW n \in Ids, NEW x, CopyOf(x, n), x.ver \in Nat
      PROVE  CopyOf(x, n)'
  <2>1. CASE n = m
    <3>1. doc[m] \in Document /\ doc[m].ver \in Nat
      BY <1>5, <2>1, Distinct DEF CopyOf, Stored
    <3>2. d # Absent
      BY Distinct
    <3> QED
      BY <1>1, <1>5, <2>1, <3>1, <3>2 DEF CopyOf, Stored
  <2>2. CASE n # m
    BY <1>1, <1>5, <2>2 DEF CopyOf, Stored
  <2> QED
    BY <2>1, <2>2
<1>6. BatchInv'
  <2> SUFFICES ASSUME NEW n \in Ids, batch[n] # NoPoint
               PROVE  /\ CopyOf(batch[n], n)'
                      /\ n \notin raced' => batch[n] = MetaOf(doc'[n])
                      /\ chroma[n] # NoPoint => /\ chroma[n].ver <= batch[n].ver
                                                /\ ~chroma[n].open => ~batch[n].open
    BY DEF BatchInv
  <2>1. CopyOf(batch[n], n)'
    BY <1>5, Distinct DEF BatchInv
  <2>2. n \notin raced' => batch[n] = MetaOf(doc'[n])
    BY <1>1 DEF BatchInv
  <2> QED
    BY <2>1, <2>2 DEF BatchInv
<1>7. ChromaInv'
  BY <1>5, Distinct DEF ChromaInv
<1>8. ProcessedIsProjected'
  BY <1>1 DEF ProcessedIsProjected, Stored
<1>9. StaleOnlyByRace'
  BY <1>1 DEF StaleOnlyByRace, Stored, MetaOf
<1> QED
  BY <1>1, <1>2, <1>3, <1>4, <1>6, <1>7, <1>8, <1>9

LEMMA InitInv == OutboxInit => IInv
<1> SUFFICES ASSUME OutboxInit PROVE IInv
  OBVIOUS
<1>1. OutboxTypeOK
  BY OutboxAssumption DEF OutboxInit, OutboxTypeOK
<1>2. TaskInv /\ CursorInv
  BY DEF OutboxInit, TaskInv, CursorInv, Idle
<1>3. BatchInv /\ ChromaInv /\ ProcessedIsProjected /\ StaleOnlyByRace
  BY DEF OutboxInit, BatchInv, ChromaInv, ProcessedIsProjected, StaleOnlyByRace, Stored
<1> QED
  BY <1>1, <1>2, <1>3 DEF IInv

-----------------------------------------------------------------------------
(* The writers.                                                            *)
LEMMA InsertIsOneWrite ==
  ASSUME IInv, NEW m \in Ids, NEW i \in Importance, Insert(m, i),
         UNCHANGED <<chroma, stream, worker, raced>>
  PROVE  \E d : OneWrite(m, d)
<1> DEFINE d == [open |-> TRUE, imp |-> i, ver |-> 1, expired |-> FALSE, processed |-> FALSE]
<1>1. d \in Document
  BY OutboxAssumption DEF Document
<1>2. batch[m] = NoPoint
  BY DEF IInv, BatchInv, CopyOf, Insert
<1>3. OneWrite(m, d)
  BY <1>1, <1>2, Distinct DEF OneWrite, Insert, Stored
<1> QED
  BY <1>3

LEMMA RaiseType == \A i \in Importance : Raise(i) \in Importance
<1> SUFFICES ASSUME NEW i \in Importance PROVE Raise(i) \in Importance
  OBVIOUS
<1>1. i \in 1 .. Permanent /\ Permanent \in Importance /\ Permanent \in Nat
  BY OutboxAssumption
<1>2. CASE i < Permanent
  <2>1. i \in Importance \ {Permanent}
    BY <1>1, <1>2
  <2>2. i + 1 \in Importance
    BY <2>1, OutboxAssumption
  <2> QED
    BY <1>2, <2>2 DEF Raise
<1>3. CASE ~(i < Permanent)
  BY <1>1, <1>3 DEF Raise
<1> QED
  BY <1>2, <1>3

\* The documents the two kinds of update leave behind.
LEMMA RewrittenType ==
  ASSUME NEW old \in Document, old.ver < MaxVer,
         NEW o \in BOOLEAN, NEW i \in Importance, NEW e \in BOOLEAN
  PROVE  LET d == Rewritten(old, o, i, e)
         IN  /\ d \in Document /\ d.ver = old.ver + 1
             /\ d.open = o /\ ~d.processed
<1>1. old.ver + 1 \in 1 .. MaxVer
  BY OutboxAssumption DEF Document
<1> QED
  BY <1>1 DEF Document, Rewritten

LEMMA CloseIsOneWrite ==
  ASSUME IInv, NEW m \in Ids, SetClosed(m), UNCHANGED <<chroma, stream, worker>>
  PROVE  UNCHANGED <<doc, raced>> \/ \E d : OneWrite(m, d)
<1>1. CASE ~Stored(m)
  BY <1>1 DEF SetClosed
<1>2. CASE Stored(m)
  <2> DEFINE d == Rewritten(doc[m], FALSE, doc[m].imp, doc[m].expired)
  <2>1. doc[m] \in Document /\ doc[m].ver < MaxVer
    BY <1>2 DEF IInv, OutboxTypeOK, Stored, SetClosed
  <2>5. d \in Document /\ d.ver = doc[m].ver + 1 /\ ~d.open /\ ~d.processed
    BY <2>1, RewrittenType, Distinct
  <2>6. raced' = IF batch[m] # NoPoint THEN raced \cup {m} ELSE raced
    BY <1>2 DEF SetClosed, MarkRaced
  <2>3. doc' = [doc EXCEPT ![m] = d]
    BY <1>2 DEF SetClosed
  <2>4. OneWrite(m, d)
    BY <2>3, <2>5, <2>6 DEF OneWrite
  <2> QED
    BY <2>4
<1> QED
  BY <1>1, <1>2

LEMMA BoostIsOneWrite ==
  ASSUME IInv, NEW t \in Tasks, BoostWrite(t)
  PROVE  \E d : OneWrite(task[t].id, d)
<1> DEFINE m == task[t].id
           d == Rewritten(doc[m], doc[m].open, Raise(task[t].imp), FALSE)
<1>1. task[t] \in Boosting
  BY DEF IInv, OutboxTypeOK, BoostWrite, Idle, Decaying, Superseding
<1>2. m \in Ids /\ doc[m] \in Document /\ doc[m].ver < MaxVer
  BY <1>1 DEF Boosting, IInv, TaskInv, OutboxTypeOK, Stored, BoostWrite, Ids
<1>3. Raise(task[t].imp) \in Importance
  BY <1>1, RaiseType DEF Boosting
<1>4. doc[m].open \in BOOLEAN
  BY <1>2, Distinct
<1>7. d \in Document /\ d.ver = doc[m].ver + 1 /\ d.open = doc[m].open /\ ~d.processed
  BY <1>2, <1>3, <1>4, RewrittenType
<1>5. doc' = [doc EXCEPT ![m] = d]
  BY DEF BoostWrite
<1>6. OneWrite(m, d)
  BY <1>2, <1>5, <1>7 DEF OneWrite, BoostWrite, MarkRaced
<1> QED
  BY <1>6

\* A step that writes at most one document and moves at most one task.
LEMMA TaskStepInv ==
  ASSUME IInv,
         UNCHANGED <<doc, raced, chroma, stream, worker>> \/ \E m, d : OneWrite(m, d),
         task' \in [Tasks -> {Idle} \cup Boosting \cup Decaying \cup Superseding],
         \A t \in Tasks : task'[t].op = "boost" =>
                            task'[t].id \in Ids /\ doc[task'[t].id] # Absent,
         UNCHANGED faults
  PROVE  IInv'
<1>1. CASE UNCHANGED <<doc, raced, chroma, stream, worker>>
  <2>1. OutboxTypeOK' /\ TaskInv'
    BY <1>1 DEF IInv, OutboxTypeOK, TaskInv, Stored, worker
  <2>2. CursorInv' /\ BatchInv' /\ ChromaInv'
    BY <1>1 DEF IInv, CursorInv, BatchInv, ChromaInv, CopyOf, MetaOf, Stored, worker
  <2>3. ProcessedIsProjected' /\ StaleOnlyByRace'
    BY <1>1 DEF IInv, ProcessedIsProjected, StaleOnlyByRace, MetaOf, Stored
  <2> QED
    BY <2>1, <2>2, <2>3 DEF IInv
<1>2. ASSUME NEW m, NEW d, OneWrite(m, d)
      PROVE  IInv'
  <2>1. OutboxTypeOK'
    BY <1>2, OneWriteInv DEF IInv, OutboxTypeOK, OneWrite, worker
  <2>2. TaskInv'
    BY <1>2, OneWriteInv DEF TaskInv, Stored
  <2> QED
    BY <1>2, <2>1, <2>2, OneWriteInv DEF IInv
<1> QED
  BY <1>1, <1>2

LEMMA BoostIds ==
  ASSUME IInv
  PROVE  \A t \in Tasks : task[t].op = "boost" =>
                            task[t].id \in Ids /\ doc[task[t].id] # Absent
BY DEF IInv, OutboxTypeOK, TaskInv, Stored, Idle, Boosting, Decaying, Superseding, Ids

LEMMA WriterInv ==
  ASSUME IInv, WriterNext
  PROVE  IInv'
<1>1. ASSUME NEW m \in Ids, StoreEpisode(m) \/ StoreMemory(m)
      PROVE  IInv'
  <2>1. PICK d : OneWrite(m, d)
    BY <1>1, InsertIsOneWrite DEF StoreEpisode, StoreMemory
  <2> QED
    BY <1>1, <2>1, BoostIds, TaskStepInv DEF StoreEpisode, StoreMemory, IInv, OutboxTypeOK
<1>2. ASSUME NEW m \in Memories, CloseMemory(m)
      PROVE  IInv'
  <2>1. m \in Ids
    BY DEF Ids
  <2>2. UNCHANGED <<doc, raced>> \/ \E d : OneWrite(m, d)
    BY <1>2, <2>1, CloseIsOneWrite DEF CloseMemory
  <2> QED
    BY <1>2, <2>2, BoostIds, TaskStepInv DEF CloseMemory, IInv, OutboxTypeOK, worker
<1>3. ASSUME NEW m \in Memories, Expire(m)
      PROVE  IInv'
  <2>1. m \in Ids /\ doc[m] \in Document
    BY <1>3 DEF Ids, Expire, Stored, IInv, OutboxTypeOK
  <2>2. doc' \in [Ids -> Document \cup {Absent}]
    BY <1>3, <2>1 DEF Expire, IInv, OutboxTypeOK, Document
  <2>3. \A n \in Ids : /\ Stored(n)' <=> Stored(n)
                       /\ Stored(n) => /\ doc'[n].ver = doc[n].ver
                                       /\ doc'[n].open = doc[n].open
                                       /\ doc'[n].imp = doc[n].imp
                                       /\ doc'[n].processed = doc[n].processed
    <3> SUFFICES ASSUME NEW n \in Ids
                 PROVE  /\ Stored(n)' <=> Stored(n)
                        /\ Stored(n) => /\ doc'[n].ver = doc[n].ver
                                        /\ doc'[n].open = doc[n].open
                                        /\ doc'[n].imp = doc[n].imp
                                        /\ doc'[n].processed = doc[n].processed
      OBVIOUS
    <3>1. CASE n = m
      <4>1. doc'[m] = [doc[m] EXCEPT !.expired = TRUE]
        BY <1>3, <2>1 DEF Expire, IInv, OutboxTypeOK
      <4>2. doc'[m] # Absent /\ doc[m] # Absent
        BY <2>1, <4>1, Distinct DEF Document, Absent
      <4> QED
        BY <2>1, <3>1, <4>1, <4>2 DEF Stored, Document
    <3>2. CASE n # m
      BY <1>3, <2>1, <3>2 DEF Expire, IInv, OutboxTypeOK, Stored
    <3> QED
      BY <3>1, <3>2
  <2>4. OutboxTypeOK' /\ CursorInv'
    BY <1>3, <2>2 DEF Expire, IInv, OutboxTypeOK, CursorInv, worker
  <2>5. TaskInv'
    BY <1>3, <2>3, BoostIds DEF Expire, TaskInv, Stored
  <2>6. BatchInv' /\ ChromaInv' /\ ProcessedIsProjected' /\ StaleOnlyByRace'
    BY <1>3, <2>3 DEF Expire, IInv, BatchInv, ChromaInv, CopyOf, MetaOf, worker, Stored,
                      ProcessedIsProjected, StaleOnlyByRace
  <2> QED
    BY <2>4, <2>5, <2>6 DEF IInv
<1> QED
  BY <1>1, <1>2, <1>3 DEF WriterNext, Ids

-----------------------------------------------------------------------------
(* The tasks.                                                              *)
LEMMA TaskNextInv ==
  ASSUME IInv, NEW t \in Tasks, TaskNext(t)
  PROVE  IInv'
<1> USE DEF worker
<1>1. ASSUME NEW m \in Memories, BoostRead(t, m)
      PROVE  IInv'
  <2>1. m \in Ids /\ doc[m].imp \in Importance
    BY <1>1, Distinct DEF BoostRead, Stored, IInv, OutboxTypeOK, Ids
  <2>2. task' = [task EXCEPT ![t] = [op |-> "boost", id |-> m, imp |-> doc[m].imp]]
    BY <1>1 DEF BoostRead
  <2>3. task' \in [Tasks -> {Idle} \cup Boosting \cup Decaying \cup Superseding]
    BY <2>1, <2>2 DEF IInv, OutboxTypeOK, Boosting
  <2>4. \A u \in Tasks : task'[u].op = "boost" =>
                            task'[u].id \in Ids /\ doc[task'[u].id] # Absent
    BY <1>1, <2>1, <2>2, BoostIds DEF BoostRead, Stored, IInv, OutboxTypeOK
  <2> QED
    BY <1>1, <2>3, <2>4, TaskStepInv DEF BoostRead
<1>2. ASSUME BoostWrite(t)
      PROVE  IInv'
  <2>1. PICK d : OneWrite(task[t].id, d)
    BY <1>2, BoostIsOneWrite
  <2>2. /\ task' \in [Tasks -> {Idle} \cup Boosting \cup Decaying \cup Superseding]
        /\ \A u \in Tasks : task'[u] = Idle \/ task'[u] = task[u]
    BY <1>2 DEF BoostWrite, IInv, OutboxTypeOK
  <2>3. \A u \in Tasks : task'[u].op = "boost" =>
                            task'[u].id \in Ids /\ doc[task'[u].id] # Absent
    BY <2>2, BoostIds DEF Idle
  <2> QED
    BY <1>2, <2>1, <2>2, <2>3, TaskStepInv DEF BoostWrite
<1>3. ASSUME DecayList(t)
      PROVE  IInv'
  <2> DEFINE hits == {m \in Memories : Stored(m) /\ doc[m].open /\ doc[m].expired}
  <2>1. task' = [task EXCEPT ![t] = [op |-> "decay", todo |-> hits]]
    BY <1>3 DEF DecayList
  <2>2. task' \in [Tasks -> {Idle} \cup Boosting \cup Decaying \cup Superseding]
    BY <2>1 DEF IInv, OutboxTypeOK, Decaying
  <2>3. \A u \in Tasks : task'[u].op = "boost" =>
                            task'[u].id \in Ids /\ doc[task'[u].id] # Absent
    BY <2>1, BoostIds DEF IInv, OutboxTypeOK
  <2> QED
    BY <1>3, <2>2, <2>3, TaskStepInv DEF DecayList
<1>4. ASSUME NEW m \in Memories, DecayClose(t, m)
      PROVE  IInv'
  <2>1. UNCHANGED <<doc, raced>> \/ \E d : OneWrite(m, d)
    BY <1>4, CloseIsOneWrite DEF DecayClose, Ids
  <2>2. task[t] \in Decaying
    BY <1>4 DEF DecayClose, IInv, OutboxTypeOK, Idle, Boosting, Superseding
  <2>3. PICK S \in SUBSET Memories : task[t] = [op |-> "decay", todo |-> S]
    BY <2>2 DEF Decaying
  <2>4. \/ task' = [task EXCEPT ![t] = Idle]
        \/ task' = [task EXCEPT ![t] = [op |-> "decay", todo |-> S \ {m}]]
    <3>1. task[t].todo = S
      BY <2>3
    <3> QED
      BY <1>4, <3>1 DEF DecayClose
  <2>5. task' \in [Tasks -> {Idle} \cup Boosting \cup Decaying \cup Superseding]
    BY <2>4 DEF IInv, OutboxTypeOK, Decaying
  <2>6. \A u \in Tasks : task'[u].op = "boost" =>
                            task'[u].id \in Ids /\ doc[task'[u].id] # Absent
    BY <2>4, BoostIds DEF IInv, OutboxTypeOK, Idle
  <2> QED
    BY <1>4, <2>1, <2>5, <2>6, TaskStepInv DEF DecayClose
<1>5. ASSUME NEW old \in Memories, NEW new \in Memories, SupersedeClose(t, old, new)
      PROVE  IInv'
  <2>1. UNCHANGED <<doc, raced>> \/ \E d : OneWrite(old, d)
    BY <1>5, CloseIsOneWrite DEF SupersedeClose, Ids
  <2>2. PICK i \in Importance :
          task' = [task EXCEPT ![t] = [op |-> "supersede", new |-> new, imp |-> i]]
    BY <1>5 DEF SupersedeClose
  <2>3. task' \in [Tasks -> {Idle} \cup Boosting \cup Decaying \cup Superseding]
    BY <2>2 DEF IInv, OutboxTypeOK, Superseding
  <2>4. \A u \in Tasks : task'[u].op = "boost" =>
                            task'[u].id \in Ids /\ doc[task'[u].id] # Absent
    BY <2>2, BoostIds DEF IInv, OutboxTypeOK
  <2> QED
    BY <1>5, <2>1, <2>3, <2>4, TaskStepInv DEF SupersedeClose
<1>6. ASSUME SupersedeStore(t)
      PROVE  IInv'
  <2>1. task[t] \in Superseding
    BY <1>6 DEF SupersedeStore, IInv, OutboxTypeOK, Idle, Boosting, Decaying
  <2>2. task[t].new \in Ids /\ task[t].imp \in Importance
    BY <2>1 DEF Superseding, Ids
  <2>3. \E d : OneWrite(task[t].new, d)
    BY <1>6, <2>2, InsertIsOneWrite DEF SupersedeStore
  <2>4. task' \in [Tasks -> {Idle} \cup Boosting \cup Decaying \cup Superseding]
    BY <1>6 DEF SupersedeStore, IInv, OutboxTypeOK
  <2>5. \A u \in Tasks : task'[u].op = "boost" =>
                            task'[u].id \in Ids /\ doc[task'[u].id] # Absent
    BY <1>6, BoostIds DEF SupersedeStore, IInv, OutboxTypeOK, Idle
  <2> QED
    BY <1>6, <2>3, <2>4, <2>5, TaskStepInv DEF SupersedeStore
<1> QED
  BY <1>1, <1>2, <1>3, <1>4, <1>5, <1>6 DEF TaskNext

-----------------------------------------------------------------------------
(* The worker.                                                             *)
LEMMA WorkerInv ==
  ASSUME IInv, WorkerNext
  PROVE  IInv'
<1>1. ASSUME Find
      PROVE  IInv'
  <2> USE <1>1 DEF Find
  <2>1. Pending \subseteq Ids /\ \A m \in Pending : doc[m] \in Document /\ Stored(m) /\ ~doc[m].processed
    BY DEF Pending, Collection, Ids, IInv, OutboxTypeOK, Stored
  <2>2. \A m \in Ids : batch'[m] = IF m \in Pending THEN MetaOf(doc[m]) ELSE NoPoint
    OBVIOUS
  <2>3. OutboxTypeOK'
    BY <2>1, Distinct DEF IInv, OutboxTypeOK
  <2>4. TaskInv' /\ CursorInv' /\ ChromaInv' /\ ProcessedIsProjected'
    BY DEF IInv, TaskInv, CursorInv, ChromaInv, CopyOf, ProcessedIsProjected, Stored
  <2>5. ASSUME NEW m \in Ids, m \in Pending
        PROVE  /\ CopyOf(MetaOf(doc[m]), m)
               /\ chroma[m] # NoPoint => /\ chroma[m].ver <= doc[m].ver
                                         /\ ~chroma[m].open => ~doc[m].open
    BY <2>1, <2>5, Distinct DEF IInv, ChromaInv, CopyOf, MetaOf
  <2>6. BatchInv'
    <3> SUFFICES ASSUME NEW m \in Ids, batch'[m] # NoPoint
                 PROVE  /\ CopyOf(batch'[m], m)
                        /\ batch'[m] = MetaOf(doc[m])
                        /\ chroma[m] # NoPoint => /\ chroma[m].ver <= batch'[m].ver
                                                  /\ ~chroma[m].open => ~batch'[m].open
      BY DEF BatchInv, CopyOf, Stored, MetaOf
    <3>1. m \in Pending /\ batch'[m] = MetaOf(doc[m])
      BY <2>2
    <3>2. batch'[m].ver = doc[m].ver /\ batch'[m].open = doc[m].open
      BY <3>1 DEF MetaOf
    <3> QED
      BY <2>5, <3>1, <3>2
  <2>7. StaleOnlyByRace'
    BY <2>1 DEF IInv, StaleOnlyByRace, Stored, MetaOf
  <2> QED
    BY <2>3, <2>4, <2>6, <2>7 DEF IInv
<1>2. ASSUME NEW m \in Ids, Upsert(m)
      PROVE  IInv'
  <2> USE <1>2 DEF Upsert
  <2>1. batch[m] \in Meta /\ batch[m] # NoPoint
    BY DEF InBatch, IInv, OutboxTypeOK
  <2>2. OutboxTypeOK' /\ TaskInv'
    BY <2>1 DEF IInv, OutboxTypeOK, TaskInv, Stored
  <2>3. CursorInv'
    BY <2>1 DEF IInv, OutboxTypeOK, CursorInv
  <2>4. chroma'[m] = batch[m] /\ \A n \in Ids : n # m => chroma'[n] = chroma[n]
    BY DEF IInv, OutboxTypeOK
  <2>5. BatchInv'
    BY <2>1, <2>4, Distinct DEF IInv, BatchInv, CopyOf, MetaOf, Stored
  <2>6. ChromaInv'
    BY <2>1, <2>4 DEF IInv, ChromaInv, BatchInv, CopyOf, Stored
  <2>7. ProcessedIsProjected'
    BY <2>1, <2>4 DEF IInv, ProcessedIsProjected, Stored
  <2>8. StaleOnlyByRace'
    BY <2>1, <2>4 DEF IInv, StaleOnlyByRace, BatchInv, MetaOf, Stored
  <2> QED
    BY <2>2, <2>3, <2>5, <2>6, <2>7, <2>8 DEF IInv
<1>3. ASSUME XAdd
      PROVE  IInv'
  <2>1. cur \in Ids
    BY <1>3 DEF XAdd, IInv, CursorInv
  <2>2. OutboxTypeOK' /\ TaskInv' /\ CursorInv'
    BY <1>3, <2>1 DEF XAdd, IInv, OutboxTypeOK, TaskInv, CursorInv, Stored
  <2>3. BatchInv' /\ ChromaInv' /\ ProcessedIsProjected' /\ StaleOnlyByRace'
    BY <1>3 DEF XAdd, IInv, BatchInv, ChromaInv, CopyOf, MetaOf, Stored,
                ProcessedIsProjected, StaleOnlyByRace
  <2> QED
    BY <2>2, <2>3 DEF IInv
<1>4. ASSUME Mark
      PROVE  IInv'
  <2> USE <1>4 DEF Mark
  <2>1. /\ cur \in Ids /\ cur \in stream
        /\ batch[cur] # NoPoint /\ chroma[cur] = batch[cur]
    BY DEF IInv, CursorInv
  <2>2. doc[cur] \in Document /\ Stored(cur)
    BY <2>1 DEF IInv, BatchInv, CopyOf, Stored, OutboxTypeOK
  <2>3. /\ doc' \in [Ids -> Document \cup {Absent}]
        /\ doc'[cur] \in Document /\ doc'[cur].processed
        /\ MetaOf(doc'[cur]) = MetaOf(doc[cur])
        /\ \A n \in Ids : n # cur => doc'[n] = doc[n]
    BY <2>1, <2>2 DEF IInv, OutboxTypeOK, Document, MetaOf
  <2>4. \A n \in Ids : /\ Stored(n)' <=> Stored(n)
                       /\ Stored(n) => /\ doc'[n].ver = doc[n].ver
                                       /\ doc'[n].open = doc[n].open
                                       /\ MetaOf(doc'[n]) = MetaOf(doc[n])
    BY <2>2, <2>3, Distinct DEF Stored, MetaOf
  <2>5. batch' \in [Ids -> Meta \cup {NoPoint}]
        /\ batch'[cur] = NoPoint /\ \A n \in Ids : n # cur => batch'[n] = batch[n]
    BY <2>1 DEF IInv, OutboxTypeOK
  <2>6. OutboxTypeOK'
    BY <2>3, <2>5 DEF IInv, OutboxTypeOK
  <2>7. TaskInv'
    BY <2>4, BoostIds DEF IInv, TaskInv, Stored
  <2>8. CursorInv'
    BY DEF CursorInv
  <2>9. BatchInv'
    BY <2>4, <2>5 DEF IInv, BatchInv, CopyOf, Stored
  <2>10. ChromaInv'
    BY <2>4 DEF IInv, ChromaInv, CopyOf, Stored
  <2>11. ProcessedIsProjected'
    BY <2>1, <2>3 DEF IInv, ProcessedIsProjected, Stored
  <2>12. StaleOnlyByRace'
    BY <2>1, <2>3, <2>4 DEF IInv, StaleOnlyByRace, BatchInv, Stored
  <2> QED
    BY <2>6, <2>7, <2>8, <2>9, <2>10, <2>11, <2>12 DEF IInv
<1>5. ASSUME Exhausted
      PROVE  IInv'
  <2>1. \A m \in Ids : batch[m] = NoPoint
    BY <1>5 DEF Exhausted, InBatch
  <2>2. OutboxTypeOK' /\ TaskInv' /\ CursorInv'
    BY <1>5, <2>1 DEF Exhausted, IInv, OutboxTypeOK, TaskInv, CursorInv, Stored
  <2>3. BatchInv' /\ ChromaInv' /\ ProcessedIsProjected' /\ StaleOnlyByRace'
    BY <1>5 DEF Exhausted, IInv, BatchInv, ChromaInv, CopyOf, MetaOf, Stored,
                ProcessedIsProjected, StaleOnlyByRace
  <2> QED
    BY <2>2, <2>3 DEF IInv
<1> QED
  BY <1>1, <1>2, <1>3, <1>4, <1>5 DEF WorkerNext

LEMMA FaultInv ==
  ASSUME IInv, WorkerFails \/ CrashOutbox
  PROVE  IInv'
<1>1. /\ AbandonPass
      /\ UNCHANGED <<doc, chroma, stream, raced>>
      /\ faults' \in 0 .. MaxFaults
      /\ task' = task \/ task' = [t \in Tasks |-> Idle]
  BY OutboxAssumption DEF WorkerFails, CrashOutbox, IInv, OutboxTypeOK
<1>2. OutboxTypeOK'
  BY <1>1 DEF AbandonPass, IInv, OutboxTypeOK
<1>3. TaskInv' /\ CursorInv' /\ BatchInv'
  BY <1>1 DEF AbandonPass, IInv, TaskInv, CursorInv, BatchInv, Stored, Idle
<1>4. ChromaInv' /\ ProcessedIsProjected' /\ StaleOnlyByRace'
  BY <1>1 DEF IInv, ChromaInv, CopyOf, MetaOf, Stored, ProcessedIsProjected, StaleOnlyByRace
<1> QED
  BY <1>2, <1>3, <1>4 DEF IInv

LEMMA StepInv == IInv /\ [OutboxNext]_outboxVars => IInv'
<1>1. ASSUME IInv, UNCHANGED outboxVars PROVE IInv'
  <2>1. OutboxTypeOK' /\ TaskInv' /\ CursorInv'
    BY <1>1 DEF outboxVars, IInv, OutboxTypeOK, TaskInv, CursorInv, Stored
  <2>2. BatchInv' /\ ChromaInv' /\ ProcessedIsProjected' /\ StaleOnlyByRace'
    BY <1>1 DEF outboxVars, IInv, BatchInv, ChromaInv, CopyOf, MetaOf, Stored,
                ProcessedIsProjected, StaleOnlyByRace
  <2> QED
    BY <2>1, <2>2 DEF IInv
<1> QED
  BY <1>1, WriterInv, TaskNextInv, WorkerInv, FaultInv DEF OutboxNext

\* The inductive invariant holds of every behaviour.
THEOREM Invariance == OutboxSpec => []IInv
BY InitInv, StepInv, PTL DEF OutboxSpec

\* Types are kept by every write, pass, crash and failure (MemoryOutbox.OutboxTypeOK).
THEOREM TypeCorrect == OutboxSpec => []OutboxTypeOK
<1>1. IInv => OutboxTypeOK
  BY DEF IInv
<1> QED
  BY <1>1, Invariance, PTL

\* A document marked processed has its point and its stream entry.
THEOREM Projected == OutboxSpec => []ProcessedIsProjected
<1>1. IInv => ProcessedIsProjected
  BY DEF IInv
<1> QED
  BY <1>1, Invariance, PTL

\* A processed document is projected as it is, unless a write raced with its
\* projection.
THEOREM Stale == OutboxSpec => []StaleOnlyByRace
<1>1. IInv => StaleOnlyByRace
  BY DEF IInv
<1> QED
  BY <1>1, Invariance, PTL

-----------------------------------------------------------------------------
(* What a step can do to the two stores: write one document, refresh one   *)
(* point, or leave versions and validity as they are.                      *)
LEMMA StepKinds ==
  ASSUME IInv, [OutboxNext]_outboxVars
  PROVE  \/ \E m, d : OneWrite(m, d)
         \/ \E m \in Ids : Upsert(m)
         \/ /\ UNCHANGED chroma
            /\ \A n \in Ids : /\ doc'[n].ver = doc[n].ver
                              /\ Stored(n) => doc'[n].open = doc[n].open
<1>1. ASSUME WriterNext \/ \E t \in Tasks : TaskNext(t)
      PROVE  \/ \E m, d : OneWrite(m, d)
             \/ /\ UNCHANGED chroma
                /\ \A n \in Ids : /\ doc'[n].ver = doc[n].ver
                                  /\ Stored(n) => doc'[n].open = doc[n].open
  <2>1. CASE UNCHANGED <<doc, chroma>>
    BY <2>1
  <2>2. ASSUME NEW m \in Ids, StoreEpisode(m) \/ StoreMemory(m)
        PROVE  \E n, d : OneWrite(n, d)
    BY <2>2, InsertIsOneWrite DEF StoreEpisode, StoreMemory
  <2>3. ASSUME NEW m \in Memories, CloseMemory(m)
        PROVE  UNCHANGED <<doc, chroma>> \/ \E n, d : OneWrite(n, d)
    BY <2>3, CloseIsOneWrite DEF CloseMemory, Ids
  <2>4. ASSUME NEW m \in Memories, Expire(m)
        PROVE  /\ UNCHANGED chroma
               /\ \A n \in Ids : /\ doc'[n].ver = doc[n].ver
                                 /\ Stored(n) => doc'[n].open = doc[n].open
    <3>1. m \in Ids /\ doc[m] \in Document
      BY <2>4 DEF Ids, Expire, Stored, IInv, OutboxTypeOK
    <3> QED
      BY <2>4, <3>1 DEF Expire, IInv, OutboxTypeOK, Document
  <2>5. ASSUME NEW t \in Tasks, BoostWrite(t)
        PROVE  \E n, d : OneWrite(n, d)
    BY <2>5, BoostIsOneWrite
  <2>6. ASSUME NEW t \in Tasks, NEW m \in Memories, DecayClose(t, m)
        PROVE  UNCHANGED <<doc, chroma>> \/ \E n, d : OneWrite(n, d)
    BY <2>6, CloseIsOneWrite DEF DecayClose, Ids
  <2>7. ASSUME NEW t \in Tasks, NEW old \in Memories, NEW new \in Memories,
               SupersedeClose(t, old, new)
        PROVE  UNCHANGED <<doc, chroma>> \/ \E n, d : OneWrite(n, d)
    BY <2>7, CloseIsOneWrite DEF SupersedeClose, Ids
  <2>8. ASSUME NEW t \in Tasks, SupersedeStore(t)
        PROVE  \E n, d : OneWrite(n, d)
    <3>1. task[t].new \in Ids /\ task[t].imp \in Importance
      BY <2>8 DEF SupersedeStore, IInv, OutboxTypeOK, Idle, Boosting, Decaying, Superseding, Ids
    <3> QED
      BY <2>8, <3>1, InsertIsOneWrite DEF SupersedeStore
  <2>9. ASSUME NEW t \in Tasks, (\E m \in Memories : BoostRead(t, m)) \/ DecayList(t)
        PROVE  UNCHANGED <<doc, chroma>>
    BY <2>9 DEF BoostRead, DecayList
  <2> QED
    BY <1>1, <2>1, <2>2, <2>3, <2>4, <2>5, <2>6, <2>7, <2>8, <2>9
       DEF WriterNext, TaskNext, Ids
<1>2. ASSUME Mark
      PROVE  /\ UNCHANGED chroma
             /\ \A n \in Ids : /\ doc'[n].ver = doc[n].ver
                               /\ Stored(n) => doc'[n].open = doc[n].open
  <2>1. cur \in Ids /\ doc[cur] \in Document
    BY <1>2 DEF Mark, IInv, CursorInv, BatchInv, CopyOf, Stored, OutboxTypeOK
  <2> QED
    BY <1>2, <2>1 DEF Mark, IInv, OutboxTypeOK, Document
<1>3. ASSUME Find \/ XAdd \/ Exhausted \/ WorkerFails \/ CrashOutbox \/ UNCHANGED outboxVars
      PROVE  UNCHANGED <<doc, chroma>>
  BY <1>3 DEF Find, XAdd, Exhausted, WorkerFails, CrashOutbox, outboxVars
<1>4. CASE UNCHANGED <<doc, chroma>>
  BY <1>4
<1> QED
  BY <1>1, <1>2, <1>3, <1>4 DEF OutboxNext, WorkerNext

\* A closed memory is never current again, in Mongo or in Chroma.
THEOREM ClosedStays == OutboxSpec => ClosedForGood
<1>1. ASSUME IInv, [OutboxNext]_outboxVars, NEW m \in Ids
      PROVE  /\ Stored(m) /\ ~doc[m].open => ~doc'[m].open
             /\ chroma[m] # NoPoint /\ ~chroma[m].open => ~chroma'[m].open
  <2>1. ASSUME NEW n, NEW d, OneWrite(n, d)
        PROVE  /\ Stored(m) /\ ~doc[m].open => ~doc'[m].open
               /\ UNCHANGED chroma
    BY <1>1, <2>1 DEF OneWrite, IInv, OutboxTypeOK
  <2>2. ASSUME NEW n \in Ids, Upsert(n)
        PROVE  /\ UNCHANGED doc
               /\ chroma[m] # NoPoint /\ ~chroma[m].open => ~chroma'[m].open
    BY <1>1, <2>2 DEF Upsert, InBatch, IInv, OutboxTypeOK, BatchInv
  <2> QED
    BY <1>1, <2>1, <2>2, StepKinds
<1>2. IInv /\ [OutboxNext]_outboxVars =>
        [\A m \in Ids :
          /\ Stored(m) /\ ~doc[m].open => ~doc'[m].open
          /\ chroma[m] # NoPoint /\ ~chroma[m].open => ~chroma'[m].open]_outboxVars
  BY <1>1
<1> QED
  BY <1>2, Invariance, PTL DEF OutboxSpec, ClosedForGood

\* The projection implements the abstract view.
THEOREM Refinement == OutboxSpec => ImplementsView
<1> DEFINE src == [m \in Ids |-> doc[m].ver]
           shown == [m \in Ids |-> chroma[m].ver]
<1>1. OutboxInit => View!Init
  BY DEF OutboxInit, View!Init, Absent, NoPoint
<1>2. ASSUME IInv, [OutboxNext]_outboxVars
      PROVE  [View!Next]_<<src, shown>>
  <2>0. \A m \in Ids : doc[m].ver \in 0 .. MaxVer /\ chroma[m].ver \in 0 .. MaxVer
    BY <1>2, Distinct, OutboxAssumption DEF IInv, OutboxTypeOK
  <2>1. ASSUME NEW m, NEW d, OneWrite(m, d)
        PROVE  View!Write(m) /\ m \in Ids
    <3>1. m \in Ids /\ d.ver \in 1 .. MaxVer /\ d.ver = doc[m].ver + 1
      BY <2>1, Distinct DEF OneWrite
    <3>2. doc[m].ver < MaxVer
      BY <2>0, <3>1, OutboxAssumption
    <3>3. src' = [src EXCEPT ![m] = @ + 1]
      BY <1>2, <2>1, <3>1 DEF OneWrite, IInv, OutboxTypeOK
    <3>4. shown' = shown
      BY <2>1 DEF OneWrite
    <3> QED
      BY <3>1, <3>2, <3>3, <3>4 DEF View!Write
  <2>2. ASSUME NEW m \in Ids, Upsert(m)
        PROVE  View!Refresh(m)
    <3>1. /\ batch[m].ver \in chroma[m].ver .. doc[m].ver
          /\ batch[m].ver \in Nat
      <4>1. batch[m] \in Meta /\ batch[m] # NoPoint
        BY <1>2, <2>2 DEF Upsert, InBatch, IInv, OutboxTypeOK
      <4>2. batch[m].ver <= doc[m].ver /\ (chroma[m] # NoPoint => chroma[m].ver <= batch[m].ver)
        BY <1>2, <4>1 DEF IInv, BatchInv, CopyOf
      <4> QED
        BY <2>0, <4>1, <4>2, Distinct, OutboxAssumption
    <3>2. shown' = [shown EXCEPT ![m] = batch[m].ver]
      BY <1>2, <2>2 DEF Upsert, IInv, OutboxTypeOK
    <3>3. src' = src
      BY <2>2 DEF Upsert
    <3>4. batch[m].ver \in shown[m] .. src[m]
      BY <3>1
    <3> QED
      BY <3>2, <3>3, <3>4 DEF View!Refresh
  <2>3. ASSUME UNCHANGED chroma, \A n \in Ids : doc'[n].ver = doc[n].ver
        PROVE  UNCHANGED <<src, shown>>
    BY <2>3
  <2> QED
    BY <1>2, <2>1, <2>2, <2>3, StepKinds DEF View!Next
<1> QED
  BY <1>1, <1>2, Invariance, PTL DEF OutboxSpec, ImplementsView, View!Spec
=============================================================================
