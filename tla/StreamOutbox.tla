----------------------------- MODULE StreamOutbox -----------------------------
(***************************************************************************)
(* The message store of memory/storage_manager.py: a message and its       *)
(* outbox marker are one document, and a task of each manager tails the     *)
(* collection's change stream, projects each insert to the vector store     *)
(* and the "consolidate" stream, marks the document and stores the          *)
(* stream's resume token.  Messages are numbered in the order of their      *)
(* inserts, which is the order of the change stream.  A redelivered insert  *)
(* is projected again: its change event holds the document as inserted.     *)
(* Only the tests enter a manager; several processes may.                   *)
(***************************************************************************)
EXTENDS Naturals, FiniteSets

CONSTANTS
    Managers,        \* the processes that may enter a StorageManager
    MaxInserted,      \* bound: messages
    MaxStreamFaults  \* bound: failing calls and ends of a process

ASSUME StreamAssumption == MaxInserted \in Nat /\ MaxStreamFaults \in Nat

VARIABLES
    inserted,     \* the messages inserted so far
    projected,   \* those with a point in the "episodic" collection
    queued,      \* those with an entry in the "consolidate" stream
    marked,      \* those whose outbox.processed is set
    token,       \* meta.outbox_token: the event to resume after, 0 when there is none
    tail,        \* what each manager and its outbox task are at
    blind,       \* history: the last message before a stream opened without a token
    streamFaults

tailVars == <<inserted, projected, queued, marked, token, tail, blind, streamFaults>>

TailStages == {"off", "start", "open", "next", "upsert", "enqueue", "mark", "save", "died"}

\* resumes: the token as read; seen: the last event delivered; ready: the manager is entered
NotTailing == [at |-> "off", resumes |-> 0, seen |-> 0, ready |-> FALSE]

StreamInit ==
    /\ inserted = 0 /\ projected = {} /\ queued = {} /\ marked = {}
    /\ token = 0 /\ blind = 0 /\ streamFaults = 0
    /\ tail = [p \in Managers |-> NotTailing]

Stage(p, from, to) == tail[p].at = from /\ tail' = [tail EXCEPT ![p].at = to]

StartManager(p) ==
    /\ Stage(p, "off", "start")
    /\ UNCHANGED <<inserted, projected, queued, marked, token, blind, streamFaults>>

ReadToken(p) ==
    /\ tail[p].at = "start"
    /\ tail' = [tail EXCEPT ![p].at = "open", ![p].resumes = token]
    /\ UNCHANGED <<inserted, projected, queued, marked, token, blind, streamFaults>>

\* Without a token the stream begins with what is inserted from now on.
OpenStream(p) ==
    /\ tail[p].at = "open"
    /\ LET fresh == tail[p].resumes = 0
       IN  /\ tail' = [tail EXCEPT ![p].at = "next", ![p].ready = TRUE,
                                   ![p].seen = IF fresh THEN inserted ELSE tail[p].resumes]
           /\ blind' = IF fresh THEN inserted ELSE blind
    /\ UNCHANGED <<inserted, projected, queued, marked, token, streamFaults>>

\* Mutant: the token of an event is stored when it is delivered.
ReadChangeStores(p) ==
    /\ tail[p].at = "next" /\ tail[p].seen < inserted
    /\ tail' = [tail EXCEPT ![p].at = "upsert", ![p].seen = @ + 1]
    /\ token' = tail[p].seen + 1
    /\ UNCHANGED <<inserted, projected, queued, marked, blind, streamFaults>>

ReadChange(p) ==
    /\ tail[p].at = "next" /\ tail[p].seen < inserted
    /\ tail' = [tail EXCEPT ![p].at = "upsert", ![p].seen = @ + 1]
    /\ UNCHANGED <<inserted, projected, queued, marked, token, blind, streamFaults>>

UpsertPoint(p) ==
    /\ Stage(p, "upsert", "enqueue")
    /\ projected' = projected \union {tail[p].seen}
    /\ UNCHANGED <<inserted, queued, marked, token, blind, streamFaults>>

Enqueue(p) ==
    /\ Stage(p, "enqueue", "mark")
    /\ queued' = queued \union {tail[p].seen}
    /\ UNCHANGED <<inserted, projected, marked, token, blind, streamFaults>>

MarkProcessed(p) ==
    /\ Stage(p, "mark", "save")
    /\ marked' = marked \union {tail[p].seen}
    /\ UNCHANGED <<inserted, projected, queued, token, blind, streamFaults>>

SaveToken(p) ==
    /\ Stage(p, "save", "next")
    /\ token' = tail[p].seen
    /\ UNCHANGED <<inserted, projected, queued, marked, blind, streamFaults>>

StreamFault == streamFaults < MaxStreamFaults /\ streamFaults' = streamFaults + 1

\* Mutant: a failing call is passed over, and the task goes on with the next event.
TaskGoesOn(p) ==
    /\ StreamFault
    /\ tail[p].at \notin {"off", "died"}
    /\ tail' = [tail EXCEPT ![p].at = IF tail[p].ready THEN "next" ELSE "died"]
    /\ UNCHANGED <<inserted, projected, queued, marked, token, blind>>

\* A call of the task raises: the task ends, and nothing starts it again.  An entered
\* manager goes on writing.
TaskFails(p) ==
    /\ StreamFault
    /\ tail[p].at \notin {"off", "died"}
    /\ tail' = [tail EXCEPT ![p].at = "died"]
    /\ UNCHANGED <<inserted, projected, queued, marked, token, blind>>

\* The manager is left, its entering fails or times out, or the process ends: the task is
\* cancelled wherever it is.
StopManager(p) ==
    /\ StreamFault
    /\ tail[p].at # "off"
    /\ tail' = [tail EXCEPT ![p] = NotTailing]
    /\ UNCHANGED <<inserted, projected, queued, marked, token, blind>>

\* One insert holds the message and its marker.
WriteMessage(p) ==
    /\ tail[p].ready
    /\ inserted < MaxInserted
    /\ inserted' = inserted + 1
    /\ UNCHANGED <<projected, queued, marked, token, tail, blind, streamFaults>>

StreamNext ==
    \E p \in Managers :
        \/ StartManager(p) \/ ReadToken(p) \/ OpenStream(p) \/ ReadChange(p)
        \/ UpsertPoint(p) \/ Enqueue(p) \/ MarkProcessed(p) \/ SaveToken(p)
        \/ TaskFails(p) \/ StopManager(p) \/ WriteMessage(p)

StreamSpec == StreamInit /\ [][StreamNext]_tailVars

-----------------------------------------------------------------------------

TailOf == [at : TailStages, resumes : Nat, seen : Nat, ready : BOOLEAN]

StreamTypeOK ==
    /\ inserted \in Nat /\ token \in Nat /\ blind \in Nat /\ streamFaults \in Nat
    /\ projected \subseteq Nat /\ queued \subseteq Nat /\ marked \subseteq Nat
    /\ tail \in [Managers -> TailOf]

\* A message's work is complete: it can be found, is to be consolidated, and is marked.
IsDone(m) == m \in projected /\ m \in queued /\ m \in marked

\* What a stored token leaves behind is done: whatever process stored it, and however often
\* processes died before, no message inserted after the last stream that opened without a
\* token is passed over (_run_outbox, storage_manager.py).  The messages up to that opening
\* are excepted, and they can be lost: a process that ends before it has stored its first
\* token leaves none, and the next stream begins with what is inserted then, although the
\* task's text says that restarts never drop events of the downtime.
NothingSkipped ==
    /\ \A m \in (blind + 1)..token : IsDone(m)
    /\ \A m \in marked : IsDone(m)

\* The same of what each task has been delivered, of which the token is made: the proof of
\* NothingSkipped (MemoryOutboxProofs) goes by it.
SkipsNothing ==
    \A p \in Managers :
        /\ tail[p].seen <= inserted /\ tail[p].resumes <= inserted
        /\ \A m \in (blind + 1)..tail[p].resumes : IsDone(m)
        /\ \A m \in (blind + 1)..tail[p].seen :
               \/ IsDone(m)
               \/ m = tail[p].seen /\ tail[p].at \notin {"off", "start", "open", "next"}

=============================================================================
