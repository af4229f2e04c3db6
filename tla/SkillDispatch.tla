---------------------------- MODULE SkillDispatch ----------------------------
(***************************************************************************)
(* A skill call from the orchestrator to a skill: SkillRouter.execute      *)
(* (orchestrator/skill_router.py) appends a task to labmate:skill-tasks    *)
(* and polls for its result; the worker (skill_worker/worker.py) reads the *)
(* stream through a consumer group, handles each entry in a task of its    *)
(* own behind a semaphore, calls the registry (SkillRegistry), writes the  *)
(* result and acknowledges.  One worker at a time, one skill; a worker may *)
(* be stopped, or crash, and another starts.                               *)
(***************************************************************************)
EXTENDS SkillRegistry

CONSTANTS Batch,        \* BATCH: entries per read
          Concurrency   \* WORKER_CONCURRENCY

ASSUME DispatchAssumption == Batch \in Nat \ {0} /\ Concurrency \in Nat \ {0}

VARIABLES
    router,     \* where execute is, for each call
    stream,     \* entries not yet delivered to the group
    pel,        \* delivered and unacknowledged entries: "mine" if they are the
                \* live worker's, "dead" if they are a gone worker's
    worker,     \* "up", "stopping" (stop was called), "down"
    handler,    \* where _handle is, for each call
    slots,      \* free slots of the semaphore
    result,     \* the key labmate:result:<task>
    ran,        \* history: what the skill did with the call
    excused     \* history: a failed write or a shutdown hit the handler

dispatchVars == <<router, stream, pel, worker, handler, slots, result, ran, excused>>
vars == <<registryVars, faults, dispatchVars>>

\* A handler that is inside the semaphore.
Holding == {"dispatching", "calling", "ok", "error", "fallback", "ack"}

TypeOK ==
    /\ RegistryTypeOK
    /\ router \in [Calls -> {"idle", "polling", "failed", "ok", "error", "timeout"}]
    /\ stream \in Seq(Calls)
    /\ pel \in [Calls -> {"none", "mine", "dead", "acked"}]
    /\ worker \in {"up", "stopping", "down"}
    /\ handler \in [Calls -> Holding \union {"none", "queued", "acked", "lost"}]
    /\ slots = Concurrency - Cardinality({c \in Calls : handler[c] \in Holding})
    /\ result \in [Calls -> {"none", "ok", "error"}]
    /\ ran \in [Calls -> {"none", "ok", "error"}]
    /\ excused \subseteq Calls

Init ==
    /\ RegistryInit
    /\ router = [c \in Calls |-> "idle"]
    /\ stream = <<>>
    /\ pel = [c \in Calls |-> "none"]
    /\ worker = "up"
    /\ handler = [c \in Calls |-> "none"]
    /\ slots = Concurrency
    /\ result = [c \in Calls |-> "none"]
    /\ ran = [c \in Calls |-> "none"]
    /\ excused = {}

Fault == faults < MaxFaults /\ faults' = faults + 1

-----------------------------------------------------------------------------
(* SkillRouter.execute.                                                    *)

\* XADD; if it raises, execute returns the error.
Execute(c) ==
    /\ router[c] = "idle"
    /\ \/ /\ router' = [router EXCEPT ![c] = "polling"]
          /\ stream' = Append(stream, c)
          /\ UNCHANGED faults
       \/ /\ Fault
          /\ router' = [router EXCEPT ![c] = "failed"]
          /\ UNCHANGED stream
    /\ UNCHANGED <<registryVars, pel, worker, handler, slots, result, ran, excused>>

\* GET finds the result.
PollFinds(c) ==
    /\ router[c] = "polling" /\ result[c] # "none"
    /\ router' = [router EXCEPT ![c] = result[c]]
    /\ UNCHANGED <<registryVars, faults, stream, pel, worker, handler, slots, result,
                   ran, excused>>

\* GET finds nothing and the call's time is over.
PollTimesOut(c) ==
    /\ router[c] = "polling" /\ result[c] = "none"
    /\ router' = [router EXCEPT ![c] = "timeout"]
    /\ UNCHANGED <<registryVars, faults, stream, pel, worker, handler, slots, result,
                   ran, excused>>

\* GET raises: execute returns the error, and the task is where it was.
PollFails(c) ==
    /\ router[c] = "polling" /\ Fault
    /\ router' = [router EXCEPT ![c] = "error"]
    /\ UNCHANGED <<registryVars, stream, pel, worker, handler, slots, result, ran, excused>>

-----------------------------------------------------------------------------
(* The worker.  start registers the skills before the first read.          *)

ReadBatch ==
    /\ worker \in {"up", "stopping"} /\ registered # "starting" /\ stream # <<>>
    /\ LET n == IF Len(stream) < Batch THEN Len(stream) ELSE Batch
           read == {stream[i] : i \in 1..n}
       IN /\ stream' = SubSeq(stream, n + 1, Len(stream))
          /\ pel' = [c \in Calls |-> IF c \in read THEN "mine" ELSE pel[c]]
          /\ handler' = [c \in Calls |-> IF c \in read THEN "queued" ELSE handler[c]]
    /\ UNCHANGED <<registryVars, faults, router, worker, slots, result, ran, excused>>

TakeSlot(c) ==
    /\ handler[c] = "queued" /\ slots > 0
    /\ slots' = slots - 1
    /\ handler' = [handler EXCEPT ![c] = "dispatching"]
    /\ UNCHANGED <<registryVars, faults, router, stream, pel, worker, result, ran, excused>>

\* _dispatch calls the registry, which takes the request or raises.
Dispatch(c, valid) ==
    /\ handler[c] = "dispatching"
    /\ CallTool(c, valid)
    /\ handler' = [handler EXCEPT ![c] = IF fut'[c] = "refused" THEN "error" ELSE "calling"]
    /\ UNCHANGED <<router, stream, pel, worker, slots, result, ran, excused>>

\* Mutant: isError is not looked at.
ReturnedAsIs(c, toolError) ==
    /\ handler[c] = "calling"
    /\ CallerResumes(c)
    /\ ran' = [ran EXCEPT ![c] = IF fut[c] = "ok" /\ ~toolError THEN "ok" ELSE "error"]
    /\ handler' = [handler EXCEPT ![c] = fut[c]]
    /\ UNCHANGED <<router, stream, pel, worker, slots, result, excused>>

\* The call came back: a tool's own error is a normal return and an error
\* here; an exception becomes dispatch_failed.
Returned(c, toolError) ==
    /\ handler[c] = "calling"
    /\ CallerResumes(c)
    /\ ran' = [ran EXCEPT ![c] = IF fut[c] = "ok" /\ ~toolError THEN "ok" ELSE "error"]
    /\ handler' = [handler EXCEPT ![c] = ran'[c]]
    /\ UNCHANGED <<router, stream, pel, worker, slots, result, excused>>

\* Mutant: a write that raises goes straight to the finally branch.
WriteOnce(c) ==
    /\ handler[c] \in {"ok", "error"}
    /\ handler' = [handler EXCEPT ![c] = "ack"]
    /\ \/ result' = [result EXCEPT ![c] = handler[c]] /\ UNCHANGED faults
       \/ Fault /\ UNCHANGED result
    /\ UNCHANGED <<registryVars, router, stream, pel, worker, slots, ran, excused>>

\* _write_result: SET, then PUBLISH.  If either raises, _handle writes
\* internal_error instead.
WriteResult(c) ==
    /\ handler[c] \in {"ok", "error"}
    /\ \/ /\ result' = [result EXCEPT ![c] = handler[c]]
          /\ handler' = [handler EXCEPT ![c] = "ack"]
          /\ UNCHANGED <<faults, excused>>
       \/ /\ Fault
          /\ result' \in {result, [result EXCEPT ![c] = handler[c]]}
          /\ handler' = [handler EXCEPT ![c] = "fallback"]
          /\ UNCHANGED excused
    /\ UNCHANGED <<registryVars, router, stream, pel, worker, slots, ran>>

\* Redis may still be out of reach.
WriteInternalError(c) ==
    /\ handler[c] = "fallback"
    /\ handler' = [handler EXCEPT ![c] = "ack"]
    /\ \/ result' = [result EXCEPT ![c] = "error"] /\ UNCHANGED excused
       \/ excused' = excused \union {c} /\ UNCHANGED result
    /\ UNCHANGED <<registryVars, faults, router, stream, pel, worker, slots, ran>>

\* The finally branch, and the semaphore.  If XACK raises, the entry stays pending
\* with its result written.
Ack(c) ==
    /\ handler[c] = "ack"
    /\ \/ /\ handler' = [handler EXCEPT ![c] = "acked"]
          /\ pel' = [pel EXCEPT ![c] = "acked"]
          /\ UNCHANGED faults
       \/ Fault /\ handler' = [handler EXCEPT ![c] = "lost"] /\ UNCHANGED pel
    /\ slots' = slots + 1
    /\ UNCHANGED <<registryVars, router, stream, worker, result, ran, excused>>

-----------------------------------------------------------------------------
(* The worker process ends and starts.                                     *)

\* The registry dies with its process; a request in it may have been served.
RegistryGone ==
    /\ registered' = "starting" /\ state' = "INIT" /\ ready' = FALSE
    /\ owner' = "opening" /\ cur' = NoCall /\ proc' = proc + 1 /\ alive' = TRUE
    /\ inbox' = <<>> /\ inflight' = 0 /\ waiting' = {} /\ restarters' = {}
    /\ fut' = [c \in Calls |-> IF handler[c] \in {"none", "queued", "dispatching"}
                               THEN "none" ELSE fut[c]]
    /\ reload' = NoReload /\ orphaned' = {}
    /\ UNCHANGED reloads

Interrupted == {c \in Calls : handler[c] \in Holding}

Crash ==
    /\ worker # "down" /\ Fault
    /\ worker' = "down"
    /\ RegistryGone
    /\ handler' = [c \in Calls |-> IF handler[c] \in Holding \union {"queued"}
                                   THEN "lost" ELSE handler[c]]
    /\ pel' = [c \in Calls |-> IF pel[c] = "mine" THEN "dead" ELSE pel[c]]
    /\ slots' = Concurrency
    /\ UNCHANGED <<router, stream, result, ran, excused>>

Stop ==
    /\ worker = "up" /\ Fault
    /\ worker' = "stopping"
    /\ UNCHANGED <<registryVars, router, stream, pel, handler, slots, result, ran, excused>>

\* asyncio.run cancels what is left: a handler inside its try acknowledges in
\* finally, unless that fails too; one that waits for the semaphore does not.
Cancelled(acknowledged) ==
    /\ worker' = "down"
    /\ RegistryGone
    /\ handler' = [c \in Calls |-> IF c \in acknowledged THEN "acked"
                                   ELSE IF handler[c] \in Holding \union {"queued"} THEN "lost"
                                   ELSE handler[c]]
    /\ pel' = [c \in Calls |-> IF c \in acknowledged THEN "acked"
                               ELSE IF pel[c] = "mine" THEN "dead" ELSE pel[c]]
    /\ excused' = excused \union Interrupted
    /\ slots' = Concurrency
    /\ UNCHANGED <<router, stream, result, ran>>

\* run returns.  A handler that is at its XACK is cancelled there.
Exit ==
    /\ worker = "stopping" /\ registered # "starting"
    /\ \E cut \in SUBSET {c \in Calls : handler[c] = "ack"} : Cancelled(Interrupted \ cut)
    /\ UNCHANGED faults

\* XREADGROUP raises ConnectionError, which run does not catch.
ReadFails ==
    /\ worker \in {"up", "stopping"} /\ registered # "starting" /\ Fault
    /\ \E cut \in SUBSET Interrupted : Cancelled(Interrupted \ cut)

\* start: XAUTOCLAIM makes the entries that were idle for 30 s this worker's;
\* _reclaim_pending counts them and hands none to _handle.
Start ==
    /\ worker = "down" /\ worker' = "up"
    /\ \E idle \in SUBSET {c \in Calls : pel[c] = "dead"} :
           pel' = [c \in Calls |-> IF c \in idle THEN "mine" ELSE pel[c]]
    /\ UNCHANGED <<registryVars, faults, router, stream, handler, slots, result, ran, excused>>

-----------------------------------------------------------------------------
Alive == worker # "down"

RegistryMoves == /\ Alive
                 /\ (RegistrySteps \/ RegistryFaults \/ ReloadStarts)
                 /\ UNCHANGED dispatchVars

HandlerSteps(c) ==
    \/ TakeSlot(c)
    \/ \E valid \in BOOLEAN : Dispatch(c, valid)
    \/ \E toolError \in BOOLEAN : Returned(c, toolError)
    \/ WriteResult(c) \/ WriteInternalError(c) \/ Ack(c)

Next ==
    \/ RegistryMoves
    \/ \E c \in Calls :
           Execute(c) \/ PollFinds(c) \/ PollTimesOut(c) \/ PollFails(c) \/ HandlerSteps(c)
    \/ ReadBatch \/ ReadFails \/ Crash \/ Stop \/ Exit \/ Start

Spec == Init /\ [][Next]_vars

\* The event loop of the worker runs what is runnable, and a supervisor starts
\* a worker again.  Nothing is needed of the router, whose wait is bounded.
FairSpec ==
    /\ Spec
    /\ WF_vars(Alive /\ RegistrySteps /\ UNCHANGED dispatchVars)
    /\ WF_vars(\E c \in Calls : HandlerSteps(c))
    /\ WF_vars(ReadBatch \/ Exit \/ Start)

-----------------------------------------------------------------------------
(* Properties.                                                             *)

\* The at-most-once call the router's users rely on: a call runs at most once
\* and is reported a success only if the skill succeeded
\* (skill_router.execute, worker._handle, worker._dispatch).
Once == INSTANCE OneShotCall WITH
    Callers <- Calls,
    asked <- {c \in Calls : router[c] \notin {"idle", "failed"}},
    outcome <- ran,
    reply <- [c \in Calls |-> CASE router[c] \in {"idle", "polling"} -> "none"
                                [] router[c] = "failed" -> "error"
                                [] OTHER -> router[c]]
ImplementsOnce == Once!Spec

\* An acknowledged task has its result, unless Redis refused both writes or
\* the process was told to stop while it was handled (worker._handle).
AckedHasResult ==
    \A c \in Calls : pel[c] = "acked" => result[c] # "none" \/ c \in excused

\* "drain in-flight calls, then signal restart" (reload): when a reload asks for
\* the restart no call is in the session's hands or waits in its inbox, whatever
\* calls were refused, failed, answered or lost with a session before.
ReloadDrains ==
    [][reload.at = "draining" /\ reload'.at = "awaiting" =>
           cur = NoCall /\ \A c \in Calls : ~Contains(inbox, c)]_vars

\* A reload of an open session comes back only when a subprocess started
\* after it is ready (reload clears the event before it sends the sentinel).
ReloadReplaces ==
    [][reload.at = "awaiting" /\ reload.open /\ reload'.at = "idle"
            /\ worker' = worker => proc > reload.old]_vars

\* Every request in the inbox is served or failed, and its handler gives its
\* slot back, unless the session was cancelled under a request or the
\* process ends (_run_skill, _drain_inbox, _handle).
HandlersEnd ==
    \A c \in Calls :
        handler[c] = "queued" ~> handler[c] \in {"acked", "lost"} \/ orphaned # {}

\* A failed call brings the skill back: some time later it is READY again,
\* or its process has ended (_maybe_restart, _run_skill).
FailedSkillReturns ==
    \A c \in Calls : c \in restarters ~>
        (state = "READY" /\ alive) \/ worker = "down" \/ orphaned # {}

\* "reclaim stale pending tasks" (worker.py): an entry a dead worker left is
\* handled by a later one.
PendingIsReclaimed == \A c \in Calls : pel[c] = "dead" ~> pel[c] = "acked"
=============================================================================
