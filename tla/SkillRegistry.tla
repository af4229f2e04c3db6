---------------------------- MODULE SkillRegistry ----------------------------
(***************************************************************************)
(* services/skill_runner/skill_registry.py: one skill of a worker process. *)
(* A single owner task holds the subprocess and its session and serves an  *)
(* inbox; callers enqueue requests and await a future; failed callers      *)
(* schedule a restart; reload drains and restarts.                         *)
(*                                                                         *)
(* Every section under the registry's lock runs without an await that can  *)
(* block, so each is one atomic step.  Back-off times are left out, but a  *)
(* back-off lasts at least a second, so what was runnable when it began    *)
(* has run when it ends.                                                   *)
(***************************************************************************)
EXTENDS Integers, Sequences, FiniteSets, SequencesExt

CONSTANTS Calls,        \* calls of the skill's tools
          RESTART,      \* _RESTART_SENTINEL
          NoCall,       \* no request
          MaxFaults,    \* bound: failures of the environment
          MaxReloads    \* bound: hot reloads

ASSUME RegistryAssumption ==
    /\ RESTART \notin Calls /\ NoCall \notin Calls /\ NoCall # RESTART
    /\ MaxFaults \in Nat
    /\ MaxReloads \in Nat

VARIABLES
    registered, \* "starting" while register awaits _spawn, then "yes" or "no"
    state,      \* SkillProcess.state
    ready,      \* SkillProcess._ready is set
    owner,      \* where _run_skill is
    cur,        \* the request it took from the inbox, if it is calling
    proc,       \* number of the subprocess it started last
    alive,      \* that subprocess runs
    inbox,      \* SkillProcess._inbox
    inflight,   \* SkillProcess.inflight
    fut,        \* what call_tool's future holds; "refused" when it raised
    waiting,    \* callers that await their future
    restarters, \* failed callers whose _maybe_restart task has not run
    reload,     \* where reload is, and the subprocess it is to replace
    reloads,    \* reloads so far
    orphaned,   \* history: requests in the session's hands when it was cancelled
    faults      \* failures so far

ownerVars == <<owner, cur, proc, alive>>
callVars == <<inflight, fut, waiting>>
reloadVars == <<reload, reloads>>
registryVars == <<registered, state, ready, ownerVars, inbox, callVars, restarters,
                  reloadVars, orphaned>>

RegistryTypeOK ==
    /\ registered \in {"starting", "yes", "no"}
    /\ state \in {"INIT", "READY", "DRAINING", "DEAD"}
    /\ ready \in BOOLEAN
    /\ owner \in {"opening", "serving", "calling", "backoff", "gone"}
    /\ cur \in Calls \union {NoCall}
    /\ proc \in Nat
    /\ alive \in BOOLEAN
    /\ inbox \in Seq(Calls \union {RESTART})
    /\ inflight \in Int
    /\ fut \in [Calls -> {"none", "refused", "pending", "ok", "error"}]
    /\ waiting \subseteq Calls
    /\ restarters \subseteq Calls
    /\ reload \in [at : {"idle", "draining", "awaiting"}, old : Nat, open : BOOLEAN]
    /\ reloads \in 0..MaxReloads
    /\ orphaned \subseteq Calls
    /\ faults \in 0..MaxFaults

NoReload == [at |-> "idle", old |-> 0, open |-> FALSE]

\* The registry of a new process: register has started the owner task.
RegistryInit ==
    /\ registered = "starting" /\ state = "INIT" /\ ready = FALSE
    /\ owner = "opening" /\ cur = NoCall /\ proc = 1 /\ alive = TRUE
    /\ inbox = <<>> /\ inflight = 0 /\ fut = [c \in Calls |-> "none"]
    /\ waiting = {} /\ restarters = {} /\ reload = NoReload /\ reloads = 0
    /\ orphaned = {} /\ faults = 0

-----------------------------------------------------------------------------
(* The owner task.                                                         *)

\* Mutant: the inbox is emptied without failing the requests.
Dropped == fut

\* _drain_inbox fails every queued request, and drops queued sentinels.
Drained == [c \in Calls |->
    IF \E i \in DOMAIN inbox : inbox[i] = c THEN "error" ELSE fut[c]]

\* The session opens: initialize and list_tools returned.
OpenSession ==
    /\ owner = "opening"
    /\ owner' = "serving" /\ state' = "READY" /\ ready' = TRUE
    /\ UNCHANGED <<registered, cur, proc, alive, inbox, callVars, restarters,
                   reloadVars, orphaned, faults>>

\* The except branch of _run_skill: the session is lost while it opens, or
\* while it serves.  In the second case the library cancels the owner at its
\* await, so a request it had taken is neither answered nor in the inbox.
SessionCrash ==
    /\ owner \in {"opening", "serving", "calling"}
    /\ faults < MaxFaults /\ faults' = faults + 1
    /\ state' = "DEAD" /\ ready' = FALSE
    /\ owner' = "backoff" /\ cur' = NoCall /\ alive' = FALSE
    /\ fut' = Drained /\ inbox' = <<>>
    /\ orphaned' = orphaned \union ({cur} \ {NoCall})
    /\ UNCHANGED <<registered, proc, inflight, waiting, restarters, reloadVars>>

\* The subprocess dies; nobody notices before the next call.
ProcessDies ==
    /\ owner \in {"serving", "calling"} /\ alive
    /\ faults < MaxFaults /\ faults' = faults + 1
    /\ alive' = FALSE
    /\ UNCHANGED <<registered, state, ready, owner, cur, proc, inbox, callVars,
                   restarters, reloadVars, orphaned>>

\* The sentinel leaves the inner loop: the session is closed, the inbox kept,
\* and the state is whatever it was.
TakeSentinel ==
    /\ owner = "serving" /\ inbox # <<>> /\ Head(inbox) = RESTART
    /\ inbox' = Tail(inbox) /\ owner' = "backoff" /\ alive' = FALSE
    /\ UNCHANGED <<registered, state, ready, cur, proc, callVars, restarters,
                   reloadVars, orphaned, faults>>

TakeRequest ==
    /\ owner = "serving" /\ inbox # <<>> /\ Head(inbox) # RESTART
    /\ cur' = Head(inbox) /\ inbox' = Tail(inbox) /\ owner' = "calling"
    /\ UNCHANGED <<registered, state, ready, proc, alive, callVars, restarters,
                   reloadVars, orphaned, faults>>

\* session.call_tool returned, raised, or ran into the call's time-out.
CallEnds ==
    /\ owner = "calling" /\ owner' = "serving" /\ cur' = NoCall
    /\ \/ alive /\ fut' = [fut EXCEPT ![cur] = "ok"] /\ UNCHANGED faults
       \/ ~alive /\ fut' = [fut EXCEPT ![cur] = "error"] /\ UNCHANGED faults
       \/ /\ alive /\ faults < MaxFaults /\ faults' = faults + 1
          /\ fut' = [fut EXCEPT ![cur] = "error"]
    /\ UNCHANGED <<registered, state, ready, proc, alive, inbox, inflight, waiting,
                   restarters, reloadVars, orphaned>>

\* Callers that can run have run before a back-off ends.
Settled == restarters = {} /\ \A c \in waiting : fut[c] = "pending"

BackoffEnds ==
    /\ owner = "backoff" /\ Settled
    /\ state' = "INIT" /\ owner' = "opening"
    /\ proc' = proc + 1 /\ alive' = TRUE
    /\ UNCHANGED <<registered, ready, cur, inbox, callVars, restarters, reloadVars,
                   orphaned, faults>>

-----------------------------------------------------------------------------
(* register, call_tool, _maybe_restart, reload.                            *)

\* _spawn saw the event in time.
Register ==
    /\ registered = "starting" /\ ready
    /\ registered' = "yes"
    /\ UNCHANGED <<state, ready, ownerVars, inbox, callVars, restarters, reloadVars,
                   orphaned, faults>>

\* _spawn waited 30 s, and cancels the owner; the skill stays unknown.
RegisterTimesOut ==
    /\ registered = "starting" /\ ~ready
    /\ faults < MaxFaults /\ faults' = faults + 1
    /\ registered' = "no" /\ state' = "DEAD"
    /\ owner' = "gone" /\ cur' = NoCall /\ alive' = FALSE
    /\ UNCHANGED <<ready, proc, inbox, callVars, restarters, reloadVars, orphaned>>

\* Mutant: the finally branch counts out a call that was never enqueued.
AlwaysCountedOut(enqueued, unavailable) == IF unavailable THEN 2 ELSE 1

\* What a call that leaves call_tool takes off inflight: once in the branch of
\* SkillUnavailable, and once in finally if it was enqueued.
CountedOut(enqueued, unavailable) ==
    (IF unavailable THEN 1 ELSE 0) + (IF enqueued THEN 1 ELSE 0)

\* A request is taken when the skill is registered and READY and has the tool
\* and the arguments fit its schema; else call_tool raises: before it counts the
\* call, or, while a new session opens (INIT), after.
CallTool(c, valid) ==
    /\ fut[c] = "none"
    /\ IF registered = "yes" /\ state = "READY" /\ valid
       THEN /\ inflight' = inflight + 1
            /\ inbox' = Append(inbox, c)
            /\ fut' = [fut EXCEPT ![c] = "pending"]
            /\ waiting' = waiting \union {c}
       ELSE /\ inflight' = IF registered = "yes" /\ state = "INIT" /\ valid
                           THEN inflight + 1 - CountedOut(FALSE, TRUE) ELSE inflight
            /\ fut' = [fut EXCEPT ![c] = "refused"]
            /\ UNCHANGED <<inbox, waiting>>
    /\ UNCHANGED <<registered, state, ready, ownerVars, restarters, reloadVars,
                   orphaned, faults>>

\* The awaiting caller goes on; a failed one schedules a restart.
CallerResumes(c) ==
    /\ c \in waiting /\ fut[c] \in {"ok", "error"}
    /\ waiting' = waiting \ {c} /\ inflight' = inflight - CountedOut(TRUE, FALSE)
    /\ restarters' = IF fut[c] = "error" THEN restarters \union {c} ELSE restarters
    /\ UNCHANGED <<registered, state, ready, ownerVars, inbox, fut, reloadVars,
                   orphaned, faults>>

\* Mutant: the state is set and no sentinel is sent.
MarkDead(c) ==
    /\ c \in restarters /\ restarters' = restarters \ {c}
    /\ state' = "DEAD"
    /\ UNCHANGED <<registered, ready, ownerVars, inbox, callVars, reloadVars, orphaned,
                   faults>>

MaybeRestart(c) ==
    /\ c \in restarters /\ restarters' = restarters \ {c}
    /\ IF state = "DEAD"
       THEN UNCHANGED <<state, inbox>>
       ELSE state' = "DEAD" /\ inbox' = Append(inbox, RESTART)
    /\ UNCHANGED <<registered, ready, ownerVars, callVars, reloadVars, orphaned, faults>>

ReloadStarts ==
    /\ registered = "yes" /\ reload.at = "idle" /\ reloads < MaxReloads
    /\ reloads' = reloads + 1 /\ state' = "DRAINING"
    /\ reload' = [at |-> "draining", old |-> proc, open |-> FALSE]
    /\ UNCHANGED <<registered, ready, ownerVars, inbox, callVars, restarters, orphaned,
                   faults>>

\* Mutant: the event of the session to be closed is left set.
RestartUncleared ==
    /\ reload.at = "draining" /\ inflight = 0
    /\ inbox' = Append(inbox, RESTART)
    /\ reload' = [reload EXCEPT !.at = "awaiting", !.open = owner \in {"serving", "calling"}]
    /\ UNCHANGED <<registered, state, ready, ownerVars, callVars, restarters, reloads,
                   orphaned, faults>>

\* reload found inflight at zero: it clears the event and sends the sentinel.
ReloadRestarts ==
    /\ reload.at = "draining" /\ inflight = 0
    /\ ready' = FALSE /\ inbox' = Append(inbox, RESTART)
    /\ reload' = [reload EXCEPT !.at = "awaiting", !.open = owner \in {"serving", "calling"}]
    /\ UNCHANGED <<registered, state, ownerVars, callVars, restarters, reloads, orphaned,
                   faults>>

ReloadReturns ==
    /\ reload.at = "awaiting" /\ ready
    /\ reload' = NoReload
    /\ UNCHANGED <<registered, state, ready, ownerVars, inbox, callVars, restarters,
                   reloads, orphaned, faults>>

-----------------------------------------------------------------------------
\* What a running registry goes on doing.
RegistrySteps ==
    \/ OpenSession \/ TakeSentinel \/ TakeRequest \/ CallEnds \/ BackoffEnds
    \/ Register \/ ReloadRestarts \/ ReloadReturns
    \/ \E c \in Calls : MaybeRestart(c)

RegistryFaults == SessionCrash \/ ProcessDies \/ RegisterTimesOut
=============================================================================
