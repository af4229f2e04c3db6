---------------------------- MODULE GoalHandler ----------------------------
(***************************************************************************)
(* The orchestrator process (orchestrator/main.py): its loop over the      *)
(* stream of goals and _handle, which answers one goal, reports how it     *)
(* ended in three places (the stored result, the turn.done event, the      *)
(* session record) and acknowledges it.  Which of its steps may raise, and *)
(* what a raise then skips, is what this module keeps; what a turn does is *)
(* GoalGraph, and how the gateway sees it is TurnGateway.                  *)
(***************************************************************************)
EXTENDS Naturals, FiniteSets

CONSTANTS TaskGoals, CompactGoals, \* the goals pushed by the gateway
          NoGoal,
          MaxMainFaults            \* bound: raising calls, crashes

MainGoals == TaskGoals \union CompactGoals

ASSUME MainAssumption ==
    /\ TaskGoals \intersect CompactGoals = {} /\ NoGoal \notin MainGoals
    /\ MaxMainFaults \in Nat

VARIABLES
    waiting,    \* goals of the stream the group has not delivered
    pendingGoals, \* delivered and not acknowledged
    up,         \* the process runs
    stopping,   \* _shutdown is set
    handling,   \* the goal _handle is in
    hAt,        \* how far it is
    stateError, \* final_state["error"] is set
    succeeded,  \* task_succeeded
    escaping,   \* an exception leaves _handle
    result,     \* labmate:result:<task>
    doneStatus,     \* the status of turn.done
    record,     \* the session record's outcome
    mainFaults, \* faults so far
    unwritten   \* history: goals of which a write of the result raised

mainVars == <<waiting, pendingGoals, up, stopping, handling, hAt, stateError, succeeded, escaping,
              result, doneStatus, record, mainFaults, unwritten>>
streamVars == <<waiting, pendingGoals, up, stopping, handling>>
outcomeVars == <<result, doneStatus, record>>

MainTypeOK ==
    /\ waiting \subseteq MainGoals /\ pendingGoals \subseteq MainGoals
    /\ {up, stopping, stateError, succeeded, escaping} \subseteq BOOLEAN
    /\ handling \in MainGoals \union {NoGoal}
    /\ hAt \in {"none", "begun", "running", "ran", "answering", "failing", "closing", "done"}
    /\ result \in [MainGoals -> {"none", "ok", "failed"}]
    /\ doneStatus \in [MainGoals -> {"none", "complete", "error"}]
    /\ record \in [MainGoals -> {"none", "ok", "failed"}]
    /\ mainFaults \in 0..MaxMainFaults
    /\ unwritten \subseteq MainGoals

MainInit ==
    /\ waiting = MainGoals /\ pendingGoals = {} /\ up = TRUE /\ stopping = FALSE
    /\ handling = NoGoal /\ hAt = "none"
    /\ stateError = FALSE /\ succeeded = FALSE /\ escaping = FALSE
    /\ result = [g \in MainGoals |-> "none"] /\ doneStatus = [g \in MainGoals |-> "none"]
    /\ record = [g \in MainGoals |-> "none"]
    /\ mainFaults = 0 /\ unwritten = {}

Faulty == mainFaults < MaxMainFaults /\ mainFaults' = mainFaults + 1

-----------------------------------------------------------------------------
(* _loop.                                                                  *)

\* Mutant: a goal is acknowledged when it is taken.
TakeAndAck(g) ==
    /\ up /\ ~stopping /\ handling = NoGoal /\ g \in waiting
    /\ waiting' = waiting \ {g} /\ handling' = g /\ hAt' = "begun"
    /\ stateError' = FALSE /\ succeeded' = FALSE /\ escaping' = FALSE
    /\ UNCHANGED <<pendingGoals, up, stopping, outcomeVars, mainFaults, unwritten>>

\* XREADGROUP with ">": one new goal.  _handle starts from its safe defaults.
TakeGoal(g) ==
    /\ up /\ ~stopping /\ handling = NoGoal /\ g \in waiting
    /\ waiting' = waiting \ {g} /\ pendingGoals' = pendingGoals \union {g}
    /\ handling' = g /\ hAt' = "begun"
    /\ stateError' = FALSE /\ succeeded' = FALSE /\ escaping' = FALSE
    /\ UNCHANGED <<up, stopping, outcomeVars, mainFaults, unwritten>>

\* SIGTERM: the loop ends at the next look at _shutdown, after its goal.
Shutdown ==
    /\ up /\ ~stopping /\ stopping' = TRUE
    /\ UNCHANGED <<waiting, pendingGoals, up, handling, hAt, stateError, succeeded, escaping,
                   outcomeVars, mainFaults, unwritten>>
LoopEnds ==
    /\ up /\ stopping /\ handling = NoGoal /\ up' = FALSE
    /\ UNCHANGED <<waiting, pendingGoals, stopping, handling, hAt, stateError, succeeded, escaping,
                   outcomeVars, mainFaults, unwritten>>

\* A restart reads with ">" again: what was pending stays so.
StartProcess ==
    /\ ~up /\ up' = TRUE /\ stopping' = FALSE /\ handling' = NoGoal /\ hAt' = "none"
    /\ UNCHANGED <<waiting, pendingGoals, stateError, succeeded, escaping, outcomeVars, mainFaults,
                   unwritten>>

-----------------------------------------------------------------------------
(* _handle.                                                                *)

\* A `compact` goal: full_compact, then on to the write of an ok result.
HandleCompact ==
    /\ up /\ hAt = "begun" /\ handling \in CompactGoals /\ hAt' = "answering"
    /\ UNCHANGED <<streamVars, stateError, succeeded, escaping, outcomeVars, mainFaults, unwritten>>

\* A turn: context variables, measurement, session record, automatic
\* compaction and decay sweep, all but the first best-effort.
HandleTask ==
    /\ up /\ hAt = "begun" /\ handling \in TaskGoals /\ hAt' = "running"
    /\ UNCHANGED <<streamVars, stateError, succeeded, escaping, outcomeVars, mainFaults, unwritten>>

\* run_task returns a state, with or without an error.
RunTask(error) ==
    /\ up /\ hAt = "running" /\ hAt' = "ran"
    /\ succeeded' = TRUE /\ stateError' = error
    /\ UNCHANGED <<streamVars, escaping, outcomeVars, mainFaults, unwritten>>

\* The rendered answer is reconciled: one that gives up sets the error, but
\* for a question to the user.
RenderAnswer(punt) ==
    /\ up /\ hAt = "ran" /\ hAt' = "answering"
    /\ stateError' = (stateError \/ punt)
    /\ UNCHANGED <<streamVars, succeeded, escaping, outcomeVars, mainFaults, unwritten>>

\* _write_result with the ok flag derived from the state: SET, then PUBLISH.
Answer == IF stateError THEN "failed" ELSE "ok"
WriteAnswer ==
    /\ up /\ hAt = "answering" /\ hAt' = "closing"
    /\ result' = [result EXCEPT ![handling] = Answer]
    /\ UNCHANGED <<streamVars, stateError, succeeded, escaping, doneStatus, record, mainFaults, unwritten>>

\* A step raises: before the turn has ended, or in one of the two calls of the
\* write of its result.
HandleRaises(stored) ==
    /\ up /\ hAt \in {"begun", "running", "answering"} /\ Faulty
    /\ hAt' = "failing"
    /\ stored => hAt = "answering"
    /\ result' = IF stored THEN [result EXCEPT ![handling] = Answer] ELSE result
    /\ unwritten' = IF hAt = "answering" THEN unwritten \union {handling} ELSE unwritten
    /\ UNCHANGED <<streamVars, stateError, succeeded, escaping, doneStatus, record>>

\* except: a failed result is written over whatever was there.
WriteFailure ==
    /\ up /\ hAt = "failing" /\ hAt' = "closing"
    /\ result' = [result EXCEPT ![handling] = "failed"]
    /\ UNCHANGED <<streamVars, stateError, succeeded, escaping, doneStatus, record, mainFaults, unwritten>>

\* That raises too: the exception leaves _handle once finally is through.
WriteFailureRaises(stored) ==
    /\ up /\ hAt = "failing" /\ Faulty /\ hAt' = "closing" /\ escaping' = TRUE
    /\ result' = IF stored THEN [result EXCEPT ![handling] = "failed"] ELSE result
    /\ unwritten' = unwritten \union {handling}
    /\ UNCHANGED <<streamVars, stateError, succeeded, doneStatus, record>>

\* Mutant: a turn that returned has ended well.
EndedIfReturned == succeeded

\* finally: the session record and turn.done, each best-effort; a goal that
\* never had an emitter, as a compact has none, gets no turn.done.
Ended == succeeded /\ ~stateError
Close(recorded, emitted) ==
    /\ up /\ hAt = "closing" /\ hAt' = "done"
    /\ emitted => handling \in TaskGoals
    /\ recorded => handling \in TaskGoals
    /\ record' = IF recorded
                 THEN [record EXCEPT ![handling] = IF Ended THEN "ok" ELSE "failed"] ELSE record
    /\ doneStatus' = IF emitted
                 THEN [doneStatus EXCEPT ![handling] = IF Ended THEN "complete" ELSE "error"] ELSE doneStatus
    /\ UNCHANGED <<streamVars, stateError, succeeded, escaping, result, mainFaults, unwritten>>

\* XACK, the last statement: the loop goes on, or the exception ends the
\* process, as nothing in _loop catches it.
AckGoal ==
    /\ up /\ hAt = "done" /\ hAt' = "none" /\ handling' = NoGoal
    /\ pendingGoals' = pendingGoals \ {handling}
    /\ up' = ~escaping
    /\ UNCHANGED <<waiting, stopping, stateError, succeeded, escaping, outcomeVars, mainFaults,
                   unwritten>>
AckRaises ==
    /\ up /\ hAt = "done" /\ Faulty
    /\ up' = FALSE /\ hAt' = "none" /\ handling' = NoGoal
    /\ UNCHANGED <<waiting, pendingGoals, stopping, stateError, succeeded, escaping, outcomeVars, unwritten>>

\* The process is killed: no finally runs.
MainCrash ==
    /\ up /\ Faulty
    /\ up' = FALSE /\ hAt' = "none" /\ handling' = NoGoal
    /\ UNCHANGED <<waiting, pendingGoals, stopping, stateError, succeeded, escaping, outcomeVars, unwritten>>

-----------------------------------------------------------------------------
HandleStep ==
    \/ HandleCompact \/ HandleTask
    \/ \E error \in BOOLEAN : RunTask(error)
    \/ \E punt \in BOOLEAN : RenderAnswer(punt)
    \/ WriteAnswer \/ WriteFailure
    \/ \E recorded, emitted \in BOOLEAN : Close(recorded, emitted)
    \/ AckGoal

MainNext ==
    \/ \E g \in MainGoals : TakeGoal(g)
    \/ Shutdown \/ LoopEnds \/ StartProcess
    \/ HandleStep
    \/ \E stored \in BOOLEAN : HandleRaises(stored) \/ WriteFailureRaises(stored)
    \/ AckRaises \/ MainCrash

MainSpec == MainInit /\ [][MainNext]_mainVars

-----------------------------------------------------------------------------
(* Properties.                                                             *)

\* A goal that is no longer in the group has a result, unless the write of
\* its failure raised (_handle: every way to the acknowledgement).
AckedIsAnswered ==
    \A g \in MainGoals \ (waiting \union pendingGoals) : result[g] # "none" \/ g \in unwritten

\* The three reports agree: turn.done and the session record say of a turn what
\* its result says, unless a write of the result raised (ok_flag, _status and
\* the flag of complete_session are computed apart).
ReportsAgree ==
    \A g \in TaskGoals : result[g] # "none" /\ g \notin unwritten =>
        /\ doneStatus[g] # "none" => (doneStatus[g] = "complete") = (result[g] = "ok")
        /\ record[g] # "none" => record[g] = result[g]
=============================================================================
