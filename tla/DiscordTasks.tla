---------------------------- MODULE DiscordTasks ----------------------------
(***************************************************************************)
(* connectors/deferred/discord_connector.py: every /task has a worker that *)
(* opens a message, posts the goal, waits for its result on a Redis        *)
(* channel and edits the message to show it; /cancel stops a worker.       *)
(*                                                                         *)
(* A result is a text of one to three pieces, the outcome of the goal or   *)
(* the message that it failed: one Discord message holds the first piece,  *)
(* a second one the next; what is longer than two is refused by Discord.   *)
(* The wait and the guard of the stream both end after 14.5 minutes, the   *)
(* guard a little earlier, so that a wait that ran out is always cut off   *)
(* by the guard.                                                           *)
(***************************************************************************)
EXTENDS Naturals

CONSTANTS DiscordTaskIds,
          MaxDiscordFaults \* bound: calls of Discord and Redis that fail

ASSUME DiscordAssumption == MaxDiscordFaults \in Nat

VARIABLES
    recordStatus,  \* the record's status, "none" before the command
    workerAt,      \* where the task's worker is
    wasTold,       \* the user was told that the task is cancelled
    unwinding,     \* a cancellation is on its way to the worker
    windowOver,    \* the 14.5 minutes are over
    gotPieces,     \* pieces of the result under the task's key, 0 for none
    listening,     \* the worker is subscribed
    notices,       \* notifications waiting in the subscription
    shownPieces,   \* pieces of the result the thread shows
    announced,     \* the result was announced: in time, when the window had ended, or not
    taskFaults,    \* history: what failed for the task, its goal among it
    discordFaults

discordVars == <<recordStatus, workerAt, wasTold, unwinding, windowOver, gotPieces, listening,
                 notices, shownPieces, announced, taskFaults, discordFaults>>

StreamStates == {"subscribing", "posting", "polling", "waiting", "showing", "splitting",
                 "flushing", "cutting"}
DiscordFaults == {"edit", "notice", "close", "stray", "goal"}

DiscordTypeOK ==
    /\ recordStatus \in [DiscordTaskIds -> {"none", "running", "completed", "cancelled", "failed",
                                      "truncated"}]
    /\ workerAt \in [DiscordTaskIds -> {"none", "opening", "finishing", "notifying", "over"}
                                           \union StreamStates]
    /\ {wasTold, unwinding, windowOver, listening} \subseteq [DiscordTaskIds -> BOOLEAN]
    /\ {gotPieces, shownPieces} \subseteq [DiscordTaskIds -> 0..3]
    /\ notices \in [DiscordTaskIds -> 0..1]
    /\ announced \in [DiscordTaskIds -> {"no", "in time", "late"}]
    /\ taskFaults \in [DiscordTaskIds -> SUBSET DiscordFaults]
    /\ discordFaults \in 0..MaxDiscordFaults

EveryTask(value) == [t \in DiscordTaskIds |-> value]

DiscordInit ==
    /\ recordStatus = EveryTask("none") /\ workerAt = EveryTask("none")
    /\ wasTold = EveryTask(FALSE) /\ unwinding = EveryTask(FALSE) /\ windowOver = EveryTask(FALSE)
    /\ gotPieces = EveryTask(0) /\ listening = EveryTask(FALSE)
    /\ notices = EveryTask(0) /\ shownPieces = EveryTask(0)
    /\ announced = EveryTask("no") /\ taskFaults = EveryTask({}) /\ discordFaults = 0

redisSide == <<windowOver, gotPieces, listening, notices, announced>>
cancelSide == <<wasTold, unwinding>>

WorkerAt(t, s) == workerAt[t] = s /\ ~unwinding[t]
WorkerGoes(t, s) == workerAt' = [workerAt EXCEPT ![t] = s]
SetsStatus(t, s) == recordStatus' = [recordStatus EXCEPT ![t] = s]
DiscordFails == discordFaults < MaxDiscordFaults /\ discordFaults' = discordFaults + 1
SpoilsTask(t, f) == DiscordFails /\ taskFaults' = [taskFaults EXCEPT ![t] = @ \union {f}]
NothingFails == UNCHANGED <<taskFaults, discordFaults>>

-----------------------------------------------------------------------------
(* The orchestrator: it stores the result, then announces it               *)

\* The goal was posted; a cancelled one is run all the same.  It may fail: the stored result
\* says so, and the generator yields "Task failed" in the place of an outcome.
StoreDiscordResult(t) ==
    /\ workerAt[t] \notin {"none", "opening", "subscribing", "posting"} /\ gotPieces[t] = 0
    /\ \E n \in 1..3 : gotPieces' = [gotPieces EXCEPT ![t] = n]
    /\ \/ UNCHANGED taskFaults
       \/ taskFaults' = [taskFaults EXCEPT ![t] = @ \union {"goal"}]
    /\ UNCHANGED <<recordStatus, workerAt, cancelSide, windowOver, listening, notices, shownPieces,
                   announced, discordFaults>>

\* Only a subscriber hears the announcement, and it may fail.
AnnounceResult(t) ==
    /\ gotPieces[t] # 0 /\ announced[t] = "no" /\ "notice" \notin taskFaults[t]
    /\ \/ /\ announced' = [announced EXCEPT ![t] = IF windowOver[t] THEN "late" ELSE "in time"]
          /\ NothingFails
          /\ notices' = [notices EXCEPT ![t] = IF listening[t] THEN 1 ELSE 0]
       \/ SpoilsTask(t, "notice") /\ UNCHANGED <<announced, notices>>
    /\ UNCHANGED <<recordStatus, workerAt, cancelSide, windowOver, gotPieces, listening,
                   shownPieces>>

\* The window ends, but not in the instant between a notification and its receipt, nor that
\* of the first look.
WindowEnds(t) ==
    /\ workerAt[t] \in {"subscribing", "posting", "waiting"} /\ notices[t] = 0 /\ ~windowOver[t]
    /\ windowOver' = [windowOver EXCEPT ![t] = TRUE]
    /\ UNCHANGED <<recordStatus, workerAt, cancelSide, gotPieces, listening, notices, shownPieces,
                   announced>>
    /\ NothingFails

-----------------------------------------------------------------------------
(* _task_worker                                                            *)

\* /task
StartDiscordTask(t) ==
    /\ recordStatus[t] = "none" /\ SetsStatus(t, "running") /\ WorkerGoes(t, "opening")
    /\ UNCHANGED <<cancelSide, redisSide, shownPieces>> /\ NothingFails

\* The thread (or, when it is refused, the channel) and the first message.
OpenMessage(t) ==
    /\ WorkerAt(t, "opening") /\ WorkerGoes(t, "subscribing")
    /\ UNCHANGED <<recordStatus, cancelSide, redisSide, shownPieces>> /\ NothingFails

\* Discord refuses the message: the task has failed, and no one is notified.  Any other
\* exception, of the thread or of the message, ends the worker and leaves the record running.
OpeningFails(t) ==
    /\ WorkerAt(t, "opening") /\ WorkerGoes(t, "over")
    /\ \/ SetsStatus(t, "failed") /\ DiscordFails /\ UNCHANGED taskFaults
       \/ SpoilsTask(t, "stray") /\ UNCHANGED recordStatus
    /\ UNCHANGED <<cancelSide, redisSide, shownPieces>>

\* The subscription is there before the goal is posted.
SubscribeAndPost(t) ==
    /\ \/ /\ WorkerAt(t, "subscribing") /\ WorkerGoes(t, "posting")
          /\ listening' = [listening EXCEPT ![t] = TRUE]
       \/ WorkerAt(t, "posting") /\ WorkerGoes(t, "polling") /\ UNCHANGED listening
    /\ UNCHANGED <<recordStatus, cancelSide, windowOver, gotPieces, notices, shownPieces,
                    announced>>
    /\ NothingFails

\* The generator has what it waited for, or has not, and closes its subscription.
Unsubscribes(t) ==
    listening' = [listening EXCEPT ![t] = FALSE] /\ notices' = [notices EXCEPT ![t] = 0]

\* One look at the key, then one after every notification.
PollResult(t) ==
    /\ \/ WorkerAt(t, "polling")
       \/ WorkerAt(t, "waiting") /\ notices[t] = 1
    /\ IF gotPieces[t] # 0
       THEN WorkerGoes(t, IF windowOver[t] THEN "cutting" ELSE "showing") /\ Unsubscribes(t)
       ELSE WorkerGoes(t, "waiting") /\ UNCHANGED <<listening, notices>>
    /\ UNCHANGED <<recordStatus, cancelSide, windowOver, gotPieces, shownPieces, announced>>
    /\ NothingFails

\* What the generator says of the time-out is never shown: the guard comes first.
WaitRunsOut(t) ==
    /\ WorkerAt(t, "waiting") /\ windowOver[t] /\ WorkerGoes(t, "cutting") /\ Unsubscribes(t)
    /\ UNCHANGED <<recordStatus, cancelSide, windowOver, gotPieces, shownPieces, announced>>
    /\ NothingFails

\* An edit that is refused, or rate-limited five times, is logged.
EditMessage(t, shows) ==
    \/ shownPieces' = [shownPieces EXCEPT ![t] = shows] /\ NothingFails
    \/ SpoilsTask(t, "edit") /\ UNCHANGED shownPieces

\* Mutant: the notice of the window is shown, and the status left.
CutOffUnmarked(t) ==
    /\ WorkerAt(t, "cutting") /\ WorkerGoes(t, "finishing") /\ UNCHANGED recordStatus
    /\ EditMessage(t, 0)
    /\ UNCHANGED <<cancelSide, redisSide>>

CutOff(t) ==
    /\ WorkerAt(t, "cutting") /\ WorkerGoes(t, "finishing") /\ SetsStatus(t, "truncated")
    /\ EditMessage(t, 0)
    /\ UNCHANGED <<cancelSide, redisSide>>

\* The text fits, and is flushed; or its first piece stays in the message.
ShowResult(t) ==
    /\ WorkerAt(t, "showing")
    /\ IF gotPieces[t] = 1 THEN WorkerGoes(t, "flushing") /\ UNCHANGED shownPieces /\ NothingFails
       ELSE WorkerGoes(t, "splitting") /\ EditMessage(t, 1)
    /\ UNCHANGED <<recordStatus, cancelSide, redisSide>>

\* The rest goes to a second message, at once; it is not split again.
SplitMessage(t) ==
    /\ WorkerAt(t, "splitting")
    /\ IF gotPieces[t] = 2 THEN /\ WorkerGoes(t, "flushing") /\ UNCHANGED recordStatus
                             /\ shownPieces' = [shownPieces EXCEPT ![t] = @ + 1]
       ELSE WorkerGoes(t, "finishing") /\ SetsStatus(t, "failed") /\ UNCHANGED shownPieces
    /\ UNCHANGED <<cancelSide, redisSide>> /\ NothingFails

FlushMessage(t) ==
    /\ WorkerAt(t, "flushing") /\ WorkerGoes(t, "finishing")
    /\ IF gotPieces[t] = 1 THEN EditMessage(t, 1) ELSE UNCHANGED shownPieces /\ NothingFails
    /\ UNCHANGED <<recordStatus, cancelSide, redisSide>>

\* A call of Redis fails, the result is no JSON, or Discord refuses the second message.
StreamRaises(t) ==
    /\ workerAt[t] \in {"subscribing", "posting", "polling", "waiting", "splitting"}
    /\ ~unwinding[t]
    /\ WorkerGoes(t, "finishing") /\ SetsStatus(t, "failed") /\ Unsubscribes(t) /\ DiscordFails
    /\ UNCHANGED <<cancelSide, windowOver, gotPieces, shownPieces, announced, taskFaults>>

\* Mutant: every task that ends is completed.
FinishCompleted(t) ==
    /\ WorkerAt(t, "finishing") /\ WorkerGoes(t, "notifying")
    /\ SetsStatus(t, "completed")
    /\ UNCHANGED <<cancelSide, redisSide, shownPieces>> /\ NothingFails

\* finally: what is still running is completed; then the webhook.
FinishTask(t) ==
    /\ WorkerAt(t, "finishing") /\ WorkerGoes(t, "notifying")
    /\ SetsStatus(t, IF recordStatus[t] = "running" THEN "completed" ELSE recordStatus[t])
    /\ UNCHANGED <<cancelSide, redisSide, shownPieces>> /\ NothingFails
NotifyCompletion(t) ==
    /\ WorkerAt(t, "notifying") /\ WorkerGoes(t, "over")
    /\ UNCHANGED <<recordStatus, cancelSide, redisSide, shownPieces>> /\ NothingFails

-----------------------------------------------------------------------------
(* /cancel, with an id or for the last that runs: nothing comes between    *)
(* its look at the record and what it does, nor between the end of the     *)
(* stream and the status that follows it                                   *)

CancelDiscordTask(t) ==
    /\ recordStatus[t] = "running" /\ workerAt[t] \notin {"finishing", "over"}
    /\ SetsStatus(t, "cancelled")
    /\ wasTold' = [wasTold EXCEPT ![t] = TRUE] /\ unwinding' = [unwinding EXCEPT ![t] = TRUE]
    /\ UNCHANGED <<workerAt, redisSide, shownPieces>> /\ NothingFails

\* The CancelledError arrives where the worker waits.  The generator closes its subscription,
\* and an error there takes the place of the cancellation; else the message says so.
UnwindWorker(t) ==
    /\ unwinding[t] /\ unwinding' = [unwinding EXCEPT ![t] = FALSE]
    /\ WorkerGoes(t, IF workerAt[t] = "opening" THEN "over" ELSE "finishing") /\ Unsubscribes(t)
    /\ \/ SetsStatus(t, "cancelled") /\ NothingFails
       \/ listening[t] /\ SetsStatus(t, "failed") /\ SpoilsTask(t, "close")
    /\ UNCHANGED <<wasTold, windowOver, gotPieces, shownPieces, announced>>

DiscordNext ==
    \E t \in DiscordTaskIds :
        \/ StoreDiscordResult(t) \/ AnnounceResult(t) \/ WindowEnds(t)
        \/ StartDiscordTask(t) \/ OpenMessage(t) \/ OpeningFails(t) \/ SubscribeAndPost(t)
        \/ PollResult(t) \/ WaitRunsOut(t) \/ CutOff(t) \/ ShowResult(t) \/ SplitMessage(t)
        \/ FlushMessage(t) \/ StreamRaises(t) \/ FinishTask(t) \/ NotifyCompletion(t)
        \/ CancelDiscordTask(t) \/ UnwindWorker(t)

DiscordSpec == DiscordInit /\ [][DiscordNext]_discordVars

-----------------------------------------------------------------------------
\* When a worker has ended its record fits what its user was shown, however results,
\* cancellations, the end of the window and failing calls meet: a task its user was told is
\* cancelled is cancelled (but for a failure to unsubscribe); of a completed one the whole text
\* is shown (but for a refused edit); one that was cut off had no result announced in time; and
\* none is still running (but for an exception before the stream).  Of the goal the record says
\* nothing: a task whose goal failed shows "Task failed" and is recorded completed as well.
RecordFitsThread ==
    \A t \in DiscordTaskIds : workerAt[t] = "over" =>
        /\ wasTold[t] /\ "close" \notin taskFaults[t] => recordStatus[t] = "cancelled"
        /\ recordStatus[t] = "completed" /\ "edit" \notin taskFaults[t]
               => shownPieces[t] = gotPieces[t] /\ gotPieces[t] # 0
        /\ recordStatus[t] = "truncated" => announced[t] # "in time"
        /\ recordStatus[t] = "running" => "stray" \in taskFaults[t]
=============================================================================
