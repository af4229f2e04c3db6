---------------------------- MODULE TurnSignals ----------------------------
(***************************************************************************)
(* Steering and cancelling a running task.  The gateway's reader writes    *)
(* two Redis keys of the task it believes active, labmate:steer:<task> and *)
(* labmate:cancel:<task> (ws_gateway/server.py, redis_bridge.py); the      *)
(* ReAct loop of each goal of the task looks at them at the top of every   *)
(* turn (coding_orchestrator._run_react_loop, events.py).  Both keys carry *)
(* a time to live, and the two sides share nothing else.                   *)
(*                                                                         *)
(* Steers are numbered in the order they are written.  The turn ceiling    *)
(* and the deadline, which ReactLoop specifies, may end a goal here at any *)
(* turn, or never.                                                         *)
(***************************************************************************)
EXTENDS Naturals, Sequences

CONSTANTS
  MaxTotal,    \* IterationBudget.max_total
  MaxSteers,   \* bound: steers the user sends
  MaxGoals     \* bound: goals (and attempts of a goal) of the task

ASSUME SignalAssumption ==
  /\ MaxTotal \in Nat \ {0}
  /\ MaxSteers \in Nat /\ MaxGoals \in Nat \ {0}

VARIABLES
  active,     \* gateway: active_task_id is this task
  steerKey,   \* Redis: the steer key, or NoSteer
  cancelKey,  \* Redis: the cancel key is set
  sent,       \* steers written so far
  phase,      \* loop: its next await
  used,       \* loop: budget._used
  prewritten, \* loop: _prewritten_steer
  pending,    \* loop: _pending_steer
  toInject,   \* loop: _to_inject of this turn
  goals,      \* goals started
  cancelled,  \* history: the user has cancelled
  injected,   \* history: the steers the model has been given, in order
  late        \* history: model calls under the cancel key, up to two

loop == <<phase, used, prewritten, pending, toInject, goals>>
vars == <<active, steerKey, cancelKey, sent, loop, cancelled, injected, late>>

NoSteer == 0
Steer == 0 .. MaxSteers

TypeOK ==
  /\ active \in BOOLEAN /\ cancelKey \in BOOLEAN /\ cancelled \in BOOLEAN
  /\ steerKey \in Steer /\ prewritten \in Steer /\ pending \in Steer
  /\ toInject \in Steer /\ sent \in Steer
  /\ phase \in {"start", "top", "read", "turn", "model", "done"}
  /\ used \in 0 .. MaxTotal
  /\ goals \in 0 .. MaxGoals
  /\ injected \in Seq(1 .. MaxSteers)
  /\ late \in 0 .. 2

Init ==
  /\ active = TRUE /\ steerKey = NoSteer /\ cancelKey = FALSE /\ sent = 0
  /\ phase = "start" /\ used = 0 /\ goals = 0
  /\ prewritten = NoSteer /\ pending = NoSteer /\ toInject = NoSteer
  /\ cancelled = FALSE /\ injected = <<>> /\ late = 0

-----------------------------------------------------------------------------
(* The gateway.  It does not learn that a task has ended: active_task_id   *)
(* stays until the next send or cancel.                                    *)

\* write_steer: "latest write wins".
SendSteer ==
  /\ active /\ sent < MaxSteers
  /\ sent' = sent + 1
  /\ steerKey' = sent'
  /\ UNCHANGED <<active, cancelKey, loop, cancelled, injected, late>>

SendCancel ==
  /\ active
  /\ cancelKey' = TRUE
  /\ active' = FALSE
  /\ cancelled' = TRUE
  /\ UNCHANGED <<steerKey, sent, loop, injected, late>>

SteerExpires ==
  /\ steerKey # NoSteer
  /\ steerKey' = NoSteer
  /\ UNCHANGED <<active, cancelKey, sent, loop, cancelled, injected, late>>

\* After CANCEL_TTL, 120 s: before the loop has looked, when a turn or a node of the graph
\* takes longer.
CancelExpires ==
  /\ cancelKey
  /\ cancelKey' = FALSE
  /\ UNCHANGED <<active, steerKey, sent, loop, cancelled, injected, late>>

-----------------------------------------------------------------------------
(* The loop.                                                               *)

\* A goal begins: a steer that is already there was written before turn 1.
StartGoal ==
  /\ phase = "start" /\ goals < MaxGoals
  /\ goals' = goals + 1
  /\ prewritten' = steerKey
  /\ steerKey' = NoSteer
  /\ pending' = NoSteer
  /\ used' = 0
  /\ phase' = "top"
  /\ UNCHANGED <<active, cancelKey, sent, toInject, cancelled, injected, late>>

\* Mutant: the flag is looked at on the first turn only.
StopAtFirstTurn == cancelKey /\ used = 0

\* is_cancelled
Stop == cancelKey

CheckCancel ==
  /\ phase = "top"
  /\ phase' = IF Stop THEN "done" ELSE "read"
  /\ toInject' = NoSteer
  /\ UNCHANGED <<active, steerKey, cancelKey, sent, used, prewritten, pending, goals,
                 cancelled, injected, late>>

\* read_and_clear_steer (GETDEL), then the two ways a steer can go.
ReadSteer ==
  /\ phase = "read"
  /\ phase' = "turn"
  /\ steerKey' = NoSteer
  /\ IF pending = NoSteer /\ prewritten # NoSteer
     THEN /\ pending' = prewritten
          /\ prewritten' = NoSteer
          /\ UNCHANGED toInject
     ELSE /\ toInject' = steerKey
          /\ UNCHANGED <<pending, prewritten>>
  /\ UNCHANGED <<active, cancelKey, sent, used, goals, cancelled, injected, late>>

\* Deadline, ceiling or budget: the goal ends before the model is called.
Cutoff ==
  /\ phase = "turn"
  /\ phase' = "done"
  /\ UNCHANGED <<active, steerKey, cancelKey, sent, used, prewritten, pending,
                 toInject, goals, cancelled, injected, late>>

\* Mutant: a deferred steer is injected and kept.
PendingAfterKept(chosen) == pending

\* A deferred steer is dropped once any steer has been injected.
PendingAfter(chosen) == IF chosen # NoSteer THEN NoSteer ELSE pending

\* used - 1 is the turn's step; the deferred steer waits for a step above 0.
Chosen == IF used' > 1 /\ pending # NoSteer THEN pending ELSE toInject

\* Mutant: an exhausted budget is overdrawn.
SpentFreely == used + 1

\* A turn consumes a unit; the grace turn does not.
Spent == IF used < MaxTotal THEN used + 1 ELSE used

CallModel ==
  /\ phase = "turn"
  /\ phase' = "model"
  /\ used' = Spent
  /\ injected' = IF Chosen # NoSteer THEN Append(injected, Chosen) ELSE injected
  /\ pending' = PendingAfter(Chosen)
  /\ late' = IF cancelKey /\ late < 2 THEN late + 1 ELSE late
  /\ UNCHANGED <<active, steerKey, cancelKey, sent, prewritten, toInject, goals,
                 cancelled>>

\* The turn's tools ran; a turn of refundable tools gives its unit back.
EndTurn ==
  /\ phase = "model"
  /\ phase' = "top"
  /\ used' \in {used, IF used > 0 THEN used - 1 ELSE 0}
  /\ UNCHANGED <<active, steerKey, cancelKey, sent, prewritten, pending, toInject,
                 goals, cancelled, injected, late>>

FinishGoal ==
  /\ phase = "model"
  /\ phase' = "done"
  /\ UNCHANGED <<active, steerKey, cancelKey, sent, used, prewritten, pending,
                 toInject, goals, cancelled, injected, late>>

\* The graph goes on with a retry or with the next goal.
NextGoal ==
  /\ phase = "done" /\ goals < MaxGoals
  /\ phase' = "start"
  /\ UNCHANGED <<active, steerKey, cancelKey, sent, used, prewritten, pending,
                 toInject, goals, cancelled, injected, late>>

GatewayNext == SendSteer \/ SendCancel \/ SteerExpires \/ CancelExpires
LoopNext ==
  StartGoal \/ CheckCancel \/ ReadSteer \/ Cutoff \/ CallModel \/ EndTurn \/ FinishGoal

Next == GatewayNext \/ LoopNext \/ NextGoal

Spec == Init /\ [][Next]_vars

\* The loop is a coroutine that always has a next await to come back from.
FairSpec == Spec /\ WF_vars(LoopNext)

-----------------------------------------------------------------------------
(* Properties                                                              *)

\* "a steer is delivered to exactly one turn", "latest user instruction wins":
\* no steer reaches the model twice, and none after a later one.
SteersInOrder ==
  \A i, j \in 1 .. Len(injected) : i < j => injected[i] < injected[j]

\* As long as its key stands, a cancel lets at most the turn in progress call the model, over
\* all the goals and retries of the task.  Of a key that has run out nothing is left.
CancelStopsModel == late <= 1

\* A cancelled goal ends, even one whose turns would otherwise go on for ever, or the key
\* has run out: a turn of up to 135 s outlasts its 120 s, and the goal then goes on as if
\* nothing had been cancelled.
CancelEndsGoal == cancelled ~> phase = "done" \/ ~cancelKey

\* "Uses GETDEL so a steer is delivered to exactly one turn": while the goal
\* calls the model, a steer taken from Redis has been or will be injected.
TakenSteerIsDelivered ==
  [][phase = "turn" /\ phase' = "model" /\ toInject # NoSteer
       => toInject = injected'[Len(injected')]]_vars
=============================================================================
