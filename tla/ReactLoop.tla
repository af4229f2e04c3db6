----------------------------- MODULE ReactLoop -----------------------------
(***************************************************************************)
(* The inner ReAct loop of the orchestrator: AsyncOrchestrator.            *)
(* _run_react_loop with its iteration budget, verification-stop guard,     *)
(* completion guard and durable checkpoint.                                *)
(*                                                                         *)
(* One behaviour is the life of ONE goal of one task: attempts of the goal *)
(* (the graph retries one that failed), each a run of the loop, with       *)
(* crashes of the process in between.  What the model answers and what a   *)
(* tool returns is not determined; what the loop does with it is.          *)
(*                                                                         *)
(* `edited` stands for edited_files # {}.  infra_error_streak is only ever *)
(* compared with MaxInfraErrors, so it stops counting there.  The loop     *)
(* detector is specified in LoopDetection; here it may halt any call but   *)
(* the first.  The no-progress breaker is left out: the only turns that    *)
(* reach it made a tool call, which counts as progress, so it never trips. *)
(* Steers and cancels are specified in TurnSignals; here a cancel may be   *)
(* seen at the top of any turn.                                            *)
(***************************************************************************)
EXTENDS Integers

CONSTANTS
  MaxTotal,       \* IterationBudget.max_total
  MaxNudges,      \* MAX_VERIFY_NUDGES
  MaxInfraErrors, \* MAX_VERIFY_INFRA_ERRORS
  MaxAttempts,    \* MAX_GOAL_ATTEMPTS
  ExposeGoal,     \* exposes_bug_intent(goal)
  MaxCalls,       \* bound: tool calls in one answer of the model
  MaxCrashes      \* bound: crashes of the process

ASSUME LoopAssumption ==
  /\ MaxTotal \in Nat \ {0}
  /\ MaxNudges \in Nat
  /\ MaxInfraErrors \in Nat \ {0}
  /\ MaxAttempts \in Nat \ {0}
  /\ ExposeGoal \in BOOLEAN
  /\ MaxCalls \in Nat \ {0}
  /\ MaxCrashes \in Nat

VARIABLES
  phase,     \* where the loop is
  used,      \* budget._used
  absTurns,  \* budget._absolute_turns
  graceUsed, \* budget._grace_used
  edited,    \* edited_files is not empty
  passed,    \* tests_passed
  exposed,   \* _bug_exposed
  nudges,    \* verify_nudges_used
  infra,     \* infra_error_streak, up to MaxInfraErrors
  known,     \* guards armed: "skill" for loaded_skills, "analysis" for seen_analysis
  calls,     \* tool calls of this turn so far
  cheap,     \* every tool of this turn is in REFUNDABLE_TOOLS
  cp,        \* the saved LoopCheckpoint, or NoCheckpoint
  result,    \* what the last attempt returned, or NoResult
  attempt,   \* the attempt of the goal
  crashes,   \* crashes so far
  turns,     \* history: model calls of this attempt, over its crashes
  lost,      \* history: turns of this attempt that no checkpoint had recorded
  work       \* history: what verification the goal's edits have had

budget == <<used, absTurns, graceUsed>>
evidence == <<edited, passed, exposed, nudges, infra>>
vars == <<phase, budget, evidence, known, calls, cheap, cp, result, attempt,
          crashes, turns, lost, work>>

NoCheckpoint == [saved |-> FALSE]
Checkpoint == [saved : {TRUE}, used : 0 .. MaxTotal, abs : 0 .. 2 * MaxTotal,
               grace : BOOLEAN, edited : BOOLEAN, passed : BOOLEAN,
               nudges : 0 .. MaxNudges, skill : BOOLEAN]

NoResult == [kind |-> "none"]
Results == [kind : {"finish", "answer", "cutoff", "loop", "cancel", "error"},
            ok : BOOLEAN, claim : BOOLEAN]

TypeOK ==
  /\ phase \in {"start", "top", "model", "tools", "end", "done"}
  /\ used \in 0 .. MaxTotal
  /\ absTurns \in 0 .. 2 * MaxTotal
  /\ graceUsed \in BOOLEAN
  /\ edited \in BOOLEAN /\ passed \in BOOLEAN /\ exposed \in BOOLEAN
  /\ nudges \in 0 .. MaxNudges
  /\ infra \in 0 .. MaxInfraErrors
  /\ known \subseteq {"skill", "analysis"}
  /\ calls \in 0 .. MaxCalls
  /\ cheap \in BOOLEAN
  /\ cp \in Checkpoint \cup {NoCheckpoint}
  /\ result \in Results \cup {NoResult}
  /\ attempt \in 1 .. MaxAttempts
  /\ crashes \in 0 .. MaxCrashes
  /\ turns \in Nat /\ lost \in Nat
  /\ work \in {"unverified", "verified", "stale"}

Init ==
  /\ phase = "start"
  /\ used = 0 /\ absTurns = 0 /\ graceUsed = FALSE
  /\ edited = FALSE /\ passed = FALSE /\ exposed = FALSE
  /\ nudges = 0 /\ infra = 0
  /\ known = {} /\ calls = 0 /\ cheap = TRUE
  /\ cp = NoCheckpoint
  /\ result = NoResult
  /\ attempt = 1 /\ crashes = 0
  /\ turns = 0 /\ lost = 0
  /\ work = "unverified"

-----------------------------------------------------------------------------
(* Start of a run: fresh locals, or those of a checkpoint of this goal.    *)

\* Mutant: the counter no refund touches is not restored.
RehydrateForgetsTurns ==
  /\ used' = cp.used /\ graceUsed' = cp.grace
  /\ edited' = cp.edited /\ passed' = cp.passed /\ nudges' = cp.nudges
  /\ known' = IF cp.skill THEN {"skill"} ELSE {}
  /\ UNCHANGED absTurns

\* infra_error_streak, _bug_exposed and seen_analysis are not in a checkpoint.
Rehydrate ==
  /\ used' = cp.used /\ absTurns' = cp.abs /\ graceUsed' = cp.grace
  /\ edited' = cp.edited /\ passed' = cp.passed /\ nudges' = cp.nudges
  /\ known' = IF cp.skill THEN {"skill"} ELSE {}

Start ==
  /\ phase = "start"
  /\ phase' = "top"
  /\ IF cp.saved THEN Rehydrate
     ELSE UNCHANGED <<budget, edited, passed, nudges, known>>
  /\ UNCHANGED <<exposed, infra, calls, cheap, cp, result, attempt, crashes,
                 turns, lost, work>>

-----------------------------------------------------------------------------
(* Every return runs the finally block: the checkpoint is cleared, unless  *)
(* the store fails, which is logged and ignored.                           *)

Return(kind, ok, claim) ==
  /\ phase' = "done"
  /\ calls' = 0 /\ cheap' = TRUE
  /\ result' = [kind |-> kind, ok |-> ok, claim |-> claim]
  /\ cp' \in {cp, NoCheckpoint}
  /\ UNCHANGED <<evidence, known, attempt, crashes, turns, lost, work>>

\* Mutant: a cutoff after an edit counts as work done.
CreditEdits == edited

\* reconcile_cutoff
Credit == edited /\ passed

Cancelled ==
  /\ phase = "top"
  /\ Return("cancel", FALSE, FALSE)
  /\ UNCHANGED budget

DeadlineExceeded ==
  /\ phase = "top"
  /\ Return("cutoff", Credit, FALSE)
  /\ UNCHANGED budget

\* record_turn(), when it returns True.
RecordTurn ==
  /\ absTurns < 2 * MaxTotal
  /\ absTurns' = absTurns + 1

CeilingReached ==
  /\ phase = "top"
  /\ absTurns = 2 * MaxTotal
  /\ Return("cutoff", Credit, FALSE)
  /\ UNCHANGED budget

BudgetExhausted ==
  /\ phase = "top"
  /\ RecordTurn
  /\ used = MaxTotal /\ graceUsed
  /\ Return("cutoff", Credit, FALSE)
  /\ UNCHANGED <<used, graceUsed>>

\* Mutant: consume() allows one unit more.
ConsumeOneMore ==
  \/ used <= MaxTotal /\ used' = used + 1 /\ UNCHANGED graceUsed
  \/ used > MaxTotal /\ ~graceUsed /\ graceUsed' = TRUE /\ UNCHANGED used

\* consume(), else the one grace turn.
ConsumeOrGrace ==
  \/ used < MaxTotal /\ used' = used + 1 /\ UNCHANGED graceUsed
  \/ used = MaxTotal /\ ~graceUsed /\ graceUsed' = TRUE /\ UNCHANGED used

TakeTurn ==
  /\ phase = "top"
  /\ RecordTurn
  /\ ConsumeOrGrace
  /\ phase' = "model"
  /\ turns' = turns + 1
  /\ UNCHANGED <<evidence, known, calls, cheap, cp, result, attempt, crashes, lost, work>>

-----------------------------------------------------------------------------
(* The model's answer.                                                     *)

\* No tool call: the text is the outcome, taken as it is.
Answer ==
  /\ phase = "model"
  /\ \E claim \in BOOLEAN : Return("answer", TRUE, claim)
  /\ UNCHANGED budget

CallTools ==
  /\ phase = "model"
  /\ phase' = "tools"
  /\ UNCHANGED <<budget, evidence, known, calls, cheap, cp, result, attempt,
                 crashes, turns, lost, work>>

\* The model call or a tool call raises (call_skill_tool is not guarded).
Fails ==
  /\ phase \in {"model", "tools"}
  /\ Return("error", FALSE, FALSE)
  /\ UNCHANGED budget

-----------------------------------------------------------------------------
(* The turn's tool calls, in the order the model gave them.                *)

MoreCalls == phase = "tools" /\ calls < MaxCalls

NextCall == MoreCalls /\ calls' = calls + 1

\* Mutant: one nudge short of the cap.
NudgesShort ==
  edited /\ ~passed /\ infra < MaxInfraErrors /\ nudges + 1 < MaxNudges

NeedsVerification ==
  edited /\ ~passed /\ infra < MaxInfraErrors /\ nudges < MaxNudges

InfraBlocked == edited /\ ~passed /\ infra = MaxInfraErrors

\* A finish is deferred: the rest of the turn's calls are not run.
FinishDeferred ==
  /\ NextCall
  /\ NeedsVerification
  /\ nudges' = nudges + 1
  /\ cheap' = FALSE
  /\ phase' = "end"
  /\ UNCHANGED <<budget, edited, passed, exposed, infra, known, cp, result,
                 attempt, crashes, turns, lost, work>>

\* reconcile_ok of the annotated summary.  The note of an infra-blocked finish
\* says "could NOT verify", which is_punt_answer takes for a punt.
FinishOk(summary) ==
  /\ summary # "punt" /\ ~InfraBlocked
  /\ summary = "claim" => passed

FinishAccepted ==
  /\ MoreCalls
  /\ ~NeedsVerification
  /\ \E summary \in {"plain", "claim", "punt"} :
       Return("finish", FinishOk(summary), summary = "claim")
  /\ UNCHANGED budget

LoopDetected ==
  /\ MoreCalls
  /\ calls > 0 \/ absTurns > 1
  /\ Return("loop", FALSE, FALSE)
  /\ UNCHANGED budget

Refund == used' = IF used > 0 THEN used - 1 ELSE 0

LoadSkill ==
  /\ NextCall
  /\ cheap' = FALSE
  /\ IF "skill" \in known
     THEN Refund /\ UNCHANGED known
     ELSE known' \in {known, known \cup {"skill"}} /\ UNCHANGED used
  /\ UNCHANGED <<phase, absTurns, graceUsed, evidence, cp, result, attempt,
                 crashes, turns, lost, work>>

\* A guarded analysis skill asked again for a target it has already answered for.
RepeatAnalysis ==
  /\ NextCall
  /\ "analysis" \in known
  /\ Refund
  /\ cheap' = FALSE
  /\ UNCHANGED <<phase, absTurns, graceUsed, evidence, known, cp, result, attempt,
                 crashes, turns, lost, work>>

Edit ==
  /\ edited' = TRUE
  /\ work' = IF work = "verified" THEN "stale" ELSE work

\* call_skill_tool that is executed: an assertion that exits 0 verifies, and a
\* sandbox run may write files.  One run may do both.
CallSkillTool ==
  /\ NextCall
  /\ cheap' = FALSE
  /\ known' \in {known, known \cup {"analysis"}}
  /\ \E asserted, wrote \in BOOLEAN :
       /\ passed' = (passed \/ asserted)
       /\ edited' = (edited \/ wrote)
       /\ work' = IF asserted THEN "verified"
                  ELSE IF wrote /\ work = "verified" THEN "stale" ELSE work
  /\ UNCHANGED <<phase, budget, exposed, nudges, infra, cp, result, attempt,
                 crashes, turns, lost>>

\* Mutant: a test run that could not start counts as a pass.
InfraPasses(outcome) == outcome \in {"pass", "infra"}

\* _run_tests_passed, or the inverted signal of an expose-the-bug goal.
Verifies(outcome) == outcome = "pass" \/ (ExposeGoal /\ outcome = "fail")

InfraStreak(outcome) ==
  CASE outcome = "infra" -> IF infra < MaxInfraErrors THEN infra + 1 ELSE infra
    [] outcome \in {"pass", "fail"} -> 0
    [] OTHER -> infra

\* run_tests, or pytest through run_bash; "raised" is an exception of the runner.
RunTests(outcome) ==
  /\ NextCall
  /\ passed' = (passed \/ Verifies(outcome))
  /\ exposed' = (exposed \/ (ExposeGoal /\ outcome = "fail"))
  /\ infra' = InfraStreak(outcome)
  /\ work' = IF outcome = "pass" \/ (ExposeGoal /\ outcome = "fail")
             THEN "verified" ELSE work
  /\ UNCHANGED <<phase, budget, edited, nudges, known, cheap, cp, result, attempt,
                 crashes, turns, lost>>

\* write_file: recorded as an edit only when the read-back matches.
WriteFile(confirmed) ==
  /\ NextCall
  /\ cheap' = FALSE
  /\ IF confirmed THEN Edit ELSE UNCHANGED <<edited, work>>
  /\ UNCHANGED <<phase, budget, passed, exposed, nudges, infra, known, cp, result,
                 attempt, crashes, turns, lost>>

\* Any other tool: it changes nothing the loop keeps.
OtherTool(refundable) ==
  /\ NextCall
  /\ cheap' = (cheap /\ refundable)
  /\ UNCHANGED <<phase, budget, evidence, known, cp, result, attempt, crashes,
                 turns, lost, work>>

ToolsDone ==
  /\ phase = "tools" /\ calls > 0
  /\ phase' = "end"
  /\ calls' = 0
  /\ UNCHANGED <<budget, evidence, known, cheap, cp, result, attempt,
                 crashes, turns, lost, work>>

-----------------------------------------------------------------------------
(* End of the turn: refund, then the best-effort checkpoint.               *)

EndTurn ==
  /\ phase = "end"
  /\ phase' = "top"
  /\ IF cheap THEN Refund ELSE UNCHANGED used
  /\ cp' \in {cp, [saved |-> TRUE, used |-> used', abs |-> absTurns,
                   grace |-> graceUsed, edited |-> edited, passed |-> passed,
                   nudges |-> nudges, skill |-> "skill" \in known]}
  /\ calls' = 0 /\ cheap' = TRUE
  /\ UNCHANGED <<absTurns, graceUsed, evidence, known, result, attempt, crashes,
                 turns, lost, work>>

-----------------------------------------------------------------------------
(* Around the loop.                                                        *)

FreshLocals ==
  /\ used' = 0 /\ absTurns' = 0 /\ graceUsed' = FALSE
  /\ edited' = FALSE /\ passed' = FALSE /\ exposed' = FALSE
  /\ nudges' = 0 /\ infra' = 0
  /\ known' = {} /\ calls' = 0 /\ cheap' = TRUE

SavedTurns == IF cp.saved THEN cp.abs ELSE 0

\* The process dies, and the same task is run again.
Crash ==
  /\ phase \notin {"start", "done"}
  /\ crashes < MaxCrashes
  /\ crashes' = crashes + 1
  /\ phase' = "start"
  /\ FreshLocals
  /\ lost' = lost + (absTurns - SavedTurns)
  /\ UNCHANGED <<cp, result, attempt, turns, work>>

\* Mutant: the attempts of the goal are not counted.
RetryForever ==
  /\ phase = "done"
  /\ ~result.ok
  /\ phase' = "start"
  /\ FreshLocals
  /\ result' = NoResult
  /\ turns' = 0 /\ lost' = 0
  /\ UNCHANGED <<cp, attempt, crashes, work>>

\* check_node sends a failed goal back to execute_node.
Retry ==
  /\ phase = "done"
  /\ ~result.ok
  /\ attempt < MaxAttempts
  /\ attempt' = attempt + 1
  /\ phase' = "start"
  /\ FreshLocals
  /\ result' = NoResult
  /\ turns' = 0 /\ lost' = 0
  /\ UNCHANGED <<cp, crashes, work>>

Finished ==
  /\ phase = "done"
  /\ result.ok \/ attempt = MaxAttempts
  /\ UNCHANGED vars

TopNext == Cancelled \/ DeadlineExceeded \/ CeilingReached \/ BudgetExhausted \/ TakeTurn
ModelNext == Answer \/ CallTools \/ Fails
ToolNext ==
  \/ FinishDeferred \/ FinishAccepted \/ LoopDetected
  \/ LoadSkill \/ RepeatAnalysis \/ CallSkillTool
  \/ \E outcome \in {"pass", "fail", "infra", "raised"} : RunTests(outcome)
  \/ \E confirmed \in BOOLEAN : WriteFile(confirmed)
  \/ \E refundable \in BOOLEAN : OtherTool(refundable)
  \/ ToolsDone

LoopNext == Start \/ TopNext \/ ModelNext \/ ToolNext \/ EndTurn

Next == LoopNext \/ Crash \/ Retry \/ Finished

Spec == Init /\ [][Next]_vars

\* The loop is one coroutine whose awaits all carry a timeout; the graph's next
\* super-step runs a failed goal again.
FairSpec == Spec /\ WF_vars(LoopNext) /\ WF_vars(Retry)

-----------------------------------------------------------------------------
(* Properties                                                              *)

\* record_turn's ceiling holds over crashes: refunds, grace and restarts never
\* give the model more turns than 2 * max_total, but for turns a crash took
\* before a checkpoint recorded them.
TurnCeiling == turns - lost <= 2 * MaxTotal

\* Whatever restored it, tests_passed is backed by a verification of this goal.
PassedIsReal == passed => work # "unverified"

\* A cutoff is a success, and a finish or cutoff may claim one, only when some
\* verification of the goal passed.
OkIsEarned ==
  result # NoResult /\ result.ok
    /\ (result.kind = "cutoff" \/ (result.kind = "finish" /\ result.claim))
    => work # "unverified"

\* A finish over edits with no passing run is accepted only when every nudge was
\* spent, in this process or before a crash; a broken toolchain alone never
\* turns it into a success.
NudgedBeforeAccepted ==
  phase = "done" /\ result.kind = "finish" /\ result.ok /\ edited /\ ~passed
    => nudges = MaxNudges

\* "must not accept a finish that claims completion after the agent edited code
\* but never ran tests and saw them pass": the last edit has been tested.
ClaimCoversLastEdit ==
  result # NoResult /\ result.ok /\ result.kind = "finish" /\ result.claim
    => work # "stale"

\* A goal that was begun comes to an end, whatever refunds, retries and crashes there are.
Terminates == phase = "top" ~> [](phase = "done")
=============================================================================
