----------------------------- MODULE GoalGraph -----------------------------
(***************************************************************************)
(* The agent's state graph (orchestrator/graph.py, types.py): triage, plan,*)
(* execute, verify, check, reflect and revise, over the turns of one       *)
(* session.  The checkpoint of a session is keyed by its id, so that what  *)
(* run_task does not reset is still there in the next turn; the end of a   *)
(* turn is what main.py's _handle makes of the final state.                *)
(*                                                                         *)
(* The root has one child for a routed turn, several for a decomposed one. *)
(* What models and skills answer is any of their possible outcomes.  No    *)
(* code sets AWAITING_APPROVAL, so the approval node is left out.          *)
(***************************************************************************)
EXTENDS Integers, FiniteSets

CONSTANTS
  MaxChildren,      \* bound: subtasks of a decomposed turn
  MaxTurns,         \* bound: turns of the session
  MaxAttempts,      \* MAX_GOAL_ATTEMPTS
  MaxLimited,       \* MAX_RATE_LIMIT_RETRIES
  MaxVerifyRetries, \* MAX_VERIFY_RETRIES
  MaxRevisions,     \* MAX_FINALIZE_REVISIONS
  CritiqueTypes,    \* CRITIQUE_ARTIFACT_TYPES
  Revision,         \* ENABLE_FINALIZE_REVISION
  RecursionLimit    \* the super-steps LangGraph allows one invocation

Artifacts == {"other", "code", "writing"}

ASSUME GraphAssumption ==
  /\ {MaxChildren, MaxTurns, MaxAttempts, RecursionLimit} \subseteq Nat \ {0}
  /\ {MaxLimited, MaxVerifyRetries, MaxRevisions} \subseteq Nat
  /\ CritiqueTypes \subseteq {"code", "writing"}
  /\ Revision \in BOOLEAN

VARIABLES
  node,          \* the node that runs next; "end", or "idle" between turns
  turn,          \* turns begun
  steps,         \* super-steps of this turn
  status,        \* goal_tree: goal -> status, "none" for a goal not created
  attempts,      \* goal_tree: goal -> attempts
  completed,     \* step_markers: the goals marked "completed"
  current,       \* current_goal_id
  answer,        \* the turn that wrote final_answer, NoTurn when it is empty
  error,         \* error is not None
  awaiting,      \* awaiting_clarification
  question,      \* the turn that wrote clarification_question, or NoTurn
  direct,        \* direct_answer
  skipVerify,    \* skip_verify
  artifact,      \* type of last_artifact
  verifyRetries, \* verify_retries
  revisions,     \* finalize_revisions
  tested,        \* the turn that last set tests_passed, or NoTurn
  outcome,       \* what _handle made of the last turn
  \* history of this turn
  runs,          \* goal -> executions
  exhausted      \* goals that failed for good

goals == <<status, attempts, completed>>
gates == <<skipVerify, artifact, verifyRetries, revisions>>
flags == <<awaiting, question, direct>>
history == <<runs, exhausted>>
vars == <<node, turn, steps, goals, current, answer, error, flags, gates, tested,
          outcome, history>>

Root == 0
Children == 1 .. MaxChildren
GoalIds == Children \cup {Root}
NoTurn == 0
Turns == 0 .. MaxTurns
Nodes == {"assess", "plan", "execute", "verify", "check", "reflect", "revise"}
Results == {"ok", "terminal", "limited", "retryable"}

TypeOK ==
  /\ node \in Nodes \cup {"end", "idle"}
  /\ turn \in Turns
  /\ steps \in 0 .. RecursionLimit
  /\ status \in [GoalIds -> {"none", "PENDING", "COMPLETED", "FAILED"}]
  /\ attempts \in [GoalIds -> Nat]
  /\ completed \subseteq GoalIds
  /\ current \in GoalIds
  /\ answer \in Turns /\ question \in Turns /\ tested \in Turns
  /\ error \in BOOLEAN /\ awaiting \in BOOLEAN /\ direct \in BOOLEAN
  /\ skipVerify \in BOOLEAN
  /\ artifact \in Artifacts
  /\ verifyRetries \in 0 .. MaxVerifyRetries
  /\ revisions \in 0 .. MaxRevisions
  /\ outcome \in [kind : {"none", "question", "direct", "streamed", "failed"},
                  claim : {"none", "plain", "punt", "success"}, ok : BOOLEAN]
  /\ runs \in [GoalIds -> Nat]
  /\ exhausted \subseteq GoalIds

NoOutcome == [kind |-> "none", claim |-> "none", ok |-> FALSE]

Init ==
  /\ node = "idle" /\ turn = 0 /\ steps = 0
  /\ status = [g \in GoalIds |-> "none"] /\ attempts = [g \in GoalIds |-> 0]
  /\ completed = {} /\ current = Root
  /\ answer = NoTurn /\ error = FALSE
  /\ awaiting = FALSE /\ question = NoTurn /\ direct = FALSE
  /\ skipVerify = FALSE /\ artifact = "other" /\ verifyRetries = 0 /\ revisions = 0
  /\ tested = NoTurn /\ outcome = NoOutcome
  /\ runs = [g \in GoalIds |-> 0] /\ exhausted = {}

-----------------------------------------------------------------------------
\* run_task: the keys of its initial state are written, the others keep the
\* values of the turn before.
Restart ==
  /\ node = "idle" /\ turn < MaxTurns
  /\ node' = "assess" /\ turn' = turn + 1 /\ steps' = 0
  /\ status' = [g \in GoalIds |-> IF g = Root THEN "PENDING" ELSE "none"]
  /\ attempts' = [g \in GoalIds |-> 0]
  /\ completed' = {} /\ current' = Root
  /\ error' = FALSE /\ direct' = FALSE
  /\ verifyRetries' = 0
  /\ runs' = [g \in GoalIds |-> 0] /\ exhausted' = {}
  /\ outcome' = NoOutcome
  /\ UNCHANGED <<awaiting, question, skipVerify, artifact, revisions, tested>>

\* Mutant: final_answer is one of the others.
StartTurnKeepsAnswer == Restart /\ UNCHANGED answer

StartTurn == Restart /\ answer' = NoTurn

\* A node runs, as one super-step.
Runs(n) ==
  /\ node = n /\ steps < RecursionLimit
  /\ steps' = steps + 1
  /\ UNCHANGED <<turn, outcome>>

\* assess_ambiguity with ambiguity_router: an ambiguous task that is not trivial
\* ends the turn with a question.
Assess ==
  /\ Runs("assess")
  /\ skipVerify' \in BOOLEAN
  /\ \/ /\ node' = "plan"
        /\ UNCHANGED <<awaiting, question>>
     \/ /\ node' = "end"
        /\ awaiting' = TRUE /\ question' = turn
  /\ UNCHANGED <<goals, current, answer, error, direct, artifact, verifyRetries,
                 revisions, tested, history>>

\* Mutant: clarification_router looks at the answers only.
AfterPlanAnswers(waits, direct1, answer1) ==
  IF direct1 \/ answer1 # NoTurn THEN "end" ELSE "execute"

\* clarification_router
AfterPlan(waits, direct1, answer1) ==
  IF waits \/ direct1 \/ answer1 # NoTurn THEN "end" ELSE "execute"

Create(children) == [g \in GoalIds |-> IF g \in children THEN "PENDING" ELSE status[g]]

\* One child for a task that matches a skill.
PlanRouted ==
  /\ Runs("plan")
  /\ status' = Create({1})
  /\ awaiting' = FALSE
  /\ node' = AfterPlan(awaiting', direct, answer)
  /\ UNCHANGED <<attempts, completed, current, answer, error, question, direct, gates,
                 tested, history>>

\* FIX 10: a task without a skill is answered at once.
PlanDirect ==
  /\ Runs("plan")
  /\ status' = [status EXCEPT ![Root] = "COMPLETED"]
  /\ answer' = turn /\ direct' = TRUE
  /\ node' = AfterPlan(awaiting, direct', answer')
  /\ UNCHANGED <<attempts, completed, current, error, awaiting, question, gates, tested,
                 history>>

\* route() failed: the model decomposes the task, perhaps into no line at all.
PlanFallback ==
  /\ Runs("plan")
  /\ \E n \in 0 .. MaxChildren : status' = Create(1 .. n)
  /\ node' = AfterPlan(awaiting, direct, answer)
  /\ UNCHANGED <<attempts, completed, current, answer, error, flags, gates, tested, history>>

Present == {c \in Children : status[c] # "none"}

\* get_ready_goals
Ready(s) ==
  {g \in GoalIds : /\ s[g] = "PENDING"
                   /\ g = Root => \A c \in Present : s[c] = "COMPLETED"}

\* Mutant: a terminal failure counts as one attempt.
AttemptsAfterOne(result, prior) == prior + (IF result = "ok" THEN 0 ELSE 1)

\* The attempts of a goal after an execution: a terminal error exhausts them,
\* and so does a rate limit met too often.
AttemptsAfter(result, prior) ==
  CASE result = "ok" -> prior
    [] result = "terminal" -> MaxAttempts
    [] result = "limited" /\ (prior >= MaxLimited \/ prior >= MaxAttempts) -> MaxAttempts
    [] OTHER -> prior + 1

\* The ready goals run together; a marked goal's result is passed over.  The
\* last result that came in is the artifact.
Execute ==
  /\ Runs("execute")
  /\ node' = "verify"
  /\ LET ready == Ready(status)
         fresh == ready \ completed
     IN \E result \in [ready -> Results] :
          LET oks == {g \in fresh : result[g] = "ok"}
              failed == fresh \ oks
          IN /\ status' = [g \in GoalIds |-> IF g \in oks THEN "COMPLETED"
                                             ELSE IF g \in failed THEN "FAILED" ELSE status[g]]
             /\ attempts' = [g \in GoalIds |->
                               IF g \in fresh THEN AttemptsAfter(result[g], attempts[g])
                               ELSE attempts[g]]
             /\ completed' = completed \cup oks
             /\ IF ready = {} THEN UNCHANGED artifact
                ELSE artifact' \in (IF oks = {} THEN {"other"} ELSE Artifacts)
             /\ tested' \in (IF oks = {} THEN {tested} ELSE {tested, turn})
             /\ runs' = [g \in GoalIds |-> IF g \in ready THEN runs[g] + 1 ELSE runs[g]]
             /\ exhausted' = exhausted \cup {g \in failed : result[g] = "terminal"}
  /\ UNCHANGED <<current, answer, error, flags, skipVerify, verifyRetries, revisions>>

\* Mutant: verify_retries is not looked at.
CritiqueRejectsAlways == artifact \in CritiqueTypes

CritiqueMayReject == artifact \in CritiqueTypes /\ verifyRetries < MaxVerifyRetries

\* verify with verify_router: a low score sends the current goal back.
Verify ==
  /\ Runs("verify")
  /\ \E reflects \in (IF CritiqueMayReject THEN BOOLEAN ELSE {FALSE}) :
       /\ verifyRetries' = IF reflects THEN verifyRetries + 1 ELSE verifyRetries
       /\ node' = IF reflects /\ ~skipVerify THEN "reflect" ELSE "check"
  /\ UNCHANGED <<goals, current, answer, error, flags, skipVerify, artifact, revisions,
                 tested, history>>

\* Mutant: the bound on attempts is not looked at.
RetryableForever(g) == status[g] = "FAILED"

\* A failed goal that may be tried again.
Retryable(g) == status[g] = "FAILED" /\ attempts[g] < MaxAttempts

Failed == {c \in Present : status[c] = "FAILED"}

\* router, when the tree is not finalized.
Route ==
  IF Retryable(current) THEN "reflect"
  ELSE IF Ready(status) # {} THEN "execute" ELSE "end"

\* Mutant: the root is finalized without the failures of its children.
FinalizeQuietly ==
  /\ status' = [status EXCEPT ![Root] = "COMPLETED"]
  /\ UNCHANGED error

Finalize ==
  /\ status' = [status EXCEPT ![Root] = IF Failed # {} THEN "FAILED" ELSE "COMPLETED"]
  /\ error' = (error \/ Failed # {})

RetryableChildren == {c \in Present : Retryable(c)}

Waiting == Failed = {} /\ \E c \in Present : status[c] = "PENDING"

\* check: the first failed child that may be retried.
CheckRetry ==
  /\ Runs("check")
  /\ \E c \in RetryableChildren :
       /\ \A d \in RetryableChildren : c <= d
       /\ current' = c
  /\ node' = "reflect"
  /\ UNCHANGED <<goals, answer, error, flags, gates, tested, history>>

\* check: no child, or children still to run; the router decides.
CheckGoesOn ==
  /\ Runs("check")
  /\ RetryableChildren = {}
  /\ Present = {} \/ Waiting
  /\ node' = Route
  /\ UNCHANGED <<goals, current, answer, error, flags, gates, tested, history>>

\* check: the tree is finalized, with the failures of its children.
CheckFinalizes ==
  /\ Runs("check")
  /\ RetryableChildren = {} /\ Present # {} /\ ~Waiting
  /\ Finalize
  /\ answer' = turn /\ current' = Root /\ node' = "revise"
  /\ UNCHANGED <<attempts, completed, flags, gates, tested, history>>

Check == CheckRetry \/ CheckGoesOn \/ CheckFinalizes

Reflect ==
  /\ Runs("reflect")
  /\ status' = [status EXCEPT ![current] = "PENDING"]
  /\ node' = "execute"
  /\ UNCHANGED <<attempts, completed, current, answer, error, flags, gates, tested, history>>

\* should_revise; _run_had_side_effects reads the last artifact.
ShouldRevise == Revision /\ ~error /\ artifact # "code" /\ revisions < MaxRevisions

Revise ==
  /\ Runs("revise")
  /\ node' = "end"
  /\ revisions' = IF ShouldRevise THEN revisions + 1 ELSE revisions
  /\ UNCHANGED <<goals, current, answer, error, flags, skipVerify, artifact,
                 verifyRetries, tested, history>>

-----------------------------------------------------------------------------
(* The end of a turn, in _handle.                                          *)

Ends(kind, claim, ok) ==
  /\ node' = "idle"
  /\ outcome' = [kind |-> kind, claim |-> claim, ok |-> ok]
  /\ UNCHANGED <<turn, steps, goals, current, answer, error, flags, gates, tested, history>>

\* reconcile_final_answer: a punt, or a claim no test run backs, is no success.
Accepts(claim) == ~error /\ claim # "punt" /\ (claim = "success" => tested # NoTurn)

Deliver ==
  /\ node = "end"
  /\ IF awaiting THEN Ends("question", "none", ~error)
     ELSE \E claim \in {"plain", "punt", "success"} :
            Ends(IF direct THEN "direct" ELSE "streamed", claim, Accepts(claim))

\* A model call raised in a node that does not catch it.
Raise ==
  /\ node \in {"assess", "plan", "reflect", "revise"} /\ steps < RecursionLimit
  /\ Ends("failed", "none", FALSE)

\* GraphRecursionError
CutShort ==
  /\ node \in Nodes /\ steps = RecursionLimit
  /\ Ends("failed", "none", FALSE)

Plan == PlanRouted \/ PlanDirect \/ PlanFallback
Next ==
  \/ StartTurn \/ Assess \/ Plan \/ Execute \/ Verify \/ Check \/ Reflect \/ Revise
  \/ Deliver \/ Raise

\* With the recursion limit.
LimitedNext == Next \/ CutShort

Spec == Init /\ [][Next]_vars
LimitedSpec == Init /\ [][LimitedNext]_vars

-----------------------------------------------------------------------------
(* Properties                                                              *)

\* A turn that is a success and did not answer at once has completed every one of the subtasks
\* it was divided into, whichever failed on the way.  (Of a turn divided into none it says
\* nothing: see SuccessHasNoFailure.)
FailureNotMasked ==
  outcome.kind = "streamed" /\ outcome.ok => \A c \in Present : status[c] = "COMPLETED"

\* FIX #1/#2, "Stop masking failures as success": no goal of a turn that is a success has
\* failed for good, the task itself included.
SuccessHasNoFailure ==
  outcome.kind = "streamed" /\ outcome.ok => \A g \in GoalIds : status[g] # "FAILED"

\* "HALT and ask the user a clarifying question rather than guessing": a turn
\* that ends with a question has executed nothing, whichever turn set the flag.
QuestionMeansNoWork == outcome.kind = "question" => \A g \in GoalIds : runs[g] = 0

\* The answer that is delivered is not one of a turn before.
AnswerIsFresh == outcome.kind \in {"direct", "streamed"} => answer \in {NoTurn, turn}

\* A terminal error "will fail identically on every retry": such a goal is not
\* executed again, however the verify gate and the retries of others go.
TerminalNotRetried ==
  [][turn' = turn => \A g \in exhausted : runs'[g] = runs[g]]_vars

\* A subtask runs MAX_GOAL_ATTEMPTS times at most, unless the verify gate has
\* sent one back.
RetriesBounded == verifyRetries = 0 => \A g \in GoalIds : runs[g] <= MaxAttempts

\* The executions of goals after their first.
Again == {run \in GoalIds \X (1 .. MaxAttempts - 1) : run[2] < runs[run[1]]}

\* A turn that is cut short by the recursion limit throws away the results of the subtasks that
\* completed.  Only turns are that ran goals again, four steps each time, until the limit is
\* used up (with 25, five subtasks that fail once are enough), or that the verify gate sent
\* back: a completed subtask it sends back is executed until the limit.
CutShortByRetries ==
  node \in Nodes /\ steps = RecursionLimit /\ verifyRetries = 0
    => RecursionLimit <= 6 + 4 * Cardinality(Again)

\* "success was claimed but NOT verified by a passing test run this turn"
ClaimIsVerified == outcome.claim = "success" /\ outcome.ok => tested = turn
=============================================================================
