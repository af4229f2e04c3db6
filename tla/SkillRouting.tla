---------------------------- MODULE SkillRouting ----------------------------
(***************************************************************************)
(* How one goal comes to run a skill, or not: the catalog SkillRunner      *)
(* builds of three tiers of files, the votes that route the goal           *)
(* (SkillRouter.route, for the plan node) and choose its skill             *)
(* (SkillRouter.select, for the worker), the call that is planned and run  *)
(* (SkillRouter.run) and what the worker makes of its result               *)
(* (AsyncOrchestrator._run_skill_first).                                   *)
(*                                                                         *)
(* A vote is a skill or NoVote: the model declined, named no skill of the  *)
(* catalog, or its call raised.                                            *)
(***************************************************************************)
EXTENDS Naturals, FiniteSets

CONSTANTS SkillNames, NoVote,
          VoteAttempts, \* SELECT_ATTEMPTS
          PlanAttempts, \* PLAN_ATTEMPTS
          MaxReloads    \* bound: reloads of the catalog

ASSUME RoutingAssumption ==
    /\ NoVote \notin SkillNames /\ VoteAttempts \in Nat \ {0}
    /\ {PlanAttempts, MaxReloads} \subseteq Nat

VARIABLES
    tiers,      \* the valid SKILL.md files of each tier, the highest first
    catalog,    \* skill -> the tier it was found in, 0 for none
    reloads,
    goalAt,     \* where the goal is
    choice,     \* the skill chosen, or NoVote
    tries,      \* plans asked for
    card,       \* tool.start and tool.done sent for the goal
    sent,       \* the skill was dispatched
    reply,      \* what execute returned
    goalOutcome     \* what the worker reports: ok, failed, or a run of the loop

routingVars == <<tiers, catalog, reloads, goalAt, choice, tries, card, sent, reply,
                 goalOutcome>>

Tiers == 1..3
Replies == {"none", "result", "punt", "tool_error", "timeout", "raised"}

RoutingTypeOK ==
    /\ tiers \in [Tiers -> SUBSET SkillNames] /\ catalog \in [SkillNames -> 0..3]
    /\ reloads \in 0..MaxReloads
    /\ goalAt \in {"routing", "answering", "selecting", "breaking", "planning", "starting",
                   "calling", "closing", "judging", "over"}
    /\ choice \in SkillNames \union {NoVote}
    /\ tries \in 0..PlanAttempts /\ card \in [start : 0..1, done : 0..1]
    /\ sent \in BOOLEAN /\ reply \in Replies
    /\ goalOutcome \in {"none", "answered", "loop", "ok", "failed"}

\* _index: the first file of a name wins, and the tiers are scanned from the highest.
Discovered(files) ==
    LET With(s) == {t \in Tiers : s \in files[t]}
    IN  [s \in SkillNames |-> IF With(s) = {} THEN 0
                              ELSE CHOOSE t \in With(s) : \A u \in With(s) : t <= u]

RoutingInit ==
    /\ tiers \in [Tiers -> SUBSET SkillNames] /\ catalog = Discovered(tiers) /\ reloads = 0
    /\ goalAt = "routing" /\ choice = NoVote /\ tries = 0
    /\ card = [start |-> 0, done |-> 0] /\ sent = FALSE /\ reply = "none" /\ goalOutcome = "none"

skillFiles == <<tiers, catalog, reloads>>
running == <<tries, card, sent, reply>>

\* The files change, and reload_catalog reads them; a goal may be anywhere.
ReloadCatalog ==
    /\ reloads < MaxReloads /\ reloads' = reloads + 1
    /\ tiers' \in [Tiers -> SUBSET SkillNames] /\ catalog' = Discovered(tiers')
    /\ UNCHANGED <<goalAt, choice, running, goalOutcome>>

InCatalog == {s \in SkillNames : catalog[s] # 0}

\* _sample_select, VoteAttempts times at once.
Gathered == [1..VoteAttempts -> InCatalog \union {NoVote}]

For(votes, s) == Cardinality({i \in DOMAIN votes : votes[i] = s})
Hits(votes) == {votes[i] : i \in DOMAIN votes} \ {NoVote}

-----------------------------------------------------------------------------
(* The plan node                                                           *)

\* _confidence_check: two thirds of all votes, those for nothing among them.
Confident(votes, s) == s # NoVote /\ 3 * For(votes, s) >= 2 * VoteAttempts

\* route: a confident skill makes a goal for a worker, and so do skills of the client; else
\* (the pre-gate found nothing plausible, or the votes did not agree) the node answers.  A
\* route that raises goes to a worker too.
RouteGoal ==
    /\ goalAt = "routing"
    /\ \E votes \in Gathered :
           goalAt' \in IF \E s \in Hits(votes) : Confident(votes, s) THEN {"selecting"}
                      ELSE {"answering", "selecting"}
    /\ UNCHANGED <<skillFiles, choice, running, goalOutcome>>

AnswerDirectly ==
    /\ goalAt = "answering" /\ goalAt' = "over" /\ goalOutcome' = "answered"
    /\ UNCHANGED <<skillFiles, choice, running>>

-----------------------------------------------------------------------------
(* The worker: select                                                      *)

\* Votes for nothing do not count here: one vote alone is unanimous.
SelectSkill ==
    /\ goalAt = "selecting"
    /\ \E hits \in {Hits(votes) : votes \in Gathered} :
           IF hits = {} THEN goalAt' = "over" /\ goalOutcome' = "loop" /\ UNCHANGED choice
           ELSE IF Cardinality(hits) = 1
           THEN goalAt' = "planning" /\ choice' \in hits /\ UNCHANGED goalOutcome
           ELSE goalAt' = "breaking" /\ UNCHANGED <<choice, goalOutcome>>
    /\ UNCHANGED <<skillFiles, running>>

\* One more vote, after thought, for any skill or none.
BreakTie ==
    /\ goalAt = "breaking" /\ choice' \in InCatalog \union {NoVote}
    /\ IF choice' = NoVote THEN goalAt' = "over" /\ goalOutcome' = "loop"
       ELSE goalAt' = "planning" /\ UNCHANGED goalOutcome
    /\ UNCHANGED <<skillFiles, running>>

-----------------------------------------------------------------------------
(* plan_tool_call and run                                                  *)

\* The skill's text does not load, or the last attempt brought no plan.
NoPlan ==
    /\ goalAt = "planning" /\ tries \in {0, PlanAttempts}
    /\ goalAt' = "over" /\ goalOutcome' = "loop"
    /\ UNCHANGED <<skillFiles, choice, running>>

\* One reply of the model: not JSON, or without a tool, or the plan.  The text was loaded before
\* the first, from the catalog as it was then, and is held for the others.
PlanAttempt ==
    /\ goalAt = "planning" /\ (tries = 0 => catalog[choice] # 0) /\ tries < PlanAttempts
    /\ tries' = tries + 1 /\ goalAt' \in {"planning", "starting"}
    /\ UNCHANGED <<skillFiles, choice, card, sent, reply, goalOutcome>>

\* An event that cannot be sent is logged.
StartCard ==
    /\ goalAt = "starting" /\ goalAt' = "calling" /\ card' = [card EXCEPT !.start = 1]
    /\ UNCHANGED <<skillFiles, choice, tries, sent, reply, goalOutcome>>

\* execute: a reply whatever happens; a call of Redis that raises is a failure too, the
\* first of which keeps the task from the queue.
CallSkill ==
    /\ goalAt = "calling" /\ goalAt' = "closing"
    /\ reply' \in Replies \ {"none"} /\ sent' \in {TRUE, reply' # "raised"}
    /\ UNCHANGED <<skillFiles, choice, tries, card, goalOutcome>>

\* Telemetry, then tool.done.
CloseCard ==
    /\ goalAt = "closing" /\ goalAt' = "judging" /\ card' = [card EXCEPT !.done = 1]
    /\ UNCHANGED <<skillFiles, choice, tries, sent, reply, goalOutcome>>

\* Mutant: a skill that fails leaves the goal to the loop.
JudgeOrLoop ==
    /\ goalAt = "judging" /\ goalAt' = "over"
    /\ goalOutcome' = IF reply = "result" THEN "ok" ELSE "loop"
    /\ UNCHANGED <<skillFiles, choice, running>>

\* _run_skill_first: a result is a success unless it reads like a request for more; a
\* failure is reported, and not made up for by the loop.
JudgeReply ==
    /\ goalAt = "judging" /\ goalAt' = "over"
    /\ goalOutcome' = IF reply = "result" THEN "ok" ELSE "failed"
    /\ UNCHANGED <<skillFiles, choice, running>>

RoutingNext ==
    \/ ReloadCatalog
    \/ RouteGoal \/ AnswerDirectly \/ SelectSkill \/ BreakTie
    \/ NoPlan \/ PlanAttempt \/ StartCard \/ CallSkill \/ CloseCard \/ JudgeReply

RoutingSpec == RoutingInit /\ [][RoutingNext]_routingVars

-----------------------------------------------------------------------------
\* A goal's work is done at most once: one the loop runs or the plan node answers has dispatched
\* no skill and shown none, and one that a skill took has shown it begin and end, whatever the
\* votes, plans, failures and changes of the catalog on the way.  A goal may be done by neither:
\* where the task could not be queued it fails, with nothing sent, and the loop does not make up
\* for it.
RunOrLoop ==
    goalAt = "over" =>
        /\ goalOutcome \in {"loop", "answered"} => ~sent /\ card.start = 0
        /\ goalOutcome \in {"ok", "failed"} => card.start = 1 /\ card.done = 1
        /\ goalOutcome = "ok" => sent
=============================================================================
