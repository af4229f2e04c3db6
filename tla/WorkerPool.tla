----------------------------- MODULE WorkerPool -----------------------------
(***************************************************************************)
(* The fan-out of a turn's ready goals: AsyncOrchestrator.plan_and_dispatch*)
(* and _run_worker (orchestrator/coding_orchestrator.py), with the token   *)
(* budget and the semaphore all turns share, and the SkillRunner           *)
(* (skill_runner/skill_runner.py) all workers load skills from.  A worker  *)
(* first tries one skill (SkillRouter.run) and else runs the loop that     *)
(* ReactLoop specifies, of which only the skill loads are kept.            *)
(*                                                                         *)
(* The rate limiters only delay and are left out.  Goals of a dispatch have*)
(* no dependencies (plan_and_dispatch sets none), so all are ready at once.*)
(***************************************************************************)
EXTENDS Naturals, FiniteSets

CONSTANTS Goals,        \* goals that may be ready together
          Skills,       \* SkillRunner.catalog
          NoSkill,      \* the router found none
          Budget,       \* TokenBudget: reservations that fit its total
          MaxInflight,  \* permits of the semaphore
          MaxChain,     \* SkillRunner.max_chain
          MaxRounds,    \* bound: dispatches
          MaxLoads      \* bound: loads of a goal inside the loop

ASSUME PoolAssumption ==
    /\ NoSkill \notin Skills
    /\ {Budget, MaxChain, MaxRounds, MaxLoads} \subseteq Nat
    /\ MaxInflight \in Nat \ {0}
    /\ IsFiniteSet(Goals)

VARIABLES
    rounds,      \* dispatches so far
    batch,       \* goals of the running dispatch, empty between two
    at,          \* where the worker of each goal is
    remaining,   \* TokenBudget.remaining
    permits,     \* free permits of the semaphore
    results,     \* goals with an entry in AsyncOrchestrator.results
    activations, \* SkillRunner._activations
    loaded,      \* keys of SkillRunner.loaded
    choice,      \* the skill a worker plans a call of
    loads,       \* loads of each goal since its reset
    told,        \* skills each goal was told are loaded
    bodies,      \* skills whose instructions each goal has been given
    spent        \* history: reservations of workers that ended well

poolVars == <<rounds, batch, at, remaining, permits, results, activations, loaded,
              choice, loads, told, bodies, spent>>

Inside == {"routing", "planning", "calling", "looping"}
Reserved == Inside \union {"waiting"}

PoolTypeOK ==
    /\ rounds \in 0..MaxRounds
    /\ batch \subseteq Goals
    /\ at \in [Goals -> Reserved \union {"idle", "reserving", "done"}]
    /\ remaining \in 0..Budget
    /\ permits = MaxInflight - Cardinality({g \in Goals : at[g] \in Inside})
    /\ results \subseteq Goals
    /\ activations \in Nat
    /\ loaded \subseteq Skills
    /\ choice \in [Goals -> Skills \union {NoSkill}]
    /\ loads \in [Goals -> Nat]
    /\ told \in [Goals -> SUBSET Skills]
    /\ bodies \in [Goals -> SUBSET Skills]
    /\ spent \in 0..Budget

PoolInit ==
    /\ rounds = 0 /\ batch = {}
    /\ at = [g \in Goals |-> "idle"]
    /\ remaining = Budget /\ permits = MaxInflight /\ results = {}
    /\ activations = 0 /\ loaded = {}
    /\ choice = [g \in Goals |-> NoSkill]
    /\ loads = [g \in Goals |-> 0]
    /\ told = [g \in Goals |-> {}] /\ bodies = [g \in Goals |-> {}]
    /\ spent = 0

runnerVars == <<activations, loaded, loads, told, bodies>>
poolDispatchVars == <<rounds, batch, results, spent>>

-----------------------------------------------------------------------------
(* plan_and_dispatch.                                                      *)

PlanAndDispatch(ready) ==
    /\ batch = {} /\ rounds < MaxRounds /\ ready # {}
    /\ rounds' = rounds + 1 /\ batch' = ready /\ results' = {}
    /\ at' = [g \in Goals |-> IF g \in ready THEN "reserving" ELSE "idle"]
    /\ told' = [g \in Goals |-> {}] /\ bodies' = [g \in Goals |-> {}]
    /\ loads' = [g \in Goals |-> 0]
    /\ choice' = [g \in Goals |-> NoSkill]
    /\ UNCHANGED <<remaining, permits, activations, loaded, spent>>

\* The sorter is inactive once every task has ended; the results are returned.
DispatchReturns ==
    /\ batch # {} /\ \A g \in batch : at[g] = "done"
    /\ batch' = {}
    /\ UNCHANGED <<rounds, at, remaining, permits, results, choice, runnerVars, spent>>

-----------------------------------------------------------------------------
(* _run_worker.                                                            *)

\* A reservation that does not fit is tried again after half a second.
Reserve(g) ==
    /\ at[g] = "reserving" /\ remaining > 0
    /\ remaining' = remaining - 1
    /\ at' = [at EXCEPT ![g] = "waiting"]
    /\ UNCHANGED <<permits, choice, runnerVars, poolDispatchVars>>

\* react_execute resets the runner's counter; a goal that asks for edits goes
\* to the loop, any other to the router.
Enter(g, edits) ==
    /\ at[g] = "waiting" /\ permits > 0
    /\ permits' = permits - 1
    /\ activations' = 0
    /\ loads' = [loads EXCEPT ![g] = 0]
    /\ at' = [at EXCEPT ![g] = IF edits THEN "looping" ELSE "routing"]
    /\ UNCHANGED <<remaining, choice, loaded, told, bodies, poolDispatchVars>>

\* SkillRouter.select; without a skill the worker falls through to the loop.
Route(g, skill) ==
    /\ at[g] = "routing"
    /\ choice' = [choice EXCEPT ![g] = skill]
    /\ at' = [at EXCEPT ![g] = IF skill = NoSkill THEN "looping" ELSE "planning"]
    /\ UNCHANGED <<remaining, permits, runnerVars, poolDispatchVars>>

\* SkillRunner.load_skill: what becomes of the runner's state, and whether the
\* load was within the limit.
WithinLimit == activations < MaxChain
LoadSkill(g, s) ==
    /\ activations' = activations + 1
    /\ loads' = [loads EXCEPT ![g] = @ + 1]
    /\ loaded' = IF WithinLimit THEN loaded \union {s} ELSE loaded

\* SkillRouter.plan_tool_call: the body comes with the load or, on a repeat,
\* from the runner's cache.  Without a body or a usable plan run returns None.
Plan(g, planned) ==
    /\ at[g] = "planning"
    /\ LoadSkill(g, choice[g])
    /\ LET has == WithinLimit
       IN /\ told' = [told EXCEPT ![g] = IF has THEN @ \union {choice[g]} ELSE @]
          /\ bodies' = [bodies EXCEPT ![g] = IF has THEN @ \union {choice[g]} ELSE @]
          /\ at' = [at EXCEPT ![g] = IF has /\ planned THEN "calling" ELSE "looping"]
    /\ UNCHANGED <<remaining, permits, choice, poolDispatchVars>>

\* A load_skill call of the model in the loop, for a skill it has not loaded
\* in this goal: the runner sends the body on the first load in the process.
LoadInLoop(g, s) ==
    /\ at[g] = "looping" /\ s \notin told[g] /\ loads[g] < MaxLoads
    /\ LoadSkill(g, s)
    /\ told' = [told EXCEPT ![g] = IF WithinLimit THEN @ \union {s} ELSE @]
    /\ bodies' = [bodies EXCEPT ![g] = IF WithinLimit /\ s \notin loaded
                                       THEN @ \union {s} ELSE @]
    /\ UNCHANGED <<at, remaining, permits, choice, poolDispatchVars>>

\* The skill's result, or the loop's: the worker stores it and ends.
WorkerEnds(g) ==
    /\ at[g] \in {"calling", "looping"}
    /\ at' = [at EXCEPT ![g] = "done"]
    /\ permits' = permits + 1
    /\ results' = results \union {g}
    /\ spent' = spent + 1
    /\ UNCHANGED <<rounds, batch, remaining, choice, runnerVars>>

\* Mutants: an exception that keeps the reservation, one that leaves no result,
\* one that keeps the permit.
RaiseUnrefunded(g) ==
    /\ at[g] = "looping"
    /\ at' = [at EXCEPT ![g] = "done"]
    /\ permits' = permits + 1
    /\ results' = results \union {g}
    /\ UNCHANGED <<rounds, batch, remaining, choice, runnerVars, spent>>
RaiseSilently(g) ==
    /\ at[g] = "looping"
    /\ at' = [at EXCEPT ![g] = "done"]
    /\ permits' = permits + 1 /\ remaining' = remaining + 1
    /\ UNCHANGED <<rounds, batch, results, choice, runnerVars, spent>>
RaiseInside(g) ==
    /\ at[g] = "looping"
    /\ at' = [at EXCEPT ![g] = "done"]
    /\ remaining' = remaining + 1
    /\ results' = results \union {g}
    /\ UNCHANGED <<rounds, batch, permits, choice, runnerVars, spent>>

\* An exception: the reservation is given back and a failed result stored.
WorkerRaises(g) ==
    /\ at[g] = "looping"
    /\ at' = [at EXCEPT ![g] = "done"]
    /\ permits' = permits + 1
    /\ remaining' = remaining + 1
    /\ results' = results \union {g}
    /\ UNCHANGED <<rounds, batch, choice, runnerVars, spent>>

-----------------------------------------------------------------------------
WorkerSteps(g) ==
    \/ Reserve(g)
    \/ \E edits \in BOOLEAN : Enter(g, edits)
    \/ \E skill \in Skills \union {NoSkill} : Route(g, skill)
    \/ \E planned \in BOOLEAN : Plan(g, planned)
    \/ WorkerEnds(g) \/ WorkerRaises(g)

PoolNext ==
    \/ \E ready \in SUBSET Goals : PlanAndDispatch(ready)
    \/ DispatchReturns
    \/ \E g \in Goals : WorkerSteps(g) \/ \E s \in Skills : LoadInLoop(g, s)

PoolSpec == PoolInit /\ [][PoolNext]_poolVars

\* Every await of a worker but the reservation is bounded by a time-out.
PoolFairness == /\ \A g \in Goals : WF_poolVars(WorkerSteps(g))
                /\ WF_poolVars(DispatchReturns)
PoolFairSpec == PoolSpec /\ PoolFairness

-----------------------------------------------------------------------------
(* Properties.                                                             *)

\* Reservations are neither lost nor given back twice: what is missing from
\* the budget is held by a worker or was spent by one that ended well
\* (TokenBudget, the two refunds of _run_worker).
BudgetExact ==
    remaining + spent + Cardinality({g \in Goals : at[g] \in Reserved}) = Budget

\* The results returned are those of exactly the goals dispatched, whether
\* their workers ended well or raised (plan_and_dispatch resets results, and
\* _run_worker stores one on every way out).
DispatchAnswersAll ==
    batch # {} /\ (\A g \in batch : at[g] = "done") => results = batch

\* The budget is spent: the workers that have no reservation wait for one, the others are
\* done, and nobody is left to give one back.
Starved ==
    /\ remaining = 0 /\ \E g \in batch : at[g] = "reserving"
    /\ \A g \in batch : at[g] \in {"reserving", "done"}

\* A dispatch returns, or it starves, and then for good: no other wait lasts for ever.
\* (A reservation is only given back by a worker that fails, so the budget of the process
\* runs out after some hundreds of goals.)
DispatchEnds == [](batch # {} => <>(batch = {} \/ []Starved))

\* "call load_skill(name) to read its instructions" (prompt_assembler.py:16):
\* a goal that is told a skill is loaded has been given its instructions.
LoadedMeansRead == \A g \in Goals : told[g] \subseteq bodies[g]
=============================================================================
