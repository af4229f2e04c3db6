---------------------------- MODULE SkillRecords ----------------------------
(***************************************************************************)
(* What is kept about the use of skills.  skill_telemetry.py: a file of    *)
(* counters that every process rewrites whole after each dispatch.         *)
(* skill_curator.py and its loop in main.py: the sequences of tools of     *)
(* successful turns, and the cycle that now and then drafts a skill from   *)
(* the last of them into .proposed, for a human to review.                 *)
(*                                                                         *)
(* Turns are numbered as they end.  A turn that used no tools leaves those *)
(* of an earlier one in the session's graph state.                         *)
(***************************************************************************)
EXTENDS Naturals

CONSTANTS Processes,      \* orchestrators that share the counters' file
          Drafts,         \* names of drafts, made of a goal's first words
          CuratorInterval, \* CURATOR_INTERVAL_HOURS
          MinIdle,        \* CURATOR_MIN_IDLE_HOURS
          MaxHours,       \* bound: time
          MaxEnded,       \* bound: turns
          MaxUses,        \* bound: dispatches of the skill that is counted
          MaxRecordFaults \* bound: crashes, files that cannot be read or written

ASSUME RecordsAssumption ==
    {CuratorInterval, MinIdle, MaxHours, MaxEnded, MaxUses, MaxRecordFaults} \subseteq Nat

VARIABLES
    counters,     \* the file: uses and successes of a skill
    copy,         \* process -> what it loaded and is about to save, or None
    dispatches,   \* dispatches of the skill, and the successes
    uncounted,    \* history: processes overlapped, or the file could not be read or written
    hours,
    turnsEnded,   \* turns that ended
    stateTools,   \* tools_used in the graph state: the turn that used them, 0 for none
    lastGoalAt,   \* _last_goal_at, 0 before the first
    captured,     \* the last of _recent_sequences: the turns its goal and its tools are of
    sidecar,      \* last_run_at in the state file
    cycle,        \* where run_curator is, when it woke, and its sequence
    staged,       \* draft -> the turns its SKILL.md and its stub are of, 0 for no file
    struck,       \* history: drafts whose replacement was interrupted
    draftRuns,    \* history: when the last two cycles that staged a draft woke
    recordFaults

recordVars == <<counters, copy, dispatches, uncounted, hours, turnsEnded, stateTools, lastGoalAt,
                captured, sidecar, cycle, staged, struck, draftRuns, recordFaults>>

Counters == [uses : 0..MaxUses, ok : 0..MaxUses]
Zero == [uses |-> 0, ok |-> 0]
NoCopy == [uses |-> 0, ok |-> 1]
TurnNumbers == 0..MaxEnded
Hours == 0..MaxHours
NoSequence == [goal |-> 0, tools |-> 0]
Resting == [at |-> "asleep", woke |-> 0, seq |-> NoSequence]

RecordsTypeOK ==
    /\ counters \in Counters /\ copy \in [Processes -> Counters] /\ dispatches \in Counters
    /\ uncounted \in BOOLEAN
    /\ hours \in Hours /\ turnsEnded \in TurnNumbers /\ stateTools \in TurnNumbers
    /\ {lastGoalAt, sidecar} \subseteq Hours
    /\ captured \in [goal : TurnNumbers, tools : TurnNumbers]
    /\ cycle \in [at : {"asleep", "drafting", "saving"}, woke : Hours,
                  seq : [goal : TurnNumbers, tools : TurnNumbers]]
    /\ staged \in [Drafts -> [skill : TurnNumbers, stub : TurnNumbers]] /\ struck \subseteq Drafts
    /\ draftRuns \in [before : Hours, last : Hours]
    /\ recordFaults \in 0..MaxRecordFaults

\* The first cycle finds no state file: it has never run.
RecordsInit ==
    /\ counters = Zero /\ copy = [p \in Processes |-> NoCopy] /\ dispatches = Zero
    /\ uncounted = FALSE
    /\ hours = CuratorInterval /\ turnsEnded = 0 /\ stateTools = 0 /\ lastGoalAt = 0
    /\ captured = NoSequence /\ sidecar = 0 /\ cycle = Resting
    /\ staged = [d \in Drafts |-> [skill |-> 0, stub |-> 0]] /\ struck = {}
    /\ draftRuns = [before |-> 0, last |-> 0] /\ recordFaults = 0

telemetry == <<counters, copy, dispatches, uncounted>>
turnRecords == <<turnsEnded, stateTools, lastGoalAt, captured>>
drafting == <<sidecar, cycle, staged, struck, draftRuns>>

Fault == recordFaults < MaxRecordFaults /\ recordFaults' = recordFaults + 1

-----------------------------------------------------------------------------
(* record_use_best_effort, without an await, in each process               *)

Bumped(c, ok) == [uses |-> c.uses + 1, ok |-> c.ok + IF ok THEN 1 ELSE 0]

\* load and record_use; a file that is missing, corrupt or unreadable is an empty one.
LoadCounters(p) ==
    /\ copy[p] = NoCopy /\ dispatches.uses < MaxUses
    /\ \E ok \in BOOLEAN :
           /\ dispatches' = Bumped(dispatches, ok)
           /\ \/ copy' = [copy EXCEPT ![p] = Bumped(counters, ok)] /\ UNCHANGED recordFaults
                 /\ uncounted' = (uncounted \/ \E q \in Processes : copy[q] # NoCopy)
              \/ copy' = [copy EXCEPT ![p] = Bumped(Zero, ok)] /\ Fault /\ uncounted' = TRUE
    /\ UNCHANGED <<counters, hours, turnRecords, drafting>>

\* Mutant: the save adds to what the file holds by then.
SaveAdded(p) ==
    /\ copy[p] # NoCopy /\ copy' = [copy EXCEPT ![p] = NoCopy]
    /\ counters' = [uses |-> counters.uses + copy[p].uses, ok |-> counters.ok + copy[p].ok]
    /\ UNCHANGED <<dispatches, uncounted, hours, turnRecords, drafting, recordFaults>>

\* save: a temporary file takes the place of the file at once, or, failing, never.
SaveCounters(p) ==
    /\ copy[p] # NoCopy /\ copy' = [copy EXCEPT ![p] = NoCopy]
    /\ \/ counters' = copy[p] /\ UNCHANGED <<uncounted, recordFaults>>
       \/ Fault /\ uncounted' = TRUE /\ UNCHANGED counters
    /\ UNCHANGED <<dispatches, hours, turnRecords, drafting>>

-----------------------------------------------------------------------------
(* Turns, as _handle sees them end                                         *)

Tick ==
    /\ hours < MaxHours /\ hours' = hours + 1
    /\ UNCHANGED <<telemetry, turnRecords, drafting, recordFaults>>

\* Of a turn that succeeded, the goal is kept with the tools the state holds, when they are
\* at least two; of one that failed, only its end.
EndTurn(ok, usedTools) ==
    /\ turnsEnded < MaxEnded /\ turnsEnded' = turnsEnded + 1
    /\ lastGoalAt' = hours
    /\ stateTools' = IF usedTools THEN turnsEnded + 1 ELSE stateTools
    /\ captured' = IF ok /\ stateTools' # 0 THEN [goal |-> turnsEnded + 1, tools |-> stateTools']
                   ELSE captured
    /\ UNCHANGED <<telemetry, hours, drafting, recordFaults>>

-----------------------------------------------------------------------------
(* run_curator                                                             *)

\* should_run_now: long enough since the last run and since the end of a turn; a turn that
\* is running does not count.
MayRun == hours - sidecar >= CuratorInterval /\ (lastGoalAt = 0 \/ hours - lastGoalAt >= MinIdle)

Wake ==
    /\ cycle.at = "asleep" /\ MayRun
    /\ cycle' = [at |-> IF captured = NoSequence THEN "saving" ELSE "drafting",
                 woke |-> hours, seq |-> captured]
    /\ UNCHANGED <<telemetry, hours, turnRecords, sidecar, staged, struck, draftRuns, recordFaults>>

Ran == draftRuns' = [before |-> draftRuns.last, last |-> cycle.woke]

\* Mutant: the two files are written in place, and an error leaves the first.
StageInPlace(d) ==
    /\ cycle.at = "drafting" /\ cycle' = [cycle EXCEPT !.at = "saving"]
    /\ \/ staged' = [staged EXCEPT ![d] = [skill |-> cycle.seq.goal, stub |-> cycle.seq.goal]]
          /\ UNCHANGED recordFaults
       \/ staged' = [staged EXCEPT ![d].skill = cycle.seq.goal] /\ Fault
    /\ Ran /\ UNCHANGED <<telemetry, hours, turnRecords, sidecar, struck>>

\* The model has described the sequence.  propose_skill: both files are written apart, then
\* what the draft held is removed, then they take its place.
StageDraft(d) ==
    /\ cycle.at = "drafting" /\ cycle' = [cycle EXCEPT !.at = "saving"]
    /\ \/ staged' = [staged EXCEPT ![d] = [skill |-> cycle.seq.goal, stub |-> cycle.seq.goal]]
          /\ UNCHANGED <<struck, recordFaults>>
       \/ Fault /\ UNCHANGED <<staged, struck>>
       \/ /\ Fault /\ struck' = struck \union {d}
          /\ \E kept \in SUBSET {"skill", "stub"} :
                 staged' = [staged EXCEPT ![d] = [f \in {"skill", "stub"} |->
                                                      IF f \in kept THEN @[f] ELSE 0]]
    /\ Ran /\ UNCHANGED <<telemetry, hours, turnRecords, sidecar>>

\* The time that is kept is the one of the gate.
SaveState ==
    /\ cycle.at = "saving" /\ cycle' = Resting /\ sidecar' = cycle.woke
    /\ UNCHANGED <<telemetry, hours, turnRecords, staged, struck, draftRuns, recordFaults>>

\* The model or the save raises, or the state file is lost: the run is not remembered.
CycleFails ==
    /\ Fault /\ cycle' = Resting /\ sidecar' \in {0, sidecar}
    /\ draftRuns' = [before |-> 0, last |-> 0]
    /\ UNCHANGED <<telemetry, hours, turnRecords, staged, struck>>

\* The processes stop; only the files remain.
ProcessesStop ==
    /\ Fault /\ cycle' = Resting /\ lastGoalAt' = 0 /\ captured' = NoSequence
    /\ draftRuns' = IF cycle.at = "saving" THEN [before |-> 0, last |-> 0] ELSE draftRuns
    /\ copy' = [p \in Processes |-> NoCopy] /\ uncounted' = (uncounted \/ copy' # copy)
    /\ UNCHANGED <<counters, dispatches, hours, turnsEnded, stateTools, sidecar, staged, struck>>

RecordsNext ==
    \/ \E p \in Processes : LoadCounters(p) \/ SaveCounters(p)
    \/ Tick
    \/ \E ok, usedTools \in BOOLEAN : EndTurn(ok, usedTools)
    \/ Wake \/ (\E d \in Drafts : StageDraft(d)) \/ SaveState \/ CycleFails \/ ProcessesStop

RecordsSpec == RecordsInit /\ [][RecordsNext]_recordVars

-----------------------------------------------------------------------------
\* Unless two processes overlap or the file fails, the counters count every finished
\* dispatch once, and successes are never more than uses.
UsesCounted ==
    /\ counters.ok <= counters.uses /\ counters.uses <= dispatches.uses
    /\ ~uncounted /\ (\A p \in Processes : copy[p] = NoCopy) => counters = dispatches

\* A draft is the SKILL.md and the stub of one turn, unless its replacement was interrupted.
DraftsWhole == \A d \in Drafts \ struck : staged[d].skill = staged[d].stub

\* Two cycles that draft are an interval apart, unless the first was not remembered.
RunsSpaced == draftRuns.before # 0 => draftRuns.last - draftRuns.before >= CuratorInterval

RecordsKept == UsesCounted /\ DraftsWhole /\ RunsSpaced
=============================================================================
