--------------------------- MODULE OrchestratorRun ---------------------------
(***************************************************************************)
(* The life of the orchestrator process (OrchestratorProcess.run in        *)
(* orchestrator/main.py): what is opened, in which order, what of it is     *)
(* done without when it fails, and how it is all ended, by a signal, a      *)
(* raising step or a kill.  The goal loop's own work is in GoalHandler, a   *)
(* bridge's in McpBridge, the sweep's in ContextWindow and the curator's in *)
(* SkillRecords; here they only use what run opens and closes.              *)
(***************************************************************************)
EXTENDS Naturals, FiniteSets

CONSTANTS MaxRunFaults,   \* bound: raising steps and kills
          MaxReflections  \* bound: running tasks that write reflections

ASSUME RunAssumption == MaxRunFaults \in Nat /\ MaxReflections \in Nat

VARIABLES
    runAt,       \* the next step of run
    stopSet,     \* _shutdown is set
    runStore,    \* the StorageManager with its outbox task
    bridges,     \* the two MCP client managers
    podGraph,    \* ENABLE_POD_CODEGRAPH
    groupMade,   \* the consumer group of the goals exists
    graphBuilt,  \* the graph is compiled and wired
    background,  \* the tasks run starts beside the loop
    reflections, \* tasks nobody awaits, which write reflections to the store
    runRaises,   \* an exception is on its way out of run
    runFaults

runVars == <<runAt, stopSet, runStore, bridges, podGraph, groupMade, graphBuilt, background,
             reflections, runRaises, runFaults>>

BridgeNames == {"mcp", "codegraph"}
SideTasks == {"compactor", "curator"}
InLoop == {"loop", "reading", "goal"}
RunSteps == InLoop \union
            {"storage", "mcp", "mcp ready", "codegraph", "codegraph ready", "group", "graph",
             "tasks", "compactor", "curator", "close", "bridges", "over"}

RunTypeOK ==
    /\ runAt \in RunSteps
    /\ {stopSet, podGraph, groupMade, graphBuilt, runRaises} \subseteq BOOLEAN
    /\ runStore \in {"closed", "open"}
    /\ bridges \in [BridgeNames -> {"none", "opening", "ready", "ended"}]
    /\ background \in [SideTasks -> {"none", "asleep", "sweeping", "ended"}]
    /\ reflections \in 0..MaxReflections /\ runFaults \in 0..MaxRunFaults

NoBridges == [b \in BridgeNames |-> "none"]
NoSideTasks == [t \in SideTasks |-> "none"]

RunInit ==
    /\ runAt = "storage" /\ stopSet = FALSE /\ runRaises = FALSE /\ runStore = "closed"
    /\ bridges = NoBridges /\ graphBuilt = FALSE /\ background = NoSideTasks /\ reflections = 0
    /\ podGraph \in BOOLEAN /\ groupMade = FALSE /\ runFaults = 0

RunFault == runFaults < MaxRunFaults /\ runFaults' = runFaults + 1
RunStep(from, to) == runAt = from /\ runAt' = to

\* SIGINT or SIGTERM; nothing looks at it before the loop does.
StopSignal ==
    /\ ~stopSet /\ runAt # "over" /\ stopSet' = TRUE
    /\ UNCHANGED <<runAt, runStore, bridges, podGraph, groupMade, graphBuilt, background,
                   reflections, runRaises, runFaults>>

-----------------------------------------------------------------------------
(* Start-up.                                                               *)

OpenStorage ==
    /\ RunStep("storage", "mcp") /\ runStore' = "open"
    /\ UNCHANGED <<stopSet, bridges, podGraph, groupMade, graphBuilt, background, reflections,
                   runRaises, runFaults>>

\* The pod's embedder is only started when it is enabled.
StartBridge(b) ==
    /\ IF b = "mcp" THEN RunStep("mcp", "mcp ready")
       ELSE runAt = "codegraph" /\ runAt' = IF podGraph THEN "codegraph ready" ELSE "group"
    /\ bridges' = IF b = "mcp" \/ podGraph THEN [bridges EXCEPT ![b] = "opening"] ELSE bridges
    /\ UNCHANGED <<stopSet, runStore, podGraph, groupMade, graphBuilt, background, reflections,
                   runRaises, runFaults>>

\* The bridge's own task opens its session.
BridgeOpens(b) ==
    /\ bridges[b] = "opening" /\ bridges' = [bridges EXCEPT ![b] = "ready"]
    /\ UNCHANGED <<runAt, stopSet, runStore, podGraph, groupMade, graphBuilt, background,
                   reflections, runRaises, runFaults>>

\* wait_ready returns or times out: run goes on either way.
BridgeAwaited(b) ==
    /\ IF b = "mcp" THEN RunStep("mcp ready", "codegraph") ELSE RunStep("codegraph ready", "group")
    /\ UNCHANGED <<stopSet, runStore, bridges, podGraph, groupMade, graphBuilt, background,
                   reflections, runRaises, runFaults>>

\* _ensure_group; then the skill router, without which run goes on.
EnsureGroup ==
    /\ RunStep("group", "graph") /\ groupMade' = TRUE
    /\ UNCHANGED <<stopSet, runStore, bridges, podGraph, graphBuilt, background, reflections,
                   runRaises, runFaults>>

BuildAgent ==
    /\ RunStep("graph", "tasks") /\ graphBuilt' = TRUE
    /\ UNCHANGED <<stopSet, runStore, bridges, podGraph, groupMade, background, reflections,
                   runRaises, runFaults>>

\* The curator only when it is enabled.
StartTasks ==
    /\ RunStep("tasks", "loop")
    /\ \E started \in {SideTasks, {"compactor"}} :
           background' = [t \in SideTasks |-> IF t \in started THEN "asleep" ELSE "none"]
    /\ UNCHANGED <<stopSet, runStore, bridges, podGraph, groupMade, graphBuilt, reflections,
                   runRaises, runFaults>>

\* A step of the start raises: what StorageManager opened is closed, or nothing was.
StartRaises ==
    /\ RunFault /\ runAt \in {"storage", "group", "graph"} /\ runRaises' = TRUE
    /\ runAt' = IF runAt = "storage" THEN "over" ELSE "close"
    /\ UNCHANGED <<stopSet, runStore, bridges, podGraph, groupMade, graphBuilt, background,
                   reflections>>

-----------------------------------------------------------------------------
(* The loop and what runs beside it.                                       *)

\* _shutdown is read before each blocking read; a goal may still come to a read under way.
LoopTurns ==
    /\ \/ ~stopSet /\ RunStep("loop", "reading")
       \/ RunStep("reading", "goal") \/ RunStep("reading", "loop")
    /\ UNCHANGED <<stopSet, runStore, bridges, podGraph, groupMade, graphBuilt, background,
                   reflections, runRaises, runFaults>>

\* A compaction that found insights leaves a task to write them.
Reflecting == reflections' \in {reflections, reflections + 1} \cap 0..MaxReflections

GoalOver ==
    /\ RunStep("goal", "loop") /\ Reflecting
    /\ UNCHANGED <<stopSet, runStore, bridges, podGraph, groupMade, graphBuilt, background,
                   runRaises, runFaults>>

\* A task looks at _shutdown when it wakes.
TaskWakes(t) ==
    /\ background[t] = "asleep"
    /\ background' = [background EXCEPT ![t] = IF stopSet THEN "ended" ELSE "sweeping"]
    /\ UNCHANGED <<runAt, stopSet, runStore, bridges, podGraph, groupMade, graphBuilt, reflections,
                   runRaises, runFaults>>

\* A sweep that raises is logged, and the task sleeps again.
TaskSleeps(t) ==
    /\ background[t] = "sweeping" /\ background' = [background EXCEPT ![t] = "asleep"]
    /\ IF t = "compactor" THEN Reflecting ELSE UNCHANGED reflections
    /\ UNCHANGED <<runAt, stopSet, runStore, bridges, podGraph, groupMade, graphBuilt, runRaises,
                   runFaults>>

ReflectionsWritten ==
    /\ reflections > 0 /\ reflections' = reflections - 1
    /\ UNCHANGED <<runAt, stopSet, runStore, bridges, podGraph, groupMade, graphBuilt, background,
                   runRaises, runFaults>>

\* The loop sees _shutdown, or a read, a result's write or an acknowledgement raises.
LeaveLoop ==
    /\ \/ stopSet /\ runAt = "loop" /\ UNCHANGED <<runRaises, runFaults>>
       \/ RunFault /\ runAt \in {"reading", "goal"} /\ runRaises' = TRUE
    /\ runAt' = "compactor"
    /\ UNCHANGED <<stopSet, runStore, bridges, podGraph, groupMade, graphBuilt, background,
                   reflections>>

-----------------------------------------------------------------------------
(* The end.                                                                *)

\* Mutant: the curator is forgotten.
EndCompactor(t) ==
    /\ t = "compactor" /\ RunStep("compactor", "close")
    /\ background' = [background EXCEPT ![t] = IF @ = "none" THEN "none" ELSE "ended"]
    /\ UNCHANGED <<stopSet, runStore, bridges, podGraph, groupMade, graphBuilt, reflections,
                   runRaises, runFaults>>

\* The task is cancelled wherever it is, and awaited.
EndTask(t) ==
    /\ IF t = "compactor" THEN RunStep("compactor", "curator") ELSE RunStep("curator", "close")
    /\ background' = [background EXCEPT ![t] = IF @ = "none" THEN "none" ELSE "ended"]
    /\ UNCHANGED <<stopSet, runStore, bridges, podGraph, groupMade, graphBuilt, reflections,
                   runRaises, runFaults>>

\* StorageManager.__aexit__ may raise.  An exception that passes here passes the bridges by.
CloseStorage ==
    /\ runAt = "close" /\ runStore' = "closed"
    /\ \/ UNCHANGED <<runRaises, runFaults>>
       \/ RunFault /\ runRaises' = TRUE
    /\ runAt' = IF runRaises' THEN "over" ELSE "bridges"
    /\ UNCHANGED <<stopSet, bridges, podGraph, groupMade, graphBuilt, background, reflections>>

ShutdownBridges ==
    /\ RunStep("bridges", "over")
    /\ bridges' = [b \in BridgeNames |-> IF bridges[b] = "none" THEN "none" ELSE "ended"]
    /\ UNCHANGED <<stopSet, runStore, podGraph, groupMade, graphBuilt, background, reflections,
                   runRaises, runFaults>>

\* asyncio.run cancels what is left, or the process is killed; it is started again.
Gone ==
    /\ \/ runAt = "over" /\ UNCHANGED runFaults
       \/ RunFault
    /\ runAt' = "storage" /\ stopSet' = FALSE /\ runRaises' = FALSE /\ runStore' = "closed"
    /\ bridges' = NoBridges /\ graphBuilt' = FALSE /\ background' = NoSideTasks
    /\ reflections' = 0 /\ UNCHANGED <<podGraph, groupMade>>

RunNext ==
    \/ StopSignal \/ OpenStorage \/ EnsureGroup \/ BuildAgent \/ StartTasks \/ StartRaises
    \/ \E b \in BridgeNames : StartBridge(b) \/ BridgeOpens(b) \/ BridgeAwaited(b)
    \/ LoopTurns \/ GoalOver \/ ReflectionsWritten \/ LeaveLoop
    \/ \E t \in SideTasks : TaskWakes(t) \/ TaskSleeps(t) \/ EndTask(t)
    \/ CloseStorage \/ ShutdownBridges \/ Gone

RunSpec == RunInit /\ [][RunNext]_runVars

-----------------------------------------------------------------------------
\* Whoever works finds what it works with: the goal loop its store, its group, its graph and its
\* bridges, a sweep its store; wherever a signal, a raising step or a kill cuts in.  Tasks that
\* write reflections are nobody's, and may find the store closed.
OpenWhileUsed ==
    /\ runAt \in InLoop => /\ runStore = "open" /\ groupMade /\ graphBuilt
                           /\ \A b \in BridgeNames : bridges[b] # "ended"
    /\ \A t \in SideTasks : background[t] = "sweeping" => runStore = "open"

\* When run returns, nothing it started is left but tasks that write reflections; when it is
\* left by an exception, only the bridges may be (they are shut down behind the async with).
EndsWhatItStarted ==
    runAt = "over" =>
        /\ runStore = "closed"
        /\ \A t \in SideTasks : background[t] \in {"none", "ended"}
        /\ runRaises \/ \A b \in BridgeNames : bridges[b] \in {"none", "ended"}

RunInOrder == OpenWhileUsed /\ EndsWhatItStarted
=============================================================================
