# A verification project for Labmate

Labmate is a local agent.  Clients (a terminal client and an Electron/React
front end) talk over WebSocket to a gateway; the gateway, the orchestrator and
the skill workers talk to each other over Redis; MongoDB is the source of truth
for sessions and memories, and Chroma is a vector view of the memories.

This directory holds TLA+ modules translated from the source, TLC
configurations that check them on small instances, and TLAPS proofs of the main
safety properties for every value of the constants.  Paths below are relative to
`src/services/`.

Contents: 1 inventory, 2 modules and code, 3 what the runs check, 4 bounds,
5 fairness, 6 proofs, 7 disagreements between code and documents, 8 what is not
modelled, 9 plan.

## 1. Inventory

| Part | Source | State | Operations | Hard behaviour | What makes it correct |
|---|---|---|---|---|---|
| WebSocket gateway | `ws_gateway/server.py`, `redis_bridge.py` | per connection: active task, active session, one relay task | send, tool.result, steer, cancel, compact, session commands, relay of task events | one reader coroutine that also awaits the relay and the compact; cancel against completion; results that wait behind a send | one turn at a time; a cancelled turn starts nothing more; turns end |
| Orchestrator process | `orchestrator/main.py` | consumer group of goals, bridges, background tasks, shutdown event | start up, read one goal, handle it, emit events, write the result, acknowledge, stop | any step of a goal may raise; crash between read and acknowledge; end while tasks run | what is acknowledged is answered; the three reports of a goal agree; what is used is open |
| Client tools | `orchestrator/local_tools.py`, `cli/local_tool_executor.py` | result stream of a task | request, answer, time out | an answer before anyone reads; an answer of another turn | a request gets its own answer |
| Agent graph | `orchestrator/graph.py`, `types.py`, `coding_orchestrator.py` (`run_task`) | checkpointed state per session: goal tree, markers, retries, flags | assess, plan, execute, verify, check, reflect, revise, the routers | three retry counters; state that outlives the turn | no failure shown as success; no work after a question; bounded retries |
| ReAct loop | `coding_orchestrator.py` (`_run_react_loop`), `iteration_budget.py`, `verification_stop.py`, `completion_guard.py`, `loop_checkpoint.py`, `load_skill_guard.py`, `progress_breaker.py` | per goal: turns, budget, grace, verdict, edits, nudges, checkpoint | one model turn with its tools, refund, finish, cutoff, resume | a budget that is given back; resume from an old checkpoint; verdict against later edits | bounded turns; success only with evidence |
| Loop detector | `orchestrator/loop_detection.py` | signatures of the calls so far | record, should_break | two limits and a window of different lengths | a stuck goal stops |
| Test evidence | `completion_guard.py`, `coding_orchestrator.py`, `skills/code-sandbox`, `frontend/electron/tool-executor.ts`, `mcp-bridge` shell | text of a run | run in a container, a process, the client or the shell; parse; classify | suites that never start, are killed, or answer with the text of a failure | a pass is a pass |
| Model calls | `model_client.py`, `message_repair.py` | conversation, endpoint and attempt | repair, call, fail over, stream | a stream that breaks, endpoints that fail differently | paired tool messages; every endpoint tried; the returned answer is the shown one |
| Steer and cancel | `redis_bridge.py`, `orchestrator/events.py`, `steer_inject.py` | two Redis keys with a time to live | write, GETDEL, look at the top of a turn | two ways to deliver a steer; keys that expire | steers in order, once; a cancel stops the model |
| Parallel workers | `coding_orchestrator.py` (`TokenBudget`, `plan_and_dispatch`, `_run_worker`), `skill_runner/skill_runner.py` | token budget of the process, semaphore, loaded skills | reserve, refund, fan out, load a skill | workers that raise at any point; a cache all workers share | no reservation lost or returned twice; workers end |
| Skill routing | `skill_router.py`, `skill_runner.py` | catalog, votes | discover, vote, select, plan, run, judge | two separate votes over a catalog that is reloaded | a goal's work is done once |
| Skill path | `orchestrator/skill_router.py`, `skill_worker/worker.py`, `skill_runner/skill_registry.py` | stream of skill tasks, pending entries, one subprocess per skill | execute, dispatch, reclaim, restart, reload | lost and duplicated entries; restart against in-flight calls | every call runs at most once and is answered truly |
| Long-term memory | `orchestrator/storage_manager.py`, `outbox_worker.py` | Mongo documents with an outbox flag, Chroma points, `tasks` stream | store, close, boost, decay, supersede, project | projection against edits; crash between its three writes | the view moves forward; what is closed stays closed |
| Message store | `memory/storage_manager.py` | messages, resume token, Qdrant points, `consolidate` stream | write, tail the change stream, project, mark, store the token | restarts, several processes, calls that raise between two writes | no message is passed over |
| Consolidation | `memory_consolidator.py` | count of episodes, facts | extract, reconcile, apply, reflect | several calls, each of which may raise; late and repeated entries | a replaced fact has its replacement |
| Working context | `memory/context_manager.py` | summary, anchor, watermark, history | full compaction by three callers, recall, packing to a budget | reads and writes with model calls between; parts that compete for room | only the oldest turns left out; over the budget by separators only |
| Code index | `codegraph_embedder` | collection, files seen | full pass, poll | both at once over a database another program writes | a file seen is as in the database |
| Skill records | `skill_telemetry.py`, `skill_curator.py` | counters' file, captured tools, staged drafts | count, capture, curate | several processes rewrite one file | uses counted, drafts whole, runs spaced |
| Critique | `skills/critique` | best draft so far | score, refine, debate | five ways to end | the best draft is returned |
| Sessions and accounts | `ws_gateway/mongo_session_store.py`, `auth.py`, `user_store.py` | sessions, turns, failure counts, locks | create, add_turn, delete, authenticate | count-then-insert numbers; logins that overlap | turns in order; a lock lasts |
| MCP client manager | `mcp-bridge/mcp_client_manager.py` | one session, inbox, failures in the window | call, reconnect, open and close the circuit | calls that wait behind broken sessions | every call is answered |
| Terminal client | `cli/repl.py`, `ws_client.py`, `event_stream.py` | one task, its event stream | send, render, run tools, time out | all streams read one socket | a task shows its own result |
| Desktop client | `frontend/src/hooks`, `frontend/electron` | chats, folders of the chats, MCP servers | frames, commands, tools, folders, servers | a chat active before its history; requests that name only a turn; servers that start while folders change | complete windows; tools in the folders of their chat; servers that know the roots |
| Discord connector | `connectors/deferred/discord_connector.py` | a record and a worker per task | task, wait, edit, cancel | the result, a cancellation and the end of the window at once | the record fits what the user saw |
| Academic writing | `skills/academic-writing` | references, notes, drafts, verdicts of a paper | research, outline, draft, validate, condense, restyle | indexes that do not answer; keys made of keys | the paper cites what its references have |
| Terminal client's files | `cli/main.py`, `token_store.py`, `session_store.py` | token, workspaces, sessions in files | start, log in, choose, save, resume, connect, clear | several clients without a lock, kills between two steps | a refused token is not tried again; a saved workspace stays |
| Other skills, evaluation, research, infrastructure | `skills`, `eval`, `infra`, ... | - | - | leaf programs | - |

How they meet: a `send` frame becomes a turn in the session store and an entry
of `labmate:goals`; the goal loop takes entries one at a time and runs the agent
graph; `execute` runs one ReAct loop per ready goal; the loop calls skills
through the task stream and client tools through the task's event and result
streams; every event of the task is tailed by the gateway's relay.  Steer and
cancel go the other way through two keys.  Memory writes go to Mongo and are
projected to Chroma by a separate coroutine.

The hazards this leads to are listed with their lines in `PROJECT.json`; each
names the properties that guard against it, or says why none does.

## 2. Modules and code

The turn of a goal and what it calls:

| Module | Models | State | Actions |
|---|---|---|---|
| `GoalGraph` | the state graph over the turns of a session, with `_handle`'s reading of its final state | the keys of `State` the routers look at | one per node with its router, `StartTurn` (`run_task`), `Deliver`, `Raise`, `CutShort` |
| `ReactLoop` | `_run_react_loop` for one goal, over its attempts and crashes | the loop's locals under their names, `cp` the stored checkpoint | one per branch of a turn: the four cutoffs, `TakeTurn`, each tool branch, `FinishDeferred`, `FinishAccepted`, `EndTurn` (refund, checkpoint), `Crash`, `Retry` |
| `LoopDetection` | `LoopDetector` | the list of signatures | `Record`, `RecordRepeatLoad` |
| `TurnSignals` | the steer and cancel keys, the gateway's writes, the top of a loop turn | the two keys, the loop's `_prewritten_steer`, `_pending_steer`, `_to_inject` | gateway writes, expiries, the steps of a turn |
| `ModelCalls` | message repair, endpoints and attempts of a call, the streamed answer | the messages as places in the conversation, endpoint, attempt, pieces shown | `RepairMessages`, `AttemptCall`, `NextBase`, `StreamChunk`, `StreamBreaks`, `StreamEnds` |
| `TestEvidence` | the four places tests run in, and what the loop reads of their text | the run, its output as the set of what the parsers look for | start, end, kill, loss and answer of a run in each place |
| `CritiqueLoop` | the reflexion loop, the debate, the single pass of the verify gate | drafts by number, the best of them | `EvaluateDraft`, `RefineDraft`, `RunDebate`, `ClockRunsOut`, `CritiqueRaises`, ... |
| `SkillRouting` | catalog, both votes, planning and judgement of one skill | files per tier, the loaded catalog, the votes | `ReloadCatalog`, `RouteGoal`, `SelectSkill`, `PlanAttempt`, `CallSkill`, `JudgeReply`, ... |
| `WorkerPool` | `plan_and_dispatch`, `_run_worker`, `TokenBudget`, the semaphore, the shared `SkillRunner` | budget, permits, where each worker is, loaded skills | `Reserve`, `Enter`, `Route`, `LoadSkill`, `WorkerEnds` and the four ways to raise |
| `SkillRegistry` | one skill of a worker process: owner task, inbox, crash, back-off, reload | session, inbox, state, in-flight count | one per section under the lock |
| `SkillDispatch` | `SkillRouter.execute`, the task stream, the worker, over `SkillRegistry` | stream, pending entries, results, handlers | append, poll, batch, slot, dispatch, the two result writes, ack, crash, stop, exit, start |
| `OneShotCall` | what a caller may expect of a call nobody repeats for it | `asked`, `ran`, `answer` | `Ask`, `Run`, `Reply` |

The orchestrator and what it keeps:

| Module | Models | State | Actions |
|---|---|---|---|
| `OrchestratorRun` | the life of the process: start-up, background tasks, signals, the order of the end | the step `run` is at, what is open | one per step of `run`, `StopSignal`, the tasks' sweeps, `Gone` |
| `GoalHandler` | the goal loop and `_handle`, with every step that may raise | the group, results, events, the session record | take, the steps of a task and of a compact, the writes of success and failure, `AckGoal`, `MainCrash` |
| `MemoryOutbox` | `StorageManager` writes, two-step edits, `OutboxWorker` | `doc` is Mongo, `chroma` and `stream` the two outputs, `coll step batch cur` the locals of `process_once`, `task` the locals of an edit between its two awaits | one per database call: `StoreMemory`, `BoostRead`, `BoostWrite`, `DecayList`, `DecayClose`, `SupersedeClose`, `SupersedeStore`, `Find`, `Upsert`, `XAdd`, `Mark`, ..., `WorkerFails`, `Crash` |
| `ProjectedView` | the promise of any view behind a source of truth | `source`, `view` versions | `Write`, `Refresh` |
| `StreamOutbox` | the manager of `memory/`: writes and the task that tails the change stream | token, messages projected, queued, marked, each process's task | one per call of the task, `TaskFails`, `StopManager`, `WriteMessage` |
| `Consolidation` | the consumer of the tasks stream and the application of a model's edits | episodes, facts with their successors, the consumer's step | one per call; `ConsumerRaises` |
| `ContextWindow` | `full_compact` by its three callers, and the readers of the context | summary, anchor and watermark as sets of turns, each job's copies | one per Redis or model call of a job, the two reads of a view with its trim to the budget, `CompactRaises`, `CtxCrash` |
| `ContextFill` | the packing of `build_context`, with the separators and the header no slot counts, and the client's strip | texts as sequences of lines, a line as its length in tokens | `MeasureContext`, `ShowCarriedFill`, `ObservePromptTokens`, `RefreshStrip`, `EndFill` |
| `CodeIndex` | the full pass and the poll of the embedder | database, collection, `_seen_files`, locals of both tasks | scans, batches, polls, purges, failures, restart |
| `SkillRecords` | telemetry and curator | the counters' file and each process's copy, captured tools, drafts | load, save, end of a turn, `Wake`, `StageDraft`, `SaveState` |
| `CitedPaper` | the tools of the academic-writing skill | the caller's references, what was researched and drafted, the verdicts, the finished paper's citations | one per tool that accepts: `ResearchTopic`, `MakeOutline`, `DraftSection`, `ValidateCitations`, `ChainOfDensity`, `StyleTransfer` |
| `McpBridge` | `MCPClientManager` | session, inbox, failures in the window | `LoopTop`, `ServeNext`, `SessionBreaks`, `BackedOff`, `CircuitCloses`, `ShutdownBridge` |

The gateway and the clients:

| Module | Models | State | Actions |
|---|---|---|---|
| `TurnGateway` | one connection: reader, relays, streams, goal loop, `request_local_tool` | frames in the inbox, relay per task with its cursor, streams, what `_handle` is at | one per frame type, per relayed event, per step of the goal loop and of the wait for a result |
| `Conversation` | what the user of a connection may rely on | `said`, `open`, `started`, `busy`, `results`, `told` | `Ask`, `Answer`, `Withdraw`, `StartTool`, `ToolEnds`, `StopTools`, `ResultComes`, `TimeRunsOut` |
| `TurnView` | the events of one turn, stored by the relay and shown by the client | the event stream, the turn gathered, stored and shown | one per event, `RelayEvent`, `ShowRow`, `StopTurn`, `LoseConnection` |
| `SessionStore` | one session in Mongo and several connections | rows, count, each connection's step | one per call of `add_turn`, `delete` and creation |
| `Accounts` | logins and account creations | attempts, locks, accounts | one per call of the store, the clock, restart |
| `CliTurns` | the terminal client's streams over one socket | tasks, frames both ways | `SendTask`, `TakeFrame`, the two time-outs, the gateway's relaying |
| `CliSession` | how terminal clients start, save and end | each client's place, the three files, what the gateway refuses | one per step: `StartCli`, `LogInCli`, `SaveCliToken`, the choices of a workspace, `SaveEmpties`, `SaveWrites`, `ConnectCli`, `ClearToken`, `SendCliTask`, `KillCli` |
| `ChatWindow` | the desktop's reducer and its commands | active chat, its turns, frames both ways, the store | commands, `HandleFrame`, `Reduce` |
| `ClientFolders` | folders of the chats, the paths of tools, the chat of a tool request | the store in memory and on disk, the map from turns to chats | changes of folders, restart, reload, frames, `ExecuteTool` |
| `McpHosts` | the MCP servers of the desktop application | servers starting, listed, told | start, `ListHostTools`, `ChangeRoots`, `ShowChatRoots`, `StopHost` |
| `DiscordTasks` | the worker of a `/task` | its record, the message, the announced result | one per call; `WindowEnds`, `CancelDiscordTask` |

Three modules compose the parts for TLC.  `MCLoopAndMemory` holds the two
largest, `ReactLoop` and `MemoryOutbox`; `MCServices` those whose properties need
fairness (`TurnGateway`, `TurnSignals`, `WorkerPool`, `McpBridge`, and a smaller
instance of `MemoryOutbox`); `MCAgent` the others.  The parts of a composition
share no variable, so a product would only multiply the states: the variable
`part` is chosen in the initial state, and a behaviour is one of that part while
the others rest in their initial states.  `SkillDispatch` is a composition of
another kind: it extends `SkillRegistry`, whose actions it conjoins with its own.

Abstractions that matter:

- Model answers, skill results and message texts are any of their possible
  outcomes.  `classify_error` is the choice among `terminal`, `limited` and
  `retryable`; `is_punt_answer` and `asserts_success` are the choice of a claim.
- A history variable (marked so where it is declared) records what the program
  does not keep and a property needs: `raced`, `work`, `turns`, `lost`,
  `injected`, `late`, `unsaid`, `outcome` of a request, `runs`, `exhausted`, and
  their like in the smaller modules.
- `GoalGraph` keeps, for a field that survives a turn, the turn that wrote it.
  The goal tree is one level deep, because both planners attach goals to the
  root.  No code sets `AWAITING_APPROVAL`, so the approval node is left out.
- What a file, a collection or a summary contains is kept as what it was made
  from: `ContextWindow`'s summary is the set of its turns, `CodeIndex`'s text the
  number of the scan that wrote it, `ModelCalls`' message the places its texts
  had.
- The modules meet at named points: `GoalGraph.Execute` stands for one
  `ReactLoop` per ready goal; `ReactLoop.Cancelled` for what `TurnSignals`
  specifies, `ReactLoop.LoopDetected` for `LoopDetection`, its test outcomes for
  `TestEvidence`; `TurnGateway.Finish` for a whole turn of `GoalGraph` under
  `GoalHandler`; `WorkerPool.Route` for `SkillRouting`, whose `CallSkill` is a
  call of `SkillDispatch`.

## 3. What the runs check

| Run | Question and answer |
|---|---|
| `loop_and_memory` | *Loop*: does a goal end, within its ceiling, and is its success earned?  `TurnCeiling`, `PassedIsReal`, `OkIsEarned`, `NudgedBeforeAccepted`, `Terminates`, over refunds, grace, two attempts and a crash with a stale or missing checkpoint.  *Memory*: can a crash, a failed pass or a race make the projection lie?  A processed document has its point and stream entry (`ProcessedIsProjected`); it differs from its point only after a write between the worker's find and mark (`StaleOnlyByRace`); what is closed is never current again (`ClosedForGood`); the whole implements `ProjectedView` (`ImplementsView`). |
| `skills` | Two calls of one skill, a fault and a reload anywhere: a call runs at most once and a reported success happened (`ImplementsOnce`); an acknowledged entry has its result (`AckedHasResult`); when a reload asks for the restart, no call is in hand or in the inbox (`ReloadDrains`); a reload returns a newer process (`ReloadReplaces`); no handler holds its slot for ever (`HandlersEnd`); a failed skill comes back (`FailedSkillReturns`). |
| `services` | The parts whose properties need fairness: see the next table. |
| `agent` | The graph of a turn and the parts that need none: see the table after it. |
| `outbox_lost_reprojection` | Counterexample: a close between the worker's find and mark is never projected. |
| `react_stale_pass` | Counterexample: edit, pass, edit, finish. |
| `signals_steer_lost` | Counterexample: a steer taken from Redis and dropped. |
| `gateway_wakeup` | Counterexample: a time-out although the answer is in the stream. |
| `graph_stale_tests` | Counterexample: a test run of an earlier turn backs a claim. |
| `graph_empty_plan` | Counterexample: a task divided into no subtask fails for good, and its turn is a success. |
| `skills_reclaim` | Counterexample: a dead worker's entry is claimed and never handled. |
| `evidence_uncredited` | Counterexample: an assertion whose container could not be created, and so never ran, counts as verified. |

The properties of `services`:

| Property | Says | Module |
|---|---|---|
| `HistoryInOrder` | the stored history alternates, over cancels, disconnects and a crash | `TurnGateway` |
| `OwnAnswer` | a tool request never gets another's answer | `TurnGateway` |
| `ImplementsConversation` | the connection refines `Conversation`: one question is open at a time, only it is answered or starts tools, each tool once; a result is sent once and its caller told once | `TurnGateway` |
| `CompactNeverMissed` | no answer to a compact that was published is missed | `TurnGateway` |
| `SteersInOrder` | steers reach the model once and in order | `TurnSignals` |
| `BudgetExact` | what is missing from the budget is held or spent | `WorkerPool` |
| `McpCallsOnce` | an MCP call is answered once, over broken sessions, drains and a shutdown | `McpBridge` |
| `WorkIsDone` | no cycle of waits lasts, unless the orchestrator died or Redis refused its `turn.done` (`TurnsEnd`); a cancelled goal ends, or its key has run out first (`CancelEndsGoal`); a dispatch returns, or the budget is spent and it waits for ever (`DispatchEnds`, `Starved`); an MCP call is answered (`McpCallsEnd`); every write reaches Chroma but for those a race hid (`EveryWriteProjected`) | `TurnGateway`, `TurnSignals`, `WorkerPool`, `McpBridge`, `MemoryOutbox` |

The properties of `agent`:

| Property | Says | Module |
|---|---|---|
| `FailureNotMasked` | a turn that succeeds has completed all the subtasks it was divided into; one divided into none is the subject of `graph_empty_plan` | `GoalGraph` |
| `QuestionMeansNoWork` | a turn that ends with a question has executed nothing | `GoalGraph` |
| `AnswerIsFresh` | no turn delivers the answer of an earlier one | `GoalGraph` |
| `TerminalNotRetried` | a goal that failed terminally is not executed again | `GoalGraph` |
| `LoopsBounded` | `RetriesBounded` and `CutShortByRetries`: while the verify gate sends nothing back, a goal runs as often as its attempts allow, and the recursion limit cuts short only a turn that spent it on running goals again; `StuckIsHalted`: with limits that fit the window, a window of calls is not spent on two; and `NewCallNeverHalts`: a call the goal has not made before never ends it | `GoalGraph`, `LoopDetection` |
| `GoalsAnswered` | an acknowledged goal has its result (`AckedIsAnswered`); result, event and session record agree (`ReportsAgree`); who works finds open what it uses, and what was started is ended (`RunInOrder`) | `GoalHandler`, `OrchestratorRun` |
| `MemoryKept` | a turn the watermark hides is in the summary, and the turns a prompt leaves out are the oldest (`NoTurnSkipped`: `HiddenIsSummarised`, `OldestLeftOut`); a fact closed by an update has its replacement (`ReplacedNotLost`); a stored token has passed over no message (`NothingSkipped`).  Each up to a point that section 7 describes: a store over an unread summary (`raced`), a compaction between the reads of one view (`overtaken`), the one update a raise interrupts (`torn`), the messages before a stream that opened without a token (`blind`) | `ContextWindow`, `Consolidation`, `StreamOutbox` |
| `DocumentsKept` | turns are numbered and counted (`StoreConsistent`); uses counted, drafts whole, cycles apart (`RecordsKept`); a lock lasts and an email has one account (`AccountsKept`), each unless calls overlapped where its comment says so; a paper cites what its drafts did, and only keys of its references (`CitesResolve`) | `SessionStore`, `SkillRecords`, `Accounts`, `CitedPaper` |
| `ClientsAgree` | the terminal shows a task its own result until one times out (`OwnResult`); a window has every stored turn (`WindowComplete`); a turn is the same live and reopened (`StoredIsShown`); a Discord record fits what its thread shows (`RecordFitsThread`), which is not whether the goal failed; what the terminal clients keep is their own (`HomeKept`) | `CliTurns`, `ChatWindow`, `TurnView`, `DiscordTasks`, `CliSession` |
| `LegibleCredit` | while every answer could be read, only what passed counts as verified, or what failed where the goal is to expose a bug | `TestEvidence` |
| `SeenIsCurrent` | a file that counts as seen is in the collection as it is in the database, unless the full pass stored older rows of it | `CodeIndex` |
| `RunOrLoop` | a goal is run by a skill, or by the loop, or answered, at most once; by neither when its task could not be queued, and then it fails | `SkillRouting` |
| `BestReturned` | the first of the best drafts is returned, and the critique that ended the loop is of that draft | `CritiqueLoop` |
| `McpServersAgree` | each server that runs is the one its name leads to, and knows the roots set last | `McpHosts` |
| `FillIsTrue` | if what is pinned fits, the context exceeds its budget only by the separators between its parts and the anchor's header, or the separators between passages; and the strip does not fall below what was measured | `ContextFill` |
| `CallsAreSound` | repaired conversations pair calls and results; failover goes on exactly when it may; a streamed answer that is returned was shown to its end | `ModelCalls` |
| `FoldersRight` | tools work in the folders of their turn's chat, mentions lead to what was picked, folders survive a restart, and the answers of the file tools tell the truth | `ClientFolders` |

Each property of a passing run has at least one mutant in `PROJECT.json`: a
changed definition, of a kind a real mistake in that code could be, that breaks
it; a property with several conjuncts has one for each.  Mutants stand before the
definitions they replace.

Deadlock is checked for `MemoryOutbox` and `ReactLoop` (where a finished goal
stutters).  The other systems really come to rest: the client has nothing more
to send, or the bound on turns, calls or goals is reached.

## 4. Bounds, and why they are enough

- `MemoryOutbox` in `loop_and_memory`: two memories, because supersede needs an
  old and a new one; one editing task, because the race of interest is between a
  task and the worker; three writes per document, so that one can fall before
  the find, one between find and mark, and one after; one fault; importances 4
  and 5, so that a boost both raises and meets the cap.  In `services`, for
  liveness, an episode and a memory, so that both collections have a document to
  project, and two writes.
- `ReactLoop`: a budget of two gives a ceiling of four turns, enough for edit,
  test, edit, finish, and for the refunded grace turn; one nudge; two infra
  errors, so that the streak can break; two attempts and one crash, so that a
  checkpoint can be stale or of an earlier attempt.  One tool call per turn: a
  turn of several calls differs only in refunding more than once, which the
  proofs cover for any number.
- `SkillDispatch`: two calls, batches of two and two slots, so that calls meet in
  the inbox, in a batch and at a restart; one fault and one reload, which already
  meet at every step.
- `LoopDetection`: the code's own limits (2, 4, window 6) and histories of
  seven calls, one longer than the window, over two reads, a write and a skill
  load.
- `TurnSignals`: four steers, so that a deferred, a read, and a waiting one can
  exist at once; three goals.
- `TurnGateway`: two turns and one tool each, so that a late answer of the first
  lands in the stream of the second; one of each other frame.
- `WorkerPool`: two goals over two skills and two permits; a budget of three
  reservations, so that a second dispatch meets an exhausted budget and starves.
- `McpBridge`: two calls; the circuit opens at two failures, and three breaks
  reach an open circuit, a reopened session and a further failure.
- `GoalGraph`: up to four subtasks, tried twice each, under a recursion limit of
  21: the limit cuts the turn short when all four fail once, as the code's 25
  does for five subtasks, so the turns the limit loses are among those checked.
  Two turns, because a field either survives a turn or does not.
  `MAX_GOAL_ATTEMPTS`, `MAX_RATE_LIMIT_RETRIES`, `MAX_VERIFY_RETRIES`
  and `MAX_FINALIZE_REVISIONS` are 2, 1, 1 and 1.
- `ContextWindow`: four turns, one kept whole, blocks of two and a view of two,
  so that a compaction has two blocks and the view is shorter than the history;
  one crash or raising call; the budget may cut the turns read at any place.
  `ContextFill`: texts of at most two lines, slots of one to three tokens in a
  budget of six, separators and a header of one token each, and pinned texts that
  leave room, leave none but for a line, and exceed the budget.
- Two of everything that meets its like: connections of `SessionStore`, chats of
  `ChatWindow`, `ClientFolders` and `McpHosts`, requests of `Accounts`, processes
  of `SkillRecords` and `StreamOutbox`, skills of `SkillRouting`, tool ids of
  `TurnView` and calls of `ModelCalls`.  `CodeIndex` has two files with three
  symbols in batches of one, so that a file of two symbols is stored in two
  batches, and two scans.  `CliTurns` has three tasks, because a stream that was
  left early moves the frames of the one after it.
- `Consolidation`: an interval of two and two episodes reach one consolidation
  and its repetition; three facts, an old one, its replacement and a neighbour.
- `CitedPaper`: two lists of three references, one with a key three times and one
  with a key that is made of another's, found by identifier, by title or not at
  all, real or not; one invented key and two sections, so that a section can cite
  what only the other was given.
  `CliSession`: two clients, because every hazard is between two that share the
  files; a default and another workspace, one login and two sessions of which one
  is listed, so that a session can be passed over.
- `Accounts`: three accounts, so that a creation meets one that came before it and
  one that comes while it waits.
- Faults (`MaxFaults`, `MaxCtxFaults`, `MaxRunFaults`, ... ) are one or two per
  behaviour: every place they can strike is tried, two where one fault hides
  another (a failing write of a failure; a token that was lost twice).
- `CritiqueLoop` runs the code's own three rounds with scores 0 to 2;
  `SkillRouting` the code's own three votes and three attempts.

## 5. Fairness

- `MemoryOutbox`: `WF(WorkerNext)`; `OutboxWorker.run` polls for as long as the
  process lives.  Writers and edits owe nothing.
- `ReactLoop`: `WF(LoopNext)` and `WF(Retry)`; every await of the loop has a
  time-out, and the graph's next super-step is not optional.
- `TurnSignals`: `WF(LoopNext)`; nothing is assumed of users or expiries.
- `TurnGateway`: weak fairness for the reader, each relay, the steps of the goal
  loop and the deadline of a request.  Nothing is assumed of the client: it may
  never answer, nor of Redis: it may refuse the `turn.done`.  `TurnsEnd` allows a
  relay to tail for ever after a crash of the orchestrator or a refused
  `turn.done`, and for no other reason (section 7).
- `WorkerPool`: weak fairness for each worker's own steps and for the return of
  the dispatch: what a worker awaits returns or raises, and asyncio hands out
  permits and the lock of the budget in turn.  Nothing gives the budget back when
  workers succeed, so a dispatch may wait for a reservation for ever; `DispatchEnds`
  names that state (`Starved`) and no other.
- `McpBridge`: `WF(OwnerStep)`: a session opens or fails, a served call returns
  or times out, sleeps end.  Nothing is assumed of callers or of the circuit
  being left alone.
- `SkillDispatch` (`FairSpec`): weak fairness of the registry's steps while the
  process lives, of some handler's step, and of reading a batch, exit and start:
  each waits only with a time-out or for a step of another of them, and a
  supervisor starts an ended worker.  Nothing is assumed of faults, reloads and
  callers.
- In `MCServices` a fair action that is enabled in the initial states of its part
  is restricted to the behaviours of that part, or the part that rests would be
  asked to move.

## 6. Proofs

Eight modules prove, for every value of the constants the assumptions allow, each
safety invariant and each action property of the passing runs, and the three
refinements.  A part has an inductive invariant, kept by each of its actions (one
lemma or one step per action), and its properties follow from it; the invariants
were checked with TLC before they were proved.

- `MemoryOutboxProofs`.  The properties speak of the stores only, and say nothing
  of the worker's copies, so they are not inductive.  `IInv` adds that a copy in
  the batch is never newer than its document, never older than the point it will
  replace, and equal to the document unless a write has raced with it; that a
  copy of a closed document implies the document is closed; and that the cursor
  points at a document whose point was just written.  `Refinement` shows every
  step to be a `Write`, a `Refresh` or a stutter of `ProjectedView`.
- `ReactLoopProofs`.  `TurnInv` relates the live turn count to the saved one: the
  saved is never ahead, and what a crash drops is counted in `lost`.
  `EvidenceInv` carries the evidence through the checkpoint: a stored
  `tests_passed` is as real as a live one.
- `SkillDispatchProofs`.  `WayInv` says where a call can be: in the stream once
  and untouched, then with a handler, and asked for wherever it is.  `RanInv`
  says that a result stands for a run, `AckInv` that an acknowledged entry was
  answered, `QueueInv` and `CountInv` that a call in hand or in the inbox is one of
  the `inflight` ones and waits for its answer, so that a reload that has seen none
  in flight restarts under nobody (`ReloadLetsFinish`), `ReloadInv` that a reload
  which found its session open waits for a later subprocess.
  `Refinement`: the router, the stream, the worker and the registry together
  implement `OneShotCall`.
- `ServicesProofs`.  *Gateway*: `CountInv` says that a frame that was read has
  been sent, and counts the turns by the sends of the history and the frames that
  are left; `RelayInv` that the one relay that runs is the active task's, whose
  question was stored last; `WorkInv` that a goal is taken once and emits what it
  asked and one end; `CompactInv` that a compact which is waited for has not been
  answered.  `ConnectionIsConversation` shows every step to be one of
  `Conversation` or a stutter: the open question is the active task while its
  relay runs, a tool is started when its request is forwarded, a result is on its
  way while it lies in the reader's inbox.  `EventsInv` says that the n-th event
  of a task is its n-th request or its end, so that a relay, whose cursor only
  advances, starts no tool twice; `FlowInv` that a call runs or has one result on
  its way, not both; `ToldInv` that the request which is waited for was never told
  anything.  *Signals*: `OrderInv` orders the places a steer can be in (injected,
  deferred, just read, still in Redis), `CancelInv` says that the flag outlives
  the task; after a cancel at most one more model call is made while the key
  stands.  *Pool*: `BatchInv` says that only goals of the running dispatch hold a
  reservation, `Counted` that permits and budget are what the places of the
  workers leave.  *MCP*: `McpInv` says that a call that waits is in the inbox or
  in the session's hands, in one of them and once, so that no future is set twice
  and no call is lost.
- `OrchestratorProofs`.  *Graph*: `GraphInv` says what is known at each node: no
  answer before check finalizes; nothing executed while a question may still be
  asked; after finalization without error only completed subtasks, if there are
  any.  `TermInv` follows a terminal error from the attempt that met it to the end
  of the turn, `AttemptsUsed` the attempts of a subtask that may run again, and
  `StepsInv` counts the super-steps at each node exactly: four for each time a
  goal ran again, besides those of a turn without a retry. *Detector*: `HaltInv`
  says that each call made so far was let pass by the rules, so that a window of
  few signatures would have met one of them.  *Goal loop*: `HandledInv` says what
  of a goal's end has been written at each step, and `VerdictInv` that all of it
  tells the same.  *Process*, *critique*, *routing*, *evidence*: what is open at
  each step of `run`; `BestKept`, the first of the best drafts; what the two votes
  leave to do; `TextInv`, what a run's text can hold.
- `StoreProofs`.  *Index*: `TimeInv` says that a new scan is later than whatever
  is remembered; `FullInv` that the rows the full pass still has to store are
  those of the database but for overtaken files; `PolledInv`, `RowsInv`,
  `PurgeInv` what of a file in the poll's hands is stored.  *Stream*: `HandInv`
  says what of the message in a task's hands was done, `TailInv` that whatever
  lies between the token and a task's place was.  *Sessions*: `TurnsKnown`, and
  that one connection is at work unless two overlapped.  *Records*: `CopyInv`,
  `CountedInv`, `CycleInv`, `StagedInv`: while no counts overlapped, a copy that
  is about to be saved knows every use, and a cycle comes an interval after the
  last that drafted.  *Accounts*: `AttemptsInv`, `CreationInv`.  *Papers*:
  `VerdictsInv` and `KeysDiffer`, that numbering the references with one key makes
  them differ. *Context*: `CtxInv` holds of compactions that overlap: what one
  takes to be in the summary is there (`Relies`), its new text holds what it has
  chosen (`Knows`), and whatever it may still put back holds what every other
  relies on (`InTime`); `HasRead` says the same of a view between its two reads.
  *Facts*: `ConsumerInv`: a fact that is closed without its replacement is the one
  in the consumer's hands, or that of a consumer that died.  *Discord*, *home*:
  what the record, the message and the files hold at each step.
- `ClientProofs`.  *Fill*: sums over texts, by `TokenCount`, stay within the slots.
  *Servers*: `StartingInv`, `LiveReached`: whom a change of roots reaches.
  *Folders*: `StoreInv`, `SavedInv`, `FramesInv`, `WantedInv`, with what the
  normalization of a path keeps.  *Terminal*: `Unbroken` is what no time-out has
  disturbed; while it holds, what is on its way is of the task at work.  *Chats*:
  `ShownInv`, `GivenInv`: the window and what is still on its way make the stored
  history.  *View*: `HeardInv`, `SeenInv`: what the client has shown leads, by the
  events still on their way, to what the relay gathered; `Reaches` is a chain of
  states, one per event.  *Model calls*: `Merged` says what of the conversation is
  in the messages repaired so far (`TextsKept`, `TextsOrdered`), `RequestsCounted`
  how many requests a base and an attempt stand for.
- `AgentProofs`.  A behaviour of the composition is one of each part (`GraphIsPart`,
  ...), so the properties that several parts make up hold in it: `GoalsAreAnswered`,
  `DocumentsAreKept`, `MemoryIsKept`, `ClientsDoAgree`, `LoopsAreBounded`.

The theorems have no hypotheses but the assumptions on constants; what a property
does not cover is said in the property.  `CutShortByRetries` holds for any recursion
limit: a turn without a retry takes six super-steps at most and each goal that runs
again four more, so that LangGraph's default of 25 covers four subtasks of two
attempts and not five.  `StuckIsHalted` speaks of limits that fit the window
(`LimitsFit`: both limits and twice the repeat limit), as the code's defaults (2, 4,
6) do; the code lets the environment set them apart, and with a repeat limit of
three and the same window a stuck model goes on.

The assumptions on constants (`OutboxAssumption`, `GraphAssumption`, ..., one for
each module) say that bounds are naturals, that some are positive, that some sets
are finite or disjoint, and, for importances, that the levels up to the cap have no
gap.  `FillAssumption` says that every line of a text counts at least one token:
`_trim_to_budget` drops empty lines (context_manager.py:155), without which a text
of empty lines could be packed into nothing.

Induction over data is not in the provers' reach as a rule, because the library's
induction theorems take operators.  Where a proof needs it, it goes by the least
number of which a fact fails (`LeastNatural`, `Stepwise`), by functions that are
built from smaller ones (`SumsExist`, `FoldsExist`: the folds over a text, a path
or a conversation are what their first elements make them), or by a chain of
states whose existence is the invariant (`Reaches`).  No module declares a
RECURSIVE operator.

Only model-checked: the liveness properties (`Terminates`, `WorkIsDone`,
`HandlersEnd`, `FailedSkillReturns`), which the prover does not reach, as it does
not reach ENABLED; and the eight counterexamples.

## 7. Disagreements between code and documents

With a run (`findings` in `PROJECT.json` quotes the lines):

- `outbox_lost_reprojection`: `process_once` marks by `_id` alone, so a close or
  a boost between its find and its mark is never projected.
- `react_stale_pass`: a passing test run is not invalidated by a later edit.
- `signals_steer_lost`: a steer read in the turn that defers or injects another
  is deleted and reaches no turn.
- `gateway_wakeup`: `request_local_tool` reads from `$` after it has emitted the
  request, and starts from `$` again after each block, so an answer can be
  passed over.
- `graph_stale_tests`: `run_task` does not reset `tests_passed`.
- `graph_empty_plan`: a decomposition may be empty (graph.py:430), which leaves a
  root without children; it is executed itself, and when it fails for good `check`
  returns without setting `error` (graph.py:911), so the turn is a success.
- `skills_reclaim`: the start of a worker claims the entries of a dead one and
  hands none of them to the handler; `run` reads new entries only, so their
  callers wait for their time-out.
- `evidence_uncredited`: an assertion whose container could not be created is
  answered without an exit code and counted as a verification that passed.

Seen while modelling, and kept out of the runs (a constant, a guard or a comment
of the module named shows each):

*Graph and loop*

- When the verify gate sends a completed child back, `execute` runs it and passes
  over the result because it is marked (graph.py:331), so it stays PENDING and
  runs until the recursion limit.  This is why `RetriesBounded` and
  `CutShortByRetries` are stated for turns in which the gate has sent nothing back.
- `awaiting_clarification` is not reset: the next turn of a session, answered
  directly, shows the old question; decomposed, it ends without executing
  anything.  `QuestionMeansNoWork` covers the second half.  `tools_used` is not
  reset either, so a direct answer is captured with the tools of an earlier turn.
- `_run_had_side_effects` looks at the last artifact only, so an answer can be
  revised after another subtask wrote code.
- `ReactLoop`: a grace turn of refundable calls is refunded and buys ordinary
  turns, though the budget promises "exactly ONE grace turn"; an expose-the-bug
  goal counts as verified when its test passes; the no-progress breaker never
  trips, because only turns with tool calls reach it; a resumed loop does not
  restore the streak of infrastructure errors and the analyses seen.  A deferred
  finish leaves the turn, so the calls after it in the same message get no tool
  message; the analysis guard marks an analysis before its outcome is known.
- `LoopDetection`: the cycle rule can halt a goal at the third identical write
  although writes are to be tolerated to the fourth; and that a stuck goal stops
  within a window depends on the limits' defaults, though each can be set alone.
- `TurnSignals`: the cancel key lives 120 s and a turn that waits for the client's
  tests may take 135 s, so the cancel can expire unseen; `CancelEndsGoal` says so
  (`~cancelKey`).
- `LoopsBounded`: with the default recursion limit of 25, five subtasks that fail
  once are enough to end the turn as failed and to lose what completed.
- `TestEvidence`: the exit code of pytest is dropped, so a run without a summary
  or with all tests deselected is a pass; unmarked failures of Docker, exit 126
  and a missing program are classified as tests that ran and failed.  The client's
  kill after a SIGTERM never comes, since `child.killed` is already set.
- `ModelCalls`: a steer merged into the goal's message changes the prefix its
  docstring calls byte-stable; a stream that breaks leaves its deltas shown while
  the assembled answer is returned; an exception nobody classifies is not failed
  over.
- `CritiqueLoop`: a verdict of "pass" with a lower score returns the best draft
  with the critique of another; the last round's revision is never evaluated; the
  revision of a debate is returned unevaluated although critique_skill.py:440 says
  a lower-scoring one is discarded.
- `CitedPaper`: three references with the keys k, k and ka leave two with the key
  ka, and from the 27th with one key the suffix is no letter; a draft cites the
  caller's key, not the one the validation made of it; `\cite{a,b}` counts as one
  key that nobody has; an arXiv lookup that fails is a mismatch, while a DOI whose
  index does not answer is confirmed by its authors alone; chain_of_density's
  docstring says that the word count must never grow, and only the last summary is
  cut.
- `SkillRouting`: the two votes treat an abstention differently, and
  `_last_reasoning` is shared by all samples and goals.

*Skills and workers*

- `SkillDispatch`: a graceful stop acknowledges calls in flight without a result;
  a publish that fails after its result was set has the result overwritten by
  `internal_error`; a raising `_write_result` on the failing path ends the worker.
- `SkillRegistry`: a request left behind in a session that broke makes a reload
  wait for ever; a reload during opening returns the old process; `supervise` and
  `reload` have no caller outside the tests.
- `WorkerPool`: the cache of loaded skills is the process's, so a later goal is
  told "already_loaded" of a body it never got, which prompt_assembler.py:16 does
  not expect.
- `McpBridge`: calls queued while the circuit is open wait without a bound, and
  one raising call restarts the session under the others.

- `WorkerPool`: a worker that succeeds does not give its reservation back, so the
  budget of the process is spent after some hundreds of goals and every further
  dispatch waits for ever (`Starved`).

*Orchestrator and memory*

- `TurnGateway`: after a crash of the orchestrator the goal it held stays in the
  pending entries, which nobody reads, and the relay tails its events for ever.  It
  does so too when Redis refuses the `turn.done`: `events.emit` swallows the error
  (events.py:117-125) and the goal is acknowledged without it.
- `GoalHandler`: a failing write after a success makes the result "failed" while
  `turn.done` said "complete".
- `OrchestratorRun`: an exception in start-up or in the loop skips the shutdown of
  the bridges; reflections nobody awaits run on after the storage is closed; a
  stop signal during start-up is looked at by the loop only; `main`'s own Redis
  client is never closed.
- `MemoryOutbox` with two tasks and three importances: a boost whose read is
  older than two others writes a lower importance back.
- `StreamOutbox`: a restart drops messages inserted before the first stored token,
  although memory/storage_manager.py:209 says restarts never drop events (`blind`
  marks those messages, and `NothingSkipped` covers the later ones); a raising
  call ends the task while the manager goes on accepting writes.
- `Consolidation`: late or repeated entries consolidate several times at the same
  count, and a burst that passes a multiple skips it, although
  memory_consolidator.py:394 says "only every CONSOLIDATION_INTERVAL episodes"; a
  rejected replacement still has its deletion applied; a raise between the close of
  the old fact and the store of the new one leaves a fact closed for nothing
  (`torn`); a reply that names a fact
  twice gives it two successors.  `consume_tasks` has no caller outside the tests.
- `ContextWindow`: the three compactions share no lock.  One that stores its
  summary over another's, or rolls back behind a watermark that has moved, loses
  turns for good (`raced`); one that comes between the two reads of a prompt hides
  turns from that prompt (`overtaken`).  The recent turns are trimmed to a budget
  of tokens, the oldest first, so a turn can be in neither the summary nor the
  prompt; a later compaction still takes it in.  `compact` ignores the session it
  is sent for; a session's watermark survives its deletion; the comments at
  context_manager.py:616 and 621 promise that an idle gate prevents the race.
- `ContextFill`: "strictly within budget" (context_manager.py:96) is false when
  pinned text alone exceeds it, and by the separators of `as_prompt` and of the
  passages and the header of the anchor, which no slot counts; the carried fill
  never shrinks.
- `CodeIndex`: stale rows the full pass stores after the poll's purge are never
  repaired (`overtaken`); files removed from the database are never purged; a
  collection that is not empty counts as complete.
- `SkillRecords`: the two interfaces of `compute_state` disagree on pinned skills
  and on their ages (14 and 60 days against 30 and 90).

*Gateway and clients*

- `SessionStore`: mongo_session_store.py:212 expects unique numbers; two
  connections that add at once get the same, as does a turn that is added during a
  deletion or after a failed count (`mixed`).
- `Accounts`: overlapping creations give one email two accounts; attempts are
  keyed by the spelling as typed; after the first lock a single failure locks
  again.
- `CliTurns`: after a task that timed out, later tasks show the answer of the one
  before; a closed connection returns an empty answer as ok.
- `CliSession`: `SessionStore.list` reverses the lines and then takes the last of
  them, so "List recent sessions" lists the oldest; each task is recorded as a
  session of its own, so a resumed session is not gone on with; `clear_token`
  removes whatever token is on file, also one that another client has just got; a
  workspaces file torn by a kill is read as empty and replaced by the one workspace
  that is saved next.
- `ChatWindow`: the boot's active chat has no history loaded, and opening it after
  a send appends older turns behind newer ones; an answer that streams while the
  chat is switched away and back is lost.
- `TurnView`: artifacts are not stored and vanish on reopening; a turn is stored by
  the relay alone, so a connection lost during it stores no answer; when the
  stream breaks, what was shown stays the partial text and what is stored is the
  assembled one, against the comment at redis_bridge.py:72; a stop that arrives as
  the turn ends shows an error while "complete" is stored.
- `ClientFolders`: workspaces.json is written in place, so a crash during a save
  loses the folders of every chat; names that begin with two dots are refused.
- `McpHosts`: adding a root to a chat that is not active gives the servers the
  roots of that chat, though main.ts says they follow the active session; a server
  whose list of tools fails stays without tools.
- `DiscordTasks`: a cancel never reaches the orchestrator; an exception before the
  stream leaves the record "running"; a failed goal shows "Task failed" in its
  thread and is recorded and announced as completed (discord_connector.py:367 and
  531), so `RecordFitsThread` compares the record with what is shown only.

## 8. Not modelled

- Workspace records: best-effort files next to a session, which no control
  depends on.
- Prompt assembly, the tool manifest and the classifiers: functions of text whose
  results the models take as any outcome.
- What language models decide: any reply a handler distinguishes is possible.
- Searches and caches of the memory (read only); telemetry other than the skill
  counters.
- The other connectors, which share the shape of the Discord one without its
  cancellation, and the TypeScript programs behind the MCP bridge, which are
  tool handlers without state.
- The skills' own programs other than the critique, the code sandbox, the academic
  writing and the search for symbols.  The refactoring program was considered: it
  works on one project in one process, and what could be said of it holds by the
  shape of a model.
- Evaluation, research and infrastructure: scripts that are started by hand.
- The operations that a component marked `partly` leaves out are named in its
  note in `PROJECT.json`.

## 9. Plan

1. Done: the modules of section 2, three compositions, eight proof modules; every
   safety invariant and action property of the passing runs is a theorem.
2. `AgentTypeOK`, the conjunction of the parts' type invariants, as a theorem: those
   of `SessionStore`, `SkillRecords`, `Accounts`, `CitedPaper` and `ClientFolders`
   are left.
3. A composition of `TurnGateway` with `GoalHandler` over an abstract `Turn`
   (asked, running, answered or given up), which both should refine.
4. An abstract `RetriedCall` for `ModelCalls`: a call is answered or given up, once,
   and after as many attempts as were allowed.
