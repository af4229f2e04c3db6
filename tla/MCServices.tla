------------------------------ MODULE MCServices ------------------------------
(***************************************************************************)
(* One instance of each of the specifications whose properties need        *)
(* fairness, for TLC.  They share no variable, so their product would only *)
(* multiply the states: a behaviour is a behaviour of one part, chosen at  *)
(* the start, while the others stay in their initial states.               *)
(***************************************************************************)
EXTENDS TurnGateway, TurnSignals, WorkerPool, McpBridge

CONSTANTS Episodes, Memories, Editors, Importance, Permanent, MaxVer, MaxFaults

VARIABLES doc, chroma, stream, coll, step, found, cur, task, raced, faults
Outbox == INSTANCE MemoryOutbox WITH Tasks <- Editors, batch <- found
outboxVars == <<doc, chroma, stream, coll, step, found, cur, task, raced, faults>>

VARIABLE part \* the specification whose behaviour this is

Parts == {"gateway", "signals", "pool", "mcp", "outbox"}

servicesVars == <<part, gatewayVars, vars, poolVars, mcpVars, outboxVars>>

ServicesInit ==
    /\ part \in Parts
    /\ GatewayInit /\ Init /\ PoolInit /\ McpInit /\ Outbox!OutboxInit

\* The step is one of part p.
Step(p) ==
    /\ part = p /\ UNCHANGED part
    /\ p # "gateway" => UNCHANGED gatewayVars
    /\ p # "signals" => UNCHANGED vars
    /\ p # "pool" => UNCHANGED poolVars
    /\ p # "mcp" => UNCHANGED mcpVars
    /\ p # "outbox" => UNCHANGED outboxVars

ServicesNext ==
    \/ Step("gateway") /\ GatewaySteps
    \/ Step("signals") /\ Next
    \/ Step("pool") /\ PoolNext
    \/ Step("mcp") /\ McpNext
    \/ Step("outbox") /\ Outbox!OutboxNext

\* The fairness of the parts.  Where a fair action of a part is enabled in its
\* initial states, the fairness is restricted to the behaviours of that part.
ServicesSpec ==
    /\ ServicesInit /\ [][ServicesNext]_servicesVars
    /\ GatewayFairness /\ PoolFairness
    /\ WF_vars(part = "signals" /\ LoopNext)
    /\ WF_mcpVars(part = "mcp" /\ OwnerStep)
    /\ WF_outboxVars(part = "outbox" /\ Outbox!WorkerNext)

ServicesTypeOK ==
    /\ part \in Parts
    /\ GatewayTypeOK /\ TypeOK /\ PoolTypeOK /\ McpTypeOK /\ Outbox!OutboxTypeOK

-----------------------------------------------------------------------------
\* Work that was accepted is done or given back, but for what each part says.  A turn that was
\* begun ends for its client, whatever the gateway's reader waits for meanwhile (server.py), if
\* the orchestrator lives and its turn.done is not lost; a goal that was cancelled stops,
\* whichever step the agent is at (redis_bridge.py, coding_orchestrator.py), if the cancel key
\* still stands; the goals of a dispatch (coding_orchestrator.py) are answered, or the budget is
\* spent; the calls to MCP servers (mcp_client_manager.py) are answered; every write to a memory
\* or an episode is projected, whatever passes fail and wherever the process dies, but for one
\* that a race with the worker has hidden (outbox_worker.py).
WorkIsDone ==
    TurnsEnd /\ CancelEndsGoal /\ DispatchEnds /\ McpCallsEnd /\ Outbox!EveryWriteProjected
=============================================================================
