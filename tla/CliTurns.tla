------------------------------ MODULE CliTurns ------------------------------
(***************************************************************************)
(* The terminal client (cli/repl.py, ws_client.py, event_stream.py): one   *)
(* task at a time over one WebSocket.  Each task gets a new event stream,  *)
(* but all streams read the same socket and none looks at a frame's turn.  *)
(* If a frame arrives within two seconds of the send, frames are rendered  *)
(* and client-side tools run until turn.done; if none does, frames are only*)
(* collected, and only for so long.                                        *)
(*                                                                         *)
(* The gateway is here as far as the client sees it: a send waits for the  *)
(* turn before, and a turn asks for at most one tool.                      *)
(***************************************************************************)
EXTENDS Naturals, Sequences

CONSTANTS MaxTasks, \* bound: tasks typed
          MayDrop   \* whether the connection may be lost

ASSUME CliAssumption == MaxTasks \in Nat /\ MayDrop \in BOOLEAN

VARIABLES
    cli,       \* where the client is in its current task
    tasks,     \* tasks sent so far; the last one is current
    collected, \* tasks whose answers are among the stream's _events
    ended,     \* the tasks whose turn.done the client has taken
    taskResult,\* what get_result returned for each task
    uplink,    \* frames on their way to the gateway
    downlink,  \* frames on their way to the client
    relaying,      \* the turn the gateway relays: its task and how far it is
    booting,   \* the gateway has yet to send its boot frames
    linked     \* the connection is up

cliVars == <<cli, tasks, collected, ended, taskResult, uplink, downlink, relaying, booting, linked>>

TaskIds == 1..MaxTasks
Outcomes == [is : {"none", "ok", "timeout", "raised"}, answers : SUBSET TaskIds]
Frame(t, k) == [task |-> t, kind |-> k]
Downward == [task : 0..MaxTasks, kind : {"boot", "created", "request", "answer", "done"}]
Upward == [task : TaskIds, kind : {"send", "result"}]
Unrelayed == [task |-> 0, at |-> "none"]

CliTypeOK ==
    /\ cli \in {"prompt", "first", "live", "slow"}
    /\ tasks \in 0..MaxTasks
    /\ collected \subseteq TaskIds /\ ended \subseteq TaskIds
    /\ taskResult \in [TaskIds -> Outcomes]
    /\ uplink \in Seq(Upward) /\ downlink \in Seq(Downward)
    /\ relaying \in [task : 0..MaxTasks, at : {"none", "working", "asking", "resumed", "answered"}]
    /\ booting \in BOOLEAN /\ linked \in BOOLEAN

\* connect has sent the token and read one frame; boot frames are still to come.
CliInit ==
    /\ cli = "prompt" /\ tasks = 0 /\ collected = {} /\ ended = {}
    /\ taskResult = [t \in TaskIds |-> [is |-> "none", answers |-> {}]]
    /\ uplink = <<>> /\ downlink = <<>> /\ relaying = Unrelayed
    /\ booting = TRUE /\ linked = TRUE

Streaming == cli # "prompt"
gatewaySide == <<relaying, booting, linked>>

-----------------------------------------------------------------------------
(* The client.                                                             *)

\* _send_task: a new stream on the old socket.
SendTask ==
    /\ cli = "prompt" /\ tasks < MaxTasks /\ linked
    /\ tasks' = tasks + 1 /\ collected' = {} /\ cli' = "first"
    /\ uplink' = Append(uplink, Frame(tasks + 1, "send"))
    /\ UNCHANGED <<ended, taskResult, downlink, gatewaySide>>

Returns(what, answers) ==
    /\ taskResult' = [taskResult EXCEPT ![tasks] = [is |-> what, answers |-> answers]]
    /\ cli' = "prompt"

\* Mutant: the stream ends with the answer.
EndsStreamAtAnswer(f) == f.kind \in {"answer", "done"}

\* A frame ends the stream whatever turn it belongs to.
EndsStream(f) == f.kind = "done"

\* Once a first frame has come in time, tool requests are executed and answered; on
\* the slow path they are only collected.
RunsTool(f) == f.kind = "request" /\ cli # "slow"

\* A frame is taken from the socket, by first or by events.
TakeFrame ==
    /\ Streaming /\ downlink # <<>>
    /\ LET f == Head(downlink)
           answers == IF f.kind = "answer" THEN collected \union {f.task} ELSE collected
       IN /\ collected' = answers
          /\ ended' = IF f.kind = "done" THEN ended \union {f.task} ELSE ended
          /\ CASE EndsStream(f) -> Returns("ok", answers)
               [] RunsTool(f) /\ ~linked -> Returns("raised", {})
               [] OTHER -> cli' = (IF cli = "slow" THEN "slow" ELSE "live") /\ UNCHANGED taskResult
          /\ uplink' = IF RunsTool(f) /\ linked
                       THEN Append(uplink, Frame(f.task, "result")) ELSE uplink
    /\ downlink' = Tail(downlink)
    /\ UNCHANGED <<tasks, gatewaySide>>

\* Nothing came for two seconds: spinner, and get_result drains the stream.
FirstTimesOut ==
    /\ cli = "first" /\ downlink = <<>>
    /\ cli' = "slow"
    /\ UNCHANGED <<tasks, collected, ended, taskResult, uplink, downlink, gatewaySide>>

\* get_result gives up; the frames of the turn will still come.
ResultTimesOut ==
    /\ cli = "slow"
    /\ Returns("timeout", {})
    /\ UNCHANGED <<tasks, collected, ended, uplink, downlink, gatewaySide>>

\* recv raises: the stream ends, and its result is that of a complete turn.
StreamClosed ==
    /\ Streaming /\ ~linked /\ downlink = <<>>
    /\ Returns("ok", collected)
    /\ UNCHANGED <<tasks, collected, ended, uplink, downlink, gatewaySide>>

-----------------------------------------------------------------------------
(* The gateway's connection.                                               *)

clientSide == <<cli, tasks, collected, ended, taskResult>>

SendBoot ==
    /\ linked /\ booting /\ booting' = FALSE
    /\ downlink' = Append(downlink, Frame(0, "boot"))
    /\ UNCHANGED <<clientSide, uplink, relaying, linked>>

\* The reader: a send waits for the relay before it, and all frames behind it wait.
ReadFrame ==
    /\ linked /\ ~booting /\ uplink # <<>>
    /\ LET f == Head(uplink)
       IN \/ /\ f.kind = "send" /\ relaying = Unrelayed
             /\ relaying' = [task |-> f.task, at |-> "working"]
             /\ downlink' = Append(downlink, Frame(f.task, "created"))
          \/ /\ f.kind = "result"
             /\ relaying' = IF relaying = [task |-> f.task, at |-> "asking"]
                        THEN [relaying EXCEPT !.at = "resumed"] ELSE relaying
             /\ UNCHANGED downlink
    /\ uplink' = Tail(uplink)
    /\ UNCHANGED <<clientSide, booting, linked>>

Relays(from, kind, to) ==
    /\ linked /\ relaying.at \in from
    /\ downlink' = Append(downlink, Frame(relaying.task, kind))
    /\ relaying' = IF to = "none" THEN Unrelayed ELSE [relaying EXCEPT !.at = to]
    /\ UNCHANGED <<clientSide, uplink, booting, linked>>

RelayToolRequest == Relays({"working"}, "request", "asking")
RelayAnswer == Relays({"working", "resumed"}, "answer", "answered")
RelayTurnDone == Relays({"answered"}, "done", "none")

\* The orchestrator has waited long enough for the tool's result.
ToolTimesOut ==
    /\ relaying.at = "asking" /\ relaying' = [relaying EXCEPT !.at = "resumed"]
    /\ UNCHANGED <<clientSide, uplink, downlink, booting, linked>>

ConnectionLost ==
    /\ MayDrop /\ linked /\ linked' = FALSE
    /\ UNCHANGED <<clientSide, uplink, downlink, relaying, booting>>

ClientSteps == TakeFrame \/ FirstTimesOut \/ StreamClosed
GatewayStep == SendBoot \/ ReadFrame \/ RelayToolRequest \/ RelayAnswer \/ RelayTurnDone
                 \/ ToolTimesOut

CliNext == SendTask \/ ClientSteps \/ ResultTimesOut \/ GatewayStep \/ ConnectionLost

CliSpec == CliInit /\ [][CliNext]_cliVars

-----------------------------------------------------------------------------

\* While the connection is up and until a task is given up, the answer shown for a
\* task is made of the frames of its own turn, which has ended.
OwnResult ==
    linked => \A t \in TaskIds :
        (taskResult[t].is = "ok" /\ \A u \in 1..(t - 1) : taskResult[u].is = "ok")
            => taskResult[t].answers = {t} /\ t \in ended
=============================================================================
