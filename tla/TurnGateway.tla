---------------------------- MODULE TurnGateway ----------------------------
(***************************************************************************)
(* One client connection, from the WebSocket to the orchestrator and back: *)
(* the gateway's single reader coroutine and its relay tasks               *)
(* (ws_gateway/server.py), the Redis streams between the two processes     *)
(* (redis_bridge.py), the orchestrator's sequential goal loop (main.py)    *)
(* and the round trip of a tool that runs on the client's machine          *)
(* (orchestrator/local_tools.py).                                          *)
(*                                                                         *)
(* The reader takes one frame at a time: while it awaits the relay of the  *)
(* turn before, or the answer to a compact, every later frame waits.  Task *)
(* n is the n-th turn of the open session; a request is <<task, number>>.  *)
(* The stream of results is read from "$": a reader sees what is appended  *)
(* while its XREAD blocks, and nothing older.                              *)
(***************************************************************************)
EXTENDS Naturals, Sequences, FiniteSets

CONSTANTS
  MaxSends,    \* bound: messages the user sends
  MaxRequests, \* bound: client-side tools one turn asks for
  MaxCancels,  \* bound: cancel frames
  MaxCompacts, \* bound: compact frames
  MaxCrashes,  \* bound: crashes of the orchestrator
  MayLeave     \* the client may drop the connection

ASSUME GatewayAssumption ==
  /\ {MaxSends, MaxRequests, MaxCancels, MaxCompacts, MaxCrashes} \subseteq Nat
  /\ MayLeave \in BOOLEAN

VARIABLES
  sends, cancels, compacts, \* client: frames sent so far
  running,      \* client: requests its tools are executing
  inbox,        \* gateway: frames the reader has not taken yet
  connected,    \* gateway: the WebSocket is open
  serving,      \* gateway: _ws_loop has not ended
  activeTask,   \* gateway: the task of active_task_id and of relay, or NoTask
  relay,        \* gateway: task -> what its relay does
  cursor,       \* gateway: task -> events its relay has forwarded
  compact,      \* gateway: the step of the compact the reader is busy with
  compactId,    \* gateway: the compact frames read so far
  listening,    \* gateway: it is subscribed to the result of that compact
  history,      \* session store: the turns, as <<role, task>>
  goalStream,   \* Redis: entries of the goals stream not delivered yet
  events,       \* Redis: task -> entries of its event stream
  resultStream, \* Redis: task -> requests its result stream holds a frame for
  stored,       \* Redis: compacts whose result key is set
  orch,         \* orchestrator: what _handle is doing
  asked,        \* orchestrator: requests the current turn has made
  outcome,      \* history: request -> how request_local_tool ended
  crashes,      \* crashes of the orchestrator so far
  unsaid        \* history: the tasks whose turn.done Redis refused

client == <<sends, cancels, compacts, running>>
compacting == <<compact, compactId, listening>>
connection == <<connected, serving>>
relays == <<relay, cursor>>
gateway == <<inbox, connection, activeTask, relays, compacting, history>>
streams == <<goalStream, events, resultStream, stored>>
orchestrator == <<orch, asked, outcome, crashes, unsaid>>
gatewayVars == <<client, gateway, streams, orchestrator>>

Tasks == 1 .. MaxSends
NoTask == 0
Compacts == 1 .. MaxCompacts
Requests == Tasks \X (1 .. MaxRequests)

SendFrame == [type |-> "send"]
CancelFrame == [type |-> "cancel"]
CompactFrame == [type |-> "compact"]
ResultFrame(r) == [type |-> "tool.result", request |-> r]
Frames == {SendFrame, CancelFrame, CompactFrame} \cup {ResultFrame(r) : r \in Requests}

TaskGoal(t) == [kind |-> "task", task |-> t]
CompactGoal(c) == [kind |-> "compact", id |-> c]
GoalEntries == {CompactGoal(c) : c \in Compacts} \cup {TaskGoal(t) : t \in Tasks}

RequestEvent(r) == [type |-> "tool.request", request |-> r]
DoneEvent == [type |-> "turn.done"]
EventsOf(t) == {DoneEvent} \cup {RequestEvent(<<t, n>>) : n \in 1 .. MaxRequests}

Idle == [step |-> "idle"]
Compacting(c) == [step |-> "compacting", id |-> c]
Working(t) == [step |-> "working", task |-> t]
Unread(r) == [step |-> "unread", task |-> r[1], request |-> r]
ReadingFrom(r) == [step |-> "reading", task |-> r[1], request |-> r]
Following(r) == [step |-> "following", task |-> r[1], request |-> r]
Waits(r) == {Unread(r), ReadingFrom(r), Following(r)}
OrchStates ==
  {Idle} \cup {Compacting(c) : c \in Compacts} \cup {Working(t) : t \in Tasks}
         \cup UNION {Waits(r) : r \in Requests}

GatewayTypeOK ==
  /\ sends \in 0 .. MaxSends /\ cancels \in 0 .. MaxCancels
  /\ compacts \in 0 .. MaxCompacts /\ running \subseteq Requests
  /\ inbox \in Seq(Frames)
  /\ {connected, serving, listening} \subseteq BOOLEAN
  /\ activeTask \in Tasks \cup {NoTask}
  /\ relay \in [Tasks -> {"none", "running", "done", "cancelled", "broken"}]
  /\ cursor \in [Tasks -> 0 .. MaxRequests + 1]
  /\ compact \in {"none", "begun", "waiting", "answered"}
  /\ compactId \in 0 .. MaxCompacts
  /\ history \in Seq({"user", "assistant"} \X Tasks)
  /\ goalStream \in Seq(GoalEntries)
  /\ events \in [Tasks -> Seq(UNION {EventsOf(t) : t \in Tasks})]
  /\ \A t \in Tasks : events[t] \in Seq(EventsOf(t)) /\ Len(events[t]) <= MaxRequests + 1
  /\ resultStream \in [Tasks -> SUBSET Requests]
  /\ stored \subseteq Compacts
  /\ orch \in OrchStates
  /\ asked \in 0 .. MaxRequests
  /\ outcome \in [Requests -> {<<"none">>, <<"timeout">>} \cup Requests]
  /\ crashes \in 0 .. MaxCrashes
  /\ unsaid \subseteq Tasks

GatewayInit ==
  /\ sends = 0 /\ cancels = 0 /\ compacts = 0 /\ running = {}
  /\ inbox = <<>> /\ connected = TRUE /\ serving = TRUE
  /\ activeTask = NoTask
  /\ relay = [t \in Tasks |-> "none"] /\ cursor = [t \in Tasks |-> 0]
  /\ compact = "none" /\ compactId = 0 /\ listening = FALSE
  /\ history = <<>>
  /\ goalStream = <<>> /\ events = [t \in Tasks |-> <<>>]
  /\ resultStream = [t \in Tasks |-> {}] /\ stored = {}
  /\ orch = Idle /\ asked = 0
  /\ outcome = [r \in Requests |-> <<"none">>]
  /\ crashes = 0 /\ unsaid = {}

-----------------------------------------------------------------------------
(* The client.                                                             *)

Submit(frame) ==
  /\ connected
  /\ inbox' = Append(inbox, frame)
  /\ UNCHANGED <<connection, activeTask, relays, compacting, history, streams, orchestrator>>

ClientSends ==
  /\ sends < MaxSends
  /\ sends' = sends + 1
  /\ Submit(SendFrame)
  /\ UNCHANGED <<cancels, compacts, running>>

ClientCancels ==
  /\ cancels < MaxCancels
  /\ cancels' = cancels + 1
  /\ Submit(CancelFrame)
  /\ UNCHANGED <<sends, compacts, running>>

ClientCompacts ==
  /\ compacts < MaxCompacts
  /\ compacts' = compacts + 1
  /\ Submit(CompactFrame)
  /\ UNCHANGED <<sends, cancels, running>>

\* A tool has run on the user's machine; its result is sent back.
ClientAnswers ==
  \E r \in running :
    /\ running' = running \ {r}
    /\ Submit(ResultFrame(r))
    /\ UNCHANGED <<sends, cancels, compacts>>

\* The connection drops; the frames received before are still read.
Leave ==
  /\ MayLeave /\ connected
  /\ connected' = FALSE
  /\ running' = {}
  /\ UNCHANGED <<sends, cancels, compacts, inbox, serving, activeTask, relays, compacting,
                 history, streams, orchestrator>>

-----------------------------------------------------------------------------
(* The gateway's reader: _ws_loop.                                         *)

\* The reader is not busy with a compact, and takes this frame next.
ReadsFrame(frame) ==
  /\ serving /\ compact = "none"
  /\ inbox # <<>> /\ Head(inbox) = frame
  /\ inbox' = Tail(inbox)

\* A send_json on a closed connection may raise, and that ends the reader.
Replies == serving' \in {TRUE, connected}

\* receive_json raises once the connection is closed and its frames are read.
ReaderEnds ==
  /\ serving /\ ~connected /\ compact = "none" /\ inbox = <<>>
  /\ serving' = FALSE
  /\ UNCHANGED <<client, inbox, connected, activeTask, relays, compacting, history, streams,
                 orchestrator>>

RelayRuns == activeTask # NoTask /\ relay[activeTask] = "running"

NextTask == 1 + Cardinality({i \in DOMAIN history : history[i][1] = "user"})

\* The user's turn is stored, then turns are announced, then the goal is pushed
\* and the relay started: a broken connection leaves a turn without a goal.
HandleSend ==
  /\ ReadsFrame(SendFrame)
  /\ Replies
  /\ history' = Append(history, <<"user", NextTask>>)
  /\ IF serving'
     THEN /\ goalStream' = Append(goalStream, TaskGoal(NextTask))
          /\ activeTask' = NextTask
          /\ relay' = [relay EXCEPT ![NextTask] = "running"]
     ELSE UNCHANGED <<goalStream, activeTask, relay>>
  /\ UNCHANGED <<client, connected, cursor, compacting, events, resultStream, stored,
                 orchestrator>>

\* Mutant: the relay of the turn before is not awaited.
ReadSendNoAwait == HandleSend

\* The relay of the turn before is awaited first.
ReadSend == ~RelayRuns /\ HandleSend

Requested == orch.step \in {"unread", "reading", "following"}

\* Mutant: any frame in the stream is taken for the answer awaited.
MatchesAny(r) == orch.step \in {"reading", "following"} /\ activeTask = orch.task

\* The XREAD on this stream returns the frame of the request awaited.
Matches(r) ==
  orch.step \in {"reading", "following"} /\ activeTask = orch.task /\ r = orch.request

\* A frame of another request moves the XREAD off "$".
PassesOver(r) == orch.step = "reading" /\ activeTask = orch.task /\ r # orch.request

\* write_tool_result: the frame goes to the stream of the active task, whatever
\* task asked for it.
ReadResult ==
  \E r \in Requests :
    /\ ReadsFrame(ResultFrame(r))
    /\ resultStream' = IF activeTask = NoTask THEN resultStream
                  ELSE [resultStream EXCEPT ![activeTask] = @ \cup {r}]
    /\ orch' = CASE Matches(r) -> Working(orch.task)
                 [] PassesOver(r) /\ ~Matches(r) -> Following(orch.request)
                 [] OTHER -> orch
    /\ outcome' = IF Matches(r) THEN [outcome EXCEPT ![orch.request] = r] ELSE outcome
    /\ UNCHANGED <<client, connection, activeTask, relays, compacting, history, goalStream, events,
                   stored, asked, crashes, unsaid>>

\* Mutant: the relay goes on after a cancel.
ReadCancelRelays ==
  /\ ReadsFrame(CancelFrame)
  /\ Replies
  /\ activeTask' = NoTask
  /\ UNCHANGED <<client, connected, relays, compacting, history, streams, orchestrator>>

\* relay.cancel(), then the cancel key (TurnSignals models what that does).
ReadCancel ==
  /\ ReadsFrame(CancelFrame)
  /\ Replies
  /\ activeTask' = NoTask
  /\ relay' = IF RelayRuns THEN [relay EXCEPT ![activeTask] = "cancelled"] ELSE relay
  /\ UNCHANGED <<client, connected, cursor, compacting, history, streams, orchestrator>>

\* The two steps before a compact waits: FALSE, FALSE -> subscribe, push.
Begin(subscribes) ==
  /\ ReadsFrame(CompactFrame)
  /\ compact' = "begun" /\ compactId' = compactId + 1
  /\ listening' = subscribes
  /\ goalStream' = IF subscribes THEN goalStream ELSE Append(goalStream, CompactGoal(compactId'))
  /\ UNCHANGED <<client, connection, activeTask, relays, history, events, resultStream, stored,
                 orchestrator>>

Proceed(pushes) ==
  /\ compact = "begun"
  /\ compact' = "waiting" /\ listening' = TRUE
  /\ goalStream' = IF pushes THEN Append(goalStream, CompactGoal(compactId)) ELSE goalStream
  /\ UNCHANGED <<client, inbox, connection, activeTask, relays, compactId, history, events,
                 resultStream, stored, orchestrator>>

\* Mutant: the goal is pushed before the subscription.
StartCompactPushFirst == Begin(FALSE) \/ Proceed(FALSE)

\* "Subscribe BEFORE pushing to goals so we never miss the PUBLISH"
StartCompact == Begin(TRUE) \/ Proceed(TRUE)

\* The published answer, or 60 s, ends the wait; the reader tells the client.
EndCompact ==
  /\ compact' = "none" /\ listening' = FALSE
  /\ Replies
  /\ UNCHANGED <<client, inbox, connected, activeTask, relays, compactId, history, streams,
                 orchestrator>>

CompactAnswered == compact = "answered" /\ EndCompact
CompactTimeout == compact = "waiting" /\ EndCompact

-----------------------------------------------------------------------------
(* The relay of a task: _relay_task over tail_task_events.                 *)

HasEvent(t) == relay[t] = "running" /\ cursor[t] < Len(events[t])
NextEvent(t) == events[t][cursor[t] + 1]

\* The client starts the tool.
RelayRequest(t) ==
  /\ HasEvent(t) /\ NextEvent(t) # DoneEvent
  /\ cursor' = [cursor EXCEPT ![t] = @ + 1]
  /\ running' = IF connected THEN running \cup {NextEvent(t).request} ELSE running
  /\ UNCHANGED <<sends, cancels, compacts, inbox, connection, activeTask, relay, compacting,
                 history, streams, orchestrator>>

\* turn.done is forwarded, the assistant's turn stored, and the relay ends.
RelayDone(t) ==
  /\ HasEvent(t) /\ NextEvent(t) = DoneEvent
  /\ cursor' = [cursor EXCEPT ![t] = @ + 1]
  /\ relay' = [relay EXCEPT ![t] = "done"]
  /\ history' = Append(history, <<"assistant", t>>)
  /\ UNCHANGED <<client, inbox, connection, activeTask, compacting, streams, orchestrator>>

\* A send on a closed connection raises in the relay, and through the await in
\* a reader that waits for it.
RelayBreaks(t) ==
  /\ HasEvent(t) /\ ~connected
  /\ relay' = [relay EXCEPT ![t] = "broken"]
  /\ serving' \in {serving, serving /\ ~(inbox # <<>> /\ Head(inbox) = SendFrame)}
  /\ UNCHANGED <<client, inbox, connected, activeTask, cursor, compacting, history, streams,
                 orchestrator>>

RelayStep == \E t \in Tasks : RelayRequest(t) \/ RelayDone(t) \/ RelayBreaks(t)

-----------------------------------------------------------------------------
(* The orchestrator: _loop, _handle and request_local_tool.                *)

Take ==
  /\ orch = Idle /\ goalStream # <<>>
  /\ goalStream' = Tail(goalStream)
  /\ orch' = IF Head(goalStream).kind = "compact" THEN Compacting(Head(goalStream).id)
             ELSE Working(Head(goalStream).task)
  /\ asked' = 0
  /\ UNCHANGED <<client, gateway, events, resultStream, stored, outcome, crashes, unsaid>>

\* full_compact, then SET and PUBLISH; only a subscriber hears it.
Compact ==
  /\ orch.step = "compacting"
  /\ stored' = stored \cup {orch.id}
  /\ orch' = Idle
  /\ compact' = IF listening /\ compactId = orch.id /\ compact = "waiting"
                THEN "answered" ELSE compact
  /\ UNCHANGED <<client, inbox, connection, activeTask, relays, compactId, listening,
                 history, goalStream, events, resultStream, asked, outcome, crashes, unsaid>>

\* tool.request is emitted before the first XREAD.  One that Redis refuses is known to
\* its caller only, who waits and is told of a time-out: that only delays the turn.
Request ==
  /\ orch.step = "working" /\ asked < MaxRequests
  /\ asked' = asked + 1
  /\ events' = [events EXCEPT ![orch.task] = Append(@, RequestEvent(<<orch.task, asked'>>))]
  /\ orch' = Unread(<<orch.task, asked'>>)
  /\ UNCHANGED <<client, gateway, goalStream, resultStream, stored, outcome, crashes, unsaid>>

StartRead ==
  /\ orch.step = "unread"
  /\ orch' = ReadingFrom(orch.request)
  /\ UNCHANGED <<client, gateway, streams, asked, outcome, crashes, unsaid>>

\* The XREAD blocks 5 s at most; the next one starts from "$" again.
BlockEnds ==
  /\ orch.step = "reading"
  /\ orch' = Unread(orch.request)
  /\ UNCHANGED <<client, gateway, streams, asked, outcome, crashes, unsaid>>

\* Mutant: the wait has no deadline.
TimeoutNever == FALSE /\ UNCHANGED gatewayVars

\* The deadline passes; the loop is told of the TimeoutError and goes on.
Timeout ==
  /\ Requested
  /\ outcome' = [outcome EXCEPT ![orch.request] = <<"timeout">>]
  /\ orch' = Working(orch.task)
  /\ UNCHANGED <<client, gateway, streams, asked, crashes, unsaid>>

\* Mutant: the except clause emits turn.done, and the finally clause again.
FinishTwice ==
  /\ orch.step = "working"
  /\ events' = [events EXCEPT ![orch.task] = @ \o <<DoneEvent, DoneEvent>>]
  /\ orch' = Idle
  /\ UNCHANGED <<client, gateway, goalStream, resultStream, stored, asked, outcome, crashes, unsaid>>

\* The turn ends, for whatever reason: the finally clause emits turn.done.
Finish ==
  /\ orch.step = "working"
  /\ events' = [events EXCEPT ![orch.task] = Append(@, DoneEvent)]
  /\ orch' = Idle
  /\ UNCHANGED <<client, gateway, goalStream, resultStream, stored, asked, outcome, crashes, unsaid>>

\* Redis refuses the event, which emit swallows: the goal is acknowledged all the same, and
\* nothing ever ends the relay's wait.
FinishUnheard ==
  /\ orch.step = "working"
  /\ unsaid' = unsaid \cup {orch.task}
  /\ orch' = Idle
  /\ UNCHANGED <<client, gateway, streams, asked, outcome, crashes>>

\* The process dies and restarts: _loop reads ">" only, so that the goal, which
\* was delivered and not acknowledged, is not read again.
Crash ==
  /\ orch # Idle /\ crashes < MaxCrashes
  /\ crashes' = crashes + 1
  /\ orch' = Idle
  /\ UNCHANGED <<client, gateway, streams, asked, outcome, unsaid>>

-----------------------------------------------------------------------------
ClientNext == ClientSends \/ ClientCancels \/ ClientCompacts \/ ClientAnswers \/ Leave
ReaderNext ==
  \/ ReaderEnds \/ ReadSend \/ ReadResult \/ ReadCancel
  \/ StartCompact \/ CompactAnswered \/ CompactTimeout
OrchNext == Take \/ Compact \/ StartRead \/ Finish

GatewaySteps ==
  ClientNext \/ ReaderNext \/ RelayStep \/ OrchNext \/ Request \/ BlockEnds \/ Timeout \/ Crash
  \/ FinishUnheard

GatewaySpec == GatewayInit /\ [][GatewaySteps]_gatewayVars

\* Each task of an event loop runs when it can, and the deadlines do pass.
\* Nothing is assumed of the client, nor of which requests a turn makes.
GatewayFairness ==
  /\ WF_gatewayVars(ReaderNext) /\ WF_gatewayVars(OrchNext) /\ WF_gatewayVars(Timeout)
  /\ \A t \in Tasks : WF_gatewayVars(RelayRequest(t) \/ RelayDone(t) \/ RelayBreaks(t))
GatewayFairSpec == GatewaySpec /\ GatewayFairness

-----------------------------------------------------------------------------
(* Properties                                                              *)

\* "one turn at a time": whatever is sent, cancelled or lost, an assistant's
\* turn in the store directly follows the user's turn it answers, once.
HistoryInOrder ==
  \A i \in 1 .. Len(history) :
    history[i][1] = "assistant" => i > 1 /\ history[i - 1] = <<"user", history[i][2]>>

\* A request returns its own answer or times out, although late answers of a
\* cancelled turn land in the stream of the next one.
OwnAnswer == \A r \in Requests : outcome[r] \in {<<"none">>, <<"timeout">>, r}

\* The open question is the active task while its relay runs; a tool is started when its request
\* is forwarded; a result is on its way until the reader has taken it.
Talk == INSTANCE Conversation WITH
  Calls <- Requests,
  said <- history,
  open <- IF RelayRuns THEN activeTask ELSE NoTask,
  started <- {r \in Requests :
                \E i \in 1 .. cursor[r[1]] : events[r[1]][i] = RequestEvent(r)},
  busy <- running,
  results <- {r \in Requests : \E i \in DOMAIN inbox : inbox[i] = ResultFrame(r)},
  told <- outcome

\* "Stop the relay task so no more events flow to the client", "one turn at a time": the
\* connection is a conversation.  A tool starts on the user's machine once, for the open question,
\* never for a cancelled one, and its caller is told once, of a result that tool had.
ImplementsConversation == Talk!Spec

\* "so we never miss the PUBLISH": a compact times out only when the
\* orchestrator has not answered it.
CompactNeverMissed ==
  [][compact = "waiting" /\ compact' = "none" => compactId \notin stored]_gatewayVars

\* The cycle of waits (reader for relay, relay for turn.done, orchestrator for a result that
\* lies in the inbox behind the send) is always broken: a relay ends and the inbox is read, as
\* long as the orchestrator did not die and no turn.done was lost.  After either the relay
\* tails its events for ever, and a send behind it stops the reader, cancels included.
TurnsEnd ==
  /\ \A t \in Tasks :
       relay[t] = "running" ~> relay[t] # "running" \/ crashes > 0 \/ t \in unsaid
  /\ inbox # <<>> ~> inbox = <<>> \/ ~serving \/ crashes > 0 \/ unsaid # {}

\* "Raises TimeoutError if no matching result arrives within `timeout`."
TimeoutMeansNoAnswer ==
  [][\A r \in Requests :
       outcome[r] = <<"none">> /\ outcome'[r] = <<"timeout">> => r \notin resultStream[r[1]]]_gatewayVars
=============================================================================
