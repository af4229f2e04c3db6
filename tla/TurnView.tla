------------------------------ MODULE TurnView ------------------------------
(***************************************************************************)
(* One turn as its user sees it.  The orchestrator emits events to a       *)
(* stream (events.py); the relay of the gateway (_relay_task, server.py)   *)
(* makes frames of them and, on its own, the turn that is stored; the      *)
(* desktop's reducer (useLabmateWS.ts) makes the turn that is shown of the *)
(* frames.  Opening the chat later shows the stored one.                   *)
(*                                                                         *)
(* A text is a sequence of pieces: the chunks of the streamed answer are   *)
(* numbered, and piece 0 is the answer assembled without a stream.         *)
(***************************************************************************)
EXTENDS Naturals, SequencesExt

CONSTANTS ToolIds,
          MaxPieces,    \* bound: chunks of an answer
          MaxThoughts,  \* bound: reasoning events
          MaxLag,       \* bound: events, and frames, on their way
          MaxViewFaults \* bound: events that cannot be written, connections that end

ASSUME ViewAssumption ==
    {MaxPieces, MaxThoughts, MaxLag, MaxViewFaults} \subseteq Nat /\ MaxPieces > 0 /\ MaxLag > 0

VARIABLES
    runningTools, \* tools between their tool.start and their tool.done
    usedTools,    \* tools the turn has started
    answered,     \* the pieces emitted so far
    answering,    \* the turn does no more work: it writes its answer, or is over
    thoughts,     \* reasoning events emitted
    eventStream,  \* events written and not yet relayed
    relayAt,      \* whether the relay runs
    relayTurn,    \* what it has gathered for the turn it will store
    viewFrames,   \* frames on their way to the client
    shownTurn,    \* the turn in the client's state
    storedTurn,   \* the turn in the session store, or NotStored
    textLost,     \* history: a chunk was not written, or the stream broke off
    stopped,      \* history: the user stopped the turn
    viewFaults

viewVars == <<runningTools, usedTools, answered, answering, thoughts, eventStream, relayAt,
              relayTurn, viewFrames, shownTurn, storedTurn, textLost, stopped, viewFaults>>

NoTools == <<>>
EmptyTurn == [text |-> <<>>, tools |-> NoTools, reasoning |-> 0, status |-> "streaming"]
NotStored == [status |-> "none"]
Pieces == 0..MaxPieces
ToolRows(open) == Seq([id : ToolIds, status : {open, "done", "error"}])

ViewTypeOK ==
    /\ runningTools \subseteq usedTools /\ usedTools \subseteq ToolIds
    /\ answered \in Seq(Pieces) /\ answering \in {"no", "streaming", "over"}
    /\ thoughts \in 0..MaxThoughts
    /\ relayAt \in {"running", "ended", "cut"} /\ {textLost, stopped} \subseteq BOOLEAN
    /\ relayTurn.text \in Seq(Pieces) /\ relayTurn.tools \in ToolRows("pending")
    /\ shownTurn.text \in Seq(Pieces) /\ shownTurn.tools \in ToolRows("running")
    /\ shownTurn.status \in {"streaming", "complete", "error"}
    /\ storedTurn = NotStored \/ storedTurn.status \in {"complete", "error"}
    /\ viewFaults \in 0..MaxViewFaults

ViewInit ==
    /\ runningTools = {} /\ usedTools = {} /\ answered = <<>> /\ answering = "no"
    /\ thoughts = 0 /\ eventStream = <<>> /\ relayAt = "running" /\ relayTurn = EmptyTurn
    /\ viewFrames = <<>> /\ shownTurn = EmptyTurn /\ storedTurn = NotStored
    /\ textLost = FALSE /\ stopped = FALSE /\ viewFaults = 0

shownSide == <<relayAt, relayTurn, viewFrames, shownTurn, storedTurn, stopped>>
ViewFault == viewFaults < MaxViewFaults /\ viewFaults' = viewFaults + 1
Event(kind, id, status, text) == [kind |-> kind, id |-> id, status |-> status, text |-> text]

-----------------------------------------------------------------------------
(* The orchestrator                                                        *)

\* EventEmitter.emit: an event that cannot be written is passed over.
EmitEvent(e, carriesText) ==
    \/ /\ Len(eventStream) < MaxLag /\ eventStream' = Append(eventStream, e)
       /\ UNCHANGED <<viewFaults, textLost>>
    \/ ViewFault /\ UNCHANGED eventStream /\ textLost' = (textLost \/ carriesText)

Think ==
    /\ answering = "no" /\ thoughts < MaxThoughts /\ thoughts' = thoughts + 1
    /\ EmitEvent(Event("reasoning", "", "", <<>>), FALSE)
    /\ UNCHANGED <<runningTools, usedTools, answered, answering, shownSide>>

\* Each call of a tool has an id of its own; workers call theirs at the same time.
ToolStarts(id) ==
    /\ answering = "no" /\ id \notin usedTools
    /\ usedTools' = usedTools \union {id} /\ runningTools' = runningTools \union {id}
    /\ EmitEvent(Event("tool.start", id, "", <<>>), FALSE)
    /\ UNCHANGED <<answered, answering, thoughts, shownSide>>

ToolEnds(id, status) ==
    /\ answering = "no" /\ id \in runningTools /\ runningTools' = runningTools \ {id}
    /\ EmitEvent(Event("tool.done", id, status, <<>>), FALSE)
    /\ UNCHANGED <<usedTools, answered, answering, thoughts, shownSide>>

\* A chunk of stream_final_answer.
AnswerChunk ==
    /\ answering # "over" /\ runningTools = {} /\ answered # <<0>> /\ Len(answered) < MaxPieces
    /\ answering' = "streaming" /\ answered' = Append(answered, Len(answered) + 1)
    /\ EmitEvent(Event("answer.delta", "", "", <<Len(answered) + 1>>), TRUE)
    /\ UNCHANGED <<runningTools, usedTools, thoughts, shownSide>>

\* The answer or question that is there without a stream is one chunk.
AnswerWhole ==
    /\ answering = "no" /\ runningTools = {} /\ answering' = "streaming"
    /\ answered' = <<0>>
    /\ EmitEvent(Event("answer.delta", "", "", <<0>>), TRUE)
    /\ UNCHANGED <<runningTools, usedTools, thoughts, shownSide>>

TurnOver(status, final) ==
    /\ answering' = "over" /\ UNCHANGED <<runningTools, usedTools, answered, thoughts, shownSide>>
    /\ \/ /\ eventStream' = Append(eventStream, Event("turn.done", "", status, final))
          /\ UNCHANGED viewFaults
       \/ ViewFault /\ UNCHANGED eventStream

\* turn.done carries the whole answer, whose chunks went before it; the turn has failed when
\* the agent's final state has an error.
AnswerEnds(status) ==
    /\ answering = "streaming" /\ TurnOver(status, answered) /\ UNCHANGED textLost

\* The stream broke off or brought no text: the answer is the assembled one.
AnswerBreaks(status) ==
    /\ answering # "over" /\ runningTools = {} /\ answered # <<0>>
    /\ TurnOver(status, <<0>>) /\ textLost' = TRUE

\* The agent raised, with tools it may have left: there is no answer.
TaskRaises ==
    /\ answering = "no" /\ TurnOver("error", <<>>) /\ UNCHANGED textLost

-----------------------------------------------------------------------------
(* The relay                                                               *)

\* Mutant: the end of a tool is kept whether or not its start was seen.
GatherDoneAnyway(turn, e) ==
    IF \E i \in DOMAIN turn.tools : turn.tools[i].id = e.id
    THEN [turn EXCEPT !.tools = [i \in DOMAIN @ |->
              IF @[i].id = e.id THEN [@[i] EXCEPT !.status = e.status] ELSE @[i]]]
    ELSE [turn EXCEPT !.tools = Append(@, [id |-> e.id, status |-> e.status])]

\* tool.done: of a tool whose start was seen.
GatherDone(turn, e) ==
    [turn EXCEPT !.tools = [i \in DOMAIN @ |->
        IF @[i].id = e.id THEN [@[i] EXCEPT !.status = e.status] ELSE @[i]]]

\* The turn with one more event; open is what a tool that runs is called.
Gather(turn, e, open) ==
    CASE e.kind = "answer.delta" -> [turn EXCEPT !.text = @ \o e.text]
      [] e.kind = "tool.start" -> [turn EXCEPT !.tools = Append(@, [id |-> e.id, status |-> open])]
      [] e.kind = "reasoning" -> [turn EXCEPT !.reasoning = @ + 1]
      [] OTHER -> turn

\* translate_event: the reasoning goes to the client in one frame, before turn.done.
FramesOf(e) ==
    IF e.kind = "turn.done" /\ relayTurn.reasoning > 0
    THEN <<[kind |-> "reasoning.done", reasoning |-> relayTurn.reasoning], e>>
    ELSE <<e>>

\* The answer of turn.done, or the chunks when it has none.
StoredAnswer(e) ==
    [relayTurn EXCEPT !.status = e.status, !.text = IF e.text # <<>> THEN e.text ELSE @]

RelayEvent ==
    /\ relayAt = "running" /\ eventStream # <<>> /\ eventStream' = Tail(eventStream)
    /\ Len(viewFrames) < MaxLag
    /\ LET e == Head(eventStream) IN
       /\ viewFrames' = viewFrames \o FramesOf(e)
       /\ IF e.kind = "tool.done" THEN relayTurn' = GatherDone(relayTurn, e)
          ELSE relayTurn' = Gather(relayTurn, e, "pending")
       /\ IF e.kind # "turn.done" THEN UNCHANGED <<relayAt, storedTurn, viewFaults>>
          ELSE /\ relayAt' = "ended"
               /\ \/ storedTurn' = StoredAnswer(e) /\ UNCHANGED viewFaults
                  \/ ViewFault /\ UNCHANGED storedTurn
    /\ UNCHANGED <<runningTools, usedTools, answered, answering, thoughts, shownTurn,
                   textLost, stopped>>

\* The user stops a turn that is not over to them: the relay is cancelled, unless it has ended
\* meanwhile, and either way the client is told that the turn failed.
StopTurn ==
    /\ shownTurn.status = "streaming" /\ ~stopped /\ stopped' = TRUE
    /\ relayAt' = IF relayAt = "running" THEN "cut" ELSE relayAt
    /\ viewFrames' = Append(viewFrames, Event("turn.done", "", "error", <<>>))
    /\ UNCHANGED <<runningTools, usedTools, answered, answering, thoughts, eventStream, relayTurn,
                   shownTurn, storedTurn, textLost, viewFaults>>

\* The connection ends, and with it the relay and what it has gathered.
LoseConnection ==
    /\ relayAt = "running" /\ ViewFault /\ relayAt' = "cut" /\ viewFrames' = <<>>
    /\ UNCHANGED <<runningTools, usedTools, answered, answering, thoughts, eventStream, relayTurn,
                   shownTurn, storedTurn, textLost, stopped>>

-----------------------------------------------------------------------------
(* The client                                                              *)

\* The reducer; a frame of reasoning is not kept, only the one that ends it.
ShowRow ==
    /\ viewFrames # <<>> /\ viewFrames' = Tail(viewFrames)
    /\ LET f == Head(viewFrames) IN
       shownTurn' =
           CASE f.kind = "reasoning.done" -> [shownTurn EXCEPT !.reasoning = f.reasoning]
             [] f.kind = "reasoning" -> shownTurn
             [] f.kind = "turn.done" -> [shownTurn EXCEPT !.status = f.status]
             [] f.kind = "tool.done" ->
                    [shownTurn EXCEPT !.tools = [i \in DOMAIN @ |->
                        IF @[i].id = f.id THEN [@[i] EXCEPT !.status = f.status] ELSE @[i]]]
             [] OTHER -> Gather(shownTurn, f, "running")
    /\ UNCHANGED <<runningTools, usedTools, answered, answering, thoughts, eventStream, relayAt,
                   relayTurn, storedTurn, textLost, stopped, viewFaults>>

ViewNext ==
    \/ Think \/ \E id \in ToolIds : ToolStarts(id) \/ ToolEnds(id, "done") \/ ToolEnds(id, "error")
    \/ AnswerChunk \/ AnswerWhole
    \/ \E status \in {"complete", "error"} : AnswerEnds(status) \/ AnswerBreaks(status)
    \/ TaskRaises \/ RelayEvent \/ StopTurn \/ LoseConnection \/ ShowRow

ViewSpec == ViewInit /\ [][ViewNext]_viewVars

-----------------------------------------------------------------------------
\* The turn the gateway stores and the one the client shows are gathered apart from each other
\* and, over a connection that lasts, end up the same, whatever events were not written: the
\* same tools with the same outcomes and the same reasoning; the same status, unless the user
\* has stopped the turn as it ended; and the same text, unless a chunk of it was lost or its
\* stream broke off.
StoredIsShown ==
    storedTurn # NotStored /\ viewFrames = <<>> =>
        /\ Len(storedTurn.tools) = Len(shownTurn.tools)
        /\ \A i \in DOMAIN storedTurn.tools :
               LET stored == storedTurn.tools[i] IN
               shownTurn.tools[i] =
                   [stored EXCEPT !.status = IF @ = "pending" THEN "running" ELSE @]
        /\ storedTurn.reasoning = shownTurn.reasoning
        /\ stopped \/ storedTurn.status = shownTurn.status
        /\ textLost \/ storedTurn.text = shownTurn.text
=============================================================================
