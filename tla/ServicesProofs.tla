---------------------------- MODULE ServicesProofs --------------------------
(***************************************************************************)
(* The parts that TLC checks together as MCServices, for every value of    *)
(* their constants: what a connection of the gateway keeps apart, in which *)
(* order steers reach the model, what the pool of workers counts, and that *)
(* a call to an MCP server is answered once.                               *)
(***************************************************************************)
EXTENDS TurnGateway, TurnSignals, WorkerPool, McpBridge, FiniteSetTheorems, FunctionTheorems,
        SequenceTheorems, TLAPS

-----------------------------------------------------------------------------
(***************************************************************************)
(* The connection keeps its turns, its requests and its compacts apart, for *)
(* any number of messages, requests, cancels, compacts and crashes.        *)
(*                                                                         *)
(* The invariant follows what is under way.  CountInv says that a frame    *)
(* that was read has been sent; RelayInv that the one relay that runs is   *)
(* the active task's, whose question was stored last; WorkInv that a goal  *)
(* is taken once and emits what it asked and one end; CompactInv that a    *)
(* compact which is waited for has not been answered.                      *)
(***************************************************************************)

AtWork == {"working", "unread", "reading", "following"}

\* Compacts up to the last one were pushed, the last one perhaps not yet.
Pushed(c) == c <= compactId /\ (compact = "begun" => c < compactId)

Positions(q, frame) == {i \in DOMAIN q : q[i] = frame}
UserTurns == {i \in DOMAIN history : history[i][1] = "user"}

\* A frame that is read has been sent.
CountInv ==
  /\ Cardinality(UserTurns) + Cardinality(Positions(inbox, SendFrame)) <= sends
  /\ compactId + Cardinality(Positions(inbox, CompactFrame)) <= compacts

\* One relay runs at a time, that of the active task, whose user's turn was stored last.
RelayInv ==
  \A t \in Tasks : relay[t] = "running" =>
    activeTask = t /\ history # <<>> /\ history[Len(history)] = <<"user", t>>

\* A goal that waits has emitted nothing, and waits once; the one at work has emitted its requests.
WorkInv ==
  /\ \A t \in Tasks : t >= NextTask => events[t] = <<>>
  /\ \A i \in DOMAIN goalStream, t \in Tasks : goalStream[i] = TaskGoal(t) =>
        /\ t < NextTask /\ events[t] = <<>>
        /\ orch.step \in AtWork => orch.task # t
        /\ \A j \in DOMAIN goalStream : goalStream[j] = TaskGoal(t) => i = j
  /\ orch.step \in AtWork => orch.task < NextTask /\ Len(events[orch.task]) = asked
  /\ \A t \in Tasks : cursor[t] <= Len(events[t])

\* The compact that is waited for has not been answered.
CompactInv ==
  /\ \A i \in DOMAIN goalStream, c \in Compacts : goalStream[i] = CompactGoal(c) => Pushed(c)
  /\ orch.step = "compacting" => Pushed(orch.id)
  /\ \A c \in stored : Pushed(c)
  /\ compact = "waiting" => listening /\ compactId \notin stored
  /\ compact # "none" => compactId > 0

GatewayInv == GatewayTypeOK /\ CountInv /\ RelayInv /\ WorkInv /\ CompactInv /\ HistoryInOrder /\ OwnAnswer

-----------------------------------------------------------------------------
(* Counting frames and turns.                                              *)

\* The places of a frame in a sequence are finitely many.
LEMMA PositionsFinite ==
  ASSUME NEW S, NEW q \in Seq(S), NEW frame
  PROVE  IsFiniteSet(Positions(q, frame)) /\ Cardinality(Positions(q, frame)) \in Nat
<1>1. IsFiniteSet(1 .. Len(q))
  BY LenProperties, FS_Interval
<1>2. Positions(q, frame) \in SUBSET (1 .. Len(q))
  BY LenProperties DEF Positions
<1> QED BY <1>1, <1>2, FS_Subset, FS_CardinalityType

\* A frame appended is counted once more, and no other is.
LEMMA AppendCounts ==
  ASSUME NEW S, NEW q \in Seq(S), NEW x \in S, NEW frame
  PROVE  Cardinality(Positions(Append(q, x), frame))
           = Cardinality(Positions(q, frame)) + (IF x = frame THEN 1 ELSE 0)
<1>1. /\ Append(q, x) \in Seq(S) /\ Len(q) \in Nat /\ Len(Append(q, x)) = Len(q) + 1
      /\ \A i \in 1 .. Len(q) : Append(q, x)[i] = q[i]
      /\ Append(q, x)[Len(q) + 1] = x
  BY AppendProperties, LenProperties
<1>2. DOMAIN q = 1 .. Len(q) /\ DOMAIN Append(q, x) = 1 .. Len(q) + 1
  BY <1>1, LenProperties
<1>3. CASE x = frame
  <2>1. Positions(Append(q, x), frame) = Positions(q, frame) \cup {Len(q) + 1}
    BY <1>1, <1>2, <1>3 DEF Positions
  <2>2. Len(q) + 1 \notin Positions(q, frame)
    BY <1>1, <1>2 DEF Positions
  <2> QED BY <1>3, <2>1, <2>2, PositionsFinite, FS_AddElement
<1>4. CASE x # frame
  <2>1. Positions(Append(q, x), frame) = Positions(q, frame)
    BY <1>1, <1>2, <1>4 DEF Positions
  <2> QED BY <1>4, <2>1, PositionsFinite
<1> QED BY <1>3, <1>4

\* The frame at the head is no longer counted once it is taken.
LEMMA TailCounts ==
  ASSUME NEW S, NEW q \in Seq(S), q # <<>>, NEW frame
  PROVE  Cardinality(Positions(Tail(q), frame))
           <= Cardinality(Positions(q, frame)) - (IF Head(q) = frame THEN 1 ELSE 0)
<1> DEFINE before == Positions(q, frame) \ {1}
           after == Positions(Tail(q), frame)
           step == [i \in after |-> i + 1]
<1>1. /\ Tail(q) \in Seq(S) /\ Len(q) \in Nat \ {0} /\ Len(Tail(q)) = Len(q) - 1
      /\ \A i \in 1 .. Len(Tail(q)) : Tail(q)[i] = q[i + 1]
  BY HeadTailProperties, EmptySeq
<1>2. DOMAIN q = 1 .. Len(q) /\ DOMAIN Tail(q) = 1 .. (Len(q) - 1) /\ Head(q) = q[1]
  BY <1>1, LenProperties
<1>3. IsFiniteSet(before) /\ IsFiniteSet(after)
  BY <1>1, PositionsFinite, FS_RemoveElement
<1>4. Cardinality(before) = Cardinality(Positions(q, frame)) - (IF Head(q) = frame THEN 1 ELSE 0)
  <2>1. 1 \in Positions(q, frame) <=> Head(q) = frame
    BY <1>1, <1>2 DEF Positions
  <2>2. IsFiniteSet(Positions(q, frame))
    BY PositionsFinite
  <2>3. Cardinality(before) = IF 1 \in Positions(q, frame)
                                THEN Cardinality(Positions(q, frame)) - 1
                                ELSE Cardinality(Positions(q, frame))
    BY <2>2, FS_RemoveElement
  <2>4. Cardinality(Positions(q, frame)) \in Nat
    BY PositionsFinite
  <2> HIDE DEF before
  <2> QED BY <2>1, <2>3, <2>4
<1>5. step \in Injection(after, before)
  <2>1. \A i \in after : i + 1 \in before /\ i \in Nat
    BY <1>1, <1>2 DEF Positions
  <2>2. step \in [after -> before]
    BY <2>1
  <2>3. \A i, j \in after : step[i] = step[j] => i = j
    BY <2>1
  <2> HIDE DEF step
  <2> QED BY <2>2, <2>3 DEF Injection, IsInjective
<1> QED BY <1>3, <1>4, <1>5, FS_Injection

\* The user's turns are counted as they are stored.
LEMMA UsersCounted ==
  ASSUME NEW role \in {"user", "assistant"}, NEW t \in Tasks,
         history \in Seq({"user", "assistant"} \X Tasks), history' = Append(history, <<role, t>>)
  PROVE  /\ Cardinality(UserTurns) \in Nat
         /\ Cardinality(UserTurns') = Cardinality(UserTurns) + (IF role = "user" THEN 1 ELSE 0)
<1> DEFINE S == {"user", "assistant"} \X Tasks
<1>1. /\ history' \in Seq(S) /\ Len(history) \in Nat /\ Len(history') = Len(history) + 1
      /\ \A i \in 1 .. Len(history) : history'[i] = history[i]
      /\ history'[Len(history) + 1] = <<role, t>>
  BY AppendProperties, LenProperties
<1>2. DOMAIN history = 1 .. Len(history) /\ DOMAIN history' = 1 .. Len(history) + 1
  BY <1>1, LenProperties
<1>3. IsFiniteSet(UserTurns) /\ Cardinality(UserTurns) \in Nat
  <2>1. IsFiniteSet(1 .. Len(history))
    BY <1>1, FS_Interval
  <2>2. UserTurns \in SUBSET (1 .. Len(history))
    BY <1>2 DEF UserTurns
  <2> QED BY <2>1, <2>2, FS_Subset, FS_CardinalityType
<1>4. CASE role = "user"
  <2>1. UserTurns' = UserTurns \cup {Len(history) + 1}
    BY <1>1, <1>2, <1>4 DEF UserTurns
  <2>2. Len(history) + 1 \notin UserTurns
    BY <1>1, <1>2 DEF UserTurns
  <2> QED BY <1>3, <1>4, <2>1, <2>2, FS_AddElement
<1>5. CASE role = "assistant"
  <2>1. UserTurns' = UserTurns
    BY <1>1, <1>2, <1>5 DEF UserTurns
  <2> QED BY <1>3, <1>5, <2>1
<1> QED BY <1>3, <1>4, <1>5

\* The user's turns in the store are finitely many.
LEMMA UsersFinite == GatewayTypeOK => IsFiniteSet(UserTurns) /\ Cardinality(UserTurns) \in Nat
<1> SUFFICES ASSUME GatewayTypeOK PROVE IsFiniteSet(UserTurns) /\ Cardinality(UserTurns) \in Nat
  OBVIOUS
<1>1. Len(history) \in Nat /\ DOMAIN history = 1 .. Len(history)
  BY LenProperties DEF GatewayTypeOK
<1>2. IsFiniteSet(1 .. Len(history))
  BY <1>1, FS_Interval
<1>3. UserTurns \in SUBSET (1 .. Len(history))
  BY <1>1 DEF UserTurns
<1> QED BY <1>2, <1>3, FS_Subset, FS_CardinalityType

\* A frame that is sent is counted once.
LEMMA FrameSent ==
  ASSUME inbox \in Seq(Frames), NEW frame \in Frames, inbox' = Append(inbox, frame), NEW counted
  PROVE  /\ inbox' \in Seq(Frames)
         /\ Cardinality(Positions(inbox, counted)) \in Nat
         /\ Cardinality(Positions(inbox, counted)')
              = Cardinality(Positions(inbox, counted)) + (IF frame = counted THEN 1 ELSE 0)
<1>1. inbox' \in Seq(Frames)
  BY AppendProperties
<1>2. Positions(inbox, counted)' = Positions(Append(inbox, frame), counted)
  BY DEF Positions
<1> QED BY <1>1, <1>2, PositionsFinite, AppendCounts

-----------------------------------------------------------------------------
(* The states of the orchestrator, the goals and the frames, told apart.   *)

\* The fields of what _handle may be doing.
LEMMA StateFields ==
  /\ Idle \in OrchStates /\ Idle.step = "idle"
  /\ \A c \in Compacts : /\ Compacting(c) \in OrchStates /\ Compacting(c).step = "compacting"
                         /\ Compacting(c).id = c
  /\ \A t \in Tasks : /\ Working(t) \in OrchStates /\ Working(t).step = "working"
                      /\ Working(t).task = t
  /\ \A r \in Requests :
        /\ Unread(r) \in OrchStates /\ Unread(r).step = "unread"
        /\ Unread(r).task = r[1] /\ Unread(r).request = r
        /\ ReadingFrom(r) \in OrchStates /\ ReadingFrom(r).step = "reading"
        /\ ReadingFrom(r).task = r[1] /\ ReadingFrom(r).request = r
        /\ Following(r) \in OrchStates /\ Following(r).step = "following"
        /\ Following(r).task = r[1] /\ Following(r).request = r
<1>1. Idle \in OrchStates /\ Idle.step = "idle"
  BY DEF OrchStates, Idle
<1>2. ASSUME NEW c \in Compacts
      PROVE  /\ Compacting(c) \in OrchStates /\ Compacting(c).step = "compacting"
             /\ Compacting(c).id = c
  <2>1. Compacting(c) \in OrchStates
    BY DEF OrchStates
  <2> QED BY <2>1 DEF Compacting
<1>3. ASSUME NEW t \in Tasks
      PROVE  /\ Working(t) \in OrchStates /\ Working(t).step = "working"
             /\ Working(t).task = t
  <2>1. Working(t) \in OrchStates
    BY DEF OrchStates
  <2> QED BY <2>1 DEF Working
<1>4. ASSUME NEW r \in Requests
      PROVE  /\ Unread(r) \in OrchStates /\ Unread(r).step = "unread"
             /\ Unread(r).task = r[1] /\ Unread(r).request = r
             /\ ReadingFrom(r) \in OrchStates /\ ReadingFrom(r).step = "reading"
             /\ ReadingFrom(r).task = r[1] /\ ReadingFrom(r).request = r
             /\ Following(r) \in OrchStates /\ Following(r).step = "following"
             /\ Following(r).task = r[1] /\ Following(r).request = r
  <2>1. Waits(r) \subseteq OrchStates
    BY DEF OrchStates
  <2>2. {Unread(r), ReadingFrom(r), Following(r)} \subseteq OrchStates
    BY <2>1 DEF Waits
  <2> QED BY <2>2 DEF Unread, ReadingFrom, Following
<1> QED BY <1>1, <1>2, <1>3, <1>4

\* What the step says of the other fields.
LEMMA StateKinds ==
  ASSUME orch \in OrchStates
  PROVE  /\ orch.step = "idle" <=> orch = Idle
         /\ orch.step = "compacting" => orch.id \in Compacts
         /\ orch.step \in AtWork => orch.task \in Tasks
         /\ orch.step \in {"unread", "reading", "following"} =>
               orch.request \in Requests /\ orch.task = orch.request[1]
         /\ orch.step \in AtWork \cup {"idle", "compacting"}
<1>1. \/ orch = Idle \/ \E c \in Compacts : orch = Compacting(c)
      \/ \E t \in Tasks : orch = Working(t)
      \/ \E r \in Requests : orch \in {Unread(r), ReadingFrom(r), Following(r)}
  BY DEF OrchStates, Waits
<1>2. \A r \in Requests : r[1] \in Tasks
  BY DEF Requests
<1>3. CASE orch = Idle
  BY <1>3, StateFields DEF AtWork
<1>4. CASE \E c \in Compacts : orch = Compacting(c)
  BY <1>4, StateFields DEF AtWork
<1>5. CASE \E t \in Tasks : orch = Working(t)
  BY <1>5, StateFields DEF AtWork
<1>6. CASE \E r \in Requests : orch \in {Unread(r), ReadingFrom(r), Following(r)}
  BY <1>2, <1>6, StateFields DEF AtWork
<1> QED BY <1>1, <1>3, <1>4, <1>5, <1>6

\* A goal is a task's or a compact's, one only.
LEMMA GoalKinds ==
  /\ \A t \in Tasks : TaskGoal(t) \in GoalEntries /\ TaskGoal(t).kind = "task" /\ TaskGoal(t).task = t
  /\ \A c \in Compacts : /\ CompactGoal(c) \in GoalEntries /\ CompactGoal(c).kind = "compact"
                         /\ CompactGoal(c).id = c
  /\ \A e \in GoalEntries : \/ \E t \in Tasks : e = TaskGoal(t)
                            \/ \E c \in Compacts : e = CompactGoal(c)
BY DEF GoalEntries, TaskGoal, CompactGoal

\* So are frames.
LEMMA FrameKinds ==
  /\ {SendFrame, CancelFrame, CompactFrame} \subseteq Frames
  /\ \A r \in Requests : ResultFrame(r) \in Frames /\ ResultFrame(r) \notin {SendFrame, CompactFrame}
  /\ SendFrame # CompactFrame /\ CancelFrame \notin {SendFrame, CompactFrame}
<1>1. /\ SendFrame.type = "send" /\ CancelFrame.type = "cancel" /\ CompactFrame.type = "compact"
      /\ \A r \in Requests : ResultFrame(r).type = "tool.result"
  BY DEF SendFrame, CancelFrame, CompactFrame, ResultFrame
<1> QED BY <1>1 DEF Frames

\* A frame that is read is counted no more.
LEMMA FrameTaken ==
  ASSUME inbox \in Seq(Frames), NEW frame, ReadsFrame(frame), NEW counted
  PROVE  /\ inbox' \in Seq(Frames)
         /\ Cardinality(Positions(inbox, counted)) \in Nat
         /\ Cardinality(Positions(inbox, counted)') \in Nat
         /\ Cardinality(Positions(inbox, counted)')
              <= Cardinality(Positions(inbox, counted)) - (IF frame = counted THEN 1 ELSE 0)
<1>1. inbox # <<>> /\ Head(inbox) = frame /\ inbox' = Tail(inbox)
  BY DEF ReadsFrame
<1>2. inbox' \in Seq(Frames)
  BY <1>1, HeadTailProperties
<1>3. Positions(inbox, counted)' = Positions(Tail(inbox), counted)
  BY <1>1 DEF Positions
<1> QED BY <1>1, <1>2, <1>3, PositionsFinite, TailCounts

\* The reader takes a frame: what is counted before and after.
LEMMA ReadCounts ==
  ASSUME GatewayInv, NEW frame, ReadsFrame(frame)
  PROVE  /\ inbox' \in Seq(Frames)
         /\ \A counted \in {SendFrame, CompactFrame} :
              /\ Cardinality(Positions(inbox, counted)) \in Nat
              /\ Cardinality(Positions(inbox, counted)') \in Nat
              /\ Cardinality(Positions(inbox, counted)')
                   <= Cardinality(Positions(inbox, counted)) - (IF frame = counted THEN 1 ELSE 0)
<1>1. inbox \in Seq(Frames)
  BY DEF GatewayInv, GatewayTypeOK
<1> QED BY <1>1, FrameTaken

\* A goal that is pushed is the last one waiting.
LEMMA GoalPushed ==
  ASSUME goalStream \in Seq(GoalEntries), NEW g \in GoalEntries, goalStream' = Append(goalStream, g)
  PROVE  /\ goalStream' \in Seq(GoalEntries)
         /\ DOMAIN goalStream = 1 .. Len(goalStream) /\ Len(goalStream) \in Nat
         /\ DOMAIN goalStream' = 1 .. Len(goalStream) + 1
         /\ \A i \in DOMAIN goalStream : goalStream'[i] = goalStream[i]
         /\ goalStream'[Len(goalStream) + 1] = g
BY AppendProperties, LenProperties

\* A turn that is stored is the last one.
LEMMA TurnStored ==
  ASSUME GatewayTypeOK, NEW turn \in {"user", "assistant"} \X Tasks, history' = Append(history, turn)
  PROVE  /\ history' \in Seq({"user", "assistant"} \X Tasks) /\ history' # <<>>
         /\ Len(history) \in Nat /\ Len(history') = Len(history) + 1
         /\ \A i \in 1 .. Len(history) : history'[i] = history[i]
         /\ history'[Len(history')] = turn
<1>1. history \in Seq({"user", "assistant"} \X Tasks)
  BY DEF GatewayTypeOK
<1>2. /\ history' \in Seq({"user", "assistant"} \X Tasks)
      /\ Len(history) \in Nat /\ Len(history') = Len(history) + 1
      /\ \A i \in 1 .. Len(history) : history'[i] = history[i]
      /\ history'[Len(history) + 1] = turn
  BY <1>1, AppendProperties, LenProperties
<1>3. history' # <<>>
  BY <1>2
<1> QED BY <1>2, <1>3

\* The number of the next task follows the count of the user's turns.
LEMMA NextTaskCounts == NextTask = 1 + Cardinality(UserTurns)
BY DEF NextTask, UserTurns

-----------------------------------------------------------------------------
(* What a step leaves alone keeps what is said of it.                      *)

\* The variables of each part of the invariant.
LEMMA Untouched ==
  ASSUME GatewayInv
  PROVE  /\ UNCHANGED <<history, inbox, sends, compactId, compacts>> => CountInv'
         /\ UNCHANGED <<relay, activeTask, history>> => RelayInv'
         /\ UNCHANGED <<history, events, goalStream, orch, asked, cursor>> => WorkInv'
         /\ UNCHANGED <<goalStream, compactId, compact, orch, stored, listening>> => CompactInv'
         /\ UNCHANGED history => HistoryInOrder'
         /\ UNCHANGED outcome => OwnAnswer'
<1>1. UNCHANGED <<history, inbox, sends, compactId, compacts>> => CountInv'
  BY DEF GatewayInv, CountInv, UserTurns, Positions
<1>2. UNCHANGED <<relay, activeTask, history>> => RelayInv'
  BY DEF GatewayInv, RelayInv
<1>3. UNCHANGED <<history, events, goalStream, orch, asked, cursor>> => WorkInv'
  BY DEF GatewayInv, WorkInv, NextTask
<1>4. UNCHANGED <<goalStream, compactId, compact, orch, stored, listening>> => CompactInv'
  BY DEF GatewayInv, CompactInv, Pushed
<1>5. (UNCHANGED history => HistoryInOrder') /\ (UNCHANGED outcome => OwnAnswer')
  BY DEF GatewayInv, HistoryInOrder, OwnAnswer
<1> QED BY <1>1, <1>2, <1>3, <1>4, <1>5

\* The one relay that may run is the active task's.
LEMMA OneRelay ==
  ASSUME GatewayInv
  PROVE  /\ ~RelayRuns => \A t \in Tasks : relay[t] # "running"
         /\ \A t, u \in Tasks : relay[t] = "running" /\ relay[u] = "running" => t = u
<1>1. \A t \in Tasks : t # NoTask
  BY GatewayAssumption DEF Tasks, NoTask
<1> QED BY <1>1 DEF GatewayInv, RelayInv, RelayRuns

\* A step of the turn at work, between its requests.
LEMMA TurnMoves ==
  ASSUME GatewayInv, orch.step \in AtWork, orch'.step \in AtWork, orch'.task = orch.task,
         UNCHANGED <<history, events, goalStream, asked, cursor, compactId, compact, stored, listening>>
  PROVE  WorkInv' /\ CompactInv'
<1>1. WorkInv'
  <2>1. NextTask' = NextTask
    BY DEF NextTask
  <2>2. \A t \in Tasks : t >= NextTask' => events'[t] = <<>>
    BY <2>1 DEF GatewayInv, WorkInv
  <2>3. \A i \in DOMAIN goalStream', t \in Tasks : goalStream'[i] = TaskGoal(t) =>
          /\ t < NextTask' /\ events'[t] = <<>>
          /\ orch'.step \in AtWork => orch'.task # t
          /\ \A j \in DOMAIN goalStream' : goalStream'[j] = TaskGoal(t) => i = j
    BY <2>1 DEF GatewayInv, WorkInv
  <2>4. orch'.step \in AtWork => orch'.task < NextTask' /\ Len(events'[orch'.task]) = asked'
    BY <2>1 DEF GatewayInv, WorkInv
  <2>5. \A t \in Tasks : cursor'[t] <= Len(events'[t])
    BY DEF GatewayInv, WorkInv
  <2> QED BY <2>2, <2>3, <2>4, <2>5 DEF WorkInv
<1>2. orch'.step # "compacting"
  BY DEF AtWork
<1>3. CompactInv'
  BY <1>2 DEF GatewayInv, CompactInv, Pushed
<1> QED BY <1>1, <1>3

-----------------------------------------------------------------------------
(* One lemma per action.                                                   *)

\* A message is sent, and counted in the inbox.
LEMMA ClientSendsKeeps ==
  ASSUME GatewayInv, ClientSends PROVE GatewayInv'
<1>0. /\ inbox \in Seq(Frames) /\ SendFrame \in Frames /\ inbox' = Append(inbox, SendFrame)
      /\ inbox' \in Seq(Frames)
  BY FrameKinds, FrameSent DEF GatewayInv, GatewayTypeOK, ClientSends, Submit
<1>1. GatewayTypeOK'
  <2>1. sends' \in 0 .. MaxSends /\ cancels' \in 0 .. MaxCancels /\ compacts' \in 0 .. MaxCompacts
    BY SMTT(30), GatewayAssumption DEF GatewayInv, GatewayTypeOK, ClientSends
  <2> QED BY <1>0, <2>1 DEF GatewayInv, ClientSends, Submit, client, compacting, connection,
       relays, streams, orchestrator, GatewayTypeOK
<1>2. RelayInv' /\ WorkInv' /\ CompactInv' /\ HistoryInOrder' /\ OwnAnswer'
  BY Untouched DEF ClientSends, Submit, client, compacting, connection, relays, gateway,
     streams, orchestrator
<1>3. CountInv'
  <2>1. \A counted \in {SendFrame, CompactFrame} :
          /\ Cardinality(Positions(inbox, counted)) \in Nat
          /\ Cardinality(Positions(inbox, counted)')
               = Cardinality(Positions(inbox, counted)) + (IF SendFrame = counted THEN 1 ELSE 0)
    BY <1>0, FrameSent
  <2>2. UserTurns' = UserTurns /\ UNCHANGED compactId /\ Cardinality(UserTurns) \in Nat
    BY UsersFinite DEF GatewayInv, ClientSends, Submit, compacting, UserTurns
  <2> DEFINE users == Cardinality(UserTurns)
             ps == Cardinality(Positions(inbox, SendFrame))
             pc == Cardinality(Positions(inbox, CompactFrame))
  <2>3. /\ users' = users /\ users \in Nat /\ ps \in Nat /\ pc \in Nat
        /\ ps' = ps + (IF SendFrame = SendFrame THEN 1 ELSE 0)
        /\ pc' = pc + (IF SendFrame = CompactFrame THEN 1 ELSE 0)
        /\ users + ps <= sends /\ compactId + pc <= compacts
    BY <2>1, <2>2 DEF GatewayInv, CountInv
  <2> HIDE DEF users, ps, pc
  <2>4. users' + ps' <= sends' /\ compactId' + pc' <= compacts'
    BY <2>2, <2>3, FrameKinds DEF GatewayInv, GatewayTypeOK, ClientSends
  <2> QED BY <2>4 DEF CountInv, users, ps, pc
<1> QED BY <1>1, <1>2, <1>3 DEF GatewayInv

\* A cancel is sent.
LEMMA ClientCancelsKeeps ==
  ASSUME GatewayInv, ClientCancels PROVE GatewayInv'
<1>0. /\ inbox \in Seq(Frames) /\ CancelFrame \in Frames /\ inbox' = Append(inbox, CancelFrame)
      /\ inbox' \in Seq(Frames)
  BY FrameKinds, FrameSent DEF GatewayInv, GatewayTypeOK, ClientCancels, Submit
<1>1. GatewayTypeOK'
  <2>1. sends' \in 0 .. MaxSends /\ cancels' \in 0 .. MaxCancels /\ compacts' \in 0 .. MaxCompacts
    BY SMTT(30), GatewayAssumption DEF GatewayInv, GatewayTypeOK, ClientCancels
  <2> QED BY <1>0, <2>1 DEF GatewayInv, ClientCancels, Submit, client, compacting, connection,
       relays, streams, orchestrator, GatewayTypeOK
<1>2. RelayInv' /\ WorkInv' /\ CompactInv' /\ HistoryInOrder' /\ OwnAnswer'
  BY Untouched DEF ClientCancels, Submit, client, compacting, connection, relays, gateway,
     streams, orchestrator
<1>3. CountInv'
  <2>1. \A counted \in {SendFrame, CompactFrame} :
          /\ Cardinality(Positions(inbox, counted)) \in Nat
          /\ Cardinality(Positions(inbox, counted)')
               = Cardinality(Positions(inbox, counted)) + (IF CancelFrame = counted THEN 1 ELSE 0)
    BY <1>0, FrameSent
  <2>2. UserTurns' = UserTurns /\ UNCHANGED compactId /\ Cardinality(UserTurns) \in Nat
    BY UsersFinite DEF GatewayInv, ClientCancels, Submit, compacting, UserTurns
  <2> DEFINE users == Cardinality(UserTurns)
             ps == Cardinality(Positions(inbox, SendFrame))
             pc == Cardinality(Positions(inbox, CompactFrame))
  <2>3. /\ users' = users /\ users \in Nat /\ ps \in Nat /\ pc \in Nat
        /\ ps' = ps + (IF CancelFrame = SendFrame THEN 1 ELSE 0)
        /\ pc' = pc + (IF CancelFrame = CompactFrame THEN 1 ELSE 0)
        /\ users + ps <= sends /\ compactId + pc <= compacts
    BY <2>1, <2>2 DEF GatewayInv, CountInv
  <2> HIDE DEF users, ps, pc
  <2>4. users' + ps' <= sends' /\ compactId' + pc' <= compacts'
    BY <2>2, <2>3, FrameKinds DEF GatewayInv, GatewayTypeOK, ClientCancels
  <2> QED BY <2>4 DEF CountInv, users, ps, pc
<1> QED BY <1>1, <1>2, <1>3 DEF GatewayInv

\* A compact is sent, and counted in the inbox.
LEMMA ClientCompactsKeeps ==
  ASSUME GatewayInv, ClientCompacts PROVE GatewayInv'
<1>0. /\ inbox \in Seq(Frames) /\ CompactFrame \in Frames /\ inbox' = Append(inbox, CompactFrame)
      /\ inbox' \in Seq(Frames)
  BY FrameKinds, FrameSent DEF GatewayInv, GatewayTypeOK, ClientCompacts, Submit
<1>1. GatewayTypeOK'
  <2>1. sends' \in 0 .. MaxSends /\ cancels' \in 0 .. MaxCancels /\ compacts' \in 0 .. MaxCompacts
    BY SMTT(30), GatewayAssumption DEF GatewayInv, GatewayTypeOK, ClientCompacts
  <2> QED BY <1>0, <2>1 DEF GatewayInv, ClientCompacts, Submit, client, compacting, connection,
       relays, streams, orchestrator, GatewayTypeOK
<1>2. RelayInv' /\ WorkInv' /\ CompactInv' /\ HistoryInOrder' /\ OwnAnswer'
  BY Untouched DEF ClientCompacts, Submit, client, compacting, connection, relays, gateway,
     streams, orchestrator
<1>3. CountInv'
  <2>1. \A counted \in {SendFrame, CompactFrame} :
          /\ Cardinality(Positions(inbox, counted)) \in Nat
          /\ Cardinality(Positions(inbox, counted)')
               = Cardinality(Positions(inbox, counted)) + (IF CompactFrame = counted THEN 1 ELSE 0)
    BY <1>0, FrameSent
  <2>2. UserTurns' = UserTurns /\ UNCHANGED compactId /\ Cardinality(UserTurns) \in Nat
    BY UsersFinite DEF GatewayInv, ClientCompacts, Submit, compacting, UserTurns
  <2> DEFINE users == Cardinality(UserTurns)
             ps == Cardinality(Positions(inbox, SendFrame))
             pc == Cardinality(Positions(inbox, CompactFrame))
  <2>3. /\ users' = users /\ users \in Nat /\ ps \in Nat /\ pc \in Nat
        /\ ps' = ps + (IF CompactFrame = SendFrame THEN 1 ELSE 0)
        /\ pc' = pc + (IF CompactFrame = CompactFrame THEN 1 ELSE 0)
        /\ users + ps <= sends /\ compactId + pc <= compacts
    BY <2>1, <2>2 DEF GatewayInv, CountInv
  <2> HIDE DEF users, ps, pc
  <2>4. users' + ps' <= sends' /\ compactId' + pc' <= compacts'
    BY <2>2, <2>3, FrameKinds DEF GatewayInv, GatewayTypeOK, ClientCompacts
  <2> QED BY <2>4 DEF CountInv, users, ps, pc
<1> QED BY <1>1, <1>2, <1>3 DEF GatewayInv

\* The result of a tool is sent.
LEMMA ClientAnswersKeeps ==
  ASSUME GatewayInv, ClientAnswers PROVE GatewayInv'
<1>0. PICK r \in running :
        /\ inbox \in Seq(Frames) /\ ResultFrame(r) \in Frames /\ inbox' = Append(inbox, ResultFrame(r))
        /\ inbox' \in Seq(Frames) /\ ResultFrame(r) \notin {SendFrame, CompactFrame}
  BY FrameKinds, FrameSent DEF GatewayInv, GatewayTypeOK, ClientAnswers, Submit
<1>1. GatewayTypeOK'
  BY <1>0 DEF GatewayInv, ClientAnswers, Submit, client, compacting, connection, relays, streams,
     orchestrator, GatewayTypeOK
<1>2. RelayInv' /\ WorkInv' /\ CompactInv' /\ HistoryInOrder' /\ OwnAnswer'
  BY Untouched DEF ClientAnswers, Submit, client, compacting, connection, relays, gateway,
     streams, orchestrator
<1>3. CountInv'
  <2>1. \A counted \in {SendFrame, CompactFrame} :
          Cardinality(Positions(inbox, counted)') = Cardinality(Positions(inbox, counted))
    <3> SUFFICES ASSUME NEW counted \in {SendFrame, CompactFrame}
                 PROVE  Cardinality(Positions(inbox, counted)') = Cardinality(Positions(inbox, counted))
      OBVIOUS
    <3>1. /\ Cardinality(Positions(inbox, counted)) \in Nat
          /\ Cardinality(Positions(inbox, counted)')
               = Cardinality(Positions(inbox, counted)) + (IF ResultFrame(r) = counted THEN 1 ELSE 0)
      BY <1>0, FrameSent
    <3>2. ResultFrame(r) # counted
      BY <1>0
    <3> HIDE DEF Positions
    <3> QED BY <3>1, <3>2
  <2>2. UserTurns' = UserTurns /\ UNCHANGED <<compactId, sends, compacts>>
    BY DEF ClientAnswers, Submit, compacting, UserTurns
  <2> QED BY <2>1, <2>2 DEF GatewayInv, CountInv
<1> QED BY <1>1, <1>2, <1>3 DEF GatewayInv

\* The connection drops.
LEMMA LeaveKeeps ==
  ASSUME GatewayInv, Leave PROVE GatewayInv'
<1>1. GatewayTypeOK'
  BY GatewayAssumption DEF GatewayInv, Leave, client, compacting, connection, relays, gateway,
     streams, orchestrator, GatewayTypeOK
<1>2. CountInv' /\ RelayInv' /\ WorkInv' /\ CompactInv' /\ HistoryInOrder' /\ OwnAnswer'
  BY Untouched DEF Leave, client, compacting, connection, relays, gateway, streams,
     orchestrator
<1> QED BY <1>1, <1>2 DEF GatewayInv

\* The reader ends.
LEMMA ReaderEndsKeeps ==
  ASSUME GatewayInv, ReaderEnds PROVE GatewayInv'
<1>1. GatewayTypeOK'
  BY GatewayAssumption DEF GatewayInv, ReaderEnds, client, compacting, connection, relays,
     gateway, streams, orchestrator, GatewayTypeOK
<1>2. CountInv' /\ RelayInv' /\ WorkInv' /\ CompactInv' /\ HistoryInOrder' /\ OwnAnswer'
  BY Untouched DEF ReaderEnds, client, compacting, connection, relays, gateway, streams,
     orchestrator
<1> QED BY <1>1, <1>2 DEF GatewayInv

\* A message is read: its task is new, and no relay runs.
LEMMA ReadSendKeeps ==
  ASSUME GatewayInv, ReadSend PROVE GatewayInv'
<1>0. /\ NextTask \in Tasks /\ NextTask \in Nat /\ NextTask' = NextTask + 1
      /\ inbox' \in Seq(Frames) /\ ~RelayRuns
      /\ history' \in Seq({"user", "assistant"} \X Tasks) /\ history' # <<>>
      /\ Len(history) \in Nat /\ Len(history') = Len(history) + 1
      /\ \A i \in 1 .. Len(history) : history'[i] = history[i]
      /\ history'[Len(history')] = <<"user", NextTask>>
      /\ Cardinality(UserTurns) \in Nat /\ Cardinality(UserTurns') = Cardinality(UserTurns) + 1
      /\ \A counted \in {SendFrame, CompactFrame} :
           /\ Cardinality(Positions(inbox, counted)) \in Nat
           /\ Cardinality(Positions(inbox, counted)') \in Nat
           /\ Cardinality(Positions(inbox, counted)')
                <= Cardinality(Positions(inbox, counted)) - (IF SendFrame = counted THEN 1 ELSE 0)
  <2>1. ReadsFrame(SendFrame) /\ ~RelayRuns /\ history' = Append(history, <<"user", NextTask>>)
    BY DEF ReadSend, HandleSend
  <2>2. /\ inbox' \in Seq(Frames)
        /\ \A counted \in {SendFrame, CompactFrame} :
             /\ Cardinality(Positions(inbox, counted)) \in Nat
             /\ Cardinality(Positions(inbox, counted)') \in Nat
             /\ Cardinality(Positions(inbox, counted)')
                  <= Cardinality(Positions(inbox, counted)) - (IF SendFrame = counted THEN 1 ELSE 0)
    BY <2>1, ReadCounts
  <2>3. Cardinality(UserTurns) \in Nat /\ sends \in 0 .. MaxSends /\ MaxSends \in Nat
    BY UsersFinite, GatewayAssumption DEF GatewayInv, GatewayTypeOK
  <2>4. Cardinality(UserTurns) + 1 <= MaxSends
    <3> DEFINE users == Cardinality(UserTurns)
               ps == Cardinality(Positions(inbox, SendFrame))
               pc == Cardinality(Positions(inbox, CompactFrame))
    <3>1. users \in Nat /\ ps \in Nat /\ ps' \in Nat /\ ps' <= ps - 1 /\ users + ps <= sends
      BY <2>2, <2>3 DEF GatewayInv, CountInv
    <3> HIDE DEF users, ps, pc
    <3>2. users + 1 <= MaxSends
      BY <2>3, <3>1
    <3> QED BY <3>2 DEF users
  <2>5. NextTask \in Tasks /\ NextTask \in Nat
    BY <2>3, <2>4, NextTaskCounts DEF Tasks
  <2>6. /\ history' \in Seq({"user", "assistant"} \X Tasks) /\ history' # <<>>
        /\ Len(history) \in Nat /\ Len(history') = Len(history) + 1
        /\ \A i \in 1 .. Len(history) : history'[i] = history[i]
        /\ history'[Len(history')] = <<"user", NextTask>>
    BY <2>1, <2>5, TurnStored DEF GatewayInv
  <2>7. Cardinality(UserTurns') = Cardinality(UserTurns) + 1
    BY <2>1, <2>5, UsersCounted DEF GatewayInv, GatewayTypeOK
  <2>8. NextTask' = NextTask + 1
    <3>1. NextTask' = 1 + Cardinality(UserTurns')
      BY DEF NextTask, UserTurns
    <3> QED BY <2>3, <2>7, <3>1, NextTaskCounts
  <2> QED BY <2>1, <2>2, <2>3, <2>5, <2>6, <2>7, <2>8
<1>1. GatewayTypeOK'
  <2>1. goalStream' \in Seq(GoalEntries) /\ activeTask' \in Tasks \cup {NoTask}
    <3>1. goalStream \in Seq(GoalEntries) /\ activeTask \in Tasks \cup {NoTask}
      BY DEF GatewayInv, GatewayTypeOK
    <3>2. \/ goalStream' = Append(goalStream, TaskGoal(NextTask)) /\ activeTask' = NextTask
          \/ UNCHANGED <<goalStream, activeTask>>
      BY DEF ReadSend, HandleSend
    <3>3. TaskGoal(NextTask) \in GoalEntries
      BY <1>0, GoalKinds
    <3>4. CASE goalStream' = Append(goalStream, TaskGoal(NextTask)) /\ activeTask' = NextTask
      BY <1>0, <3>1, <3>3, <3>4, GoalPushed
    <3> QED BY <3>1, <3>2, <3>4
  <2>2. relay' \in [Tasks -> {"none", "running", "done", "cancelled", "broken"}]
    BY <1>0 DEF GatewayInv, GatewayTypeOK, ReadSend, HandleSend
  <2>3. serving' \in BOOLEAN
    BY DEF GatewayInv, GatewayTypeOK, ReadSend, HandleSend, Replies
  <2> QED BY <1>0, <2>1, <2>2, <2>3 DEF GatewayInv, ReadSend, HandleSend, client, compacting,
       connection, relays, streams, orchestrator, GatewayTypeOK
<1>2. OwnAnswer'
  BY Untouched DEF ReadSend, HandleSend, client, compacting, connection, relays, gateway,
     streams, orchestrator
<1>3. CountInv'
  <2> DEFINE users == Cardinality(UserTurns)
             ps == Cardinality(Positions(inbox, SendFrame))
             pc == Cardinality(Positions(inbox, CompactFrame))
  <2>1. /\ users \in Nat /\ users' = users + 1 /\ ps \in Nat /\ ps' \in Nat /\ pc \in Nat /\ pc' \in Nat
        /\ ps' <= ps - 1 /\ pc' <= pc /\ users + ps <= sends /\ compactId + pc <= compacts
    BY <1>0 DEF GatewayInv, CountInv
  <2>2. UNCHANGED <<sends, compactId, compacts>> /\ {sends, compactId, compacts} \subseteq Nat
    BY DEF GatewayInv, GatewayTypeOK, ReadSend, HandleSend, client, compacting
  <2> HIDE DEF users, ps, pc
  <2>3. users' + ps' <= sends' /\ compactId' + pc' <= compacts'
    BY <2>1, <2>2
  <2> QED BY <2>3 DEF CountInv, users, ps, pc
<1>4. RelayInv'
  <2>1. CASE serving'
    BY <1>0, <2>1, OneRelay DEF GatewayInv, GatewayTypeOK, RelayInv, ReadSend, HandleSend
  <2>2. CASE ~serving'
    BY <1>0, <2>2, OneRelay DEF GatewayInv, RelayInv, ReadSend, HandleSend
  <2> QED BY <2>1, <2>2
<1>5. WorkInv'
  <2>1. UNCHANGED <<events, orch, asked, cursor>>
    BY DEF ReadSend, HandleSend, orchestrator
  <2>2. CASE ~serving'
    <3>1. UNCHANGED goalStream
      BY <2>2 DEF ReadSend, HandleSend
    <3>2. orch.step \in AtWork => orch.task \in Tasks
      <4>1. orch \in OrchStates
        BY DEF GatewayInv, GatewayTypeOK
      <4> QED BY <4>1, StateKinds
    <3>3. NextTask \in Nat /\ NextTask' = NextTask + 1 /\ Tasks \subseteq Nat
      BY <1>0 DEF Tasks
    <3>4. WorkInv
      BY DEF GatewayInv
    <3>5. \A t \in Tasks : (t >= NextTask' => t >= NextTask) /\ (t < NextTask => t < NextTask')
      BY <3>3
    <3>6. /\ \A t \in Tasks : t >= NextTask' => events'[t] = <<>>
          /\ \A t \in Tasks : cursor'[t] <= Len(events'[t])
          /\ orch'.step \in AtWork => orch'.task < NextTask' /\ Len(events'[orch'.task]) = asked'
      BY <2>1, <3>2, <3>4, <3>5 DEF WorkInv
    <3>7. \A i \in DOMAIN goalStream', t \in Tasks : goalStream'[i] = TaskGoal(t) =>
            /\ t < NextTask' /\ events'[t] = <<>>
            /\ orch'.step \in AtWork => orch'.task # t
            /\ \A j \in DOMAIN goalStream' : goalStream'[j] = TaskGoal(t) => i = j
      BY <2>1, <3>1, <3>4, <3>5 DEF WorkInv
    <3> QED BY <3>6, <3>7 DEF WorkInv
  <2>3. CASE serving'
    <3>1. goalStream' = Append(goalStream, TaskGoal(NextTask))
      BY <2>3 DEF ReadSend, HandleSend
    <3>2. /\ DOMAIN goalStream = 1 .. Len(goalStream) /\ Len(goalStream) \in Nat
          /\ DOMAIN goalStream' = 1 .. Len(goalStream) + 1
          /\ \A i \in DOMAIN goalStream : goalStream'[i] = goalStream[i]
          /\ goalStream'[Len(goalStream) + 1] = TaskGoal(NextTask)
      BY <1>0, <3>1, GoalKinds, GoalPushed DEF GatewayInv, GatewayTypeOK
    <3>3. \A t \in Tasks : TaskGoal(NextTask) = TaskGoal(t) => t = NextTask
      <4>1. TaskGoal(NextTask).task = NextTask /\ \A t \in Tasks : TaskGoal(t).task = t
        BY <1>0 DEF TaskGoal
      <4> QED BY <4>1
    <3>4. orch.step \in AtWork => orch.task \in Tasks /\ orch.task < NextTask
      BY StateKinds DEF GatewayInv, GatewayTypeOK, WorkInv
    <3>5. ASSUME NEW i \in DOMAIN goalStream', NEW t \in Tasks, goalStream'[i] = TaskGoal(t)
          PROVE  /\ t < NextTask' /\ events'[t] = <<>>
                 /\ orch'.step \in AtWork => orch'.task # t
                 /\ \A j \in DOMAIN goalStream' : goalStream'[j] = TaskGoal(t) => i = j
      <4>1. CASE i \in DOMAIN goalStream
        <5>1. goalStream[i] = TaskGoal(t) /\ t < NextTask
          BY <3>2, <3>5, <4>1 DEF GatewayInv, WorkInv
        <5>2. t # NextTask /\ t < NextTask'
          BY <1>0, <5>1 DEF Tasks
        <5> QED BY <2>1, <3>2, <3>3, <4>1, <5>1, <5>2 DEF GatewayInv, WorkInv
      <4>2. CASE i = Len(goalStream) + 1
        <5>1. t = NextTask
          BY <3>2, <3>3, <3>5, <4>2
        <5>2. events[t] = <<>> /\ t < NextTask' /\ (orch.step \in AtWork => orch.task # t)
          BY SMTT(30), <1>0, <3>4, <5>1 DEF GatewayInv, WorkInv, Tasks
        <5>3. \A j \in DOMAIN goalStream : goalStream[j] # TaskGoal(t)
          BY <1>0, <5>1 DEF GatewayInv, WorkInv, Tasks
        <5> QED BY <2>1, <3>2, <4>2, <5>2, <5>3
      <4> QED BY <3>2, <4>1, <4>2
    <3>6. \A t \in Tasks : t >= NextTask' => events'[t] = <<>>
      BY <1>0, <2>1 DEF GatewayInv, WorkInv, Tasks
    <3>7. orch'.step \in AtWork => orch'.task < NextTask' /\ Len(events'[orch'.task]) = asked'
      BY SMTT(30), <1>0, <2>1, <3>4 DEF GatewayInv, WorkInv, Tasks
    <3>8. \A t \in Tasks : cursor'[t] <= Len(events'[t])
      BY <2>1 DEF GatewayInv, WorkInv
    <3> QED BY <3>5, <3>6, <3>7, <3>8 DEF WorkInv
  <2> QED BY <2>2, <2>3
<1>6. CompactInv'
  <2>1. UNCHANGED <<compactId, compact, orch, stored, listening>>
    BY DEF ReadSend, HandleSend, compacting, orchestrator
  <2>2. \A i \in DOMAIN goalStream', c \in Compacts :
           goalStream'[i] = CompactGoal(c) => i \in DOMAIN goalStream /\ goalStream[i] = CompactGoal(c)
    <3>1. CASE ~serving'
      BY <3>1 DEF ReadSend, HandleSend
    <3>2. CASE serving'
      <4>1. goalStream' = Append(goalStream, TaskGoal(NextTask))
        BY <3>2 DEF ReadSend, HandleSend
      <4>2. /\ DOMAIN goalStream = 1 .. Len(goalStream) /\ Len(goalStream) \in Nat
            /\ DOMAIN goalStream' = 1 .. Len(goalStream) + 1
            /\ \A i \in DOMAIN goalStream : goalStream'[i] = goalStream[i]
            /\ goalStream'[Len(goalStream) + 1] = TaskGoal(NextTask)
        BY <1>0, <4>1, GoalKinds, GoalPushed DEF GatewayInv, GatewayTypeOK
      <4>3. \A c \in Compacts : TaskGoal(NextTask) # CompactGoal(c)
        BY <1>0, GoalKinds
      <4> QED BY <4>2, <4>3
    <3> QED BY <3>1, <3>2
  <2> QED BY <2>1, <2>2 DEF GatewayInv, CompactInv, Pushed
<1>7. HistoryInOrder'
  <2>1. ASSUME NEW i \in 1 .. Len(history'), history'[i][1] = "assistant"
        PROVE  i > 1 /\ history'[i - 1] = <<"user", history'[i][2]>>
    <3>1. i # Len(history')
      BY <1>0, <2>1
    <3>2. i \in 1 .. Len(history) /\ history[i] = history'[i]
      BY <1>0, <3>1
    <3>3. i > 1 /\ history[i - 1] = <<"user", history[i][2]>>
      BY <2>1, <3>2 DEF GatewayInv, HistoryInOrder
    <3>4. i - 1 \in 1 .. Len(history)
      BY <1>0, <3>2, <3>3
    <3>5. history'[i - 1] = history[i - 1]
      BY <1>0, <3>4
    <3> QED BY <3>2, <3>3, <3>5
  <2> QED BY <2>1 DEF HistoryInOrder
<1> QED BY <1>1, <1>2, <1>3, <1>4, <1>5, <1>6, <1>7 DEF GatewayInv

\* A cancel is read: the active task's relay stops.
LEMMA ReadCancelKeeps ==
  ASSUME GatewayInv, ReadCancel PROVE GatewayInv'
<1>0. /\ ReadsFrame(CancelFrame) /\ inbox' \in Seq(Frames)
      /\ \A counted \in {SendFrame, CompactFrame} :
           /\ Cardinality(Positions(inbox, counted)) \in Nat
           /\ Cardinality(Positions(inbox, counted)') \in Nat
           /\ Cardinality(Positions(inbox, counted)')
                <= Cardinality(Positions(inbox, counted)) - (IF CancelFrame = counted THEN 1 ELSE 0)
  BY ReadCounts DEF ReadCancel
<1>1. GatewayTypeOK'
  <2>1. relay' \in [Tasks -> {"none", "running", "done", "cancelled", "broken"}]
    BY DEF GatewayInv, GatewayTypeOK, ReadCancel
  <2>2. serving' \in BOOLEAN
    BY DEF GatewayInv, GatewayTypeOK, ReadCancel, Replies
  <2> QED BY <1>0, <2>1, <2>2 DEF GatewayInv, ReadCancel, client, compacting, connection, relays,
       streams, orchestrator, GatewayTypeOK
<1>2. WorkInv' /\ CompactInv' /\ HistoryInOrder' /\ OwnAnswer'
  BY Untouched DEF ReadCancel, client, compacting, connection, relays, gateway, streams,
     orchestrator
<1>3. CountInv'
  <2> DEFINE users == Cardinality(UserTurns)
             ps == Cardinality(Positions(inbox, SendFrame))
             pc == Cardinality(Positions(inbox, CompactFrame))
  <2>1. /\ users \in Nat /\ users' = users /\ ps \in Nat /\ ps' \in Nat /\ pc \in Nat /\ pc' \in Nat
        /\ ps' <= ps /\ pc' <= pc - (IF CancelFrame = CompactFrame THEN 1 ELSE 0)
        /\ users + ps <= sends /\ compactId + pc <= compacts
    BY <1>0, UsersFinite, FrameKinds DEF GatewayInv, CountInv, ReadCancel, UserTurns
  <2>2. /\ UNCHANGED <<sends, compacts>> /\ {sends, compactId, compacts} \subseteq Nat
        /\ compactId' = compactId + (IF CancelFrame = CompactFrame THEN 1 ELSE 0)
    BY FrameKinds DEF GatewayInv, GatewayTypeOK, ReadCancel, client, compacting
  <2> HIDE DEF users, ps, pc
  <2>3. users' + ps' <= sends' /\ compactId' + pc' <= compacts'
    BY <2>1, <2>2
  <2> QED BY <2>3 DEF CountInv, users, ps, pc
<1>4. RelayInv'
  BY OneRelay DEF GatewayInv, GatewayTypeOK, RelayInv, RelayRuns, ReadCancel
<1> QED BY <1>1, <1>2, <1>3, <1>4 DEF GatewayInv

\* A result is read, into the stream of the active task; its own request gets it.
LEMMA ReadResultKeeps ==
  ASSUME GatewayInv, ReadResult PROVE GatewayInv'
<1>1. PICK r \in Requests :
        /\ ReadsFrame(ResultFrame(r))
        /\ resultStream' = IF activeTask = NoTask THEN resultStream
                           ELSE [resultStream EXCEPT ![activeTask] = @ \cup {r}]
        /\ orch' = CASE Matches(r) -> Working(orch.task)
                     [] PassesOver(r) /\ ~Matches(r) -> Following(orch.request)
                     [] OTHER -> orch
        /\ outcome' = IF Matches(r) THEN [outcome EXCEPT ![orch.request] = r] ELSE outcome
        /\ UNCHANGED <<client, connection, activeTask, relays, compacting, history, goalStream,
                       events, stored, asked, crashes, unsaid>>
  BY DEF ReadResult
<1>2. /\ inbox' \in Seq(Frames)
      /\ \A counted \in {SendFrame, CompactFrame} :
           /\ Cardinality(Positions(inbox, counted)) \in Nat
           /\ Cardinality(Positions(inbox, counted)') \in Nat
           /\ Cardinality(Positions(inbox, counted)') <= Cardinality(Positions(inbox, counted))
  BY <1>1, ReadCounts, FrameKinds
<1>3. /\ orch' \in OrchStates
      /\ \/ orch' = orch
         \/ /\ orch.step \in AtWork /\ orch'.step \in AtWork /\ orch'.task = orch.task
  <2>1. CASE Matches(r)
    <3>1. orch.step \in AtWork /\ orch.task \in Tasks
      BY <2>1, StateKinds DEF GatewayInv, GatewayTypeOK, Matches, AtWork
    <3> QED BY <1>1, <2>1, <3>1, StateFields DEF AtWork
  <2>2. CASE PassesOver(r) /\ ~Matches(r)
    <3>1. orch.step \in AtWork /\ orch.request \in Requests /\ orch.task = orch.request[1]
      BY <2>2, StateKinds DEF GatewayInv, GatewayTypeOK, PassesOver, AtWork
    <3> QED BY <1>1, <2>2, <3>1, StateFields DEF AtWork
  <2>3. CASE ~Matches(r) /\ ~PassesOver(r)
    BY <1>1, <2>3 DEF GatewayInv, GatewayTypeOK
  <2> QED BY <2>1, <2>2, <2>3
<1>4. /\ outcome' \in [Requests -> {<<"none">>, <<"timeout">>} \cup Requests]
      /\ \A q \in Requests : outcome'[q] \in {outcome[q], q}
  BY <1>1 DEF GatewayInv, GatewayTypeOK, Matches
<1>5. GatewayTypeOK'
  <2>1. resultStream' \in [Tasks -> SUBSET Requests]
    BY <1>1 DEF GatewayInv, GatewayTypeOK
  <2> QED BY <1>1, <1>2, <1>3, <1>4, <2>1 DEF GatewayInv, client, compacting, connection, relays,
       streams, orchestrator, GatewayTypeOK
<1>6. CountInv'
  <2> DEFINE users == Cardinality(UserTurns)
             ps == Cardinality(Positions(inbox, SendFrame))
             pc == Cardinality(Positions(inbox, CompactFrame))
  <2>1. /\ users' = users /\ UNCHANGED <<sends, compacts, compactId>>
        /\ users + ps <= sends /\ compactId + pc <= compacts
    BY <1>1 DEF GatewayInv, CountInv, client, compacting, UserTurns
  <2>2. /\ ps' <= ps /\ pc' <= pc /\ {ps, ps', pc, pc'} \subseteq Nat
    BY <1>2
  <2>3. {users, sends, compacts, compactId} \subseteq Nat
    BY UsersFinite DEF GatewayInv, GatewayTypeOK
  <2> HIDE DEF users, ps, pc
  <2>4. users' + ps' <= sends' /\ compactId' + pc' <= compacts'
    BY <2>1, <2>2, <2>3
  <2> QED BY <2>4 DEF CountInv, users, ps, pc
<1>7. RelayInv' /\ HistoryInOrder'
  BY <1>1, Untouched DEF relays
<1>8. WorkInv' /\ CompactInv'
  BY <1>1, <1>3, Untouched, TurnMoves DEF relays, compacting
<1>9. OwnAnswer'
  BY <1>4 DEF GatewayInv, OwnAnswer
<1> QED BY <1>5, <1>6, <1>7, <1>8, <1>9 DEF GatewayInv

\* A compact is read: the reader subscribes.
LEMMA BeginKeeps ==
  ASSUME GatewayInv, Begin(TRUE) PROVE GatewayInv'
<1>0. /\ ReadsFrame(CompactFrame) /\ inbox' \in Seq(Frames)
      /\ \A counted \in {SendFrame, CompactFrame} :
           /\ Cardinality(Positions(inbox, counted)) \in Nat
           /\ Cardinality(Positions(inbox, counted)') \in Nat
           /\ Cardinality(Positions(inbox, counted)')
                <= Cardinality(Positions(inbox, counted)) - (IF CompactFrame = counted THEN 1 ELSE 0)
  BY ReadCounts DEF Begin
<1>1. GatewayTypeOK'
  <2>1. compactId' \in 0 .. MaxCompacts
    <3> DEFINE pc == Cardinality(Positions(inbox, CompactFrame))
    <3>1. pc \in Nat /\ pc' \in Nat /\ pc' <= pc - 1 /\ compactId + pc <= compacts
      BY <1>0 DEF GatewayInv, CountInv
    <3>2. compactId \in Nat /\ compacts \in 0 .. MaxCompacts /\ MaxCompacts \in Nat
      BY GatewayAssumption DEF GatewayInv, GatewayTypeOK
    <3> HIDE DEF pc
    <3> QED BY <3>1, <3>2 DEF Begin
  <2> QED BY <1>0, <2>1 DEF GatewayInv, Begin, client, compacting, connection, relays, streams,
       orchestrator, GatewayTypeOK
<1>2. RelayInv' /\ WorkInv' /\ HistoryInOrder' /\ OwnAnswer'
  BY Untouched DEF Begin, client, compacting, connection, relays, gateway, streams,
     orchestrator
<1>3. CountInv'
  <2> DEFINE users == Cardinality(UserTurns)
             ps == Cardinality(Positions(inbox, SendFrame))
             pc == Cardinality(Positions(inbox, CompactFrame))
  <2>1. /\ users \in Nat /\ users' = users /\ ps \in Nat /\ ps' \in Nat /\ pc \in Nat /\ pc' \in Nat
        /\ ps' <= ps /\ pc' <= pc - (IF CompactFrame = CompactFrame THEN 1 ELSE 0)
        /\ users + ps <= sends /\ compactId + pc <= compacts
    BY <1>0, UsersFinite, FrameKinds DEF GatewayInv, CountInv, Begin, UserTurns
  <2>2. /\ UNCHANGED <<sends, compacts>> /\ {sends, compactId, compacts} \subseteq Nat
        /\ compactId' = compactId + (IF CompactFrame = CompactFrame THEN 1 ELSE 0)
    BY FrameKinds DEF GatewayInv, GatewayTypeOK, Begin, client, compacting
  <2> HIDE DEF users, ps, pc
  <2>3. users' + ps' <= sends' /\ compactId' + pc' <= compacts'
    BY <2>1, <2>2
  <2> QED BY <2>3 DEF CountInv, users, ps, pc
<1>4. CompactInv'
  <2>1. /\ compact = "none" /\ compact' = "begun" /\ compactId \in Nat /\ compactId' = compactId + 1
        /\ UNCHANGED <<goalStream, orch, stored>>
    BY <1>0 DEF GatewayInv, GatewayTypeOK, Begin, ReadsFrame, orchestrator
  <2>2. \A c \in Compacts : Pushed(c) => Pushed(c)'
    BY <2>1 DEF Pushed, Compacts
  <2>3. orch.step = "compacting" => orch.id \in Compacts
    BY StateKinds DEF GatewayInv, GatewayTypeOK
  <2> QED BY <2>1, <2>2, <2>3 DEF GatewayInv, GatewayTypeOK, CompactInv
<1> QED BY <1>1, <1>2, <1>3, <1>4 DEF GatewayInv

\* The compact is pushed, after the subscription.
LEMMA ProceedKeeps ==
  ASSUME GatewayInv, Proceed(TRUE) PROVE GatewayInv'
<1>0. /\ compactId \in Compacts /\ CompactGoal(compactId) \in GoalEntries
      /\ goalStream' = Append(goalStream, CompactGoal(compactId))
      /\ goalStream' \in Seq(GoalEntries)
      /\ DOMAIN goalStream = 1 .. Len(goalStream) /\ Len(goalStream) \in Nat
      /\ DOMAIN goalStream' = 1 .. Len(goalStream) + 1
      /\ \A i \in DOMAIN goalStream : goalStream'[i] = goalStream[i]
      /\ goalStream'[Len(goalStream) + 1] = CompactGoal(compactId)
  <2>1. compactId \in Compacts
    BY GatewayAssumption DEF GatewayInv, GatewayTypeOK, CompactInv, Proceed, Compacts
  <2>2. goalStream \in Seq(GoalEntries) /\ goalStream' = Append(goalStream, CompactGoal(compactId))
    BY DEF GatewayInv, GatewayTypeOK, Proceed
  <2> QED BY <2>1, <2>2, GoalKinds, GoalPushed
<1>1. GatewayTypeOK'
  BY <1>0 DEF GatewayInv, Proceed, client, compacting, connection, relays, streams, orchestrator,
     GatewayTypeOK
<1>2. CountInv' /\ RelayInv' /\ HistoryInOrder' /\ OwnAnswer'
  BY Untouched DEF Proceed, client, compacting, connection, relays, gateway, streams,
     orchestrator
<1>3. WorkInv'
  <2>1. UNCHANGED <<history, events, orch, asked, cursor>>
    BY DEF Proceed, orchestrator, relays
  <2>2. \A i \in DOMAIN goalStream', t \in Tasks :
           goalStream'[i] = TaskGoal(t) => i \in DOMAIN goalStream /\ goalStream[i] = TaskGoal(t)
    BY <1>0, GoalKinds
  <2>3. NextTask' = NextTask
    BY <2>1 DEF NextTask
  <2> QED BY <2>1, <2>2, <2>3 DEF GatewayInv, WorkInv
<1>4. CompactInv'
  <2>1. UNCHANGED <<compactId, orch, stored>> /\ compact = "begun" /\ compact' = "waiting" /\ listening'
    BY DEF Proceed, orchestrator
  <2>2. \A c \in Compacts : Pushed(c) => c < compactId /\ Pushed(c)'
    BY <2>1 DEF Pushed
  <2>3. Pushed(compactId)'
    BY <1>0, <2>1 DEF Pushed, Compacts
  <2>4. ASSUME NEW i \in DOMAIN goalStream', NEW c \in Compacts, goalStream'[i] = CompactGoal(c)
        PROVE  Pushed(c)'
    <3>1. CASE i \in DOMAIN goalStream
      BY <1>0, <2>2, <2>4, <3>1 DEF GatewayInv, CompactInv
    <3>2. CASE i = Len(goalStream) + 1
      <4>1. c = compactId
        <5>1. CompactGoal(c) = CompactGoal(compactId)
          BY <1>0, <2>4, <3>2
        <5>2. CompactGoal(c).id = c /\ CompactGoal(compactId).id = compactId
          BY <1>0, GoalKinds
        <5> QED BY <5>1, <5>2
      <4> QED BY <1>0, <2>1, <4>1 DEF Pushed, Compacts
    <3> QED BY <1>0, <3>1, <3>2
  <2>5. orch'.step = "compacting" => Pushed(orch.id)'
    BY <2>1, <2>2, StateKinds DEF GatewayInv, GatewayTypeOK, CompactInv
  <2>6. (\A c \in stored' : Pushed(c)') /\ compactId' \notin stored'
    <3>1. \A c \in stored : c \in Compacts /\ Pushed(c)
      BY DEF GatewayInv, GatewayTypeOK, CompactInv
    <3>2. ~(compactId < compactId)
      BY <1>0 DEF Compacts
    <3> QED BY <2>1, <2>2, <3>1, <3>2
  <2>7. compactId' > 0
    BY <1>0, <2>1 DEF Compacts
  <2> QED BY <2>1, <2>4, <2>5, <2>6, <2>7 DEF CompactInv
<1> QED BY <1>1, <1>2, <1>3, <1>4 DEF GatewayInv

\* The wait for a compact ends.
LEMMA EndCompactKeeps ==
  ASSUME GatewayInv, EndCompact PROVE GatewayInv'
<1>1. GatewayTypeOK'
  BY GatewayAssumption DEF GatewayInv, EndCompact, Replies, client, compacting, connection,
     relays, gateway, streams, orchestrator, GatewayTypeOK
<1>2. CountInv' /\ RelayInv' /\ WorkInv' /\ HistoryInOrder' /\ OwnAnswer'
  BY Untouched DEF EndCompact, Replies, client, compacting, connection, relays, gateway,
     streams, orchestrator
<1>3. CompactInv'
  BY DEF GatewayInv, CompactInv, Pushed, EndCompact, streams, orchestrator
<1> QED BY <1>1, <1>2, <1>3 DEF GatewayInv

\* A request is forwarded, and its tool starts.
LEMMA RelayRequestKeeps ==
  ASSUME GatewayInv, NEW t \in Tasks, RelayRequest(t) PROVE GatewayInv'
<1>0. /\ relay[t] = "running" /\ cursor[t] \in Nat /\ Len(events[t]) \in Nat
      /\ cursor[t] < Len(events[t]) /\ Len(events[t]) <= MaxRequests + 1 /\ MaxRequests \in Nat
      /\ events[t] \in Seq(EventsOf(t)) /\ NextEvent(t) \in EventsOf(t)
  <2>1. events[t] \in Seq(EventsOf(t)) /\ Len(events[t]) <= MaxRequests + 1 /\ MaxRequests \in Nat
    BY GatewayAssumption DEF GatewayInv, GatewayTypeOK
  <2>2. relay[t] = "running" /\ cursor[t] \in 0 .. MaxRequests + 1 /\ cursor[t] < Len(events[t])
    BY DEF GatewayInv, GatewayTypeOK, RelayRequest, HasEvent
  <2>3. Len(events[t]) \in Nat /\ \A i \in 1 .. Len(events[t]) : events[t][i] \in EventsOf(t)
    BY <2>1, LenProperties, ElementOfSeq
  <2>4. cursor[t] + 1 \in 1 .. Len(events[t])
    BY <2>2, <2>3
  <2> QED BY <2>1, <2>2, <2>3, <2>4 DEF NextEvent
<1>1. GatewayTypeOK'
  <2>1. cursor' \in [Tasks -> 0 .. MaxRequests + 1]
    <3>1. cursor' = [cursor EXCEPT ![t] = @ + 1] /\ cursor \in [Tasks -> 0 .. MaxRequests + 1]
      BY <1>0 DEF GatewayInv, GatewayTypeOK, RelayRequest
    <3> QED BY <1>0, <3>1
  <2>2. running' \subseteq Requests
    <3>1. PICK n \in 1 .. MaxRequests : NextEvent(t) = RequestEvent(<<t, n>>)
      BY <1>0 DEF RelayRequest, EventsOf
    <3>2. NextEvent(t).request = <<t, n>> /\ <<t, n>> \in Requests
      BY <3>1 DEF RequestEvent, Requests
    <3> QED BY <3>2 DEF GatewayInv, GatewayTypeOK, RelayRequest
  <2> QED BY <2>1, <2>2 DEF GatewayInv, RelayRequest, client, compacting, connection, relays,
       streams, orchestrator, GatewayTypeOK
<1>2. CountInv' /\ RelayInv' /\ CompactInv' /\ HistoryInOrder' /\ OwnAnswer'
  BY Untouched DEF RelayRequest, client, compacting, connection, relays, gateway, streams,
     orchestrator
<1>3. WorkInv'
  <2>1. UNCHANGED <<events, goalStream, orch, asked>>
    BY DEF RelayRequest, streams, orchestrator
  <2>2. \A u \in Tasks : cursor'[u] <= Len(events'[u])
    BY <1>0, <2>1 DEF GatewayInv, GatewayTypeOK, WorkInv, RelayRequest
  <2>3. NextTask' = NextTask
    BY DEF RelayRequest, NextTask
  <2> QED BY SMTT(30), <2>1, <2>2, <2>3 DEF GatewayInv, WorkInv
<1> QED BY <1>1, <1>2, <1>3 DEF GatewayInv

\* The end is forwarded, and the answer stored after its question.
LEMMA RelayDoneKeeps ==
  ASSUME GatewayInv, NEW t \in Tasks, RelayDone(t) PROVE GatewayInv'
<1>0. /\ relay[t] = "running" /\ cursor[t] \in Nat /\ Len(events[t]) \in Nat
      /\ cursor[t] < Len(events[t]) /\ Len(events[t]) <= MaxRequests + 1 /\ MaxRequests \in Nat
      /\ events[t] \in Seq(EventsOf(t)) /\ NextEvent(t) \in EventsOf(t)
  <2>1. events[t] \in Seq(EventsOf(t)) /\ Len(events[t]) <= MaxRequests + 1 /\ MaxRequests \in Nat
    BY GatewayAssumption DEF GatewayInv, GatewayTypeOK
  <2>2. relay[t] = "running" /\ cursor[t] \in 0 .. MaxRequests + 1 /\ cursor[t] < Len(events[t])
    BY DEF GatewayInv, GatewayTypeOK, RelayDone, HasEvent
  <2>3. Len(events[t]) \in Nat /\ \A i \in 1 .. Len(events[t]) : events[t][i] \in EventsOf(t)
    BY <2>1, LenProperties, ElementOfSeq
  <2>4. cursor[t] + 1 \in 1 .. Len(events[t])
    BY <2>2, <2>3
  <2> QED BY <2>1, <2>2, <2>3, <2>4 DEF NextEvent
<1>1. /\ history' \in Seq({"user", "assistant"} \X Tasks)
      /\ Len(history) \in Nat /\ Len(history') = Len(history) + 1
      /\ \A i \in 1 .. Len(history) : history'[i] = history[i]
      /\ history'[Len(history')] = <<"assistant", t>>
      /\ Cardinality(UserTurns') = Cardinality(UserTurns)
  <2>1. history' = Append(history, <<"assistant", t>>)
    BY DEF RelayDone
  <2>2. history \in Seq({"user", "assistant"} \X Tasks) /\ t \in Tasks
    BY DEF GatewayInv, GatewayTypeOK
  <2>3. GatewayTypeOK
    BY DEF GatewayInv
  <2> QED BY <2>1, <2>2, <2>3, TurnStored, UsersCounted
<1>2. GatewayTypeOK'
  <2>1. cursor' \in [Tasks -> 0 .. MaxRequests + 1]
    <3>1. cursor' = [cursor EXCEPT ![t] = @ + 1] /\ cursor \in [Tasks -> 0 .. MaxRequests + 1]
      BY DEF GatewayInv, GatewayTypeOK, RelayDone
    <3>2. cursor[t] + 1 \in 0 .. MaxRequests + 1
      BY <1>0
    <3> QED BY <3>1, <3>2
  <2>2. relay' \in [Tasks -> {"none", "running", "done", "cancelled", "broken"}]
    BY DEF GatewayInv, GatewayTypeOK, RelayDone
  <2> QED BY <1>1, <2>1, <2>2 DEF GatewayInv, RelayDone, client, compacting, connection, relays,
       streams, orchestrator, GatewayTypeOK
<1>3. CompactInv' /\ OwnAnswer'
  BY Untouched DEF RelayDone, client, compacting, connection, relays, gateway, streams,
     orchestrator
<1>4. CountInv'
  BY <1>1 DEF GatewayInv, CountInv, RelayDone, Positions, client, compacting
<1>5. RelayInv'
  <2>1. \A u \in Tasks : relay'[u] # "running"
    BY <1>0, OneRelay DEF GatewayInv, GatewayTypeOK, RelayDone
  <2> QED BY <2>1 DEF RelayInv
<1>6. WorkInv'
  <2>1. UNCHANGED <<events, goalStream, orch, asked>>
    BY DEF RelayDone, streams, orchestrator
  <2>2. \A u \in Tasks : cursor'[u] <= Len(events'[u])
    BY <1>0, <2>1 DEF GatewayInv, GatewayTypeOK, WorkInv, RelayDone
  <2>3. NextTask' = NextTask
    <3>1. NextTask' = 1 + Cardinality(UserTurns')
      BY DEF NextTask, UserTurns
    <3> QED BY <1>1, <3>1, NextTaskCounts
  <2>4. WorkInv
    BY DEF GatewayInv
  <2>5. \A u \in Tasks : u >= NextTask' => events'[u] = <<>>
    BY <2>1, <2>3, <2>4 DEF WorkInv
  <2>6. \A i \in DOMAIN goalStream', u \in Tasks : goalStream'[i] = TaskGoal(u) =>
           /\ u < NextTask' /\ events'[u] = <<>>
           /\ orch'.step \in AtWork => orch'.task # u
           /\ \A j \in DOMAIN goalStream' : goalStream'[j] = TaskGoal(u) => i = j
    BY <2>1, <2>3, <2>4 DEF WorkInv
  <2>7. orch'.step \in AtWork => orch'.task < NextTask' /\ Len(events'[orch'.task]) = asked'
    BY <2>1, <2>3, <2>4 DEF WorkInv
  <2> QED BY <2>2, <2>5, <2>6, <2>7 DEF WorkInv
<1>7. HistoryInOrder'
  <2>1. history # <<>> /\ history[Len(history)] = <<"user", t>>
    BY <1>0 DEF GatewayInv, RelayInv
  <2>2. Len(history) > 0
    BY <1>1, <2>1, EmptySeq DEF GatewayInv, GatewayTypeOK
  <2>3. ASSUME NEW i \in 1 .. Len(history'), history'[i][1] = "assistant"
        PROVE  i > 1 /\ history'[i - 1] = <<"user", history'[i][2]>>
    <3>1. CASE i = Len(history')
      <4>1. i - 1 = Len(history) /\ i > 1 /\ history'[i] = <<"assistant", t>>
        BY <1>1, <2>2, <3>1
      <4>2. history'[i - 1] = <<"user", t>>
        BY <1>1, <2>1, <2>2, <4>1
      <4> QED BY <4>1, <4>2
    <3>2. CASE i # Len(history')
      <4>1. i \in 1 .. Len(history) /\ history[i] = history'[i]
        BY <1>1, <3>2
      <4>2. i > 1 /\ history[i - 1] = <<"user", history[i][2]>>
        BY <2>3, <4>1 DEF GatewayInv, HistoryInOrder
      <4>3. i - 1 \in 1 .. Len(history)
        BY <1>1, <4>1, <4>2
      <4>4. history'[i - 1] = history[i - 1]
        BY <1>1, <4>3
      <4> QED BY <4>1, <4>2, <4>4
    <3> QED BY <3>1, <3>2
  <2> QED BY <2>3 DEF HistoryInOrder
<1> QED BY <1>2, <1>3, <1>4, <1>5, <1>6, <1>7 DEF GatewayInv

\* A relay breaks on a closed connection.
LEMMA RelayBreaksKeeps ==
  ASSUME GatewayInv, NEW t \in Tasks, RelayBreaks(t) PROVE GatewayInv'
<1>1. GatewayTypeOK'
  <2>1. relay' \in [Tasks -> {"none", "running", "done", "cancelled", "broken"}]
    BY DEF GatewayInv, GatewayTypeOK, RelayBreaks
  <2>2. serving' \in BOOLEAN
    BY DEF GatewayInv, GatewayTypeOK, RelayBreaks
  <2> QED BY <2>1, <2>2 DEF GatewayInv, RelayBreaks, client, compacting, connection, relays,
       streams, orchestrator, GatewayTypeOK
<1>2. CountInv' /\ WorkInv' /\ CompactInv' /\ HistoryInOrder' /\ OwnAnswer'
  BY Untouched DEF RelayBreaks, client, compacting, connection, relays, gateway, streams,
     orchestrator
<1>3. RelayInv'
  BY DEF GatewayInv, GatewayTypeOK, RelayInv, RelayBreaks
<1> QED BY <1>1, <1>2, <1>3 DEF GatewayInv

\* A goal is taken: it is the only one of its task.
LEMMA TakeKeeps ==
  ASSUME GatewayInv, Take PROVE GatewayInv'
<1> DEFINE g == Head(goalStream)
<1>0. /\ g \in GoalEntries /\ goalStream' \in Seq(GoalEntries)
      /\ DOMAIN goalStream = 1 .. Len(goalStream) /\ Len(goalStream) \in Nat \ {0}
      /\ DOMAIN goalStream' = 1 .. Len(goalStream) - 1
      /\ \A i \in DOMAIN goalStream' : i + 1 \in DOMAIN goalStream /\ goalStream'[i] = goalStream[i + 1]
      /\ goalStream[1] = g /\ 1 \in DOMAIN goalStream
  <2>1. goalStream \in Seq(GoalEntries) /\ goalStream # <<>> /\ goalStream' = Tail(goalStream)
    BY DEF GatewayInv, GatewayTypeOK, Take
  <2>2. /\ g \in GoalEntries /\ goalStream' \in Seq(GoalEntries) /\ Len(goalStream) \in Nat \ {0}
        /\ Len(goalStream') = Len(goalStream) - 1
        /\ \A i \in 1 .. Len(goalStream') : goalStream'[i] = goalStream[i + 1]
        /\ goalStream[1] = g
    BY <2>1, HeadTailProperties, EmptySeq
  <2>3. DOMAIN goalStream = 1 .. Len(goalStream) /\ DOMAIN goalStream' = 1 .. Len(goalStream')
    BY <2>1, <2>2, LenProperties
  <2> QED BY <2>2, <2>3
<1>1. GatewayTypeOK'
  <2>1. orch' \in OrchStates /\ asked' \in 0 .. MaxRequests
    <3>1. MaxRequests \in Nat /\ asked' = 0
      BY GatewayAssumption DEF Take
    <3>2. orch' \in OrchStates
      BY <1>0, StateFields, GoalKinds DEF Take
    <3> QED BY <3>1, <3>2
  <2> QED BY <1>0, <2>1 DEF GatewayInv, Take, client, compacting, connection, relays, streams,
       orchestrator, gateway, GatewayTypeOK
<1>2. CountInv' /\ RelayInv' /\ HistoryInOrder' /\ OwnAnswer'
  BY Untouched DEF Take, client, compacting, connection, relays, gateway, streams,
     orchestrator
<1>3. WorkInv'
  <2>1. UNCHANGED <<history, events, cursor>> /\ asked' = 0
    BY DEF Take, gateway, relays
  <2>2. UNCHANGED NextTask
    BY <2>1 DEF NextTask
  <2>3. CASE \E c \in Compacts : g = CompactGoal(c)
    <3>1. orch'.step = "compacting"
      BY <1>0, <2>3, GoalKinds, StateFields DEF Take
    <3>2. orch'.step \notin AtWork
      BY <3>1 DEF AtWork
    <3>3. ASSUME NEW i \in DOMAIN goalStream', NEW t \in Tasks, goalStream'[i] = TaskGoal(t)
          PROVE  /\ t < NextTask' /\ events'[t] = <<>>
                 /\ \A j \in DOMAIN goalStream' : goalStream'[j] = TaskGoal(t) => i = j
      BY <1>0, <2>1, <2>2, <3>3 DEF GatewayInv, WorkInv
    <3> QED BY <2>1, <2>2, <3>2, <3>3 DEF GatewayInv, WorkInv
  <2>4. CASE \E t \in Tasks : g = TaskGoal(t)
    <3>1. PICK u \in Tasks : g = TaskGoal(u)
      BY <2>4
    <3>2. orch' = Working(u) /\ orch'.task = u
      BY <1>0, <3>1, GoalKinds, StateFields DEF Take
    <3>3. u < NextTask /\ events[u] = <<>> /\ Len(events[u]) = 0
      BY <1>0, <3>1 DEF GatewayInv, WorkInv
    <3>4. ASSUME NEW i \in DOMAIN goalStream', NEW t \in Tasks, goalStream'[i] = TaskGoal(t)
          PROVE  /\ t < NextTask' /\ events'[t] = <<>> /\ u # t
                 /\ \A j \in DOMAIN goalStream' : goalStream'[j] = TaskGoal(t) => i = j
      <4>1. goalStream[i + 1] = TaskGoal(t) /\ i + 1 \in DOMAIN goalStream /\ i + 1 # 1
        BY <1>0, <3>4
      <4>2. \A j \in DOMAIN goalStream : goalStream[j] = TaskGoal(t) => i + 1 = j
        BY <4>1 DEF GatewayInv, WorkInv
      <4>3. u # t
        BY <1>0, <3>1, <4>1, <4>2
      <4>4. \A j \in DOMAIN goalStream' : goalStream'[j] = TaskGoal(t) => i = j
        BY <1>0, <4>2
      <4>5. t < NextTask /\ events[t] = <<>>
        BY <4>1 DEF GatewayInv, WorkInv
      <4> QED BY <2>1, <2>2, <4>3, <4>4, <4>5
    <3> QED BY <2>1, <2>2, <3>2, <3>3, <3>4 DEF GatewayInv, WorkInv
  <2> QED BY <1>0, <2>3, <2>4, GoalKinds
<1>4. CompactInv'
  <2>1. UNCHANGED <<compact, compactId, stored, listening>>
    BY DEF Take, gateway, compacting
  <2>2. \A i \in DOMAIN goalStream', c \in Compacts : goalStream'[i] = CompactGoal(c) => Pushed(c)
    BY <1>0 DEF GatewayInv, CompactInv
  <2>3. orch'.step = "compacting" => Pushed(orch'.id)
    <3>1. CASE \E c \in Compacts : g = CompactGoal(c)
      BY <1>0, <3>1, GoalKinds, StateFields DEF GatewayInv, CompactInv, Take
    <3>2. CASE \E t \in Tasks : g = TaskGoal(t)
      BY <1>0, <3>2, GoalKinds, StateFields DEF Take
    <3> QED BY <1>0, <3>1, <3>2, GoalKinds
  <2> QED BY <2>1, <2>2, <2>3 DEF GatewayInv, CompactInv, Pushed
<1> QED BY <1>1, <1>2, <1>3, <1>4 DEF GatewayInv

\* A compact is done, and published.
LEMMA CompactKeeps ==
  ASSUME GatewayInv, Compact PROVE GatewayInv'
<1>0. orch.id \in Compacts /\ Pushed(orch.id)
  BY StateKinds DEF GatewayInv, GatewayTypeOK, CompactInv, Compact
<1>1. GatewayTypeOK'
  <2>1. orch' \in OrchStates /\ stored' \subseteq Compacts
    BY <1>0, StateFields DEF GatewayInv, GatewayTypeOK, Compact
  <2> QED BY <1>0, <2>1 DEF GatewayInv, Compact, client, compacting, connection, relays, streams,
       orchestrator, GatewayTypeOK
<1>2. CountInv' /\ RelayInv' /\ HistoryInOrder' /\ OwnAnswer'
  BY Untouched DEF Compact, gateway, client, compacting, connection, relays, gateway,
     streams, orchestrator
<1>3. WorkInv'
  <2>1. UNCHANGED <<history, events, goalStream, asked, cursor>> /\ orch' = Idle /\ Idle.step = "idle"
    BY StateFields DEF Compact, relays
  <2> QED BY <2>1 DEF GatewayInv, WorkInv, NextTask, AtWork
<1>4. CompactInv'
  <2>1. UNCHANGED <<goalStream, compactId, listening>> /\ stored' = stored \cup {orch.id}
    BY DEF Compact
  <2>2. \A c \in Compacts : Pushed(c) => Pushed(c)'
    BY <2>1 DEF Pushed, Compact
  <2>3. orch'.step # "compacting" /\ stored \subseteq Compacts
    BY StateFields DEF GatewayInv, GatewayTypeOK, Compact
  <2>4. compact' = "waiting" => listening' /\ compactId' \notin stored'
    BY <2>1 DEF GatewayInv, CompactInv, Compact
  <2>5. compact' # "none" => compactId' > 0
    BY <2>1 DEF GatewayInv, CompactInv, Compact
  <2>6. \A c \in stored' : Pushed(c)'
    BY <1>0, <2>1, <2>2, <2>3 DEF GatewayInv, CompactInv
  <2> QED BY <2>1, <2>2, <2>3, <2>4, <2>5, <2>6 DEF GatewayInv, CompactInv
<1> QED BY <1>1, <1>2, <1>3, <1>4 DEF GatewayInv

\* A request is emitted.
LEMMA RequestKeeps ==
  ASSUME GatewayInv, Request PROVE GatewayInv'
<1>0. /\ orch.step \in AtWork /\ orch.task \in Tasks /\ orch.task < NextTask
      /\ Len(events[orch.task]) = asked /\ asked \in Nat /\ MaxRequests \in Nat /\ asked < MaxRequests
      /\ RequestEvent(<<orch.task, asked + 1>>) \in EventsOf(orch.task)
      /\ events' = [events EXCEPT ![orch.task] = Append(@, RequestEvent(<<orch.task, asked + 1>>))]
      /\ NextTask \in Nat
  <2>1. orch.step \in AtWork /\ orch.task \in Tasks
    BY StateKinds DEF GatewayInv, GatewayTypeOK, Request, AtWork
  <2>2. asked \in Nat /\ MaxRequests \in Nat /\ asked < MaxRequests
    BY GatewayAssumption DEF GatewayInv, GatewayTypeOK, Request
  <2>3. RequestEvent(<<orch.task, asked + 1>>) \in EventsOf(orch.task)
    <3>1. asked + 1 \in 1 .. MaxRequests
      BY <2>2
    <3> QED BY <3>1 DEF EventsOf
  <2>4. NextTask \in Nat
    BY UsersFinite, NextTaskCounts DEF GatewayInv
  <2> QED BY <2>1, <2>2, <2>3, <2>4 DEF GatewayInv, WorkInv, Request
<1>1. /\ \A t \in Tasks : /\ events'[t] \in Seq(EventsOf(t))
                         /\ Len(events'[t]) = Len(events[t]) + (IF t = orch.task THEN 1 ELSE 0)
      /\ \A t \in Tasks : t # orch.task => events'[t] = events[t]
      /\ events' \in [Tasks -> Seq(UNION {EventsOf(t) : t \in Tasks})]
  <2>1. \A t \in Tasks : events[t] \in Seq(EventsOf(t)) /\ Len(events[t]) \in Nat
    BY LenProperties DEF GatewayInv, GatewayTypeOK
  <2>2. /\ events'[orch.task] \in Seq(EventsOf(orch.task))
        /\ Len(events'[orch.task]) = Len(events[orch.task]) + 1
    <3>1. events'[orch.task] = Append(events[orch.task], RequestEvent(<<orch.task, asked + 1>>))
      BY <1>0 DEF GatewayInv, GatewayTypeOK
    <3>2. events[orch.task] \in Seq(EventsOf(orch.task)) /\ RequestEvent(<<orch.task, asked + 1>>) \in EventsOf(orch.task)
      BY <1>0, <2>1
    <3>3. /\ Append(events[orch.task], RequestEvent(<<orch.task, asked + 1>>)) \in Seq(EventsOf(orch.task))
          /\ Len(Append(events[orch.task], RequestEvent(<<orch.task, asked + 1>>))) = Len(events[orch.task]) + 1
      BY <3>2, AppendProperties
    <3> QED BY <3>1, <3>3
  <2>3. \A t \in Tasks : t # orch.task => events'[t] = events[t]
    BY <1>0 DEF GatewayInv, GatewayTypeOK
  <2>4. \A t \in Tasks : events'[t] \in Seq(UNION {EventsOf(u) : u \in Tasks})
    <3>1. ASSUME NEW t \in Tasks PROVE events'[t] \in Seq(UNION {EventsOf(u) : u \in Tasks})
      <4>1. events'[t] \in Seq(EventsOf(t)) /\ EventsOf(t) \subseteq UNION {EventsOf(u) : u \in Tasks}
        BY <2>1, <2>2, <2>3
      <4> QED BY <4>1, SeqDef
    <3> QED BY <3>1
  <2>5. DOMAIN events' = Tasks /\ events' = [t \in Tasks |-> events'[t]]
    BY <1>0 DEF GatewayInv, GatewayTypeOK
  <2>6. events' \in [Tasks -> Seq(UNION {EventsOf(t) : t \in Tasks})]
    BY <2>4, <2>5
  <2>7. ASSUME NEW t \in Tasks
        PROVE  /\ events'[t] \in Seq(EventsOf(t))
               /\ Len(events'[t]) = Len(events[t]) + (IF t = orch.task THEN 1 ELSE 0)
    <3>1. CASE t = orch.task
      BY <2>2, <3>1
    <3>2. CASE t # orch.task
      <4>1. events'[t] = events[t] /\ Len(events[t]) + 0 = Len(events[t])
        BY <2>1, <2>3, <3>2
      <4> QED BY <2>1, <3>2, <4>1
    <3> QED BY <3>1, <3>2
  <2> QED BY <2>3, <2>6, <2>7
<1>2. GatewayTypeOK'
  <2>1. orch' \in OrchStates /\ asked' \in 0 .. MaxRequests
    BY <1>0, StateFields DEF Request, Requests
  <2>2. \A t \in Tasks : Len(events'[t]) <= MaxRequests + 1
    <3>1. ASSUME NEW t \in Tasks PROVE Len(events'[t]) <= MaxRequests + 1
      <4>1. CASE t = orch.task
        <5>1. Len(events'[t]) = asked + 1
          BY <1>0, <1>1, <4>1
        <5> QED BY <1>0, <5>1
      <4>2. CASE t # orch.task
        BY <1>1, <4>2 DEF GatewayInv, GatewayTypeOK
      <4> QED BY <4>1, <4>2
    <3> QED BY <3>1
  <2> QED BY <1>1, <2>1, <2>2 DEF GatewayInv, Request, client, compacting, connection, relays,
       streams, orchestrator, gateway, GatewayTypeOK
<1>3. CountInv' /\ RelayInv' /\ HistoryInOrder' /\ OwnAnswer'
  BY Untouched DEF Request, client, compacting, connection, relays, gateway, streams,
     orchestrator
<1>4. WorkInv'
  <2>1. UNCHANGED <<history, goalStream, cursor>>
    BY DEF Request, gateway, relays
  <2>2. UNCHANGED NextTask
    BY <2>1 DEF NextTask
  <2>3. \A t \in Tasks : t >= NextTask' => events'[t] = <<>>
    BY <1>0, <1>1, <2>2 DEF GatewayInv, WorkInv, Tasks
  <2>4. asked' = asked + 1 /\ orch'.task = orch.task
    <3>1. <<orch.task, asked + 1>> \in Requests /\ <<orch.task, asked + 1>>[1] = orch.task
      BY <1>0 DEF Requests
    <3>2. asked' = asked + 1 /\ orch' = Unread(<<orch.task, asked + 1>>)
      BY DEF Request
    <3> QED BY <3>1, <3>2, StateFields
  <2>5. ASSUME NEW i \in DOMAIN goalStream', NEW t \in Tasks, goalStream'[i] = TaskGoal(t)
        PROVE  /\ t < NextTask' /\ events'[t] = <<>> /\ t # orch.task
               /\ \A j \in DOMAIN goalStream' : goalStream'[j] = TaskGoal(t) => i = j
    <3>1. /\ t < NextTask /\ events[t] = <<>> /\ orch.task # t
          /\ \A j \in DOMAIN goalStream : goalStream[j] = TaskGoal(t) => i = j
      BY <1>0, <2>1, <2>5 DEF GatewayInv, WorkInv
    <3> QED BY <1>1, <2>1, <2>2, <3>1
  <2>6. \A t \in Tasks : cursor'[t] <= Len(events'[t])
    <3>1. \A t \in Tasks : cursor[t] \in Nat /\ Len(events[t]) \in Nat /\ cursor[t] <= Len(events[t])
      BY LenProperties DEF GatewayInv, GatewayTypeOK, WorkInv
    <3>2. \A t \in Tasks : Len(events[t]) <= Len(events'[t])
      <4>1. ASSUME NEW t \in Tasks PROVE Len(events[t]) <= Len(events'[t])
        <5>1. Len(events[t]) \in Nat /\ Len(events'[t]) \in {Len(events[t]), Len(events[t]) + 1}
          BY <1>1, <3>1
        <5> QED BY <5>1
      <4> QED BY <4>1
    <3>3. \A t \in Tasks : Len(events'[t]) \in Nat
      BY <1>1, LenProperties
    <3> QED BY <2>1, <3>1, <3>2, <3>3
  <2>7. orch'.step \in AtWork => orch'.task < NextTask' /\ Len(events'[orch'.task]) = asked'
    BY <1>0, <1>1, <2>2, <2>4
  <2>8. orch'.step \in AtWork => orch'.task = orch.task
    BY <2>4
  <2> QED BY <2>3, <2>5, <2>6, <2>7, <2>8 DEF WorkInv
<1>5. CompactInv'
  <2>1. UNCHANGED <<goalStream, compactId, compact, stored, listening>> /\ orch'.step # "compacting"
    BY <1>0, StateFields DEF Request, gateway, compacting, Requests
  <2> QED BY <2>1 DEF GatewayInv, CompactInv, Pushed
<1> QED BY <1>2, <1>3, <1>4, <1>5 DEF GatewayInv

\* The end of the turn is emitted.
LEMMA FinishKeeps ==
  ASSUME GatewayInv, Finish PROVE GatewayInv'
<1>0. /\ orch.step \in AtWork /\ orch.task \in Tasks /\ orch.task < NextTask
      /\ Len(events[orch.task]) = asked /\ asked \in Nat /\ MaxRequests \in Nat /\ asked <= MaxRequests
      /\ DoneEvent \in EventsOf(orch.task)
      /\ events' = [events EXCEPT ![orch.task] = Append(@, DoneEvent)]
      /\ NextTask \in Nat
  <2>1. orch.step \in AtWork /\ orch.task \in Tasks
    BY StateKinds DEF GatewayInv, GatewayTypeOK, Finish, AtWork
  <2>2. asked \in Nat /\ MaxRequests \in Nat /\ asked <= MaxRequests
    BY GatewayAssumption DEF GatewayInv, GatewayTypeOK
  <2>3. DoneEvent \in EventsOf(orch.task)
    BY <2>2 DEF EventsOf
  <2>4. NextTask \in Nat
    BY UsersFinite, NextTaskCounts DEF GatewayInv
  <2> QED BY <2>1, <2>2, <2>3, <2>4 DEF GatewayInv, WorkInv, Finish
<1>1. /\ \A t \in Tasks : /\ events'[t] \in Seq(EventsOf(t))
                         /\ Len(events'[t]) = Len(events[t]) + (IF t = orch.task THEN 1 ELSE 0)
      /\ \A t \in Tasks : t # orch.task => events'[t] = events[t]
      /\ events' \in [Tasks -> Seq(UNION {EventsOf(t) : t \in Tasks})]
  <2>1. \A t \in Tasks : events[t] \in Seq(EventsOf(t)) /\ Len(events[t]) \in Nat
    BY LenProperties DEF GatewayInv, GatewayTypeOK
  <2>2. /\ events'[orch.task] \in Seq(EventsOf(orch.task))
        /\ Len(events'[orch.task]) = Len(events[orch.task]) + 1
    <3>1. events'[orch.task] = Append(events[orch.task], DoneEvent)
      BY <1>0 DEF GatewayInv, GatewayTypeOK
    <3>2. events[orch.task] \in Seq(EventsOf(orch.task)) /\ DoneEvent \in EventsOf(orch.task)
      BY <1>0, <2>1
    <3>3. /\ Append(events[orch.task], DoneEvent) \in Seq(EventsOf(orch.task))
          /\ Len(Append(events[orch.task], DoneEvent)) = Len(events[orch.task]) + 1
      BY <3>2, AppendProperties
    <3> QED BY <3>1, <3>3
  <2>3. \A t \in Tasks : t # orch.task => events'[t] = events[t]
    BY <1>0 DEF GatewayInv, GatewayTypeOK
  <2>4. \A t \in Tasks : events'[t] \in Seq(UNION {EventsOf(u) : u \in Tasks})
    <3>1. ASSUME NEW t \in Tasks PROVE events'[t] \in Seq(UNION {EventsOf(u) : u \in Tasks})
      <4>1. events'[t] \in Seq(EventsOf(t)) /\ EventsOf(t) \subseteq UNION {EventsOf(u) : u \in Tasks}
        BY <2>1, <2>2, <2>3
      <4> QED BY <4>1, SeqDef
    <3> QED BY <3>1
  <2>5. DOMAIN events' = Tasks /\ events' = [t \in Tasks |-> events'[t]]
    BY <1>0 DEF GatewayInv, GatewayTypeOK
  <2>6. events' \in [Tasks -> Seq(UNION {EventsOf(t) : t \in Tasks})]
    BY <2>4, <2>5
  <2>7. ASSUME NEW t \in Tasks
        PROVE  /\ events'[t] \in Seq(EventsOf(t))
               /\ Len(events'[t]) = Len(events[t]) + (IF t = orch.task THEN 1 ELSE 0)
    <3>1. CASE t = orch.task
      BY <2>2, <3>1
    <3>2. CASE t # orch.task
      <4>1. events'[t] = events[t] /\ Len(events[t]) + 0 = Len(events[t])
        BY <2>1, <2>3, <3>2
      <4> QED BY <2>1, <3>2, <4>1
    <3> QED BY <3>1, <3>2
  <2> QED BY <2>3, <2>6, <2>7
<1>2. GatewayTypeOK'
  <2>1. orch' \in OrchStates /\ asked' \in 0 .. MaxRequests
    BY <1>0, StateFields DEF Finish, Requests
  <2>2. \A t \in Tasks : Len(events'[t]) <= MaxRequests + 1
    <3>1. ASSUME NEW t \in Tasks PROVE Len(events'[t]) <= MaxRequests + 1
      <4>1. CASE t = orch.task
        <5>1. Len(events'[t]) = asked + 1
          BY <1>0, <1>1, <4>1
        <5> QED BY <1>0, <5>1
      <4>2. CASE t # orch.task
        BY <1>1, <4>2 DEF GatewayInv, GatewayTypeOK
      <4> QED BY <4>1, <4>2
    <3> QED BY <3>1
  <2> QED BY <1>1, <2>1, <2>2 DEF GatewayInv, Finish, client, compacting, connection, relays,
       streams, orchestrator, gateway, GatewayTypeOK
<1>3. CountInv' /\ RelayInv' /\ HistoryInOrder' /\ OwnAnswer'
  BY Untouched DEF Finish, client, compacting, connection, relays, gateway, streams,
     orchestrator
<1>4. WorkInv'
  <2>1. UNCHANGED <<history, goalStream, cursor>>
    BY DEF Finish, gateway, relays
  <2>2. UNCHANGED NextTask
    BY <2>1 DEF NextTask
  <2>3. \A t \in Tasks : t >= NextTask' => events'[t] = <<>>
    BY <1>0, <1>1, <2>2 DEF GatewayInv, WorkInv, Tasks
  <2>4. orch'.step \notin AtWork
    BY StateFields DEF Finish, AtWork
  <2>5. ASSUME NEW i \in DOMAIN goalStream', NEW t \in Tasks, goalStream'[i] = TaskGoal(t)
        PROVE  /\ t < NextTask' /\ events'[t] = <<>> /\ t # orch.task
               /\ \A j \in DOMAIN goalStream' : goalStream'[j] = TaskGoal(t) => i = j
    <3>1. /\ t < NextTask /\ events[t] = <<>> /\ orch.task # t
          /\ \A j \in DOMAIN goalStream : goalStream[j] = TaskGoal(t) => i = j
      BY <1>0, <2>1, <2>5 DEF GatewayInv, WorkInv
    <3> QED BY <1>1, <2>1, <2>2, <3>1
  <2>6. \A t \in Tasks : cursor'[t] <= Len(events'[t])
    <3>1. \A t \in Tasks : cursor[t] \in Nat /\ Len(events[t]) \in Nat /\ cursor[t] <= Len(events[t])
      BY LenProperties DEF GatewayInv, GatewayTypeOK, WorkInv
    <3>2. \A t \in Tasks : Len(events[t]) <= Len(events'[t])
      <4>1. ASSUME NEW t \in Tasks PROVE Len(events[t]) <= Len(events'[t])
        <5>1. Len(events[t]) \in Nat /\ Len(events'[t]) \in {Len(events[t]), Len(events[t]) + 1}
          BY <1>1, <3>1
        <5> QED BY <5>1
      <4> QED BY <4>1
    <3>3. \A t \in Tasks : Len(events'[t]) \in Nat
      BY <1>1, LenProperties
    <3> QED BY <2>1, <3>1, <3>2, <3>3
  <2>7. orch'.step \in AtWork => orch'.task < NextTask' /\ Len(events'[orch'.task]) = asked'
    BY <1>0, <1>1, <2>2, <2>4
  <2>8. orch'.step \in AtWork => orch'.task = orch.task
    BY <2>4
  <2> QED BY <2>3, <2>5, <2>6, <2>7, <2>8 DEF WorkInv
<1>5. CompactInv'
  <2>1. UNCHANGED <<goalStream, compactId, compact, stored, listening>> /\ orch'.step # "compacting"
    BY StateFields DEF Finish, gateway, compacting, Requests
  <2> QED BY <2>1 DEF GatewayInv, CompactInv, Pushed
<1> QED BY <1>2, <1>3, <1>4, <1>5 DEF GatewayInv

\* The orchestrator starts to read.
LEMMA StartReadKeeps ==
  ASSUME GatewayInv, StartRead PROVE GatewayInv'
<1>0. orch' \in OrchStates /\ orch.step \in AtWork /\ orch'.step \in AtWork /\ orch'.task = orch.task
  <2>1. orch.step \in AtWork /\ orch.request \in Requests /\ orch.task = orch.request[1]
    BY StateKinds DEF GatewayInv, GatewayTypeOK, StartRead, AtWork
  <2> QED BY <2>1, StateFields DEF StartRead, AtWork
<1>1. GatewayTypeOK'
  BY <1>0 DEF GatewayInv, StartRead, client, compacting, connection, relays, streams,
     orchestrator, gateway, GatewayTypeOK
<1>2. CountInv' /\ RelayInv' /\ HistoryInOrder' /\ OwnAnswer'
  BY Untouched DEF StartRead, gateway, client, compacting, connection, relays, gateway,
     streams, orchestrator
<1>3. WorkInv'
  BY <1>0, TurnMoves DEF StartRead, gateway, streams, compacting, relays
<1>4. CompactInv'
  BY <1>0, TurnMoves DEF StartRead, gateway, streams, compacting, relays
<1> QED BY <1>1, <1>2, <1>3, <1>4 DEF GatewayInv

\* Its read ends with nothing.
LEMMA BlockEndsKeeps ==
  ASSUME GatewayInv, BlockEnds PROVE GatewayInv'
<1>0. orch' \in OrchStates /\ orch.step \in AtWork /\ orch'.step \in AtWork /\ orch'.task = orch.task
  <2>1. orch.step \in AtWork /\ orch.request \in Requests /\ orch.task = orch.request[1]
    BY StateKinds DEF GatewayInv, GatewayTypeOK, BlockEnds, AtWork
  <2> QED BY <2>1, StateFields DEF BlockEnds, AtWork
<1>1. GatewayTypeOK'
  BY <1>0 DEF GatewayInv, BlockEnds, client, compacting, connection, relays, streams,
     orchestrator, gateway, GatewayTypeOK
<1>2. CountInv' /\ RelayInv' /\ HistoryInOrder' /\ OwnAnswer'
  BY Untouched DEF BlockEnds, gateway, client, compacting, connection, relays, gateway,
     streams, orchestrator
<1>3. WorkInv'
  BY <1>0, TurnMoves DEF BlockEnds, gateway, streams, compacting, relays
<1>4. CompactInv'
  BY <1>0, TurnMoves DEF BlockEnds, gateway, streams, compacting, relays
<1> QED BY <1>1, <1>2, <1>3, <1>4 DEF GatewayInv

\* A request times out, and the turn goes on.
LEMMA TimeoutKeeps ==
  ASSUME GatewayInv, Timeout PROVE GatewayInv'
<1>0. orch' \in OrchStates /\ orch.step \in AtWork /\ orch'.step \in AtWork /\ orch'.task = orch.task
  <2>1. orch.step \in AtWork /\ orch.task \in Tasks
    BY StateKinds DEF GatewayInv, GatewayTypeOK, Timeout, Requested, AtWork
  <2> QED BY <2>1, StateFields DEF Timeout, AtWork
<1>1. GatewayTypeOK'
  <2>1. outcome' \in [Requests -> {<<"none">>, <<"timeout">>} \cup Requests]
    BY DEF GatewayInv, GatewayTypeOK, Timeout
  <2> QED BY <1>0, <2>1 DEF GatewayInv, Timeout, client, compacting, connection, relays, streams,
       orchestrator, gateway, GatewayTypeOK
<1>2. CountInv' /\ RelayInv' /\ HistoryInOrder'
  BY Untouched DEF Timeout, gateway, client, compacting, connection, relays, gateway,
     streams, orchestrator
<1>3. WorkInv'
  BY <1>0, TurnMoves DEF Timeout, gateway, streams, compacting, relays
<1>4. CompactInv'
  BY <1>0, TurnMoves DEF Timeout, gateway, streams, compacting, relays
<1>5. OwnAnswer'
  BY DEF GatewayInv, GatewayTypeOK, OwnAnswer, Timeout
<1> QED BY <1>1, <1>2, <1>3, <1>4, <1>5 DEF GatewayInv

\* The orchestrator dies, and what it did is forgotten.
LEMMA CrashKeeps ==
  ASSUME GatewayInv, Crash PROVE GatewayInv'
<1>0. orch' = Idle /\ orch' \in OrchStates /\ orch'.step = "idle"
  BY StateFields DEF Crash
<1>1. GatewayTypeOK'
  <2>1. crashes' \in 0 .. MaxCrashes
    BY SMTT(30), GatewayAssumption DEF GatewayInv, GatewayTypeOK, Crash
  <2> QED BY <1>0, <2>1 DEF GatewayInv, Crash, client, compacting, connection, relays, streams,
       orchestrator, gateway, GatewayTypeOK
<1>2. CountInv' /\ RelayInv' /\ HistoryInOrder' /\ OwnAnswer'
  BY Untouched DEF Crash, gateway, client, compacting, connection, relays, gateway, streams,
     orchestrator
<1>3. WorkInv'
  <2>1. UNCHANGED <<goalStream, events, history, cursor, asked>>
    BY DEF Crash, gateway, streams, relays
  <2>2. NextTask' = NextTask
    BY <2>1 DEF NextTask
  <2>3. orch'.step \notin AtWork
    BY <1>0 DEF AtWork
  <2> QED BY <2>1, <2>2, <2>3 DEF GatewayInv, WorkInv
<1>4. CompactInv'
  BY <1>0 DEF GatewayInv, CompactInv, Pushed, Crash, gateway, streams, compacting
<1> QED BY <1>1, <1>2, <1>3, <1>4 DEF GatewayInv

\* The end of the turn is lost: only the orchestrator's state tells of it.
LEMMA FinishUnheardKeeps ==
  ASSUME GatewayInv, FinishUnheard PROVE GatewayInv'
<1>0. orch' = Idle /\ orch' \in OrchStates /\ orch'.step = "idle"
  BY StateFields DEF FinishUnheard
<1>1. GatewayTypeOK'
  <2>1. unsaid' \subseteq Tasks
    BY StateKinds DEF GatewayInv, GatewayTypeOK, FinishUnheard, AtWork
  <2> QED BY <1>0, <2>1 DEF GatewayInv, FinishUnheard, client, compacting, connection, relays, streams,
       orchestrator, gateway, GatewayTypeOK
<1>2. CountInv' /\ RelayInv' /\ HistoryInOrder' /\ OwnAnswer'
  BY Untouched DEF FinishUnheard, gateway, client, compacting, connection, relays, gateway, streams,
     orchestrator
<1>3. WorkInv'
  <2>1. UNCHANGED <<goalStream, events, history, cursor, asked>>
    BY DEF FinishUnheard, gateway, streams, relays
  <2>2. NextTask' = NextTask
    BY <2>1 DEF NextTask
  <2>3. orch'.step \notin AtWork
    BY <1>0 DEF AtWork
  <2> QED BY <2>1, <2>2, <2>3 DEF GatewayInv, WorkInv
<1>4. CompactInv'
  BY <1>0 DEF GatewayInv, CompactInv, Pushed, FinishUnheard, gateway, streams, compacting
<1> QED BY <1>1, <1>2, <1>3, <1>4 DEF GatewayInv

-----------------------------------------------------------------------------
(* The theorems.                                                           *)

LEMMA GatewayInitInv == GatewayInit => GatewayInv
<1> SUFFICES ASSUME GatewayInit PROVE GatewayInv
  OBVIOUS
<1>1. GatewayTypeOK
  <2>1. {MaxSends, MaxRequests, MaxCancels, MaxCompacts, MaxCrashes} \subseteq Nat
    BY GatewayAssumption
  <2>2. \A S : <<>> \in Seq(S) /\ Len(<<>>) = 0
    OBVIOUS
  <2>3. events \in [Tasks -> Seq(UNION {EventsOf(t) : t \in Tasks})]
    BY <2>2 DEF GatewayInit
  <2>4. \A t \in Tasks : events[t] \in Seq(EventsOf(t)) /\ Len(events[t]) <= MaxRequests + 1
    BY <2>1, <2>2 DEF GatewayInit
  <2>5. cursor \in [Tasks -> 0 .. MaxRequests + 1] /\ asked \in 0 .. MaxRequests /\ crashes \in 0 .. MaxCrashes
    BY <2>1 DEF GatewayInit
  <2>6. sends \in 0 .. MaxSends /\ cancels \in 0 .. MaxCancels /\ compacts \in 0 .. MaxCompacts
    BY <2>1 DEF GatewayInit
  <2>7. compactId \in 0 .. MaxCompacts /\ orch \in OrchStates
    BY <2>1, StateFields DEF GatewayInit
  <2> QED BY <2>2, <2>3, <2>4, <2>5, <2>6, <2>7 DEF GatewayInit, GatewayTypeOK
<1>2. UserTurns = {} /\ Positions(inbox, SendFrame) = {} /\ Positions(inbox, CompactFrame) = {}
  BY DEF GatewayInit, UserTurns, Positions
<1>3. CountInv
  <2>1. Cardinality({}) = 0
    BY FS_EmptySet
  <2>2. sends = 0 /\ compacts = 0 /\ compactId = 0
    BY DEF GatewayInit
  <2> QED BY <1>2, <2>1, <2>2 DEF CountInv
<1>4. RelayInv /\ HistoryInOrder /\ OwnAnswer
  BY DEF GatewayInit, RelayInv, HistoryInOrder, OwnAnswer
<1>5. WorkInv /\ CompactInv
  BY StateFields DEF GatewayInit, WorkInv, CompactInv, AtWork
<1> QED BY <1>1, <1>3, <1>4, <1>5 DEF GatewayInv

LEMMA GatewayStep == GatewayInv /\ [GatewaySteps]_gatewayVars => GatewayInv'
<1> SUFFICES ASSUME GatewayInv, [GatewaySteps]_gatewayVars PROVE GatewayInv'
  OBVIOUS
<1>1. CASE ClientNext
  BY <1>1, ClientSendsKeeps, ClientCancelsKeeps, ClientCompactsKeeps, ClientAnswersKeeps,
     LeaveKeeps DEF ClientNext
<1>2. CASE ReaderNext
  BY <1>2, ReaderEndsKeeps, ReadSendKeeps, ReadResultKeeps, ReadCancelKeeps, BeginKeeps,
     ProceedKeeps, EndCompactKeeps DEF ReaderNext, StartCompact, CompactAnswered, CompactTimeout
<1>3. CASE RelayStep
  BY <1>3, RelayRequestKeeps, RelayDoneKeeps, RelayBreaksKeeps DEF RelayStep
<1>4. CASE OrchNext
  BY <1>4, TakeKeeps, CompactKeeps, StartReadKeeps, FinishKeeps DEF OrchNext
<1>5. CASE Request \/ BlockEnds \/ Timeout \/ Crash \/ FinishUnheard
  BY <1>5, RequestKeeps, BlockEndsKeeps, TimeoutKeeps, CrashKeeps, FinishUnheardKeeps
<1>6. CASE UNCHANGED gatewayVars
  <2>1. GatewayTypeOK'
    BY <1>6 DEF GatewayInv, GatewayTypeOK, gatewayVars, client, gateway, streams, orchestrator,
       connection, relays, compacting
  <2>2. CountInv' /\ RelayInv' /\ WorkInv' /\ CompactInv' /\ HistoryInOrder' /\ OwnAnswer'
    BY <1>6, Untouched DEF gatewayVars, client, gateway, streams, orchestrator, relays, compacting
  <2> QED BY <2>1, <2>2 DEF GatewayInv
<1> QED BY <1>1, <1>2, <1>3, <1>4, <1>5, <1>6 DEF GatewaySteps

\* The invariant holds of every reachable state of the connection.
THEOREM GatewayInvariant == GatewaySpec => []GatewayInv
<1> QED BY GatewayInitInv, GatewayStep, PTL DEF GatewaySpec

\* Every variable of the connection stays in its type.
THEOREM GatewayTypeCorrect == GatewaySpec => []GatewayTypeOK
<1>1. GatewayInv => GatewayTypeOK
  BY DEF GatewayInv
<1> QED BY <1>1, GatewayInvariant, PTL

\* Whatever is sent, cancelled or lost, an assistant's turn in the store
\* directly follows the user's turn it answers.
THEOREM AnswersFollowQuestions == GatewaySpec => []HistoryInOrder
<1>1. GatewayInv => HistoryInOrder
  BY DEF GatewayInv
<1> QED BY <1>1, GatewayInvariant, PTL

\* A client-side tool's request gets its own answer or a timeout, never the
\* answer of another request that lies in the same stream.
THEOREM RequestsGetTheirAnswer == GatewaySpec => []OwnAnswer
<1>1. GatewayInv => OwnAnswer
  BY DEF GatewayInv
<1> QED BY <1>1, GatewayInvariant, PTL

-----------------------------------------------------------------------------
(* A connection is a conversation: each step is one of Conversation, or     *)
(* none.                                                                    *)

\* What the agent is told is of a request it made; of the one it waits for it was not told yet.
ToldInv ==
  /\ \A r \in Requests : outcome[r] # <<"none">> => r[2] <= Len(events[r[1]])
  /\ Requested =>
       outcome[orch.request] = <<"none">> /\ orch.request[2] <= Len(events[orch.request[1]])

LEMMA ToldInit == GatewayInit => ToldInv
BY DEF GatewayInit, ToldInv, Requested, Idle

\* The events of a task grow only.
LEMMA EventsGrow ==
  ASSUME GatewayInv, NEW e,
         events' = [events EXCEPT ![orch.task] = Append(@, e)], events' \in [Tasks -> Seq(UNION {EventsOf(t) : t \in Tasks})],
         orch.task \in Tasks
  PROVE  /\ \A t \in Tasks : Len(events[t]) \in Nat /\ Len(events'[t]) \in Nat
                             /\ Len(events[t]) <= Len(events'[t])
         /\ Len(events'[orch.task]) = Len(events[orch.task]) + 1
<1>1. \A t \in Tasks : Len(events[t]) \in Nat /\ Len(events'[t]) \in Nat
  BY LenProperties DEF GatewayInv, GatewayTypeOK
<1>2. events'[orch.task] = Append(events[orch.task], e)
      /\ \A t \in Tasks \ {orch.task} : events'[t] = events[t]
  BY DEF GatewayInv, GatewayTypeOK
<1>3. Len(Append(events[orch.task], e)) = Len(events[orch.task]) + 1
  <2>1. events[orch.task] \in Seq(EventsOf(orch.task) \cup {e})
    <3>1. events[orch.task] \in Seq(EventsOf(orch.task))
      BY DEF GatewayInv, GatewayTypeOK
    <3> QED BY <3>1, SeqDef
  <2> QED BY <2>1, AppendProperties
<1>4. ASSUME NEW t \in Tasks PROVE Len(events[t]) <= Len(events'[t])
  <2>1. Len(events'[t]) \in {Len(events[t]), Len(events[t]) + 1}
    BY <1>2, <1>3
  <2> QED BY <1>1, <2>1
<1> QED BY <1>1, <1>2, <1>3, <1>4

\* Who waits for a result waits for that of a request of its turn.
LEMMA Waiting ==
  ASSUME GatewayInv, Requested PROVE orch.request \in Requests /\ orch.task \in Tasks
<1>1. orch \in OrchStates
  BY DEF GatewayInv, GatewayTypeOK
<1>2. orch.step \in {"unread", "reading", "following"} /\ orch.step \in AtWork
  BY DEF Requested, AtWork
<1> QED BY <1>1, <1>2, StateKinds

\* The ends of the requests are a function on the requests, which an EXCEPT changes at one of them.
LEMMA Ends == GatewayInv => outcome = [q \in Requests |-> outcome[q]]
<1> SUFFICES ASSUME GatewayInv PROVE outcome = [q \in Requests |-> outcome[q]]
  OBVIOUS
<1>1. GatewayTypeOK
  BY DEF GatewayInv
<1> QED BY <1>1 DEF GatewayTypeOK

LEMMA ToldStep == GatewayInv /\ GatewayInv' /\ ToldInv /\ [GatewaySteps]_gatewayVars => ToldInv'
<1> SUFFICES ASSUME GatewayInv, GatewayInv', ToldInv, [GatewaySteps]_gatewayVars PROVE ToldInv'
  OBVIOUS
<1>0. \A r \in Requests : r[1] \in Tasks /\ r[2] \in 1 .. MaxRequests /\ r = <<r[1], r[2]>>
  BY DEF Requests
<1>1. ASSUME UNCHANGED <<events, outcome>>,
             Requested' => /\ Requested
                           /\ orch'.request = orch.request
      PROVE  ToldInv'
  BY <1>1 DEF ToldInv
<1>2. ASSUME ReadResult PROVE ToldInv'
  <2>1. PICK r \in Requests :
          /\ orch' = CASE Matches(r) -> Working(orch.task)
                       [] PassesOver(r) /\ ~Matches(r) -> Following(orch.request)
                       [] OTHER -> orch
          /\ outcome' = IF Matches(r) THEN [outcome EXCEPT ![orch.request] = r] ELSE outcome
          /\ events' = events
    BY <1>2 DEF ReadResult
  <2>2. CASE Matches(r)
    <3>1. Requested /\ orch.request = r /\ orch.task \in Tasks /\ orch'.step = "working"
      <4>1. Requested /\ orch.request = r /\ orch' = Working(orch.task)
        BY <2>1, <2>2 DEF Matches, Requested
      <4> QED BY <4>1, Waiting, StateFields
    <3>2. \A q \in Requests \ {r} : outcome'[q] = outcome[q]
      BY <2>1, <2>2, <3>1, Ends
    <3>3. r[2] <= Len(events[r[1]])
      BY <3>1 DEF ToldInv
    <3>4. ASSUME NEW q \in Requests, outcome'[q] # <<"none">> PROVE q[2] <= Len(events'[q[1]])
      <4>1. events' = events
        BY <2>1
      <4>2. CASE q = r
        BY <3>3, <4>1, <4>2
      <4>3. CASE q # r
        BY <3>2, <3>4, <4>1, <4>3 DEF ToldInv
      <4> QED BY <4>2, <4>3
    <3>5. ~Requested'
      BY <3>1 DEF Requested
    <3> QED BY <3>4, <3>5 DEF ToldInv
  <2>3. CASE PassesOver(r) /\ ~Matches(r)
    <3>1. orch.request \in Requests /\ Requested
      BY <2>3, Waiting DEF PassesOver, Requested
    <3>2. orch'.request = orch.request
      BY <2>1, <2>3, <3>1, StateFields
    <3> QED BY <1>1, <2>1, <2>3, <3>1, <3>2
  <2>4. CASE ~PassesOver(r) /\ ~Matches(r)
    BY <1>1, <2>1, <2>4 DEF Requested
  <2> QED BY <2>2, <2>3, <2>4
<1>3. ASSUME Timeout PROVE ToldInv'
  <2>1. /\ orch.request \in Requests /\ orch.task \in Tasks /\ Requested
        /\ orch' = Working(orch.task) /\ UNCHANGED events
        /\ outcome' = [outcome EXCEPT ![orch.request] = <<"timeout">>]
    <3>1. Requested
      BY <1>3 DEF Timeout
    <3>2. /\ orch' = Working(orch.task) /\ UNCHANGED events
          /\ outcome' = [outcome EXCEPT ![orch.request] = <<"timeout">>]
      BY <1>3 DEF Timeout, streams
    <3> QED BY <3>1, <3>2, Waiting
  <2>2. ~Requested'
    BY <2>1, StateFields DEF Requested
  <2>3. \A q \in Requests \ {orch.request} : outcome'[q] = outcome[q]
    BY <2>1, Ends
  <2>4. orch.request[2] <= Len(events[orch.request[1]])
    BY <2>1 DEF ToldInv
  <2>5. ASSUME NEW q \in Requests, outcome'[q] # <<"none">> PROVE q[2] <= Len(events'[q[1]])
    <3>1. events' = events
      BY <2>1
    <3>2. CASE q = orch.request
      BY <2>4, <3>1, <3>2
    <3>3. CASE q # orch.request
      BY <2>3, <2>5, <3>1, <3>3 DEF ToldInv
    <3> QED BY <3>2, <3>3
  <2> QED BY <2>2, <2>5 DEF ToldInv
<1>4. ASSUME Request PROVE ToldInv'
  <2> DEFINE r == <<orch.task, asked + 1>>
  <2>1. /\ orch.step = "working" /\ orch.task \in Tasks /\ asked \in Nat /\ asked < MaxRequests
        /\ Len(events[orch.task]) = asked /\ UNCHANGED outcome /\ orch' = Unread(r)
        /\ events' = [events EXCEPT ![orch.task] = Append(@, RequestEvent(r))]
    BY <1>4, StateKinds DEF Request, GatewayInv, GatewayTypeOK, WorkInv, AtWork
  <2>2. asked + 1 \in 1 .. MaxRequests /\ MaxRequests \in Nat
    BY <2>1, GatewayAssumption
  <2>3. r \in Requests /\ r[1] = orch.task /\ r[2] = asked + 1
    BY <2>1, <2>2 DEF Requests
  <2> HIDE DEF r
  <2>4. /\ \A t \in Tasks : Len(events[t]) \in Nat /\ Len(events'[t]) \in Nat
                            /\ Len(events[t]) <= Len(events'[t])
        /\ Len(events'[orch.task]) = asked + 1
    BY <2>1, EventsGrow DEF GatewayInv, GatewayTypeOK
  <2>5. outcome[r] = <<"none">>
    <3>1. ~(r[2] <= Len(events[r[1]]))
      BY <2>1, <2>3
    <3> QED BY <2>3, <3>1 DEF ToldInv
  <2>6. orch'.request = r
    BY <2>1, <2>3, StateFields
  <2>7. \A q \in Requests : outcome'[q] # <<"none">> => q[2] <= Len(events'[q[1]])
    BY <1>0, <2>1, <2>4 DEF ToldInv
  <2> QED BY <2>1, <2>3, <2>4, <2>5, <2>6, <2>7 DEF ToldInv
<1>5. ASSUME Finish PROVE ToldInv'
  <2>1. /\ orch.task \in Tasks /\ UNCHANGED outcome /\ orch' = Idle
        /\ events' = [events EXCEPT ![orch.task] = Append(@, DoneEvent)]
    BY <1>5, StateKinds DEF Finish, GatewayInv, GatewayTypeOK, AtWork
  <2>2. \A t \in Tasks : Len(events[t]) \in Nat /\ Len(events'[t]) \in Nat
                            /\ Len(events[t]) <= Len(events'[t])
    BY <2>1, EventsGrow DEF GatewayInv, GatewayTypeOK
  <2>3. \A q \in Requests : outcome'[q] # <<"none">> => q[2] <= Len(events'[q[1]])
    BY <1>0, <2>1, <2>2 DEF ToldInv
  <2> QED BY <2>1, <2>3, StateFields DEF ToldInv, Requested
<1>6. ASSUME StartRead \/ BlockEnds PROVE ToldInv'
  <2>1. /\ Requested /\ orch.request \in Requests /\ UNCHANGED <<events, outcome>>
        /\ orch' \in {ReadingFrom(orch.request), Unread(orch.request)}
    <3>1. Requested
      BY <1>6 DEF StartRead, BlockEnds, Requested
    <3>2. UNCHANGED <<events, outcome>> /\ orch' \in {ReadingFrom(orch.request), Unread(orch.request)}
      BY <1>6 DEF StartRead, BlockEnds, streams
    <3> QED BY <3>1, <3>2, Waiting
  <2>2. orch'.request = orch.request
    BY <2>1, StateFields
  <2> QED BY <1>1, <2>1, <2>2
<1>7. ASSUME Take \/ Compact \/ Crash \/ FinishUnheard PROVE ToldInv'
  <2>1. UNCHANGED <<events, outcome>>
    BY <1>7 DEF Take, Compact, Crash, FinishUnheard, streams
  <2>2. orch'.step \notin {"unread", "reading", "following"}
    <3>1. CASE Compact \/ Crash \/ FinishUnheard
      BY <3>1, StateFields DEF Compact, Crash, FinishUnheard
    <3>2. CASE Take
      <4>1. Head(goalStream) \in GoalEntries
        BY <3>2, HeadTailProperties DEF Take, GatewayInv, GatewayTypeOK
      <4>2. orch' = IF Head(goalStream).kind = "compact" THEN Compacting(Head(goalStream).id)
                    ELSE Working(Head(goalStream).task)
        BY <3>2 DEF Take
      <4>3. CASE \E t \in Tasks : Head(goalStream) = TaskGoal(t)
        BY <4>2, <4>3, GoalKinds, StateFields
      <4>4. CASE \E c \in Compacts : Head(goalStream) = CompactGoal(c)
        BY <4>2, <4>4, GoalKinds, StateFields
      <4> QED BY <4>1, <4>3, <4>4, GoalKinds
    <3> QED BY <1>7, <3>1, <3>2
  <2> QED BY <1>1, <2>1, <2>2 DEF Requested
<1>8. ASSUME UNCHANGED <<events, outcome, orch>> PROVE ToldInv'
  BY <1>1, <1>8 DEF Requested
<1>9. CASE ClientNext
  BY <1>8, <1>9 DEF ClientNext, ClientSends, ClientCancels, ClientCompacts, ClientAnswers, Leave,
     Submit, streams, orchestrator
<1>10. CASE ReaderNext
  BY <1>2, <1>8, <1>10 DEF ReaderNext, ReaderEnds, ReadSend, HandleSend, ReadCancel, StartCompact,
     Begin, Proceed, CompactAnswered, CompactTimeout, EndCompact, streams, orchestrator
<1>11. CASE RelayStep
  BY <1>8, <1>11 DEF RelayStep, RelayRequest, RelayDone, RelayBreaks, streams, orchestrator
<1>12. CASE UNCHANGED gatewayVars
  BY <1>8, <1>12 DEF gatewayVars, streams, orchestrator
<1> QED BY <1>3, <1>4, <1>5, <1>6, <1>7, <1>9, <1>10, <1>11, <1>12 DEF GatewaySteps, OrchNext

-----------------------------------------------------------------------------

\* The requests the relays have forwarded.
Sent == {r \in Requests : \E i \in 1 .. cursor[r[1]] : events[r[1]][i] = RequestEvent(r)}

\* The n-th event of a task is its n-th request, or the end of the turn.
EventsInv ==
  \A t \in Tasks : \A i \in 1 .. Len(events[t]) : events[t][i] \in {DoneEvent, RequestEvent(<<t, i>>)}

\* A tool that runs was asked for, and its result is not on its way; no result is on its way twice.
FlowInv ==
  /\ running \subseteq Sent
  /\ \A i \in DOMAIN inbox, r \in Requests : inbox[i] = ResultFrame(r) =>
       /\ r \in Sent /\ r \notin running
       /\ \A j \in DOMAIN inbox : inbox[j] = ResultFrame(r) => i = j

\* Requests are told apart by their events, and no request ends a turn.
LEMMA EventKinds ==
  /\ \A q, r \in Requests : RequestEvent(q) = RequestEvent(r) => q = r
  /\ \A r \in Requests : RequestEvent(r) # DoneEvent /\ RequestEvent(r).request = r
<1>1. /\ DoneEvent.type = "turn.done"
      /\ \A r \in Requests : RequestEvent(r).request = r /\ RequestEvent(r).type = "tool.request"
  BY DEF DoneEvent, RequestEvent
<1>2. \A q, r \in Requests : RequestEvent(q) = RequestEvent(r) => q = r
  BY <1>1
<1>3. \A r \in Requests : RequestEvent(r) # DoneEvent
  BY <1>1
<1> QED BY <1>1, <1>2, <1>3

\* What a task has emitted stays, and the new event comes last.
LEMMA EventsAppended ==
  ASSUME GatewayInv, NEW e,
         events' = [events EXCEPT ![orch.task] = Append(@, e)], orch.task \in Tasks
  PROVE  /\ \A t \in Tasks : Len(events[t]) \in Nat
         /\ \A t \in Tasks \ {orch.task} : events'[t] = events[t]
         /\ Len(events'[orch.task]) = Len(events[orch.task]) + 1
         /\ \A i \in 1 .. Len(events[orch.task]) : events'[orch.task][i] = events[orch.task][i]
         /\ events'[orch.task][Len(events[orch.task]) + 1] = e
<1>1. \A t \in Tasks : Len(events[t]) \in Nat
  BY LenProperties DEF GatewayInv, GatewayTypeOK
<1>2. events'[orch.task] = Append(events[orch.task], e)
      /\ \A t \in Tasks \ {orch.task} : events'[t] = events[t]
  BY DEF GatewayInv, GatewayTypeOK
<1>3. events[orch.task] \in Seq(EventsOf(orch.task) \cup {e})
  <2>1. events[orch.task] \in Seq(EventsOf(orch.task))
    BY DEF GatewayInv, GatewayTypeOK
  <2> QED BY <2>1, SeqDef
<1> QED BY <1>1, <1>2, <1>3, AppendProperties

LEMMA EventsInvStep ==
  ASSUME GatewayInv, EventsInv, [GatewaySteps]_gatewayVars PROVE EventsInv'
<1>1. ASSUME UNCHANGED events PROVE EventsInv'
  BY <1>1 DEF EventsInv
<1>2. ASSUME NEW e, orch.task \in Tasks,
             events' = [events EXCEPT ![orch.task] = Append(@, e)],
             e \in {DoneEvent, RequestEvent(<<orch.task, Len(events[orch.task]) + 1>>)}
      PROVE  EventsInv'
  <2> SUFFICES ASSUME NEW t \in Tasks, NEW i \in 1 .. Len(events'[t])
               PROVE  events'[t][i] \in {DoneEvent, RequestEvent(<<t, i>>)}
    BY DEF EventsInv
  <2>1. /\ \A u \in Tasks \ {orch.task} : events'[u] = events[u]
        /\ Len(events[orch.task]) \in Nat
        /\ Len(events'[orch.task]) = Len(events[orch.task]) + 1
        /\ \A j \in 1 .. Len(events[orch.task]) : events'[orch.task][j] = events[orch.task][j]
        /\ events'[orch.task][Len(events[orch.task]) + 1] = e
    BY <1>2, EventsAppended
  <2>2. CASE t # orch.task
    BY <2>1, <2>2 DEF EventsInv
  <2>3. CASE t = orch.task
    <3>1. i \in 1 .. Len(events[t]) \/ i = Len(events[t]) + 1
      BY <2>1, <2>3
    <3>2. CASE i \in 1 .. Len(events[t])
      BY <2>1, <2>3, <3>2 DEF EventsInv
    <3>3. CASE i = Len(events[t]) + 1
      BY <1>2, <2>1, <2>3, <3>3
    <3> QED BY <3>1, <3>2, <3>3
  <2> QED BY <2>2, <2>3
<1>3. CASE Request
  <2>1. /\ orch.task \in Tasks /\ Len(events[orch.task]) = asked
        /\ events' = [events EXCEPT ![orch.task] = Append(@, RequestEvent(<<orch.task, asked + 1>>))]
    BY <1>3, StateKinds DEF Request, GatewayInv, GatewayTypeOK, WorkInv, AtWork
  <2> QED BY <1>2, <2>1
<1>4. CASE Finish
  <2>1. orch.task \in Tasks /\ events' = [events EXCEPT ![orch.task] = Append(@, DoneEvent)]
    BY <1>4, StateKinds DEF Finish, GatewayInv, GatewayTypeOK, AtWork
  <2> QED BY <1>2, <2>1
<1>5. CASE ClientNext
  BY <1>1, <1>5 DEF ClientNext, ClientSends, ClientCancels, ClientCompacts, ClientAnswers, Leave,
     Submit, streams
<1>6. CASE ReaderNext
  BY <1>1, <1>6 DEF ReaderNext, ReaderEnds, ReadSend, HandleSend, ReadResult, ReadCancel,
     StartCompact, Begin, Proceed, CompactAnswered, CompactTimeout, EndCompact, streams
<1>7. CASE RelayStep \/ Take \/ Compact \/ StartRead \/ BlockEnds \/ Timeout \/ Crash \/ FinishUnheard
  BY <1>1, <1>7 DEF RelayStep, RelayRequest, RelayDone, RelayBreaks, Take, Compact, StartRead,
     BlockEnds, Timeout, Crash, FinishUnheard, streams
<1>8. CASE UNCHANGED gatewayVars
  BY <1>1, <1>8 DEF gatewayVars, streams
<1> QED BY <1>3, <1>4, <1>5, <1>6, <1>7, <1>8 DEF GatewaySteps, OrchNext

\* Events that are not forwarded yet are not sent, and what is emitted changes none of them.
LEMMA SentStays ==
  ASSUME GatewayInv, UNCHANGED cursor,
         \A t \in Tasks : \A i \in 1 .. Len(events[t]) : events'[t][i] = events[t][i]
  PROVE  Sent' = Sent
<1>1. \A r \in Requests : r[1] \in Tasks
  BY DEF Requests
<1>2. ASSUME NEW t \in Tasks, NEW i \in 1 .. cursor[t] PROVE events'[t][i] = events[t][i]
  <2>1. cursor[t] \in Nat /\ Len(events[t]) \in Nat /\ cursor[t] <= Len(events[t])
    BY LenProperties, GatewayAssumption DEF GatewayInv, GatewayTypeOK, WorkInv
  <2>2. i \in 1 .. Len(events[t])
    BY <2>1
  <2> QED BY <2>2
<1> QED BY <1>1, <1>2 DEF Sent

LEMMA SentByTurns ==
  ASSUME GatewayInv, Request \/ Finish PROVE Sent' = Sent
<1>1. PICK e : events' = [events EXCEPT ![orch.task] = Append(@, e)]
  BY DEF Request, Finish
<1>2. orch.task \in Tasks /\ UNCHANGED cursor
  BY StateKinds DEF Request, Finish, GatewayInv, GatewayTypeOK, AtWork, gateway, relays
<1>3. \A t \in Tasks : \A i \in 1 .. Len(events[t]) : events'[t][i] = events[t][i]
  BY <1>1, <1>2, EventsAppended
<1> QED BY <1>2, <1>3, SentStays

\* The event a relay takes is the one at its cursor.
LEMMA RelayTakes ==
  ASSUME GatewayInv, EventsInv, NEW t \in Tasks, HasEvent(t)
  PROVE  /\ cursor[t] \in Nat /\ cursor[t] + 1 \in 1 .. Len(events[t])
         /\ NextEvent(t) # DoneEvent =>
              /\ <<t, cursor[t] + 1>> \in Requests
              /\ NextEvent(t) = RequestEvent(<<t, cursor[t] + 1>>)
<1>1. Len(events[t]) \in Nat /\ cursor[t] \in Nat /\ events[t] \in Seq(EventsOf(t))
  BY LenProperties, GatewayAssumption DEF GatewayInv, GatewayTypeOK
<1>2. cursor[t] + 1 \in 1 .. Len(events[t])
  BY <1>1 DEF HasEvent
<1>3. ASSUME NextEvent(t) # DoneEvent
      PROVE  <<t, cursor[t] + 1>> \in Requests /\ NextEvent(t) = RequestEvent(<<t, cursor[t] + 1>>)
  <2>1. NextEvent(t) = RequestEvent(<<t, cursor[t] + 1>>)
    BY <1>2, <1>3 DEF EventsInv, NextEvent
  <2>2. NextEvent(t) \in EventsOf(t)
    BY <1>1, <1>2, ElementOfSeq DEF NextEvent
  <2>3. PICK n \in 1 .. MaxRequests : NextEvent(t) = RequestEvent(<<t, n>>)
    BY <1>3, <2>2 DEF EventsOf
  <2>4. <<t, n>> = <<t, cursor[t] + 1>>
    <3>1. NextEvent(t).request = <<t, n>> /\ NextEvent(t).request = <<t, cursor[t] + 1>>
      BY <2>1, <2>3 DEF RequestEvent
    <3> QED BY <3>1
  <2>5. <<t, n>> \in Requests
    BY DEF Requests
  <2> QED BY <2>1, <2>4, <2>5
<1> QED BY <1>1, <1>2, <1>3

\* A relay that forwards a request has not forwarded it before.
LEMMA SentGrows ==
  ASSUME GatewayInv, EventsInv, NEW t \in Tasks, RelayRequest(t)
  PROVE  /\ <<t, cursor[t] + 1>> \in Requests \ Sent
         /\ Sent' = Sent \cup {<<t, cursor[t] + 1>>}
         /\ NextEvent(t).request = <<t, cursor[t] + 1>>
<1> DEFINE n == cursor[t] + 1
<1>1. /\ HasEvent(t) /\ NextEvent(t) # DoneEvent
      /\ cursor' = [cursor EXCEPT ![t] = @ + 1] /\ UNCHANGED events
  BY DEF RelayRequest, streams
<1>2. /\ cursor[t] \in Nat /\ n \in 1 .. Len(events[t]) /\ <<t, n>> \in Requests
      /\ NextEvent(t) = RequestEvent(<<t, n>>)
  BY <1>1, RelayTakes
<1>3. \A r \in Requests : r[1] \in Tasks /\ r = <<r[1], r[2]>>
  BY DEF Requests
<1>4. Len(events[t]) \in Nat /\ n = cursor[t] + 1 /\ events[t][n] = RequestEvent(<<t, n>>)
  BY <1>2, LenProperties DEF GatewayInv, GatewayTypeOK, NextEvent
<1>5. cursor'[t] = n /\ \A u \in Tasks \ {t} : cursor'[u] = cursor[u]
  BY <1>1 DEF GatewayInv, GatewayTypeOK
<1> HIDE DEF n
<1>6. \A i \in 1 .. cursor[t] : events[t][i] # RequestEvent(<<t, n>>)
  <2> SUFFICES ASSUME NEW i \in 1 .. cursor[t], events[t][i] = RequestEvent(<<t, n>>) PROVE FALSE
    OBVIOUS
  <2>1. i \in 1 .. Len(events[t]) /\ i # n
    BY <1>2, <1>4
  <2>2. RequestEvent(<<t, n>>) \in {DoneEvent, RequestEvent(<<t, i>>)}
    BY <2>1 DEF EventsInv
  <2>3. RequestEvent(<<t, n>>).request = <<t, n>> /\ RequestEvent(<<t, i>>).request = <<t, i>>
    BY DEF RequestEvent
  <2>4. RequestEvent(<<t, n>>) # DoneEvent
    BY <1>2, EventKinds
  <2> QED BY <2>1, <2>2, <2>3, <2>4
<1>7. <<t, n>> \notin Sent
  BY <1>6 DEF Sent
<1>8. ASSUME NEW r \in Requests PROVE r \in Sent' <=> r \in Sent \/ r = <<t, n>>
  <2>1. CASE r[1] # t
    <3>1. r # <<t, n>>
      BY <2>1
    <3>2. cursor'[r[1]] = cursor[r[1]]
      BY <1>3, <1>5, <2>1
    <3> QED BY <1>1, <3>1, <3>2 DEF Sent
  <2>2. CASE r[1] = t
    <3>1. r \in Sent' <=> \E i \in 1 .. n : events[t][i] = RequestEvent(r)
      BY <1>1, <1>5, <2>2 DEF Sent
    <3>2. r \in Sent <=> \E i \in 1 .. cursor[t] : events[t][i] = RequestEvent(r)
      BY <2>2 DEF Sent
    <3>3. events[t][n] = RequestEvent(r) <=> r = <<t, n>>
      BY <1>2, <1>4, EventKinds
    <3>4. \A i : i \in 1 .. n <=> i \in 1 .. cursor[t] \/ i = n
      BY <1>2, <1>4
    <3> QED BY <3>1, <3>2, <3>3, <3>4
  <2> QED BY <2>1, <2>2
<1>9. Sent' = Sent \cup {<<t, n>>}
  <2>1. Sent \subseteq Requests /\ Sent' \subseteq Requests
    BY <1>1 DEF Sent, Requests, Tasks
  <2> QED BY <1>2, <1>8, <2>1
<1> QED BY <1>2, <1>7, <1>9, EventKinds DEF n

\* The end of a turn is no request.
LEMMA SentByDone ==
  ASSUME GatewayInv, EventsInv, NEW t \in Tasks, RelayDone(t) PROVE Sent' = Sent
<1> DEFINE n == cursor[t] + 1
<1>1. /\ HasEvent(t) /\ NextEvent(t) = DoneEvent
      /\ cursor' = [cursor EXCEPT ![t] = @ + 1] /\ UNCHANGED events
  BY DEF RelayDone, streams
<1>2. cursor[t] \in Nat /\ n = cursor[t] + 1 /\ events[t][n] = DoneEvent
  BY <1>1, RelayTakes DEF NextEvent
<1>3. cursor'[t] = n /\ \A u \in Tasks \ {t} : cursor'[u] = cursor[u]
  BY <1>1 DEF GatewayInv, GatewayTypeOK
<1> HIDE DEF n
<1>4. ASSUME NEW r \in Requests PROVE r \in Sent' <=> r \in Sent
  <2>1. r[1] \in Tasks
    BY DEF Requests
  <2>2. CASE r[1] # t
    <3>1. cursor'[r[1]] = cursor[r[1]]
      BY <1>3, <2>1, <2>2
    <3> QED BY <1>1, <3>1 DEF Sent
  <2>3. CASE r[1] = t
    <3>1. r \in Sent' <=> \E i \in 1 .. n : events[t][i] = RequestEvent(r)
      BY <1>1, <1>3, <2>3 DEF Sent
    <3>2. r \in Sent <=> \E i \in 1 .. cursor[t] : events[t][i] = RequestEvent(r)
      BY <2>3 DEF Sent
    <3>3. events[t][n] # RequestEvent(r)
      BY <1>2, EventKinds
    <3>4. \A i : i \in 1 .. n <=> i \in 1 .. cursor[t] \/ i = n
      BY <1>2
    <3> QED BY <3>1, <3>2, <3>3, <3>4
  <2> QED BY <2>2, <2>3
<1>5. Sent \subseteq Requests /\ Sent' \subseteq Requests
  BY <1>1 DEF Sent, Requests, Tasks
<1> QED BY <1>4, <1>5

-----------------------------------------------------------------------------

\* What the conversation's open question and results on their way are here.
OpenTurn == IF RelayRuns THEN activeTask ELSE NoTask
Coming == {r \in Requests : \E i \in DOMAIN inbox : inbox[i] = ResultFrame(r)}

\* A frame that is submitted comes last.
LEMMA InboxGrows ==
  ASSUME GatewayInv, NEW frame \in Frames, Submit(frame)
  PROVE  /\ Len(inbox) \in Nat /\ DOMAIN inbox = 1 .. Len(inbox)
         /\ DOMAIN inbox' = 1 .. (Len(inbox) + 1)
         /\ \A i \in 1 .. Len(inbox) : inbox'[i] = inbox[i]
         /\ inbox'[Len(inbox) + 1] = frame
<1>1. inbox' = Append(inbox, frame) /\ inbox \in Seq(Frames)
  BY DEF Submit, GatewayInv, GatewayTypeOK
<1> QED BY <1>1, LenProperties, AppendProperties

\* A frame that is taken was the first.
LEMMA InboxShrinks ==
  ASSUME GatewayInv, NEW frame, ReadsFrame(frame)
  PROVE  /\ 1 \in DOMAIN inbox /\ inbox[1] = frame
         /\ \A i \in DOMAIN inbox' : i \in Nat \ {0} /\ i + 1 \in DOMAIN inbox /\ inbox'[i] = inbox[i + 1]
         /\ \A i \in DOMAIN inbox : i = 1 \/ (i - 1 \in DOMAIN inbox' /\ inbox'[i - 1] = inbox[i])
<1>1. inbox # <<>> /\ Head(inbox) = frame /\ inbox' = Tail(inbox) /\ inbox \in Seq(Frames)
  BY DEF ReadsFrame, GatewayInv, GatewayTypeOK
<1>2. /\ Len(inbox) \in Nat /\ Len(inbox) > 0 /\ DOMAIN inbox = 1 .. Len(inbox)
      /\ DOMAIN inbox' = 1 .. (Len(inbox) - 1)
      /\ \A i \in 1 .. (Len(inbox) - 1) : inbox'[i] = inbox[i + 1]
      /\ inbox[1] = frame
  BY <1>1, LenProperties, HeadTailProperties, EmptySeq
<1>3. \A i \in DOMAIN inbox' : i \in Nat \ {0} /\ i + 1 \in DOMAIN inbox /\ inbox'[i] = inbox[i + 1]
  BY <1>2
<1>4. \A i \in DOMAIN inbox : i = 1 \/ (i - 1 \in DOMAIN inbox' /\ inbox'[i - 1] = inbox[i])
  BY <1>2
<1>5. 1 \in DOMAIN inbox
  BY <1>2
<1> QED BY <1>2, <1>3, <1>4, <1>5

\* A frame that is submitted is on its way, if it is a result.
LEMMA FrameComes ==
  ASSUME GatewayInv, NEW frame \in Frames, Submit(frame)
  PROVE  Coming' = Coming \cup {r \in Requests : frame = ResultFrame(r)}
<1>1. \A i \in DOMAIN inbox' : i \in DOMAIN inbox \/ i = Len(inbox) + 1
  BY InboxGrows
<1>2. Len(inbox) + 1 \in DOMAIN inbox' /\ DOMAIN inbox \subseteq DOMAIN inbox'
  BY InboxGrows
<1> QED BY <1>1, <1>2, InboxGrows DEF Coming

\* Results are told apart by their requests.
LEMMA ResultOf == \A q, r \in Requests : ResultFrame(q) = ResultFrame(r) => q = r
<1>1. \A r \in Requests : ResultFrame(r).request = r
  BY DEF ResultFrame
<1> QED BY <1>1

\* A frame that is taken was on its way, is so no more, and no other is taken.
LEMMA FrameGoes ==
  ASSUME GatewayInv, FlowInv, NEW frame, ReadsFrame(frame)
  PROVE  Coming' = {r \in Coming : frame # ResultFrame(r)}
         /\ \A r \in Requests : frame = ResultFrame(r) => r \in Coming
<1>1. ASSUME NEW r \in Coming' PROVE r \in Coming /\ frame # ResultFrame(r)
  <2>1. r \in Requests
    BY DEF Coming
  <2>2. PICK i \in DOMAIN inbox' : inbox'[i] = ResultFrame(r)
    BY DEF Coming
  <2>3. i \in Nat \ {0} /\ i + 1 \in DOMAIN inbox /\ inbox[i + 1] = ResultFrame(r)
    BY <2>2, InboxShrinks
  <2>4. i + 1 # 1
    BY <2>3
  <2>5. frame # ResultFrame(r)
    BY <2>1, <2>3, <2>4, InboxShrinks DEF FlowInv
  <2> QED BY <2>1, <2>3, <2>5 DEF Coming
<1>2. ASSUME NEW r \in Coming, frame # ResultFrame(r) PROVE r \in Coming'
  <2>1. PICK i \in DOMAIN inbox : inbox[i] = ResultFrame(r) /\ r \in Requests
    BY DEF Coming
  <2>2. i # 1
    BY <1>2, <2>1, InboxShrinks
  <2>3. i - 1 \in DOMAIN inbox' /\ inbox'[i - 1] = ResultFrame(r)
    BY <2>1, <2>2, InboxShrinks
  <2> QED BY <2>1, <2>3 DEF Coming
<1>3. \A r \in Requests : frame = ResultFrame(r) => r \in Coming
  BY InboxShrinks DEF Coming
<1> QED BY <1>1, <1>2, <1>3

\* No frame but a result is a result.
LEMMA NoResult ==
  \A r \in Requests : ResultFrame(r) \notin {SendFrame, CancelFrame, CompactFrame}
<1>1. /\ SendFrame.type = "send" /\ CancelFrame.type = "cancel" /\ CompactFrame.type = "compact"
      /\ \A r \in Requests : ResultFrame(r).type = "tool.result"
  BY DEF SendFrame, CancelFrame, CompactFrame, ResultFrame
<1> QED BY <1>1

\* What has been forwarded stays forwarded, and only a relay forwards.
LEMMA SentKept ==
  ASSUME GatewayInv, EventsInv, [GatewaySteps]_gatewayVars, \A t \in Tasks : ~RelayRequest(t)
  PROVE  Sent' = Sent
<1>1. ASSUME UNCHANGED <<events, cursor>> PROVE Sent' = Sent
  BY <1>1, SentStays
<1>2. CASE Request \/ Finish
  BY <1>2, SentByTurns
<1>3. ASSUME NEW t \in Tasks, RelayDone(t) PROVE Sent' = Sent
  BY <1>3, SentByDone
<1>4. ASSUME NEW t \in Tasks, RelayBreaks(t) PROVE Sent' = Sent
  BY <1>1, <1>4 DEF RelayBreaks, streams
<1>5. CASE ClientNext
  BY <1>1, <1>5 DEF ClientNext, ClientSends, ClientCancels, ClientCompacts, ClientAnswers, Leave,
     Submit, streams, relays
<1>6. CASE ReaderNext
  BY <1>1, <1>6 DEF ReaderNext, ReaderEnds, ReadSend, HandleSend, ReadResult, ReadCancel,
     StartCompact, Begin, Proceed, CompactAnswered, CompactTimeout, EndCompact, streams, relays
<1>7. CASE Take \/ Compact \/ StartRead \/ BlockEnds \/ Timeout \/ Crash \/ FinishUnheard
  BY <1>1, <1>7 DEF Take, Compact, StartRead, BlockEnds, Timeout, Crash, FinishUnheard, streams, gateway, relays
<1>8. CASE UNCHANGED gatewayVars
  BY <1>1, <1>8 DEF gatewayVars, streams, gateway, relays
<1> QED BY <1>2, <1>3, <1>4, <1>5, <1>6, <1>7, <1>8 DEF GatewaySteps, OrchNext, RelayStep

LEMMA FlowStep ==
  ASSUME GatewayInv, EventsInv, FlowInv, [GatewaySteps]_gatewayVars PROVE FlowInv'
<1>1. ASSUME UNCHANGED <<running, inbox>>, Sent' = Sent PROVE FlowInv'
  BY <1>1 DEF FlowInv
<1>2. ASSUME NEW t \in Tasks, RelayRequest(t) PROVE FlowInv'
  <2> DEFINE r == <<t, cursor[t] + 1>>
  <2>1. /\ UNCHANGED inbox
        /\ running' = IF connected THEN running \cup {NextEvent(t).request} ELSE running
    BY <1>2 DEF RelayRequest
  <2>2. r \in Requests /\ r \notin Sent /\ Sent' = Sent \cup {r} /\ NextEvent(t).request = r
    BY <1>2, SentGrows
  <2> HIDE DEF r
  <2>3. running' \subseteq Sent'
    BY <2>1, <2>2 DEF FlowInv
  <2>4. ASSUME NEW i \in DOMAIN inbox', NEW q \in Requests, inbox'[i] = ResultFrame(q)
        PROVE  /\ q \in Sent' /\ q \notin running'
               /\ \A j \in DOMAIN inbox' : inbox'[j] = ResultFrame(q) => i = j
    <3>1. /\ q \in Sent /\ q \notin running
          /\ \A j \in DOMAIN inbox : inbox[j] = ResultFrame(q) => i = j
      BY <2>1, <2>4 DEF FlowInv
    <3> QED BY <2>1, <2>2, <3>1
  <2> QED BY <2>3, <2>4 DEF FlowInv
<1>3. ASSUME \A t \in Tasks : ~RelayRequest(t) PROVE Sent' = Sent
  BY <1>3, SentKept
<1>4. ASSUME NEW frame, ReadsFrame(frame), UNCHANGED running, Sent' = Sent PROVE FlowInv'
  <2>1. ASSUME NEW i \in DOMAIN inbox', NEW q \in Requests, inbox'[i] = ResultFrame(q)
        PROVE  /\ q \in Sent /\ q \notin running
               /\ \A j \in DOMAIN inbox' : inbox'[j] = ResultFrame(q) => i = j
    <3>1. i \in Nat /\ i + 1 \in DOMAIN inbox /\ inbox[i + 1] = ResultFrame(q)
      BY <1>4, <2>1, InboxShrinks
    <3>2. ASSUME NEW j \in DOMAIN inbox', inbox'[j] = ResultFrame(q) PROVE i = j
      <4>1. j \in Nat /\ j + 1 \in DOMAIN inbox /\ inbox[j + 1] = ResultFrame(q)
        BY <1>4, <3>2, InboxShrinks
      <4>2. i + 1 = j + 1
        BY <3>1, <4>1 DEF FlowInv
      <4> QED BY <3>1, <4>1, <4>2
    <3> QED BY <3>1, <3>2 DEF FlowInv
  <2> QED BY <1>4, <2>1 DEF FlowInv
<1>5. ASSUME NEW frame \in {SendFrame, CancelFrame, CompactFrame}, Submit(frame), UNCHANGED running,
             Sent' = Sent
      PROVE  FlowInv'
  <2>1. ASSUME NEW i \in DOMAIN inbox', NEW q \in Requests, inbox'[i] = ResultFrame(q)
        PROVE  i \in DOMAIN inbox /\ inbox[i] = ResultFrame(q)
    <3>1. frame \in Frames /\ frame # ResultFrame(q)
      BY <1>5, FrameKinds, NoResult
    <3>2. i # Len(inbox) + 1
      BY <1>5, <2>1, <3>1, InboxGrows
    <3>3. i \in 1 .. Len(inbox)
      BY <1>5, <3>1, <3>2, InboxGrows
    <3> QED BY <1>5, <2>1, <3>1, <3>3, InboxGrows
  <2> QED BY <1>5, <2>1 DEF FlowInv
<1>6. ASSUME ClientAnswers, Sent' = Sent PROVE FlowInv'
  <2>1. PICK r \in running : running' = running \ {r} /\ Submit(ResultFrame(r))
    BY <1>6 DEF ClientAnswers
  <2>2. r \in Requests /\ r \in Sent /\ ResultFrame(r) \in Frames
    BY <2>1, FrameKinds DEF GatewayInv, GatewayTypeOK, FlowInv
  <2>3. \A i \in DOMAIN inbox : inbox[i] # ResultFrame(r)
    BY <2>1, <2>2 DEF FlowInv
  <2>4. ASSUME NEW i \in DOMAIN inbox', NEW q \in Requests, inbox'[i] = ResultFrame(q)
        PROVE  \/ i \in DOMAIN inbox /\ inbox[i] = ResultFrame(q) /\ q # r
               \/ i = Len(inbox) + 1 /\ q = r
    <3>1. i \in 1 .. Len(inbox) \/ i = Len(inbox) + 1
      BY <2>1, <2>2, InboxGrows
    <3>2. CASE i \in 1 .. Len(inbox)
      BY <2>1, <2>2, <2>3, <2>4, <3>2, InboxGrows
    <3>3. CASE i = Len(inbox) + 1
      <4>1. ResultFrame(q) = ResultFrame(r)
        BY <2>1, <2>2, <2>4, <3>3, InboxGrows
      <4> QED BY <2>2, <3>3, <4>1, ResultOf
    <3> QED BY <3>1, <3>2, <3>3
  <2>5. ASSUME NEW i \in DOMAIN inbox', NEW q \in Requests, inbox'[i] = ResultFrame(q)
        PROVE  /\ q \in Sent' /\ q \notin running'
               /\ \A j \in DOMAIN inbox' : inbox'[j] = ResultFrame(q) => i = j
    <3>1. CASE i \in DOMAIN inbox /\ inbox[i] = ResultFrame(q) /\ q # r
      <4>1. \A j \in DOMAIN inbox' : inbox'[j] = ResultFrame(q) => j \in DOMAIN inbox /\ inbox[j] = ResultFrame(q)
        BY <2>4, <3>1
      <4> QED BY <1>6, <2>1, <3>1, <4>1 DEF FlowInv
    <3>2. CASE i = Len(inbox) + 1 /\ q = r
      <4>1. \A j \in DOMAIN inbox' : inbox'[j] = ResultFrame(q) => j = Len(inbox) + 1
        BY <2>4, <3>2
      <4> QED BY <1>6, <2>1, <2>2, <3>2, <4>1
    <3> QED BY <2>4, <2>5, <3>1, <3>2
  <2>6. running' \subseteq Sent'
    BY <1>6, <2>1 DEF FlowInv
  <2> QED BY <2>5, <2>6 DEF FlowInv
<1>7. ASSUME Leave, Sent' = Sent PROVE FlowInv'
  BY <1>7 DEF Leave, FlowInv
<1>8. CASE \E t \in Tasks : RelayRequest(t)
  BY <1>2, <1>8
<1>9. CASE ~\E t \in Tasks : RelayRequest(t)
  <2>1. Sent' = Sent
    BY <1>3, <1>9
  <2>2. CASE ClientSends \/ ClientCancels \/ ClientCompacts
    BY <1>5, <2>1, <2>2 DEF ClientSends, ClientCancels, ClientCompacts
  <2>3. CASE ReadSend \/ ReadResult \/ ReadCancel
    BY <1>4, <2>1, <2>3 DEF ReadSend, HandleSend, ReadResult, ReadCancel, client
  <2>4. CASE StartCompact
    <3>1. CASE Begin(TRUE)
      BY <1>4, <2>1, <3>1 DEF Begin, client
    <3>2. CASE Proceed(TRUE)
      BY <1>1, <2>1, <3>2 DEF Proceed, client
    <3> QED BY <2>4, <3>1, <3>2 DEF StartCompact
  <2>5. CASE ReaderEnds \/ CompactAnswered \/ CompactTimeout
    BY <1>1, <2>1, <2>5 DEF ReaderEnds, CompactAnswered, CompactTimeout, EndCompact, client
  <2>6. CASE RelayStep
    BY <1>1, <1>9, <2>1, <2>6 DEF RelayStep, RelayDone, RelayBreaks, client
  <2>7. CASE OrchNext \/ Request \/ BlockEnds \/ Timeout \/ Crash \/ FinishUnheard
    BY <1>1, <2>1, <2>7 DEF OrchNext, Take, Compact, StartRead, Finish, Request, BlockEnds, Timeout,
       Crash, FinishUnheard, client, gateway
  <2>8. CASE UNCHANGED gatewayVars
    BY <1>1, <2>1, <2>8 DEF gatewayVars, client, gateway
  <2> QED BY <1>6, <1>7, <2>1, <2>2, <2>3, <2>4, <2>5, <2>6, <2>7, <2>8
          DEF GatewaySteps, ClientNext, ReaderNext
<1> QED BY <1>8, <1>9

\* What a relay forwards is for the open question.
LEMMA OpenIsRelayed ==
  ASSUME GatewayInv, NEW t \in Tasks, HasEvent(t) PROVE RelayRuns /\ activeTask = t /\ OpenTurn = t
BY GatewayAssumption DEF HasEvent, GatewayInv, RelayInv, RelayRuns, OpenTurn, Tasks, NoTask

\* A request that is forwarded starts its tool.
LEMMA ToolStarts ==
  ASSUME GatewayInv, EventsInv, NEW t \in Tasks, RelayRequest(t) PROVE Talk!Next
<1> DEFINE r == <<t, cursor[t] + 1>>
<1>1. /\ HasEvent(t) /\ UNCHANGED <<history, activeTask, relay, inbox, outcome>>
      /\ running' = IF connected THEN running \cup {NextEvent(t).request} ELSE running
  BY DEF RelayRequest, orchestrator
<1>2. r \in Requests /\ r \notin Sent /\ Sent' = Sent \cup {r} /\ NextEvent(t).request = r
  BY SentGrows
<1>3. OpenTurn = r[1]
  BY <1>1, OpenIsRelayed
<1> HIDE DEF r
<1>4. UNCHANGED <<OpenTurn, Coming>>
  BY <1>1 DEF OpenTurn, RelayRuns, Coming
<1>5. running' \in {running, running \cup {r}}
  BY <1>1, <1>2
<1>6. \E q \in Requests : Talk!StartTool(q)
  BY <1>1, <1>2, <1>3, <1>4, <1>5 DEF Talk!StartTool, OpenTurn, Coming, Sent
<1> QED BY <1>6 DEF Talk!Next

\* Every other step leaves what was started as it is.
LEMMA ConversationGoesOn ==
  ASSUME GatewayInv, GatewayInv', ToldInv, FlowInv, [GatewaySteps]_gatewayVars, Sent' = Sent,
         \A t \in Tasks : ~RelayRequest(t)
  PROVE  [Talk!Next]_<<history, OpenTurn, Sent, running, Coming, outcome>>
<1> DEFINE talking == <<history, OpenTurn, Sent, running, Coming, outcome>>
<1>0. /\ OpenTurn = IF RelayRuns THEN activeTask ELSE NoTask
      /\ Coming = {r \in Requests : \E i \in DOMAIN inbox : inbox[i] = ResultFrame(r)}
      /\ Sent = {r \in Requests : \E i \in 1 .. cursor[r[1]] : events[r[1]][i] = RequestEvent(r)}
      /\ RelayRuns => activeTask \in Tasks /\ activeTask # 0
      /\ RelayRuns' => activeTask' \in Tasks /\ activeTask' # 0
  BY DEF OpenTurn, Coming, Sent, RelayRuns, GatewayInv, GatewayTypeOK, NoTask
<1>1. ASSUME UNCHANGED <<history, activeTask, relay, running, inbox, outcome>> PROVE UNCHANGED talking
  BY <1>1 DEF OpenTurn, RelayRuns, Coming
<1>2. ASSUME UNCHANGED <<activeTask, relay>> PROVE OpenTurn' = OpenTurn
  BY <1>2 DEF OpenTurn, RelayRuns
<1>3. ASSUME NEW frame \in {SendFrame, CancelFrame, CompactFrame}, ReadsFrame(frame)
      PROVE  Coming' = Coming
  BY <1>3, FrameGoes, NoResult DEF Coming
<1>4. CASE ClientSends \/ ClientCancels \/ ClientCompacts
  <2>1. PICK frame \in {SendFrame, CancelFrame, CompactFrame} : Submit(frame) /\ running' = running
    BY <1>4 DEF ClientSends, ClientCancels, ClientCompacts
  <2>2. Coming' = Coming
    BY <2>1, FrameComes, FrameKinds, NoResult DEF Frames
  <2>3. UNCHANGED talking
    BY <1>2, <2>1, <2>2 DEF Submit, relays, orchestrator
  <2> QED BY <2>3
<1>5. CASE ClientAnswers
  <2>1. PICK r \in running : running' = running \ {r} /\ Submit(ResultFrame(r))
    BY <1>5 DEF ClientAnswers
  <2>2. r \in Requests /\ ResultFrame(r) \in Frames
    BY <2>1, FrameKinds DEF GatewayInv, GatewayTypeOK
  <2>3. Coming' = Coming \cup {r}
    BY <2>1, <2>2, FrameComes, ResultOf
  <2>4. UNCHANGED <<history, OpenTurn, outcome>>
    BY <1>2, <2>1 DEF Submit, relays, orchestrator
  <2>5. Talk!ToolEnds(r)
    BY <1>0, <2>1, <2>3, <2>4 DEF Talk!ToolEnds, OpenTurn, Coming, Sent
  <2> QED BY <2>2, <2>5 DEF Talk!Next
<1>6. CASE Leave
  <2>1. /\ running' = {} /\ UNCHANGED <<history, activeTask, relay, inbox, outcome>>
    BY <1>6 DEF Leave, relays, orchestrator
  <2>2. UNCHANGED <<OpenTurn, Coming>>
    BY <2>1 DEF OpenTurn, RelayRuns, Coming
  <2>3. Talk!StopTools
    BY <2>1, <2>2 DEF Talk!StopTools, OpenTurn, Coming, Sent
  <2> QED BY <2>3 DEF Talk!Next
<1>7. CASE ReadSend
  <2>1. /\ ~RelayRuns /\ ReadsFrame(SendFrame) /\ history' = Append(history, <<"user", NextTask>>)
        /\ UNCHANGED <<running, outcome>>
        /\ \/ activeTask' = NextTask /\ relay' = [relay EXCEPT ![NextTask] = "running"]
           \/ UNCHANGED <<activeTask, relay>>
    BY <1>7 DEF ReadSend, HandleSend, client, orchestrator
  <2>2. Coming' = Coming
    BY <1>3, <2>1
  <2>3. OpenTurn = 0
    BY <2>1 DEF OpenTurn, NoTask
  <2>4. OpenTurn' \in {0, NextTask}
    BY <1>2, <2>1, <2>3 DEF OpenTurn, NoTask
  <2>5. Talk!NextQuestion = NextTask
    BY DEF Talk!NextQuestion, NextTask, Talk!Cardinality, Cardinality
  <2>6. Talk!Ask
    <3>1. history' = Append(history, <<"user", Talk!NextQuestion>>) /\ OpenTurn' \in {0, Talk!NextQuestion}
      BY <2>1, <2>4, <2>5
    <3> QED BY <2>1, <2>2, <2>3, <3>1 DEF Talk!Ask, OpenTurn, Coming, Sent
  <2> QED BY <2>6 DEF Talk!Next
<1>8. CASE ReadResult
  <2>1. PICK r \in Requests :
          /\ ReadsFrame(ResultFrame(r))
          /\ outcome' = IF Matches(r) THEN [outcome EXCEPT ![orch.request] = r] ELSE outcome
          /\ UNCHANGED <<running, activeTask, relay, history>>
    BY <1>8 DEF ReadResult, client, relays
  <2>2. r \in Coming /\ Coming' = Coming \ {r}
    BY <2>1, FrameGoes, ResultOf DEF Coming
  <2>3. outcome' = outcome \/ (outcome[r] = <<"none">> /\ outcome' = [outcome EXCEPT ![r] = r])
    BY <2>1 DEF Matches, ToldInv, Requested
  <2>4. Talk!ResultComes(r)
    BY <1>2, <2>1, <2>2, <2>3 DEF Talk!ResultComes, Talk!Untold, OpenTurn, Coming, Sent
  <2> QED BY <2>4 DEF Talk!Next
<1>9. CASE ReadCancel
  <2>1. /\ ReadsFrame(CancelFrame) /\ activeTask' = NoTask /\ UNCHANGED <<history, running, outcome>>
    BY <1>9 DEF ReadCancel, client, orchestrator
  <2>2. Coming' = Coming
    BY <1>3, <2>1
  <2>3. OpenTurn' = 0
    BY <2>1 DEF OpenTurn, RelayRuns, NoTask
  <2>4. CASE OpenTurn = 0
    BY <2>1, <2>2, <2>3, <2>4
  <2>5. CASE OpenTurn # 0
    <3>1. Talk!Withdraw
      BY <2>1, <2>2, <2>3, <2>5 DEF Talk!Withdraw, OpenTurn, Coming, Sent
    <3> QED BY <3>1 DEF Talk!Next
  <2> QED BY <2>4, <2>5
<1>10. CASE StartCompact
  <2>1. UNCHANGED <<history, activeTask, relay, running, outcome>>
    BY <1>10 DEF StartCompact, Begin, Proceed, client, relays, orchestrator
  <2>2. Coming' = Coming
    <3>1. CASE Begin(TRUE)
      BY <1>3, <3>1 DEF Begin
    <3>2. CASE Proceed(TRUE)
      BY <3>2 DEF Proceed, Coming
    <3> QED BY <1>10, <3>1, <3>2 DEF StartCompact
  <2> QED BY <1>2, <2>1, <2>2
<1>11. CASE ReaderEnds \/ CompactAnswered \/ CompactTimeout
  <2>1. UNCHANGED <<history, activeTask, relay, running, inbox, outcome>>
    BY <1>11 DEF ReaderEnds, CompactAnswered, CompactTimeout, EndCompact, client, relays, orchestrator
  <2> QED BY <1>1, <2>1
<1>14. ASSUME NEW t \in Tasks, RelayDone(t) PROVE Talk!Next
  <2>1. /\ HasEvent(t) /\ relay' = [relay EXCEPT ![t] = "done"]
        /\ history' = Append(history, <<"assistant", t>>)
        /\ UNCHANGED <<running, activeTask, inbox, outcome>>
    BY <1>14 DEF RelayDone, client, orchestrator
  <2>2. OpenTurn = t /\ OpenTurn # 0 /\ activeTask = t
    BY <2>1, OpenIsRelayed DEF Tasks
  <2>3. OpenTurn' = 0 /\ Coming' = Coming
    BY <2>1, <2>2 DEF OpenTurn, RelayRuns, NoTask, Coming, GatewayInv, GatewayTypeOK
  <2>4. Talk!Answer
    BY <2>1, <2>2, <2>3 DEF Talk!Answer, OpenTurn, Coming, Sent
  <2> QED BY <2>4 DEF Talk!Next
<1>15. ASSUME NEW t \in Tasks, RelayBreaks(t) PROVE Talk!Next
  <2>1. /\ HasEvent(t) /\ relay' = [relay EXCEPT ![t] = "broken"]
        /\ UNCHANGED <<history, running, activeTask, inbox, outcome>>
    BY <1>15 DEF RelayBreaks, client, orchestrator
  <2>2. OpenTurn = t /\ OpenTurn # 0 /\ activeTask = t
    BY <2>1, OpenIsRelayed DEF Tasks
  <2>3. OpenTurn' = 0 /\ Coming' = Coming
    BY <2>1, <2>2 DEF OpenTurn, RelayRuns, NoTask, Coming, GatewayInv, GatewayTypeOK
  <2>4. Talk!Withdraw
    BY <2>1, <2>2, <2>3 DEF Talk!Withdraw, OpenTurn, Coming, Sent
  <2> QED BY <2>4 DEF Talk!Next
<1>16. CASE OrchNext \/ Request \/ BlockEnds \/ Crash \/ FinishUnheard
  <2>1. UNCHANGED <<history, activeTask, relay, running, inbox, outcome>>
    BY <1>16 DEF OrchNext, Take, Compact, StartRead, Finish, Request, BlockEnds, Crash, FinishUnheard, client,
       gateway, relays
  <2> QED BY <1>1, <2>1
<1>17. CASE Timeout
  <2>1. /\ orch.request \in Requests /\ outcome[orch.request] = <<"none">>
        /\ outcome' = [outcome EXCEPT ![orch.request] = <<"timeout">>]
        /\ UNCHANGED <<history, activeTask, relay, running, inbox>>
    <3>1. Requested
      BY <1>17 DEF Timeout
    <3>2. /\ outcome' = [outcome EXCEPT ![orch.request] = <<"timeout">>]
          /\ UNCHANGED <<history, activeTask, relay, running, inbox>>
      BY <1>17 DEF Timeout, client, gateway, relays
    <3> QED BY <3>1, <3>2, Waiting DEF ToldInv
  <2>2. UNCHANGED <<OpenTurn, Coming>>
    BY <2>1 DEF OpenTurn, RelayRuns, Coming
  <2>3. Talk!TimeRunsOut(orch.request)
    BY <2>1, <2>2 DEF Talk!TimeRunsOut, Talk!Untold, Talk!TimedOut, OpenTurn, Coming, Sent
  <2> QED BY <2>1, <2>3 DEF Talk!Next
<1>18. CASE UNCHANGED gatewayVars
  <2>1. UNCHANGED <<history, activeTask, relay, running, inbox, outcome>>
    BY <1>18 DEF gatewayVars, client, gateway, relays, orchestrator
  <2> QED BY <1>1, <2>1
<1> QED BY <1>4, <1>5, <1>6, <1>7, <1>8, <1>9, <1>10, <1>11, <1>14, <1>15, <1>16, <1>17, <1>18
        DEF GatewaySteps, ClientNext, ReaderNext, RelayStep

LEMMA ConversationStep ==
  ASSUME GatewayInv, GatewayInv', ToldInv, EventsInv, FlowInv, [GatewaySteps]_gatewayVars
  PROVE  [Talk!Next]_<<history, OpenTurn, Sent, running, Coming, outcome>>
<1>1. CASE \E t \in Tasks : RelayRequest(t)
  BY <1>1, ToolStarts
<1>2. CASE ~\E t \in Tasks : RelayRequest(t)
  BY <1>2, SentKept, ConversationGoesOn
<1> QED BY <1>1, <1>2

\* Whatever is sent, cancelled, lost or restarted, a connection is a conversation: one question is
\* open at a time and only it is answered or runs tools, and an agent is told of a tool once, of a
\* result only if the client has sent that (server.py, local_tools.py).
THEOREM ConnectionIsConversation == GatewaySpec => ImplementsConversation
<1> DEFINE I == ToldInv /\ EventsInv /\ FlowInv
<1>1. GatewayInit => Talk!Init /\ I
  <2> SUFFICES ASSUME GatewayInit PROVE Talk!Init /\ I
    OBVIOUS
  <2>1. Sent = {} /\ Coming = {} /\ OpenTurn = 0
    BY DEF GatewayInit, Sent, Coming, OpenTurn, RelayRuns, NoTask, Requests
  <2>2. EventsInv
    BY DEF GatewayInit, EventsInv
  <2>3. FlowInv
    BY DEF GatewayInit, FlowInv
  <2>4. Talk!Init
    BY <2>1 DEF GatewayInit, Talk!Init, Talk!Untold, Sent, Coming, OpenTurn
  <2> QED BY <2>2, <2>3, <2>4, ToldInit
<1>2. GatewayInv /\ GatewayInv' /\ I /\ [GatewaySteps]_gatewayVars => I'
  BY ToldStep, EventsInvStep, FlowStep
<1>3. GatewayInv /\ GatewayInv' /\ I /\ [GatewaySteps]_gatewayVars
        => [Talk!Next]_<<history, OpenTurn, Sent, running, Coming, outcome>>
  BY ConversationStep
<1>4. GatewayInv /\ GatewayInv' /\ I /\ [GatewaySteps]_gatewayVars => [Talk!Next]_(Talk!talk)
  BY <1>3 DEF Talk!talk, OpenTurn, Coming, Sent
<1> HIDE DEF I
<1>5. GatewaySpec => []I
  BY <1>1, <1>2, GatewayInvariant, PTL DEF GatewaySpec
<1> QED BY <1>1, <1>4, <1>5, GatewayInvariant, PTL DEF GatewaySpec, ImplementsConversation, Talk!Spec

\* A compact times out only when the orchestrator has not answered it.
THEOREM PublishNeverMissed == GatewaySpec => CompactNeverMissed
<1>1. ASSUME GatewayInv, [GatewaySteps]_gatewayVars
      PROVE  [compact = "waiting" /\ compact' = "none" => compactId \notin stored]_gatewayVars
  BY <1>1 DEF GatewayInv, CompactInv
<1> QED BY <1>1, GatewayInvariant, PTL DEF GatewaySpec, CompactNeverMissed

-----------------------------------------------------------------------------
(***************************************************************************)
(* Proofs about TurnSignals, for any budget and any number of steers and   *)
(* goals.  OrderInv places the steers: what the model has been given is    *)
(* older than what is deferred, which is older than what was just read,    *)
(* which is older than what is still in Redis.  CancelInv says why at most *)
(* one model call is made under a cancel key: the loop is past its check   *)
(* at most once, and a key that has run out is not written again.          *)
(***************************************************************************)

\* Every steer in `held` is newer than the ones injected.
Newer(x) == x # NoSteer => \A i \in 1 .. Len(injected) : injected[i] < x

Older(x, y) == x # NoSteer /\ y # NoSteer => x < y

OrderInv ==
  /\ SteersInOrder
  /\ \A i \in 1 .. Len(injected) : injected[i] <= sent
  /\ Newer(prewritten) /\ Newer(pending) /\ Newer(steerKey)
  /\ phase = "turn" => Newer(toInject)
  /\ prewritten = NoSteer \/ pending = NoSteer
  /\ Older(prewritten, steerKey) /\ Older(pending, steerKey)
  /\ phase = "turn" => /\ Older(toInject, steerKey) /\ Older(pending, toInject)
                       /\ prewritten = NoSteer
  /\ phase = "read" => toInject = NoSteer
  /\ phase = "read" => pending = NoSteer \/ prewritten = NoSteer
  /\ prewritten <= sent /\ pending <= sent /\ toInject <= sent /\ steerKey <= sent

CancelInv ==
  /\ ~cancelled => late = 0 /\ ~cancelKey
  /\ cancelled => ~active
  /\ cancelKey /\ phase \in {"read", "turn"} => late = 0
  /\ late <= 1

SignalsInv == TypeOK /\ OrderInv /\ CancelInv

-----------------------------------------------------------------------------
\* Every step keeps the types.
LEMMA TypeStep == TypeOK /\ [Next]_vars => TypeOK'
<1>1. ASSUME TypeOK, SendSteer
      PROVE  TypeOK'
  BY <1>1, SignalAssumption
  DEF SendSteer, loop, Steer, TypeOK, NoSteer
<1>2. ASSUME TypeOK, SendCancel
      PROVE  TypeOK'
  BY <1>2, SignalAssumption
  DEF SendCancel, loop, Steer, TypeOK, NoSteer
<1>3. ASSUME TypeOK, SteerExpires
      PROVE  TypeOK'
  BY <1>3, SignalAssumption
  DEF SteerExpires, loop, Steer, TypeOK, NoSteer
<1>4. ASSUME TypeOK, CancelExpires
      PROVE  TypeOK'
  BY <1>4, SignalAssumption
  DEF CancelExpires, loop, Steer, TypeOK, NoSteer
<1>5. ASSUME TypeOK, StartGoal
      PROVE  TypeOK'
  BY <1>5, SignalAssumption
  DEF StartGoal, loop, Steer, TypeOK, NoSteer
<1>6. ASSUME TypeOK, CheckCancel
      PROVE  TypeOK'
  BY <1>6, SignalAssumption
  DEF CheckCancel, Stop, loop, Steer, TypeOK, NoSteer
<1>7. ASSUME TypeOK, ReadSteer
      PROVE  TypeOK'
  BY <1>7, SignalAssumption
  DEF ReadSteer, loop, Steer, TypeOK, NoSteer
<1>8. ASSUME TypeOK, Cutoff
      PROVE  TypeOK'
  BY <1>8, SignalAssumption
  DEF Cutoff, loop, Steer, TypeOK, NoSteer
<1>9. ASSUME TypeOK, CallModel
      PROVE  TypeOK'
  <2>1. used' \in 0 .. MaxTotal
    BY <1>9, SignalAssumption DEF CallModel, Spent, TypeOK
  <2>2. Chosen \in Steer
    BY <1>9 DEF Chosen, TypeOK
  <2>3. injected' \in Seq(1 .. MaxSteers)
    <3>1. Chosen # NoSteer => Chosen \in 1 .. MaxSteers
      BY <2>2, SignalAssumption DEF Steer, NoSteer
    <3>2. injected \in Seq(1 .. MaxSteers)
      BY <1>9 DEF TypeOK
    <3>3. ASSUME NEW s \in Seq(1 .. MaxSteers), NEW c \in 1 .. MaxSteers
          PROVE  Append(s, c) \in Seq(1 .. MaxSteers)
      OBVIOUS
    <3> QED
      BY <1>9, <3>1, <3>2, <3>3 DEF CallModel
  <2>4. pending' \in Steer
    BY <1>9, SignalAssumption DEF CallModel, PendingAfter, TypeOK, Steer, NoSteer
  <2>5. late' \in 0 .. 2
    BY <1>9 DEF CallModel, TypeOK
  <2> QED
    BY <1>9, <2>1, <2>3, <2>4, <2>5 DEF CallModel, TypeOK
<1>10. ASSUME TypeOK, EndTurn
      PROVE  TypeOK'
  BY <1>10, SignalAssumption
  DEF EndTurn, loop, Steer, TypeOK, NoSteer
<1>11. ASSUME TypeOK, FinishGoal
      PROVE  TypeOK'
  BY <1>11, SignalAssumption
  DEF FinishGoal, loop, Steer, TypeOK, NoSteer
<1>12. ASSUME TypeOK, NextGoal
      PROVE  TypeOK'
  BY <1>12, SignalAssumption
  DEF NextGoal, loop, Steer, TypeOK, NoSteer
<1>13. ASSUME TypeOK, UNCHANGED vars
      PROVE  TypeOK'
  BY <1>13 DEF vars, loop, TypeOK, NoSteer
<1> QED
  BY <1>1, <1>2, <1>3, <1>4, <1>5, <1>6, <1>7, <1>8, <1>9, <1>10, <1>11,
     <1>12, <1>13
  DEF Next, GatewayNext, LoopNext

\* Steers stay in order.
LEMMA OrderStep == TypeOK /\ OrderInv /\ [Next]_vars => OrderInv'
<1>1. ASSUME TypeOK, OrderInv, SendSteer
      PROVE  OrderInv'
  BY <1>1, SignalAssumption
  DEF SendSteer, loop, Steer, OrderInv, SteersInOrder, Newer, Older,
      NoSteer, TypeOK
<1>2. ASSUME TypeOK, OrderInv, SendCancel
      PROVE  OrderInv'
  BY <1>2, SignalAssumption
  DEF SendCancel, loop, Steer, OrderInv, SteersInOrder, Newer, Older,
      NoSteer, TypeOK
<1>3. ASSUME TypeOK, OrderInv, SteerExpires
      PROVE  OrderInv'
  BY <1>3, SignalAssumption
  DEF SteerExpires, loop, Steer, OrderInv, SteersInOrder, Newer, Older,
      NoSteer, TypeOK
<1>4. ASSUME TypeOK, OrderInv, CancelExpires
      PROVE  OrderInv'
  BY <1>4, SignalAssumption
  DEF CancelExpires, loop, Steer, OrderInv, SteersInOrder, Newer, Older,
      NoSteer, TypeOK
<1>5. ASSUME TypeOK, OrderInv, StartGoal
      PROVE  OrderInv'
  BY <1>5, SignalAssumption
  DEF StartGoal, loop, Steer, OrderInv, SteersInOrder, Newer, Older,
      NoSteer, TypeOK
<1>6. ASSUME TypeOK, OrderInv, CheckCancel
      PROVE  OrderInv'
  BY <1>6, SignalAssumption
  DEF CheckCancel, Stop, loop, Steer, OrderInv, SteersInOrder, Newer, Older,
      NoSteer, TypeOK
<1>7. ASSUME TypeOK, OrderInv, ReadSteer
      PROVE  OrderInv'
  BY <1>7, SignalAssumption
  DEF ReadSteer, loop, Steer, OrderInv, SteersInOrder, Newer, Older,
      NoSteer, TypeOK
<1>8. ASSUME TypeOK, OrderInv, Cutoff
      PROVE  OrderInv'
  BY <1>8, SignalAssumption
  DEF Cutoff, loop, Steer, OrderInv, SteersInOrder, Newer, Older, NoSteer,
      TypeOK
<1>9. ASSUME TypeOK, OrderInv, CallModel
      PROVE  OrderInv'
  BY SMTT(30), <1>9, SignalAssumption
  DEF CallModel, Spent, Chosen, PendingAfter, loop, Steer, OrderInv,
      SteersInOrder, Newer, Older, NoSteer, TypeOK
<1>10. ASSUME TypeOK, OrderInv, EndTurn
      PROVE  OrderInv'
  BY <1>10, SignalAssumption
  DEF EndTurn, loop, Steer, OrderInv, SteersInOrder, Newer, Older, NoSteer,
      TypeOK
<1>11. ASSUME TypeOK, OrderInv, FinishGoal
      PROVE  OrderInv'
  BY <1>11, SignalAssumption
  DEF FinishGoal, loop, Steer, OrderInv, SteersInOrder, Newer, Older,
      NoSteer, TypeOK
<1>12. ASSUME TypeOK, OrderInv, NextGoal
      PROVE  OrderInv'
  BY <1>12, SignalAssumption
  DEF NextGoal, loop, Steer, OrderInv, SteersInOrder, Newer, Older, NoSteer,
      TypeOK
<1>13. ASSUME TypeOK, OrderInv, UNCHANGED vars
      PROVE  OrderInv'
  BY <1>13 DEF vars, loop, OrderInv, SteersInOrder, Newer, Older, NoSteer, TypeOK
<1> QED
  BY <1>1, <1>2, <1>3, <1>4, <1>5, <1>6, <1>7, <1>8, <1>9, <1>10, <1>11,
     <1>12, <1>13
  DEF Next, GatewayNext, LoopNext

\* At most one model call is let through while a cancel key stands.
LEMMA CancelStep == TypeOK /\ CancelInv /\ [Next]_vars => CancelInv'
<1>1. ASSUME TypeOK, CancelInv, SendSteer
      PROVE  CancelInv'
  BY <1>1, SignalAssumption
  DEF SendSteer, loop, Steer, CancelInv, TypeOK
<1>2. ASSUME TypeOK, CancelInv, SendCancel
      PROVE  CancelInv'
  BY <1>2, SignalAssumption
  DEF SendCancel, loop, Steer, CancelInv, TypeOK
<1>3. ASSUME TypeOK, CancelInv, SteerExpires
      PROVE  CancelInv'
  BY <1>3, SignalAssumption
  DEF SteerExpires, loop, Steer, CancelInv, TypeOK
<1>4. ASSUME TypeOK, CancelInv, CancelExpires
      PROVE  CancelInv'
  BY <1>4, SignalAssumption
  DEF CancelExpires, loop, Steer, CancelInv, TypeOK
<1>5. ASSUME TypeOK, CancelInv, StartGoal
      PROVE  CancelInv'
  BY <1>5, SignalAssumption
  DEF StartGoal, loop, Steer, CancelInv, TypeOK
<1>6. ASSUME TypeOK, CancelInv, CheckCancel
      PROVE  CancelInv'
  BY <1>6, SignalAssumption
  DEF CheckCancel, Stop, loop, Steer, CancelInv, TypeOK
<1>7. ASSUME TypeOK, CancelInv, ReadSteer
      PROVE  CancelInv'
  BY <1>7, SignalAssumption
  DEF ReadSteer, loop, Steer, CancelInv, TypeOK
<1>8. ASSUME TypeOK, CancelInv, Cutoff
      PROVE  CancelInv'
  BY <1>8, SignalAssumption
  DEF Cutoff, loop, Steer, CancelInv, TypeOK
<1>9. ASSUME TypeOK, CancelInv, CallModel
      PROVE  CancelInv'
  BY <1>9, SignalAssumption
  DEF CallModel, Spent, Chosen, PendingAfter, loop, Steer, CancelInv, TypeOK
<1>10. ASSUME TypeOK, CancelInv, EndTurn
      PROVE  CancelInv'
  BY <1>10, SignalAssumption
  DEF EndTurn, loop, Steer, CancelInv, TypeOK
<1>11. ASSUME TypeOK, CancelInv, FinishGoal
      PROVE  CancelInv'
  BY <1>11, SignalAssumption
  DEF FinishGoal, loop, Steer, CancelInv, TypeOK
<1>12. ASSUME TypeOK, CancelInv, NextGoal
      PROVE  CancelInv'
  BY <1>12, SignalAssumption
  DEF NextGoal, loop, Steer, CancelInv, TypeOK
<1>13. ASSUME TypeOK, CancelInv, UNCHANGED vars
      PROVE  CancelInv'
  BY <1>13 DEF vars, loop, CancelInv, TypeOK
<1> QED
  BY <1>1, <1>2, <1>3, <1>4, <1>5, <1>6, <1>7, <1>8, <1>9, <1>10, <1>11,
     <1>12, <1>13
  DEF Next, GatewayNext, LoopNext

-----------------------------------------------------------------------------
\* The inductive invariant holds in every reachable state.
THEOREM SignalsInvariance == Spec => []SignalsInv
<1>1. Init => SignalsInv
  <2>1. Init => TypeOK
    <3>1. Init => injected \in Seq(1 .. MaxSteers)
      BY DEF Init
    <3>2. Init => active \in BOOLEAN /\ cancelKey \in BOOLEAN /\ cancelled \in BOOLEAN
      BY DEF Init
    <3> QED
      BY <3>1, <3>2, SignalAssumption DEF Init, TypeOK, Steer, NoSteer
  <2>2. Init => OrderInv
    BY DEF Init, OrderInv, SteersInOrder, Newer, Older, NoSteer
  <2>3. Init => CancelInv
    BY DEF Init, CancelInv
  <2> QED
    BY <2>1, <2>2, <2>3 DEF SignalsInv
<1>2. SignalsInv /\ [Next]_vars => SignalsInv'
  BY TypeStep, OrderStep, CancelStep DEF SignalsInv
<1> QED
  BY <1>1, <1>2, PTL DEF Spec

\* Every variable keeps its type.
THEOREM SignalsTypeCorrect == Spec => []TypeOK
<1> QED
  BY SignalsInvariance, PTL DEF SignalsInv

\* No steer reaches the model twice or after a later one, however the two
\* ways of delivering it, refunded turns, goals and expiry interleave.
THEOREM InOrder == Spec => []SteersInOrder
<1> QED
  BY SignalsInvariance, PTL DEF SignalsInv, OrderInv

\* While a cancel key stands at most one model call is made, over all the goals and retries of
\* the task, however long the turns and whenever the key runs out.
THEOREM CancelStops == Spec => []CancelStopsModel
<1>1. SignalsInv => CancelStopsModel
  BY DEF SignalsInv, CancelInv, CancelStopsModel
<1> QED
  BY <1>1, SignalsInvariance, PTL

-----------------------------------------------------------------------------
(***************************************************************************)
(* The token budget of the worker pool is exact and a dispatch returns the *)
(* results of its goals, for any goals, skills, budget and limits.         *)
(*                                                                         *)
(* The invariant says who can hold a reservation (BatchInv): only goals of *)
(* the running dispatch, so that none is forgotten when the next begins;   *)
(* and that the results are those of the workers that have ended.          *)
(***************************************************************************)

Within(places) == {g \in Goals : at[g] \in places}

BatchInv ==
    \A g \in Goals : at[g] \in Reserved \union {"reserving"} => g \in batch

ResultsInv ==
    /\ results \subseteq batch \/ batch = {}
    /\ \A g \in batch : g \in results <=> at[g] = "done"

\* The types but for the counters, which are bounded by what they count.
PoolTypes ==
    /\ rounds \in 0..MaxRounds
    /\ batch \subseteq Goals
    /\ at \in [Goals -> Reserved \union {"idle", "reserving", "done"}]
    /\ results \subseteq Goals
    /\ activations \in Nat
    /\ loaded \subseteq Skills
    /\ choice \in [Goals -> Skills \union {NoSkill}]
    /\ \A g \in Goals : at[g] = "planning" => choice[g] \in Skills
    /\ loads \in [Goals -> Nat]
    /\ told \in [Goals -> SUBSET Skills]
    /\ bodies \in [Goals -> SUBSET Skills]

PoolCounted ==
    /\ permits = MaxInflight - Cardinality(Within(Inside))
    /\ remaining \in Nat /\ spent \in Nat
    /\ remaining + spent + Cardinality(Within(Reserved)) = Budget

PoolInv == PoolTypes /\ BatchInv /\ ResultsInv /\ PoolCounted

-----------------------------------------------------------------------------
(* Counting workers by where they are.                                     *)

\* Some of finitely many goals are finitely many.
LEMMA WithinFinite ==
    ASSUME NEW places PROVE IsFiniteSet(Within(places)) /\ Cardinality(Within(places)) \in Nat
BY PoolAssumption, FS_Subset, FS_CardinalityType DEF Within

\* A worker that moves between two of the places, or outside of them, is not counted anew.
LEMMA AtStays ==
    ASSUME PoolTypes, NEW g \in Goals, NEW to, at' = [at EXCEPT ![g] = to],
           NEW places, at[g] \in places <=> to \in places
    PROVE  Within(places)' = Within(places)
BY DEF PoolTypes, Within

LEMMA AtComes ==
    ASSUME PoolTypes, NEW g \in Goals, NEW to, at' = [at EXCEPT ![g] = to],
           NEW places, at[g] \notin places, to \in places
    PROVE  Cardinality(Within(places)') = Cardinality(Within(places)) + 1
<1>1. Within(places)' = Within(places) \union {g} /\ g \notin Within(places)
  BY DEF PoolTypes, Within
<1> QED BY <1>1, WithinFinite, FS_AddElement

LEMMA AtGoes ==
    ASSUME PoolTypes, NEW g \in Goals, NEW to, at' = [at EXCEPT ![g] = to],
           NEW places, at[g] \in places, to \notin places
    PROVE  Cardinality(Within(places)') = Cardinality(Within(places)) - 1
<1>1. Within(places)' = Within(places) \ {g} /\ g \in Within(places)
  BY DEF PoolTypes, Within
<1> QED BY <1>1, WithinFinite, FS_RemoveElement

LEMMA NobodyWithin ==
    ASSUME NEW places, \A g \in Goals : at[g] \notin places
    PROVE  Cardinality(Within(places)) = 0
<1>1. Within(places) = {}
  BY DEF Within
<1> QED BY <1>1, FS_EmptySet

\* What is held and spent fits the budget.
LEMMA PoolBounds == PoolTypes /\ PoolCounted => PoolTypeOK /\ BudgetExact
<1> SUFFICES ASSUME PoolTypes, PoolCounted PROVE PoolTypeOK /\ BudgetExact
  OBVIOUS
<1>1. remaining \in 0..Budget /\ spent \in 0..Budget
  BY WithinFinite, PoolAssumption DEF PoolCounted
<1>2. /\ permits = MaxInflight - Cardinality({g \in Goals : at[g] \in Inside})
      /\ BudgetExact
  BY DEF PoolCounted, Within, BudgetExact
<1> QED BY <1>1, <1>2 DEF PoolTypes, PoolTypeOK

-----------------------------------------------------------------------------
(* The initial state, and one lemma per action, one step per conjunct.     *)

\* No worker has begun.
LEMMA PoolInitInv == PoolInit => PoolInv
<1> SUFFICES ASSUME PoolInit PROVE PoolInv
  OBVIOUS
<1>1. Cardinality(Within(Inside)) = 0 /\ Cardinality(Within(Reserved)) = 0
  BY NobodyWithin DEF PoolInit, Inside, Reserved
<1> QED BY <1>1, PoolAssumption
        DEF PoolInit, PoolInv, PoolTypes, BatchInv, ResultsInv, PoolCounted, Inside, Reserved

\* A dispatch begins when no worker of an earlier one holds a reservation or a permit.
LEMMA DispatchKeeps ==
    ASSUME PoolInv, NEW ready \in SUBSET Goals, PlanAndDispatch(ready) PROVE PoolInv'
<1>1. \A g \in Goals : at[g] \notin Reserved /\ at'[g] \notin Reserved
  BY DEF PoolInv, PlanAndDispatch, BatchInv, Reserved, Inside
<1>2. /\ Cardinality(Within(Inside)) = 0 /\ Cardinality(Within(Reserved)) = 0
      /\ Cardinality(Within(Inside)') = 0 /\ Cardinality(Within(Reserved)') = 0
  <2>1. /\ Within(Inside) = {} /\ Within(Reserved) = {}
        /\ Within(Inside)' = {} /\ Within(Reserved)' = {}
    BY <1>1 DEF Within, Reserved
  <2> QED BY <2>1, FS_EmptySet
<1>3. PoolTypes'
  BY PoolAssumption DEF PoolInv, PlanAndDispatch, PoolTypes, Inside, Reserved
<1>4. BatchInv'
  BY DEF PlanAndDispatch, BatchInv, Reserved, Inside
<1>5. ResultsInv'
  BY DEF PlanAndDispatch, ResultsInv
<1>6. PoolCounted'
  BY <1>2 DEF PoolInv, PlanAndDispatch, PoolCounted
<1> QED BY <1>3, <1>4, <1>5, <1>6 DEF PoolInv

\* The dispatch returns when its workers are done.
LEMMA ReturnKeeps ==
    ASSUME PoolInv, DispatchReturns PROVE PoolInv'
BY DEF PoolInv, DispatchReturns, runnerVars, PoolTypes, BatchInv, ResultsInv, PoolCounted, Within,
   Reserved, Inside

\* A reservation moves from the budget to its worker.
LEMMA ReserveKeeps ==
    ASSUME PoolInv, NEW g \in Goals, Reserve(g) PROVE PoolInv'
<1> DEFINE to == "waiting"
<1>1. PoolTypes /\ at' = [at EXCEPT ![g] = to]
  BY DEF PoolInv, Reserve
<1>2. (at[g] \in Inside <=> to \in Inside) /\ (at[g] \notin Reserved /\ to \in Reserved)
  BY DEF Reserve, Inside, Reserved
<1> HIDE DEF to
<1>3. Within(Inside)' = Within(Inside)
  BY <1>1, <1>2, AtStays
<1>4. Cardinality(Within(Reserved)') = Cardinality(Within(Reserved)) + 1
  BY <1>1, <1>2, AtComes
<1>5. PoolTypes'
  BY PoolAssumption DEF PoolInv, Reserve, runnerVars, poolDispatchVars, PoolTypes, Inside, Reserved
<1>6. BatchInv'
  BY DEF PoolInv, Reserve, runnerVars, poolDispatchVars, PoolTypes, BatchInv, Inside, Reserved
<1>7. ResultsInv'
  BY DEF PoolInv, Reserve, runnerVars, poolDispatchVars, PoolTypes, BatchInv, ResultsInv, Inside,
     Reserved
<1>8. PoolCounted'
  BY <1>3, <1>4, WithinFinite, PoolAssumption DEF PoolInv, Reserve, runnerVars,
     poolDispatchVars, PoolCounted
<1> QED BY <1>5, <1>6, <1>7, <1>8 DEF PoolInv

\* A worker inside the semaphore keeps its reservation.
LEMMA EnterKeeps ==
    ASSUME PoolInv, NEW g \in Goals, NEW edits \in BOOLEAN, Enter(g, edits) PROVE PoolInv'
<1> DEFINE to == IF edits THEN "looping" ELSE "routing"
<1>1. PoolTypes /\ at' = [at EXCEPT ![g] = to]
  BY DEF PoolInv, Enter
<1>2. (at[g] \notin Inside /\ to \in Inside) /\ (at[g] \in Reserved <=> to \in Reserved)
  BY DEF Enter, Inside, Reserved
<1> HIDE DEF to
<1>3. Cardinality(Within(Inside)') = Cardinality(Within(Inside)) + 1
  BY <1>1, <1>2, AtComes
<1>4. Within(Reserved)' = Within(Reserved)
  BY <1>1, <1>2, AtStays
<1>5. PoolTypes'
  BY PoolAssumption DEF PoolInv, Enter, poolDispatchVars, PoolTypes, Inside, Reserved
<1>6. BatchInv'
  BY DEF PoolInv, Enter, poolDispatchVars, PoolTypes, BatchInv, Inside, Reserved
<1>7. ResultsInv'
  BY DEF PoolInv, Enter, poolDispatchVars, PoolTypes, BatchInv, ResultsInv, Inside, Reserved
<1>8. PoolCounted'
  BY <1>3, <1>4, WithinFinite, PoolAssumption DEF PoolInv, Enter, poolDispatchVars, PoolCounted
<1> QED BY <1>5, <1>6, <1>7, <1>8 DEF PoolInv

\* A choice of a skill.
LEMMA RouteKeeps ==
    ASSUME PoolInv, NEW g \in Goals, NEW skill \in Skills \union {NoSkill}, Route(g, skill) PROVE PoolInv'
<1> DEFINE to == IF skill = NoSkill THEN "looping" ELSE "planning"
<1>1. PoolTypes /\ at' = [at EXCEPT ![g] = to]
  BY DEF PoolInv, Route
<1>2. (at[g] \in Inside <=> to \in Inside) /\ (at[g] \in Reserved <=> to \in Reserved)
  BY DEF Route, Inside, Reserved
<1> HIDE DEF to
<1>3. Within(Inside)' = Within(Inside)
  BY <1>1, <1>2, AtStays
<1>4. Within(Reserved)' = Within(Reserved)
  BY <1>1, <1>2, AtStays
<1>5. PoolTypes'
  BY PoolAssumption DEF PoolInv, Route, runnerVars, poolDispatchVars, PoolTypes, Inside, Reserved
<1>6. BatchInv'
  BY DEF PoolInv, Route, runnerVars, poolDispatchVars, PoolTypes, BatchInv, Inside, Reserved
<1>7. ResultsInv'
  BY DEF PoolInv, Route, runnerVars, poolDispatchVars, PoolTypes, BatchInv, ResultsInv, Inside,
     Reserved
<1>8. PoolCounted'
  BY <1>3, <1>4, WithinFinite, PoolAssumption DEF PoolInv, Route, runnerVars, poolDispatchVars,
     PoolCounted
<1> QED BY <1>5, <1>6, <1>7, <1>8 DEF PoolInv

\* A plan of a call, with or without the skill's body.
LEMMA PlanKeeps ==
    ASSUME PoolInv, NEW g \in Goals, NEW planned \in BOOLEAN, Plan(g, planned) PROVE PoolInv'
<1> DEFINE to == IF WithinLimit /\ planned THEN "calling" ELSE "looping"
<1>1. PoolTypes /\ at' = [at EXCEPT ![g] = to]
  BY DEF PoolInv, Plan
<1>2. (at[g] \in Inside <=> to \in Inside) /\ (at[g] \in Reserved <=> to \in Reserved)
  BY DEF Plan, Inside, Reserved
<1> HIDE DEF to
<1>3. Within(Inside)' = Within(Inside)
  BY <1>1, <1>2, AtStays
<1>4. Within(Reserved)' = Within(Reserved)
  BY <1>1, <1>2, AtStays
<1>5. PoolTypes'
  BY PoolAssumption DEF PoolInv, Plan, LoadSkill, poolDispatchVars, WithinLimit, PoolTypes, Inside,
     Reserved
<1>6. BatchInv'
  BY DEF PoolInv, Plan, LoadSkill, poolDispatchVars, PoolTypes, BatchInv, Inside, Reserved
<1>7. ResultsInv'
  BY DEF PoolInv, Plan, LoadSkill, poolDispatchVars, PoolTypes, BatchInv, ResultsInv, Inside,
     Reserved
<1>8. PoolCounted'
  BY <1>3, <1>4, WithinFinite, PoolAssumption DEF PoolInv, Plan, LoadSkill, poolDispatchVars,
     PoolCounted
<1> QED BY <1>5, <1>6, <1>7, <1>8 DEF PoolInv

\* A load in the loop.
LEMMA LoadKeeps ==
    ASSUME PoolInv, NEW g \in Goals, NEW s \in Skills, LoadInLoop(g, s) PROVE PoolInv'
<1>3. Within(Inside)' = Within(Inside)
  BY DEF LoadInLoop, Within
<1>4. Within(Reserved)' = Within(Reserved)
  BY DEF LoadInLoop, Within
<1>5. PoolTypes'
  BY PoolAssumption DEF PoolInv, LoadInLoop, LoadSkill, poolDispatchVars, WithinLimit, PoolTypes,
     Inside, Reserved
<1>6. BatchInv'
  BY DEF PoolInv, LoadInLoop, LoadSkill, poolDispatchVars, PoolTypes, BatchInv, Inside, Reserved
<1>7. ResultsInv'
  BY DEF PoolInv, LoadInLoop, LoadSkill, poolDispatchVars, PoolTypes, BatchInv, ResultsInv, Inside,
     Reserved
<1>8. PoolCounted'
  BY <1>3, <1>4, WithinFinite, PoolAssumption DEF PoolInv, LoadInLoop, LoadSkill,
     poolDispatchVars, PoolCounted
<1> QED BY <1>5, <1>6, <1>7, <1>8 DEF PoolInv

\* A worker that ends well has spent its reservation.
LEMMA EndKeeps ==
    ASSUME PoolInv, NEW g \in Goals, WorkerEnds(g) PROVE PoolInv'
<1> DEFINE to == "done"
<1>1. PoolTypes /\ at' = [at EXCEPT ![g] = to]
  BY DEF PoolInv, WorkerEnds
<1>2. (at[g] \in Inside /\ to \notin Inside) /\ (at[g] \in Reserved /\ to \notin Reserved)
  BY DEF WorkerEnds, Inside, Reserved
<1> HIDE DEF to
<1>3. Cardinality(Within(Inside)') = Cardinality(Within(Inside)) - 1
  BY <1>1, <1>2, AtGoes
<1>4. Cardinality(Within(Reserved)') = Cardinality(Within(Reserved)) - 1
  BY <1>1, <1>2, AtGoes
<1>5. PoolTypes'
  BY PoolAssumption DEF PoolInv, WorkerEnds, runnerVars, PoolTypes, Inside, Reserved
<1>6. BatchInv'
  BY DEF PoolInv, WorkerEnds, runnerVars, PoolTypes, BatchInv, Inside, Reserved
<1>7. ResultsInv'
  BY DEF PoolInv, WorkerEnds, runnerVars, PoolTypes, BatchInv, ResultsInv, Inside, Reserved
<1>8. PoolCounted'
  BY <1>3, <1>4, WithinFinite, PoolAssumption DEF PoolInv, WorkerEnds, runnerVars, PoolCounted
<1> QED BY <1>5, <1>6, <1>7, <1>8 DEF PoolInv

\* A worker that raises gives it back.
LEMMA RaiseKeeps ==
    ASSUME PoolInv, NEW g \in Goals, WorkerRaises(g) PROVE PoolInv'
<1> DEFINE to == "done"
<1>1. PoolTypes /\ at' = [at EXCEPT ![g] = to]
  BY DEF PoolInv, WorkerRaises
<1>2. (at[g] \in Inside /\ to \notin Inside) /\ (at[g] \in Reserved /\ to \notin Reserved)
  BY DEF WorkerRaises, Inside, Reserved
<1> HIDE DEF to
<1>3. Cardinality(Within(Inside)') = Cardinality(Within(Inside)) - 1
  BY <1>1, <1>2, AtGoes
<1>4. Cardinality(Within(Reserved)') = Cardinality(Within(Reserved)) - 1
  BY <1>1, <1>2, AtGoes
<1>5. PoolTypes'
  BY PoolAssumption DEF PoolInv, WorkerRaises, runnerVars, PoolTypes, Inside, Reserved
<1>6. BatchInv'
  BY DEF PoolInv, WorkerRaises, runnerVars, PoolTypes, BatchInv, Inside, Reserved
<1>7. ResultsInv'
  BY DEF PoolInv, WorkerRaises, runnerVars, PoolTypes, BatchInv, ResultsInv, Inside, Reserved
<1>8. PoolCounted'
  BY <1>3, <1>4, WithinFinite, PoolAssumption DEF PoolInv, WorkerRaises, runnerVars, PoolCounted
<1> QED BY <1>5, <1>6, <1>7, <1>8 DEF PoolInv

\* Every step, stuttering among them, keeps the inductive invariant.
LEMMA PoolStep == PoolInv /\ [PoolNext]_poolVars => PoolInv'
<1> SUFFICES ASSUME PoolInv, [PoolNext]_poolVars PROVE PoolInv'
  OBVIOUS
<1>1. CASE UNCHANGED poolVars
  BY <1>1 DEF poolVars, PoolInv, PoolTypes, BatchInv, ResultsInv, PoolCounted, Within
<1>2. CASE PoolNext
  BY <1>2, DispatchKeeps, ReturnKeeps, ReserveKeeps, EnterKeeps, RouteKeeps, PlanKeeps,
     LoadKeeps,
     EndKeeps, RaiseKeeps DEF PoolNext, WorkerSteps
<1> QED BY <1>1, <1>2

\* The specification never leaves the inductive invariant.
LEMMA PoolInvariant == PoolSpec => []PoolInv
BY PoolInitInv, PoolStep, PTL DEF PoolSpec

-----------------------------------------------------------------------------
\* Every variable keeps its type; the permits are those no worker holds, so no more than
\* MaxInflight workers are inside the semaphore.
THEOREM PoolTypeCorrect == PoolSpec => []PoolTypeOK
<1>1. PoolInv => PoolTypeOK
  BY PoolBounds DEF PoolInv
<1> QED BY <1>1, PoolInvariant, PTL

\* The budget is what workers hold and what they spent (TokenBudget and the refunds of
\* _run_worker): nothing is lost, and nothing given back twice.
THEOREM BudgetIsExact == PoolSpec => []BudgetExact
<1>1. PoolInv => BudgetExact
  BY PoolBounds DEF PoolInv
<1> QED BY <1>1, PoolInvariant, PTL

\* When the workers of a dispatch are done, its results are those of its goals
\* (plan_and_dispatch, _run_worker).
THEOREM AnswersAll == PoolSpec => []DispatchAnswersAll
<1>1. PoolInv => DispatchAnswersAll
  BY DEF PoolInv, ResultsInv, DispatchAnswersAll
<1> QED BY <1>1, PoolInvariant, PTL

-----------------------------------------------------------------------------
(***************************************************************************)
(* The calls to an MCP server, for any number of calls and failures.  A    *)
(* call is settled out of the place it is in, and while a session serves a *)
(* call the owning task is in it.                                          *)
(***************************************************************************)

\* A call that waits is in one place, the inbox or the session's hands, and in it once.
McpCallsKept ==
  /\ \A c \in McpCalls : answer[c] = "pending" <=> c = served \/ Contains(mcpInbox, c)
  /\ ~Contains(mcpInbox, served)
  /\ \A i, j \in DOMAIN mcpInbox : mcpInbox[i] = mcpInbox[j] => i = j

McpInv ==
  /\ McpTypeOK /\ McpCallsKept
  /\ (lifecycle = "calling" <=> served # NoMcpCall)
  /\ failures <= breaks

\* How a call is answered once.
Settled == \A c \in McpCalls : answer[c] \notin {"none", "pending"} => answer'[c] = answer[c]

LEMMA McpInitInv == McpInit => McpInv
<1> SUFFICES ASSUME McpInit PROVE McpInv
  OBVIOUS
<1>1. McpTypeOK
  <2>1. mcpInbox \in Seq(McpCalls) /\ failures \in 0 .. MaxBreaks /\ breaks \in 0 .. MaxBreaks
    BY EmptySeq, McpAssumption DEF McpInit
  <2> QED BY <2>1 DEF McpInit, McpTypeOK
<1>2. McpCallsKept
  <2>1. Len(mcpInbox) = 0 /\ DOMAIN mcpInbox = {}
    BY EmptySeq DEF McpInit
  <2>2. \A c : ~Contains(mcpInbox, c)
    BY <2>1 DEF Contains
  <2>3. \A c \in McpCalls : answer[c] = "none" /\ c # served
    BY McpAssumption DEF McpInit
  <2> QED BY <2>1, <2>2, <2>3 DEF McpCallsKept
<1> QED BY <1>1, <1>2 DEF McpInv, McpInit

\* Places of the inbox, before and after a call comes or is taken.
LEMMA CallQueued ==
  ASSUME McpInv, NEW c \in McpCalls, mcpInbox' = Append(mcpInbox, c)
  PROVE  /\ mcpInbox' \in Seq(McpCalls)
         /\ \A d : Contains(mcpInbox', d) <=> Contains(mcpInbox, d) \/ d = c
         /\ ~Contains(mcpInbox, c) => \A i, j \in DOMAIN mcpInbox' : mcpInbox'[i] = mcpInbox'[j] => i = j
<1>1. mcpInbox \in Seq(McpCalls)
  BY DEF McpInv, McpTypeOK
<1>2. /\ mcpInbox' \in Seq(McpCalls) /\ Len(mcpInbox) \in Nat /\ Len(mcpInbox') = Len(mcpInbox) + 1
      /\ DOMAIN mcpInbox = 1 .. Len(mcpInbox) /\ DOMAIN mcpInbox' = 1 .. (Len(mcpInbox) + 1)
      /\ \A i \in 1 .. Len(mcpInbox) : mcpInbox'[i] = mcpInbox[i]
      /\ mcpInbox'[Len(mcpInbox) + 1] = c
  BY <1>1, AppendProperties, LenProperties
<1>3. \A i : i \in 1 .. (Len(mcpInbox) + 1) <=> i \in 1 .. Len(mcpInbox) \/ i = Len(mcpInbox) + 1
  BY <1>2
<1>4. ASSUME NEW d PROVE Contains(mcpInbox', d) <=> Contains(mcpInbox, d) \/ d = c
  BY <1>2, <1>3 DEF Contains
<1>5. ASSUME ~Contains(mcpInbox, c), NEW i \in DOMAIN mcpInbox', NEW j \in DOMAIN mcpInbox',
             mcpInbox'[i] = mcpInbox'[j]
      PROVE  i = j
  <2>1. \A k \in 1 .. Len(mcpInbox) : mcpInbox[k] # c
    BY <1>5 DEF Contains
  <2>2. \A k, l \in 1 .. Len(mcpInbox) : mcpInbox[k] = mcpInbox[l] => k = l
    BY <1>2 DEF McpInv, McpCallsKept
  <2> QED BY <1>2, <1>3, <1>5, <2>1, <2>2
<1> QED BY <1>2, <1>4, <1>5

LEMMA CallTaken ==
  ASSUME McpInv, mcpInbox # <<>>, mcpInbox' = Tail(mcpInbox)
  PROVE  /\ mcpInbox' \in Seq(McpCalls) /\ Head(mcpInbox) \in McpCalls
         /\ Contains(mcpInbox, Head(mcpInbox)) /\ ~Contains(mcpInbox', Head(mcpInbox))
         /\ \A d : d # Head(mcpInbox) => (Contains(mcpInbox', d) <=> Contains(mcpInbox, d))
         /\ \A i, j \in DOMAIN mcpInbox' : mcpInbox'[i] = mcpInbox'[j] => i = j
<1>1. mcpInbox \in Seq(McpCalls)
  BY DEF McpInv, McpTypeOK
<1>2. /\ mcpInbox' \in Seq(McpCalls) /\ Head(mcpInbox) \in McpCalls /\ Head(mcpInbox) = mcpInbox[1]
      /\ Len(mcpInbox) \in Nat \ {0} /\ Len(mcpInbox') = Len(mcpInbox) - 1
      /\ DOMAIN mcpInbox = 1 .. Len(mcpInbox) /\ DOMAIN mcpInbox' = 1 .. (Len(mcpInbox) - 1)
      /\ \A i \in 1 .. (Len(mcpInbox) - 1) : mcpInbox'[i] = mcpInbox[i + 1]
  BY <1>1, HeadTailProperties, LenProperties, EmptySeq
<1> DEFINE n == Len(mcpInbox)
<1>3. /\ 1 \in 1 .. n
      /\ \A i \in 1 .. (n - 1) : i + 1 \in 1 .. n /\ i + 1 # 1 /\ i \in Nat
      /\ \A i \in 1 .. n : i = 1 \/ (i - 1 \in 1 .. (n - 1) /\ (i - 1) + 1 = i)
  BY <1>2
<1>4. \A k, l \in 1 .. n : mcpInbox[k] = mcpInbox[l] => k = l
  BY <1>2 DEF McpInv, McpCallsKept
<1> HIDE DEF n
<1>5. Contains(mcpInbox, Head(mcpInbox))
  BY <1>2, <1>3 DEF Contains, n
<1>6. ~Contains(mcpInbox', Head(mcpInbox))
  <2>1. \A i \in 1 .. (n - 1) : mcpInbox'[i] # Head(mcpInbox)
    BY <1>2, <1>3, <1>4 DEF n
  <2> QED BY <1>2, <2>1 DEF Contains, n
<1>7. ASSUME NEW d, d # Head(mcpInbox) PROVE Contains(mcpInbox', d) <=> Contains(mcpInbox, d)
  <2>1. Contains(mcpInbox', d) <=> \E i \in 1 .. (n - 1) : mcpInbox'[i] = d
    BY <1>2 DEF Contains, n
  <2>2. Contains(mcpInbox, d) <=> \E i \in 1 .. n : mcpInbox[i] = d
    BY DEF Contains, n
  <2>3. \A i \in 1 .. (n - 1) : mcpInbox'[i] = mcpInbox[i + 1]
    BY <1>2 DEF n
  <2>4. ASSUME Contains(mcpInbox, d) PROVE Contains(mcpInbox', d)
    <3>1. PICK i \in 1 .. n : mcpInbox[i] = d
      BY <2>2, <2>4
    <3>2. i - 1 \in 1 .. (n - 1) /\ (i - 1) + 1 = i
      BY <1>2, <1>3, <1>7, <3>1
    <3>3. mcpInbox'[i - 1] = mcpInbox[(i - 1) + 1]
      BY <2>3, <3>2
    <3>4. mcpInbox'[i - 1] = d
      BY <3>1, <3>2, <3>3
    <3> QED BY <2>1, <3>2, <3>4
  <2>5. ASSUME Contains(mcpInbox', d) PROVE Contains(mcpInbox, d)
    <3>1. PICK i \in 1 .. (n - 1) : mcpInbox'[i] = d
      BY <2>1, <2>5
    <3>2. i + 1 \in 1 .. n /\ mcpInbox[i + 1] = d
      BY <1>3, <2>3, <3>1
    <3> QED BY <2>2, <3>2
  <2> QED BY <2>4, <2>5
<1>8. ASSUME NEW i \in DOMAIN mcpInbox', NEW j \in DOMAIN mcpInbox', mcpInbox'[i] = mcpInbox'[j]
      PROVE  i = j
  <2>1. i \in 1 .. (n - 1) /\ j \in 1 .. (n - 1)
    BY <1>2 DEF n
  <2>2. mcpInbox[i + 1] = mcpInbox[j + 1]
    BY <1>2, <1>8, <2>1 DEF n
  <2>3. i + 1 = j + 1
    BY <1>3, <1>4, <2>1, <2>2
  <2> QED BY <1>3, <2>1, <2>3
<1> QED BY <1>2, <1>5, <1>6, <1>7, <1>8

\* A call in the session's hands is answered, and none is served then.
LEMMA CallSettled ==
  ASSUME McpInv, lifecycle = "calling", NEW a \in {"result", "error", "dropped"},
         answer' = [answer EXCEPT ![served] = a], served' = NoMcpCall, UNCHANGED mcpInbox
  PROVE  answer' \in [McpCalls -> {"none", "pending", "result", "error", "dropped"}]
         /\ McpCallsKept' /\ Settled
<1>1. /\ served \in McpCalls /\ answer[served] = "pending" /\ ~Contains(mcpInbox, served)
      /\ answer \in [McpCalls -> {"none", "pending", "result", "error", "dropped"}]
      /\ mcpInbox \in Seq(McpCalls)
  BY DEF McpInv, McpTypeOK, McpCallsKept
<1>2. answer'[served] = a /\ \A c \in McpCalls \ {served} : answer'[c] = answer[c]
  BY <1>1
<1>3. ~Contains(mcpInbox, NoMcpCall)
  <2>1. \A i \in 1 .. Len(mcpInbox) : mcpInbox[i] \in McpCalls
    BY <1>1, LenProperties, ElementOfSeq
  <2> QED BY <2>1, McpAssumption DEF Contains
<1>4. \A c \in McpCalls : c # NoMcpCall
  BY McpAssumption
<1>5. McpCallsKept'
  <2>1. UNCHANGED mcpInbox
    OBVIOUS
  <2> QED BY <1>1, <1>2, <1>3, <1>4, <2>1 DEF McpInv, McpCallsKept
<1> QED BY <1>1, <1>2, <1>5 DEF Settled

\* Nothing is answered, and no call comes, goes or is served.
LEMMA CallsRest ==
  ASSUME McpInv, UNCHANGED <<mcpInbox, answer>>, served' = served
  PROVE  McpCallsKept' /\ Settled
BY DEF McpInv, McpCallsKept, Settled

LEMMA McpStep ==
  ASSUME McpInv, [McpNext]_mcpVars PROVE McpInv' /\ Settled
<1> USE DEF McpInv
<1>0. /\ failures \in Nat /\ breaks \in Nat /\ MaxBreaks \in Nat
      /\ failures <= breaks /\ breaks <= MaxBreaks
  <2>1. failures \in 0 .. MaxBreaks /\ breaks \in 0 .. MaxBreaks
    BY DEF McpTypeOK
  <2>2. failures <= breaks
    OBVIOUS
  <2>3. MaxBreaks \in Nat
    BY McpAssumption
  <2> HIDE DEF McpInv
  <2> QED BY <2>1, <2>2, <2>3
<1>1. ASSUME NEW c \in McpCalls, SubmitCall(c) PROVE McpInv' /\ Settled
  <2>1. /\ answer[c] = "none" /\ answer' = [answer EXCEPT ![c] = "pending"]
        /\ mcpInbox' = Append(mcpInbox, c)
        /\ UNCHANGED <<lifecycle, sessionUp, served, failures, breaks>>
    BY <1>1 DEF SubmitCall
  <2>2. answer'[c] = "pending" /\ \A d \in McpCalls \ {c} : answer'[d] = answer[d]
    BY <2>1 DEF McpTypeOK
  <2>3. ~Contains(mcpInbox, c) /\ c # served
    BY <2>1 DEF McpCallsKept
  <2>4. McpCallsKept'
    BY <2>1, <2>2, <2>3, CallQueued DEF McpCallsKept
  <2>5. McpTypeOK'
    BY <2>1, CallQueued DEF McpTypeOK
  <2> QED BY <2>1, <2>2, <2>4, <2>5 DEF Settled
<1>2. CASE SessionInitialized
  <2>1. McpTypeOK' /\ lifecycle' = "serving" /\ served' = served
    BY <1>2 DEF SessionInitialized, McpTypeOK
  <2> QED BY <1>2, <2>1, CallsRest DEF SessionInitialized
<1>3. CASE ServeNext
  <2>1. /\ lifecycle = "serving" /\ mcpInbox # <<>> /\ served' = Head(mcpInbox)
        /\ mcpInbox' = Tail(mcpInbox) /\ lifecycle' = "calling"
        /\ UNCHANGED <<sessionUp, answer, failures, breaks>>
    BY <1>3 DEF ServeNext
  <2>2. served = NoMcpCall /\ Head(mcpInbox) \in McpCalls /\ Head(mcpInbox) # NoMcpCall
    BY <2>1, CallTaken, McpAssumption
  <2>3. McpCallsKept'
    BY <2>1, <2>2, CallTaken, McpAssumption DEF McpCallsKept
  <2>4. McpTypeOK'
    BY <2>1, <2>2, CallTaken DEF McpTypeOK
  <2> QED BY <2>1, <2>2, <2>3, <2>4 DEF Settled
<1>4. CASE CallSettles
  <2>1. PICK a \in {"result", "error"} : answer' = [answer EXCEPT ![served] = a]
    BY <1>4 DEF CallSettles
  <2>2. /\ lifecycle = "calling" /\ lifecycle' = "serving" /\ served' = NoMcpCall
        /\ UNCHANGED <<sessionUp, mcpInbox, failures, breaks>>
    BY <1>4 DEF CallSettles
  <2>3. /\ answer' \in [McpCalls -> {"none", "pending", "result", "error", "dropped"}]
        /\ McpCallsKept' /\ Settled
    BY <2>1, <2>2, CallSettled
  <2> QED BY <2>2, <2>3 DEF McpTypeOK
<1>5. CASE SessionBreaks
  <2>1. /\ lifecycle \in {"opening", "serving", "calling"}
        /\ breaks < MaxBreaks /\ breaks' = breaks + 1 /\ failures' = failures + 1
        /\ lifecycle' = "backoff" /\ sessionUp' = FALSE /\ served' = NoMcpCall /\ UNCHANGED mcpInbox
    BY <1>5 DEF SessionBreaks
  <2>2. /\ answer' \in [McpCalls -> {"none", "pending", "result", "error", "dropped"}]
        /\ McpCallsKept' /\ Settled
    <3>1. CASE lifecycle = "calling"
      <4>1. PICK a \in {"error", "dropped"} : answer' = [answer EXCEPT ![served] = a]
        BY <1>5, <3>1 DEF SessionBreaks
      <4> QED BY <2>1, <3>1, <4>1, CallSettled
    <3>2. CASE lifecycle # "calling"
      <4>1. UNCHANGED answer /\ served' = served
        BY <1>5, <2>1, <3>2 DEF SessionBreaks
      <4> QED BY <2>1, <4>1, CallsRest DEF McpTypeOK
    <3> QED BY <3>1, <3>2
  <2>3. breaks' \in 0 .. MaxBreaks /\ failures' \in 0 .. MaxBreaks /\ failures' <= breaks'
    BY <1>0, <2>1
  <2> QED BY <2>1, <2>2, <2>3 DEF McpTypeOK
<1>6. ASSUME NEW n \in 0 .. failures, LoopTop(n), lifecycle # "calling",
             UNCHANGED <<sessionUp, served, breaks>>
      PROVE  McpInv' /\ Settled
  <2>1. failures' = n /\ n \in 0 .. MaxBreaks /\ n <= breaks /\ served = NoMcpCall
    <3>1. failures' = n /\ served = NoMcpCall
      BY <1>6 DEF LoopTop
    <3>2. n \in 0 .. MaxBreaks /\ n <= breaks
      BY <1>0, <1>6
    <3> QED BY <3>1, <3>2
  <2>2. CASE n >= MaxFailures
    <3>1. lifecycle' = "open circuit" /\ answer' = DrainWith /\ mcpInbox' = <<>>
      BY <1>6, <2>2 DEF LoopTop
    <3>2. /\ answer' \in [McpCalls -> {"none", "pending", "result", "error", "dropped"}]
          /\ \A c \in McpCalls : answer'[c] = IF Contains(mcpInbox, c) THEN "error" ELSE answer[c]
      BY <3>1 DEF DrainWith, McpTypeOK
    <3>3. \A c : ~Contains(mcpInbox', c)
      <4>1. Len(mcpInbox') = 0
        BY <3>1, EmptySeq
      <4> QED BY <4>1 DEF Contains
    <3>4. DOMAIN mcpInbox' = {} /\ mcpInbox' \in Seq(McpCalls)
      <4>1. DOMAIN <<>> = {} /\ <<>> \in Seq(McpCalls)
        BY EmptySeq
      <4> QED BY <3>1, <4>1
    <3>5. \A c \in McpCalls : c # served /\ (answer[c] = "pending" <=> Contains(mcpInbox, c))
      BY <2>1, McpAssumption DEF McpCallsKept
    <3>6. McpCallsKept'
      BY <1>6, <2>1, <3>2, <3>3, <3>4, <3>5 DEF McpCallsKept
    <3>7. Settled
      BY <3>2, <3>5 DEF Settled
    <3> QED BY <1>6, <2>1, <3>1, <3>2, <3>4, <3>6, <3>7 DEF McpTypeOK
  <2>3. CASE ~(n >= MaxFailures)
    <3>1. lifecycle' = "opening" /\ UNCHANGED <<answer, mcpInbox>>
      BY <1>6, <2>3 DEF LoopTop
    <3>2. McpCallsKept' /\ Settled
      BY <1>6, <3>1, CallsRest
    <3> QED BY <1>6, <2>1, <3>1, <3>2 DEF McpTypeOK
  <2> QED BY <2>2, <2>3
<1>7. CASE BackedOff
  <2>1. PICK n \in 0 .. failures : LoopTop(n)
    BY <1>7 DEF BackedOff
  <2>2. lifecycle # "calling" /\ UNCHANGED <<sessionUp, served, breaks>>
    BY <1>7 DEF BackedOff
  <2> QED BY <1>6, <2>1, <2>2
<1>8. CASE CircuitCloses
  <2>1. LoopTop(0) /\ lifecycle # "calling" /\ UNCHANGED <<sessionUp, served, breaks>>
    BY <1>8 DEF CircuitCloses
  <2>2. 0 \in 0 .. failures
    BY <1>0
  <2> QED BY <1>6, <2>1, <2>2
<1>9. CASE ShutdownBridge
  <2>1. lifecycle' = "ended" /\ served' = NoMcpCall /\ UNCHANGED <<sessionUp, mcpInbox, failures, breaks>>
    BY <1>9 DEF ShutdownBridge
  <2>2. /\ answer' \in [McpCalls -> {"none", "pending", "result", "error", "dropped"}]
        /\ McpCallsKept' /\ Settled
    <3>1. CASE lifecycle = "calling"
      <4>1. answer' = [answer EXCEPT ![served] = "dropped"]
        BY <1>9, <3>1 DEF ShutdownBridge
      <4> QED BY <2>1, <3>1, <4>1, CallSettled
    <3>2. CASE lifecycle # "calling"
      <4>1. UNCHANGED answer /\ served' = served
        BY <1>9, <2>1, <3>2 DEF ShutdownBridge
      <4> QED BY <2>1, <4>1, CallsRest DEF McpTypeOK
    <3> QED BY <3>1, <3>2
  <2> QED BY <2>1, <2>2 DEF McpTypeOK
<1>10. CASE UNCHANGED mcpVars
  <2>1. UNCHANGED <<lifecycle, sessionUp, mcpInbox, served, answer, failures, breaks>>
    BY <1>10 DEF mcpVars
  <2> QED BY <2>1, CallsRest DEF McpTypeOK
<1> QED BY <1>1, <1>2, <1>3, <1>4, <1>5, <1>7, <1>8, <1>9, <1>10 DEF McpNext, OwnerStep

\* Every variable of the manager keeps its type.
THEOREM McpTypeCorrect == McpSpec => []McpTypeOK
<1>1. McpInv => McpTypeOK
  BY DEF McpInv
<1>2. McpInv /\ [McpNext]_mcpVars => McpInv'
  BY McpStep
<1> QED BY <1>1, <1>2, McpInitInv, PTL DEF McpSpec

\* A call that was submitted and not answered is neither lost nor queued twice, so that the next
\* session serves it (call_tool, _serve).
THEOREM CallsWaitOnce == McpSpec => []McpCallsKept
<1>1. McpInv => McpCallsKept
  BY DEF McpInv
<1>2. McpInv /\ [McpNext]_mcpVars => McpInv'
  BY McpStep
<1> QED BY <1>1, <1>2, McpInitInv, PTL DEF McpSpec

\* Whatever breaks, drains or is shut down, the future of a call is set once
\* (mcp_client_manager.py).
THEOREM CallsAreAnsweredOnce == McpSpec => McpCallsOnce
<1>1. McpInv /\ [McpNext]_mcpVars => McpInv'
  BY McpStep
<1>2. McpInv /\ [McpNext]_mcpVars
        => [\A c \in McpCalls : answer[c] \notin {"none", "pending"} => answer'[c] = answer[c]]_mcpVars
  BY McpStep DEF Settled
<1> QED BY <1>1, <1>2, McpInitInv, PTL DEF McpSpec, McpCallsOnce
=============================================================================
