----------------------------- MODULE ModelCalls -----------------------------
(***************************************************************************)
(* A call of the model: the messages as they are repaired before it        *)
(* (message_repair.py, when it is enabled), the endpoints it goes through  *)
(* (model_client.py), and the answer that is streamed to the user          *)
(* (stream_final_answer in coding_orchestrator.py).                        *)
(*                                                                         *)
(* A message is a role, the tool calls it declares or the one it answers,  *)
(* and what it is made of: the places its texts had in the conversation.   *)
(***************************************************************************)
EXTENDS Naturals, SequencesExt

CONSTANTS CallIds,          \* ids of tool calls
          MaxMessages,      \* bound: messages of a conversation
          Bases,            \* how many endpoints resolve_bases gave
          AttemptsPerBase,  \* max_attempts_per_base
          MaxChunks         \* bound: chunks of a streamed answer

ASSUME ModelCallsAssumption ==
    {MaxMessages, Bases, AttemptsPerBase, MaxChunks} \subseteq Nat /\ Bases > 0

VARIABLES
    callAt,                \* where the call is
    isStreamed,            \* it is the one of stream_final_answer
    conv,                  \* the messages of the caller
    toModel,               \* the messages that go to the model
    callBase, callAttempt, \* the loops of acompletion_with_failover
    basesTried,            \* history: the endpoint of every request
    deltas,                \* chunks of the answer sent to the user
    doneText,              \* text of answer.done: its chunks, or that there was none
    callOutcome            \* what the caller gets

callVars == <<callAt, isStreamed, conv, toModel, callBase, callAttempt, basesTried, deltas,
              doneText, callOutcome>>

Roles == {"system", "user", "assistant", "tool"}
Messages == {m \in [role : Roles, calls : SUBSET CallIds] :
                 CASE m.role = "assistant" -> TRUE
                   [] m.role = "tool" -> \E c \in CallIds : m.calls = {c}
                   [] OTHER -> m.calls = {}}
NoText == MaxChunks + 1

CallTypeOK ==
    /\ callAt \in {"composing", "repaired", "calling", "streaming", "done"}
    /\ isStreamed \in BOOLEAN /\ callBase \in 1..(Bases + 1) /\ callAttempt \in 0..AttemptsPerBase
    /\ \A i \in DOMAIN conv : conv[i] \in Messages
    /\ \A i \in DOMAIN toModel : toModel[i].role \in Roles /\ toModel[i].parts \in Seq(DOMAIN conv)
    /\ basesTried \in Seq(1..Bases) /\ deltas \in 0..MaxChunks /\ doneText \in 0..NoText
    /\ callOutcome \in {"none", "answered", "assembled", "refused", "exhausted"}

CallInit ==
    /\ callAt = "composing" /\ isStreamed \in BOOLEAN
    /\ conv = <<>> /\ toModel = <<>> /\ callBase = 1 /\ callAttempt = 0 /\ basesTried = <<>>
    /\ deltas = 0 /\ doneText = NoText /\ callOutcome = "none"

-----------------------------------------------------------------------------
(* message_repair.py                                                       *)

Declared(messages, i) ==
    UNION {messages[j].calls : j \in {k \in 1..(i - 1) : messages[k].role = "assistant"}}
Orphan(messages, i) ==
    messages[i].role = "tool" /\ messages[i].calls \cap Declared(messages, i) = {}

PlainAssistant(m) == m.role = "assistant" /\ m.calls = {}
Mergeable(m, n) ==
    \/ m.role = "user" /\ n.role = "user"
    \/ PlainAssistant(m) /\ PlainAssistant(n)

\* A message joins the last one of the result, or is added to it.
MergeInto(out, m) ==
    IF out # <<>> /\ Mergeable(Last(out), m)
    THEN Append(Front(out), [Last(out) EXCEPT !.parts = @ \o m.parts])
    ELSE Append(out, m)

MergeAdjacent(messages) == FoldLeft(MergeInto, <<>>, messages)

\* A message of the conversation, made of its own text.
Whole(messages, i) ==
    [role |-> messages[i].role, calls |-> messages[i].calls, parts |-> <<i>>]

\* The messages that stay, in their order.
DropOrphans(messages) ==
    FoldLeft(LAMBDA out, i : IF Orphan(messages, i) THEN out ELSE Append(out, Whole(messages, i)),
             <<>>, [i \in DOMAIN messages |-> i])

\* Mutant: the runs are merged first, and those an orphan separated stay.
SanitizeMergeFirst(messages) ==
    SelectSeq(MergeAdjacent([i \in DOMAIN messages |-> Whole(messages, i)]),
              LAMBDA m : m.role # "tool" \/ ~Orphan(messages, m.parts[1]))

SanitizeMessages(messages) == MergeAdjacent(DropOrphans(messages))

-----------------------------------------------------------------------------
(* The caller                                                              *)

\* Any turns come together: tool results, steers, nudges, answers.
ComposeMessages ==
    /\ callAt = "composing" /\ ~isStreamed /\ Len(conv) < MaxMessages
    /\ \E m \in Messages : conv' = Append(conv, m)
    /\ UNCHANGED <<callAt, isStreamed, toModel, callBase, callAttempt, basesTried, deltas,
                   doneText, callOutcome>>

RepairMessages ==
    /\ callAt = "composing" /\ ~isStreamed
    /\ callAt' = "repaired" /\ toModel' = SanitizeMessages(conv)
    /\ UNCHANGED <<isStreamed, conv, callBase, callAttempt, basesTried, deltas, doneText,
                   callOutcome>>

\* architect, editor, aggregate and stream_final_answer send one prompt.
StartCall ==
    /\ callAt = "repaired" \/ (callAt = "composing" /\ conv = <<>>)
    /\ callAt' = "calling" /\ conv' = <<>> /\ toModel' = <<>>
    /\ UNCHANGED <<isStreamed, callBase, callAttempt, basesTried, deltas, doneText, callOutcome>>

\* The caller of stream_final_answer has the assembled answer when the call fails.
FailsWith(how) ==
    /\ callAt' = "done" /\ callOutcome' = IF isStreamed THEN "assembled" ELSE how

\* Mutant: the first failure of an endpoint is its last.
AttemptOnce ==
    /\ callAt = "calling" /\ callBase <= Bases /\ callAttempt < AttemptsPerBase
    /\ basesTried' = Append(basesTried, callBase)
    /\ \/ /\ callAt' = IF isStreamed THEN "streaming" ELSE "done"
          /\ callOutcome' = IF isStreamed THEN "none" ELSE "answered"
          /\ UNCHANGED <<callBase, callAttempt>>
       \/ FailsWith("refused") /\ UNCHANGED <<callBase, callAttempt>>
       \/ callAttempt' = AttemptsPerBase /\ UNCHANGED <<callBase, callAt, callOutcome>>
    /\ UNCHANGED <<isStreamed, conv, toModel, deltas, doneText>>

\* One request: it is answered, refused for good, or fails in a way that may pass.
AttemptCall ==
    /\ callAt = "calling" /\ callBase <= Bases /\ callAttempt < AttemptsPerBase
    /\ basesTried' = Append(basesTried, callBase)
    /\ \/ /\ callAt' = IF isStreamed THEN "streaming" ELSE "done"
          /\ callOutcome' = IF isStreamed THEN "none" ELSE "answered"
          /\ UNCHANGED <<callBase, callAttempt>>
       \/ FailsWith("refused") /\ UNCHANGED <<callBase, callAttempt>>
       \/ callAttempt' = callAttempt + 1 /\ UNCHANGED <<callBase, callAt, callOutcome>>
    /\ UNCHANGED <<isStreamed, conv, toModel, deltas, doneText>>

\* The next endpoint, after the last attempt at one; with no attempts, without a request.
NextBase ==
    /\ callAt = "calling" /\ callBase <= Bases /\ callAttempt = AttemptsPerBase
    /\ callBase' = callBase + 1 /\ callAttempt' = 0
    /\ UNCHANGED <<callAt, isStreamed, conv, toModel, basesTried, deltas, doneText, callOutcome>>

Exhausted ==
    /\ callAt = "calling" /\ callBase > Bases /\ FailsWith("exhausted")
    /\ UNCHANGED <<isStreamed, conv, toModel, callBase, callAttempt, basesTried, deltas, doneText>>

-----------------------------------------------------------------------------
(* stream_final_answer                                                     *)

StreamChunk ==
    /\ callAt = "streaming" /\ deltas < MaxChunks /\ deltas' = deltas + 1
    /\ UNCHANGED <<callAt, isStreamed, conv, toModel, callBase, callAttempt, basesTried,
                   doneText, callOutcome>>

\* Mutant: an answer that breaks off is returned as far as it came.
StreamBreaksShort ==
    /\ callAt = "streaming" /\ callAt' = "done"
    /\ callOutcome' = IF deltas > 0 THEN "answered" ELSE "assembled"
    /\ UNCHANGED <<isStreamed, conv, toModel, callBase, callAttempt, basesTried, deltas, doneText>>

\* The stream breaks off: what was sent to the user stays with it.
StreamBreaks ==
    /\ callAt = "streaming" /\ callAt' = "done" /\ callOutcome' = "assembled"
    /\ UNCHANGED <<isStreamed, conv, toModel, callBase, callAttempt, basesTried, deltas, doneText>>

\* answer.done, with what came; an answer without text is not the one that is returned.
StreamEnds ==
    /\ callAt = "streaming" /\ callAt' = "done" /\ doneText' = deltas
    /\ callOutcome' = IF deltas > 0 THEN "answered" ELSE "assembled"
    /\ UNCHANGED <<isStreamed, conv, toModel, callBase, callAttempt, basesTried, deltas>>

CallNext ==
    \/ ComposeMessages \/ RepairMessages \/ StartCall \/ AttemptCall \/ NextBase \/ Exhausted
    \/ StreamChunk \/ StreamBreaks \/ StreamEnds

CallSpec == CallInit /\ [][CallNext]_callVars

-----------------------------------------------------------------------------
\* What is sent is well formed and is all of the conversation: no result without the call it
\* answers before it, no two turns of the user or two answers in a row, and every text but those
\* of the orphaned results, in their order and in a message of the role and the calls it had.
RepairIsSound ==
    callAt = "repaired" =>
        /\ \A i \in DOMAIN toModel : ~Orphan(toModel, i)
        /\ \A i \in 1..(Len(toModel) - 1) : ~Mergeable(toModel[i], toModel[i + 1])
        /\ UNION {ToSet(toModel[i].parts) : i \in DOMAIN toModel} =
               {i \in DOMAIN conv : ~Orphan(conv, i)}
        /\ \A i \in DOMAIN toModel :
               /\ toModel[i].parts # <<>>
               /\ \A text \in ToSet(toModel[i].parts) :
                      conv[text].role = toModel[i].role /\ conv[text].calls = toModel[i].calls
        /\ \A i, k \in DOMAIN toModel :
               \A p \in DOMAIN toModel[i].parts, q \in DOMAIN toModel[k].parts :
                   i < k \/ (i = k /\ p < q) => toModel[i].parts[p] < toModel[k].parts[q]

\* The endpoints are tried in their order, each as often as it may be, and given up together
\* only when all of them were.
FailoverIsFair ==
    /\ \A i \in 1..(Len(basesTried) - 1) : basesTried[i + 1] - basesTried[i] \in {0, 1}
    /\ callOutcome = "exhausted" => Len(basesTried) = Bases * AttemptsPerBase

\* A streamed answer that is returned is the one the user saw to its end.
StreamedIsReturned ==
    isStreamed /\ callOutcome = "answered" => doneText = deltas /\ deltas > 0

CallsAreSound == RepairIsSound /\ FailoverIsFair /\ StreamedIsReturned
=============================================================================
