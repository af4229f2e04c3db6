--------------------------- MODULE MCLoopAndMemory ---------------------------
(***************************************************************************)
(* The ReAct loop and the memory outbox, the two largest specifications,   *)
(* for TLC.  They share no variable: a behaviour is one of the loop or one *)
(* of the outbox, chosen at the start, while the other stays as it was.    *)
(***************************************************************************)
EXTENDS ReactLoop, MemoryOutbox

VARIABLE part \* the specification whose behaviour this is

bothVars == <<part, vars, outboxVars>>

BothInit == part \in {"loop", "memory"} /\ Init /\ OutboxInit

BothNext ==
    /\ UNCHANGED part
    /\ \/ part = "loop" /\ Next /\ UNCHANGED outboxVars
       \/ part = "memory" /\ OutboxNext /\ UNCHANGED vars

\* The fairness of the loop, in its own behaviours.
BothSpec ==
    /\ BothInit /\ [][BothNext]_bothVars
    /\ WF_vars(part = "loop" /\ LoopNext) /\ WF_vars(part = "loop" /\ Retry)
=============================================================================
