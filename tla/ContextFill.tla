----------------------------- MODULE ContextFill -----------------------------
(***************************************************************************)
(* How full the model's window is: the text build_context puts together    *)
(* for a session (memory/context_manager.py), whose length main.py takes   *)
(* as a floor at the start of a turn, and the strip of the client, which   *)
(* shows the fill of the turn before until a completion reports its own.   *)
(*                                                                         *)
(* A text is the sequence of the lengths of its lines, or of the passages  *)
(* or messages it is made of, in tokens, a line break counted with its     *)
(* line, and the tokens of texts that are joined add up.  What a turn      *)
(* reads of Redis, the database and the index is any text: other tasks     *)
(* change them between any two reads.                                      *)
(***************************************************************************)
EXTENDS Integers, SequencesExt, FiniteSetsExt

CONSTANTS SomeTexts,              \* the texts that may be read
          PinnedTexts,        \* lengths of what there is of instructions, prompt, core memory
          EffectiveBudget,    \* effective_budget
          RagSlot, SummarySlot, AnchorSlot, TurnsSlot, \* slot(share) of each part
          FinalK,             \* final_k
          HeaderLength,       \* tokens of "KEY FACTS ..."
          SeparatorLength,    \* tokens of the empty line between two parts or passages
          WindowSize,         \* CTX_TOKENS
          MaxFilled           \* bound: turns

\* A line that is kept is not empty, so it has tokens.
ASSUME FillAssumption ==
    /\ SomeTexts \subseteq Seq(Nat \ {0}) /\ <<>> \in SomeTexts
    /\ PinnedTexts \subseteq Seq(Nat \ {0})
    /\ {EffectiveBudget, RagSlot, SummarySlot, AnchorSlot, TurnsSlot, FinalK, HeaderLength,
        SeparatorLength, WindowSize, MaxFilled} \subseteq Nat

VARIABLES
    fillAt,     \* where the turn is
    filledTurns,\* turns so far
    measured,   \* what build_context read and what it kept, or NoContext
    floor,      \* _ctx_floor
    carriedIn,  \* _carried_fill, as read at the start
    carry,      \* _session_ctx_fill of the session
    peak,       \* peak_prompt_tokens of the task's counter
    strip,      \* what the client shows
    lastStrip   \* history: what it showed when the last turn ended

fillVars == <<fillAt, filledTurns, measured, floor, carriedIn, carry, peak, strip, lastStrip>>

NoContext == [pinned |-> <<>>, rag |-> <<>>, summary |-> <<>>, anchor |-> <<>>, turns |-> <<>>]

\* The parts that are cut; what is pinned never is.
TrimmedParts == {"rag", "summary", "anchor", "turns"}

FillTypeOK ==
    /\ fillAt \in {"idle", "measured", "running"} /\ filledTurns \in 0..MaxFilled
    /\ measured.pinned \in {<<>>} \union PinnedTexts
    /\ \A part \in TrimmedParts : measured[part] \in Seq(Nat)
    /\ {floor, carriedIn, carry, peak, strip, lastStrip} \subseteq Nat

FillInit ==
    /\ fillAt = "idle" /\ filledTurns = 0 /\ measured = NoContext
    /\ floor = 0 /\ carriedIn = 0 /\ carry = 0 /\ peak = 0 /\ strip = 0 /\ lastStrip = 0

-----------------------------------------------------------------------------
(* build_context                                                           *)

TokenCount(text) == FoldSeq(LAMBDA n, total : n + total, 0, text)

\* What stands between n texts that are joined.
Separators(n) == IF n = 0 THEN 0 ELSE (n - 1) * SeparatorLength

\* The passages that were packed, joined.
RagTokens(chunks) == TokenCount(chunks) + Separators(Len(chunks))

\* What a slot may hold, of what the parts before left.
SlotRoom(slot, remaining) == Min({slot, Max({0, remaining})})

\* _trim_to_budget: the newest lines that fit.
TrimToBudget(text, room) ==
    LET From(i) == SubSeq(text, i, Len(text)) IN
    From(Min({i \in 1..(Len(text) + 1) : TokenCount(From(i)) <= room}))

\* hybrid_retrieve: the best chunks, up to the first that does not fit; what will stand between
\* them is not counted.
PackChunks(chunks, room) ==
    LET To(i) == SubSeq(chunks, 1, i) IN
    To(Max({i \in 0..Min({FinalK, Len(chunks)}) : TokenCount(To(i)) <= room}))

\* An anchor with its header.
AnchorTokens(anchor) == IF anchor = <<>> THEN 0 ELSE HeaderLength + TokenCount(anchor)

\* Mutant: the turns have their slot, whatever the parts before left.
KeepRecentSlot(turns, remaining) == TrimToBudget(turns, TurnsSlot)

KeepRecent(turns, remaining) == TrimToBudget(turns, SlotRoom(TurnsSlot, remaining))

\* The parts, each cut to its slot and to what is left.  An anchor is there when it diverges
\* from the summary that is kept: always from none.
BuildContext(pinned, chunks, oldSummary, oldAnchor, turns, differs) ==
    LET left == EffectiveBudget - TokenCount(pinned)
        rag == PackChunks(chunks, SlotRoom(RagSlot, left))
        summary == TrimToBudget(oldSummary, SlotRoom(SummarySlot, left - RagTokens(rag)))
        less == left - RagTokens(rag) - TokenCount(summary)
        anchor == IF summary = <<>> \/ differs
                  THEN TrimToBudget(oldAnchor, SlotRoom(AnchorSlot, less)) ELSE <<>>
    IN [pinned |-> pinned, rag |-> rag, summary |-> summary, anchor |-> anchor,
        turns |-> KeepRecent(turns, less - AnchorTokens(anchor))]

\* as_prompt: the parts there are.
PromptParts(context) ==
    Len(context.pinned) + Cardinality({part \in TrimmedParts : context[part] # <<>>})

TotalTokens(context) ==
    TokenCount(context.pinned) + RagTokens(context.rag) + TokenCount(context.summary)
        + AnchorTokens(context.anchor) + TokenCount(context.turns) + Separators(PromptParts(context))

-----------------------------------------------------------------------------
(* A turn, in main.py                                                      *)

\* _context_window: the peak when there is one, and never less than the floor.
ContextWindowUsed(top, fallback, least) ==
    Min({Max({IF top > 0 THEN top ELSE fallback, least}), WindowSize})

\* The context is measured, or that fails.
MeasureContext ==
    /\ fillAt = "idle" /\ filledTurns < MaxFilled /\ fillAt' = "measured"
    /\ \/ /\ \E pinned \in PinnedTexts, chunks, old, kept, turns \in SomeTexts,
                 differs \in BOOLEAN :
                 measured' = BuildContext(pinned, chunks, old, kept, turns, differs)
          /\ floor' = TotalTokens(measured')
       \/ UNCHANGED <<measured, floor>>
    /\ UNCHANGED <<filledTurns, carriedIn, carry, peak, strip, lastStrip>>

ShowCarriedFill ==
    /\ fillAt = "measured" /\ fillAt' = "running" /\ measured' = NoContext
    /\ carriedIn' = carry /\ carry' = Max({carry, floor})
    /\ strip' = ContextWindowUsed(peak, carry, floor)
    /\ UNCHANGED <<filledTurns, floor, peak, lastStrip>>

\* A completion reports its prompt, which may be shorter than the session's context.
ObservePromptTokens ==
    /\ fillAt = "running" /\ \E n \in 1..(WindowSize + 1) : n > peak /\ peak' = n
    /\ UNCHANGED <<fillAt, filledTurns, measured, floor, carriedIn, carry, strip, lastStrip>>

RefreshStrip ==
    /\ fillAt = "running" /\ strip' = ContextWindowUsed(peak, carriedIn, floor)
    /\ UNCHANGED <<fillAt, filledTurns, measured, floor, carriedIn, carry, peak, lastStrip>>

\* Mutant: the fill that was reported is carried, without the floor.
EndFillPeakOnly ==
    /\ fillAt = "running" /\ fillAt' = "idle" /\ filledTurns' = filledTurns + 1
    /\ carry' = IF peak > 0 THEN peak ELSE carry
    /\ strip' = ContextWindowUsed(peak, peak, floor) /\ lastStrip' = strip'
    /\ floor' = 0 /\ peak' = 0 /\ carriedIn' = 0 /\ UNCHANGED measured

\* finally: the refresher is stopped, the fill carried to the next turn.
EndFill ==
    /\ fillAt = "running" /\ fillAt' = "idle" /\ filledTurns' = filledTurns + 1
    /\ carry' = Max({peak, floor, carry})
    /\ strip' = ContextWindowUsed(peak, peak, floor) /\ lastStrip' = strip'
    /\ floor' = 0 /\ peak' = 0 /\ carriedIn' = 0 /\ UNCHANGED measured

FillNext == MeasureContext \/ ShowCarriedFill \/ ObservePromptTokens \/ RefreshStrip \/ EndFill

FillSpec == FillInit /\ [][FillNext]_fillVars

-----------------------------------------------------------------------------
\* build_context is said to keep "strictly within budget", and does not: the empty lines between
\* the parts and the header of the anchor are in no slot, nor are those between the passages.
\* By these alone can it exceed the budget, as long as what is pinned fits it, and by those
\* between the passages only where they left no room for an anchor; and where what is pinned
\* takes the whole budget, nothing of the rest is there.  The strip starts a turn at no less
\* than the last one ended with, and never falls below what was measured.
FillIsTrue ==
    /\ TokenCount(measured.pinned) <= EffectiveBudget =>
           TotalTokens(measured) <= EffectiveBudget + Separators(PromptParts(measured)) +
               IF measured.anchor = <<>> THEN Separators(Len(measured.rag)) ELSE HeaderLength
    /\ TokenCount(measured.pinned) >= EffectiveBudget =>
           \A part \in TrimmedParts : measured[part] = <<>>
    /\ fillAt = "running" =>
           /\ peak = 0 => strip >= lastStrip
           /\ strip >= Min({floor, WindowSize})
=============================================================================
