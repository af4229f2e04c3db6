--------------------------- MODULE ContextWindow ---------------------------
(***************************************************************************)
(* The conversation of one session as the model sees it: summary, anchor   *)
(* and the turns after a watermark (memory/context_manager.py), with the   *)
(* three callers of full_compact: a `compact` goal and the check before a  *)
(* turn, both run by the goal loop, and the background sweep               *)
(* (orchestrator/main.py).  full_compact holds no lock: every Redis call   *)
(* and every call of the language model is an await at which the others    *)
(* run, and a reader of the context can run between any two of them.       *)
(*                                                                         *)
(* Turns are numbered from 0 as the gateway numbers them; a summary or an  *)
(* anchor is the set of turns it was made from.  How full the window is,   *)
(* how long the session was idle and how many of the newest turns fit the  *)
(* token budget of the reader are left open.                               *)
(***************************************************************************)
EXTENDS Integers, FiniteSets, FiniteSetsExt

CONSTANTS GoalLoop, Sweep,  \* the two tasks that compact
          Keep,             \* _KEEP_RECENT
          BlockSize,        \* _BLOCK_SIZE
          Limit,            \* the newest turns _recent_turns reads
          MaxStored,        \* bound: turns of the session
          MaxCtxFaults      \* bound: failed calls, crashes

Compactors == {GoalLoop, Sweep}

ASSUME CtxAssumption ==
    /\ GoalLoop # Sweep
    /\ {Keep, Limit, MaxStored, MaxCtxFaults} \subseteq Nat
    /\ BlockSize \in Nat \ {0}

VARIABLES
    turns,      \* how many turns chat_turns holds
    inTurn,     \* the goal loop runs a turn of this session
    idle,       \* the newest turn is older than _IDLE_COMPACT_SECONDS
    watermark,  \* summarized_through:<session>
    summary,    \* summary:<session>, {} when absent
    anchor,     \* anchor:<session>, {} when absent
    job,        \* the compaction each task is in
    view,       \* what conversation_context has read for the running turn
    ctxFaults,  \* faults so far
    fresh,      \* history: the tasks whose old summary is still the stored one
    raced       \* history: a task stored over a summary it had not read, or put the old one
                \* back although the watermark had moved

ctxVars == <<turns, inTurn, idle, watermark, summary, anchor, job, view,
             ctxFaults, fresh, raced>>

Seqs == 0..(MaxStored - 1)
Stages == {"idle", "filled", "turns", "watermark", "anchored", "summarising", "anchoring",
           "summarised", "merging", "advancing", "reflecting"}
\* blocks: those whose summary is awaited; new: the turns the summaries so far were made from
NoJob == [at |-> "idle", seen |-> 0, through |-> -1, anchor |-> {}, old |-> {},
          blocks |-> {}, new |-> {}]
\* through: the watermark when the summary was read; overtaken: it has moved on when the
\* turns are read; trimmed: the budget has cut off some of them
NoView == [at |-> "none", turns |-> 0, summary |-> {}, recent |-> {}, through |-> -1,
           overtaken |-> FALSE, trimmed |-> FALSE]

CtxTypeOK ==
    /\ turns \in 0..MaxStored
    /\ inTurn \in BOOLEAN /\ idle \in BOOLEAN /\ raced \in BOOLEAN
    /\ watermark \in -1..(MaxStored - 1)
    /\ summary \subseteq Seqs /\ anchor \subseteq Seqs
    /\ job \in [Compactors -> [at : Stages, seen : 0..MaxStored, through : -1..(MaxStored - 1),
                               anchor : SUBSET Seqs, old : SUBSET Seqs,
                               blocks : SUBSET SUBSET Seqs, new : SUBSET Seqs]]
    /\ view \in [at : {"none", "summary", "done", "failed"}, turns : 0..MaxStored,
                 summary : SUBSET Seqs, recent : SUBSET Seqs, through : -1..(MaxStored - 1),
                 overtaken : BOOLEAN, trimmed : BOOLEAN]
    /\ ctxFaults \in 0..MaxCtxFaults /\ fresh \subseteq Compactors

CtxInit ==
    /\ turns = 0 /\ inTurn = FALSE /\ idle = FALSE
    /\ watermark = -1 /\ summary = {} /\ anchor = {}
    /\ job = [c \in Compactors |-> NoJob] /\ view = NoView
    /\ ctxFaults = 0 /\ fresh = {} /\ raced = FALSE

persisted == <<watermark, summary, anchor>>
ctxHistory == <<fresh, raced>>

-----------------------------------------------------------------------------
(* The turn, and the reader of its context.                                *)

\* The gateway stores the user's turn and the goal loop takes the goal.
TurnStarts ==
    /\ ~inTurn /\ job[GoalLoop].at = "idle" /\ turns < MaxStored
    /\ turns' = turns + 1 /\ inTurn' = TRUE /\ idle' = FALSE
    /\ view' = NoView
    /\ UNCHANGED <<persisted, job, ctxFaults, ctxHistory>>

\* conversation_context: the summary and the anchor first ...
ReadSummary ==
    /\ inTurn /\ view.at = "none" /\ job[GoalLoop].at = "idle"
    /\ view' = [view EXCEPT !.at = "summary", !.turns = turns, !.summary = summary,
                            !.through = watermark]
    /\ UNCHANGED <<turns, inTurn, idle, persisted, job, ctxFaults, ctxHistory>>

\* The turns after the watermark that _recent_turns reads, of which the budget keeps those
\* from `cut` on (a turn of which only the last lines fit counts as cut off).
Shows(window, cut) ==
    /\ view.at = "summary"
    /\ view' = [view EXCEPT !.at = "done", !.recent = {s \in window : s >= cut},
                            !.trimmed = \E s \in window : s < cut,
                            !.overtaken = watermark > view.through]
    /\ UNCHANGED <<turns, inTurn, idle, persisted, job, ctxFaults, ctxHistory>>

\* Mutant: the oldest turns after the watermark instead of the newest.
OldestTurns == \E cut \in 0..turns :
    Shows({s \in 0..(turns - 1) : s > watermark /\ s <= watermark + Limit}, cut)

\* ... then _recent_turns: the watermark, the newest turns after it, and _trim_to_budget.
RecentTurns == \E cut \in 0..turns :
    Shows({s \in 0..(turns - 1) : s > watermark /\ s >= turns - Limit}, cut)

\* A call of conversation_context raises: the turn runs without its context.
ContextFails ==
    /\ inTurn /\ view.at \in {"none", "summary"} /\ job[GoalLoop].at = "idle"
    /\ ctxFaults < MaxCtxFaults /\ ctxFaults' = ctxFaults + 1
    /\ view' = [NoView EXCEPT !.at = "failed"]
    /\ UNCHANGED <<turns, inTurn, idle, persisted, job, ctxHistory>>

\* The relay stores the answer.
TurnEnds ==
    /\ inTurn /\ view.at \in {"done", "failed"} /\ turns < MaxStored
    /\ turns' = turns + 1 /\ inTurn' = FALSE /\ idle' = FALSE /\ view' = NoView
    /\ UNCHANGED <<persisted, job, ctxFaults, ctxHistory>>

TimePasses ==
    /\ ~idle /\ turns > 0 /\ idle' = TRUE
    /\ UNCHANGED <<turns, inTurn, persisted, job, view, ctxFaults, ctxHistory>>

-----------------------------------------------------------------------------
(* full_compact, one step per await.  jobStep is the part of a step that   *)
(* concerns the job itself.                                                *)

jobUnchanged == UNCHANGED <<turns, inTurn, idle, view>>
At(c, stage) == job[c].at = stage
Goes(c, stage) == job' = [job EXCEPT ![c].at = stage]
WorkEnds(c) == job' = [job EXCEPT ![c] = NoJob]
\* A task that is done with the summary, having stored one or not: what it stored makes
\* stale what the others have read.
Leaves(c, stored) == fresh' = IF stored THEN {} ELSE fresh \ {c}

\* A `compact` goal, or a context above FULL_THRESH before the turn is run.
GoalLoopCompacts ==
    /\ At(GoalLoop, "idle") /\ view.at = "none" /\ Goes(GoalLoop, "filled")
    /\ jobUnchanged /\ UNCHANGED <<persisted, ctxFaults, ctxHistory>>

\* maybe_background_compact: the idle gate; then build_context measures the
\* fill, and a session below half of the window is left alone.
SweepChecks ==
    /\ At(Sweep, "idle") /\ idle /\ Goes(Sweep, "filled")
    /\ jobUnchanged /\ UNCHANGED <<persisted, ctxFaults, ctxHistory>>
SweepSkips == /\ At(Sweep, "filled") /\ WorkEnds(Sweep)
              /\ jobUnchanged /\ UNCHANGED <<persisted, ctxFaults, ctxHistory>>

\* Step 1: all turns are read; a short session has nothing to compact.
ReadTurns(c) ==
    /\ At(c, "filled")
    /\ job' = [job EXCEPT ![c] = IF turns <= Keep THEN NoJob
                                 ELSE [@ EXCEPT !.at = "turns", !.seen = turns]]
    /\ jobUnchanged /\ UNCHANGED <<persisted, ctxFaults, ctxHistory>>

\* Step 2: the turns after the watermark but for the newest Keep.
ToCompact(c) == (job[c].through + 1)..(job[c].seen - 1 - Keep)
ReadWatermark(c) ==
    /\ At(c, "turns")
    /\ job' = [job EXCEPT ![c] = IF watermark + 1 > job[c].seen - 1 - Keep THEN NoJob
                                 ELSE [@ EXCEPT !.at = "watermark", !.through = watermark]]
    /\ jobUnchanged /\ UNCHANGED <<persisted, ctxFaults, ctxHistory>>

\* Step 4.
ReadAnchor(c) ==
    /\ At(c, "watermark")
    /\ job' = [job EXCEPT ![c].at = "anchored", ![c].anchor = anchor]
    /\ jobUnchanged /\ UNCHANGED <<persisted, ctxFaults, ctxHistory>>

\* Mutant: a last block that is not full is left out.
FullBlocks(S) == {{s \in S : (s - Min(S)) \div BlockSize = i} :
                      i \in 0..((Cardinality(S) \div BlockSize) - 1)}

\* Step 5: _parallel_summarize splits the turns into blocks of BlockSize ...
Blocks(S) == {{s \in S : (s - Min(S)) \div BlockSize = i} :
                  i \in 0..((Cardinality(S) - 1) \div BlockSize)}
SplitBlocks(c) ==
    /\ At(c, "anchored")
    /\ job' = [job EXCEPT ![c].at = "summarising", ![c].blocks = Blocks(ToCompact(c))]
    /\ jobUnchanged /\ UNCHANGED <<persisted, ctxFaults, ctxHistory>>

\* ... which are summarised side by side ...
SummariseBlock(c, block) ==
    /\ At(c, "summarising") /\ block \in job[c].blocks
    /\ job' = [job EXCEPT ![c].blocks = @ \ {block}, ![c].new = @ \union block]
    /\ jobUnchanged /\ UNCHANGED <<persisted, ctxFaults, ctxHistory>>

\* ... and the model merges the summaries of several blocks.
MergeBlocks(c) ==
    /\ At(c, "summarising") /\ job[c].blocks = {} /\ Goes(c, "anchoring")
    /\ jobUnchanged /\ UNCHANGED <<persisted, ctxFaults, ctxHistory>>

\* Step 6: the first summary becomes the anchor.
StoreAnchor(c) ==
    /\ At(c, "anchoring") /\ Goes(c, "summarised")
    /\ anchor' = IF job[c].anchor = {} THEN job[c].new ELSE anchor
    /\ jobUnchanged /\ UNCHANGED <<watermark, summary, ctxFaults, ctxHistory>>

\* Step 7.
ReadOldSummary(c) ==
    /\ At(c, "summarised")
    /\ job' = [job EXCEPT ![c].at = "merging", ![c].old = summary]
    /\ fresh' = fresh \union {c}
    /\ jobUnchanged /\ UNCHANGED <<persisted, ctxFaults, raced>>

\* Steps 7 and 8: the merge, and the SET of the result.
StoreSummary(c) ==
    /\ At(c, "merging") /\ Goes(c, "advancing")
    /\ summary' = job[c].old \union job[c].new
    /\ fresh' = fresh \intersect {c} /\ raced' = (raced \/ c \notin fresh)
    /\ jobUnchanged /\ UNCHANGED <<watermark, anchor, ctxFaults>>

\* Mutant: the watermark is the newest turn.
AdvanceToNewest(c) ==
    /\ At(c, "advancing") /\ Goes(c, "reflecting")
    /\ watermark' = job[c].seen - 1 /\ Leaves(c, FALSE)
    /\ jobUnchanged /\ UNCHANGED <<summary, anchor, ctxFaults, raced>>

\* Step 9: the watermark moves to the last turn that was summarised.
AdvanceWatermark(c) ==
    /\ At(c, "advancing") /\ Goes(c, "reflecting")
    /\ watermark' = Max(ToCompact(c)) /\ Leaves(c, FALSE)
    /\ jobUnchanged /\ UNCHANGED <<summary, anchor, ctxFaults, raced>>

\* Steps 10 and 11: the model is asked for reflections; neither this nor the event raises.
ExtractReflections(c) ==
    /\ At(c, "reflecting") /\ WorkEnds(c)
    /\ jobUnchanged /\ UNCHANGED <<persisted, ctxFaults, ctxHistory>>

-----------------------------------------------------------------------------
(* Failures.                                                               *)

\* A call raises before anything was stored; the callers log it.
CompactRaises(c) ==
    /\ job[c].at \in {"turns", "watermark", "anchored", "summarising", "anchoring",
                      "summarised", "merging"}
    /\ ctxFaults < MaxCtxFaults /\ ctxFaults' = ctxFaults + 1
    /\ WorkEnds(c) /\ Leaves(c, FALSE)
    /\ jobUnchanged /\ UNCHANGED <<persisted, raced>>

\* The SET of the summary raises, having taken effect or not: the old one is
\* put back, over whatever is there by then, unless that raises as well.
StoreSummaryRaises(c, done, putBack) ==
    /\ At(c, "merging") /\ ctxFaults < MaxCtxFaults
    /\ ctxFaults' = ctxFaults + 1 /\ WorkEnds(c)
    /\ summary' = IF putBack THEN job[c].old
                  ELSE IF done THEN job[c].old \union job[c].new ELSE summary
    /\ Leaves(c, done \/ putBack)
    /\ raced' = (raced \/ (c \notin fresh /\ (done \/ putBack)))
    /\ jobUnchanged /\ UNCHANGED <<watermark, anchor>>

\* The SET of the watermark raises: the old summary is put back, unless that
\* raises as well.  The SET may have taken effect, its reply being lost.
AdvanceRaises(c, done, putBack) ==
    /\ At(c, "advancing") /\ ctxFaults < MaxCtxFaults
    /\ ctxFaults' = ctxFaults + 1 /\ WorkEnds(c)
    /\ watermark' = IF done THEN Max(ToCompact(c)) ELSE watermark
    /\ summary' = IF putBack THEN job[c].old ELSE summary
    /\ Leaves(c, putBack)
    /\ raced' = (raced \/ (putBack /\ (done \/ c \notin fresh)))
    /\ jobUnchanged /\ UNCHANGED anchor

\* The orchestrator dies, and with it both tasks and the turn.
CtxCrash ==
    /\ ctxFaults < MaxCtxFaults /\ ctxFaults' = ctxFaults + 1
    /\ job' = [c \in Compactors |-> NoJob] /\ view' = NoView /\ inTurn' = FALSE /\ fresh' = {}
    /\ UNCHANGED <<turns, idle, persisted, raced>>

-----------------------------------------------------------------------------
CompactStep(c) ==
    \/ ReadTurns(c) \/ ReadWatermark(c) \/ ReadAnchor(c)
    \/ SplitBlocks(c) \/ (\E block \in job[c].blocks : SummariseBlock(c, block))
    \/ MergeBlocks(c) \/ StoreAnchor(c)
    \/ ReadOldSummary(c) \/ StoreSummary(c) \/ AdvanceWatermark(c) \/ ExtractReflections(c)
CompactFails(c) ==
    \/ CompactRaises(c)
    \/ \E done, putBack \in BOOLEAN :
           StoreSummaryRaises(c, done, putBack) \/ AdvanceRaises(c, done, putBack)

CtxNext ==
    \/ TurnStarts \/ ReadSummary \/ RecentTurns \/ ContextFails \/ TurnEnds \/ TimePasses
    \/ GoalLoopCompacts \/ SweepChecks \/ SweepSkips
    \/ \E c \in Compactors : CompactStep(c) \/ CompactFails(c)
    \/ CtxCrash

CtxSpec == CtxInit /\ [][CtxNext]_ctxVars

-----------------------------------------------------------------------------
(* Properties.                                                             *)

\* What the watermark hides from the recent turns is in the summary, however the compactions
\* overlap and fail, until one of them stores over a summary it had not read or rolls back
\* behind a watermark that had moved all the same (full_compact).
HiddenIsSummarised == ~raced => 0..watermark \subseteq summary

\* The turns the model is shown neither as they were nor in the summary are the oldest: each
\* is older than all that it is shown, and either the budget has cut it off or it is not of
\* the newest Limit.  A compaction that advances between the two reads of the context is the
\* exception (conversation_context, _recent_turns).
OldestLeftOut ==
    view.at = "done" /\ ~raced /\ ~view.overtaken
        => \A s \in (0..(view.turns - 1)) \ (view.summary \union view.recent) :
               /\ view.trimmed \/ s < view.turns - Limit
               /\ \A r \in view.recent : s < r

\* No turn of the conversation is skipped: by the watermark or by what the model is shown.
NoTurnSkipped == HiddenIsSummarised /\ OldestLeftOut
=============================================================================
