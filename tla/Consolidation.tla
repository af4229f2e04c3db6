---------------------------- MODULE Consolidation ----------------------------
(***************************************************************************)
(* memory_consolidator.py over storage_manager.py: a consumer of the       *)
(* `tasks` stream counts the episodes of the session each entry names, and *)
(* at every INTERVAL-th lets the model extract facts from the last ones,   *)
(* reconcile them with the facts found near them, and applies the edits.   *)
(* Reflections on finished tasks and compactions store facts beside it.    *)
(*                                                                         *)
(* A fact is a number in the order of the inserts.  One session is counted *)
(* and the facts are those of all sessions, as search_memories has them.   *)
(* A reply of the model names any facts it was shown, once or more; what   *)
(* it says otherwise (a missing key, an id that is none) makes a call      *)
(* raise, and so may Mongo, Chroma and the model itself.                   *)
(***************************************************************************)
EXTENDS Naturals, Sequences

CONSTANTS EpisodeInterval, \* CONSOLIDATION_INTERVAL
          MaxEpisodes, \* bound: episodes of the session
          MaxFacts,    \* bound: facts
          MaxRepeats,  \* bound: entries the outbox appends again
          MaxEdits,    \* bound: edits of a kind in a reply
          CriticEnabled

ASSUME ConsolidationAssumption ==
    /\ EpisodeInterval \in Nat \ {0} /\ CriticEnabled \in BOOLEAN
    /\ {MaxEpisodes, MaxFacts, MaxRepeats, MaxEdits} \subseteq Nat

VARIABLES
    episodes,  \* episodes of the session in Mongo
    entries,   \* entries of the stream the group has not been given
    repeats,
    given,     \* entries given to the consumer and not acknowledged
    consumer,  \* where consume_tasks is
    shown,     \* facts the model was shown
    edits,     \* the reply, as far as it is not applied
    facts,     \* Mongo: the facts in order, current or closed, and what each supersedes
    found,     \* Chroma: the facts whose point is there, and current
    replaced,  \* history: facts closed for an update
    torn       \* history: the update an exception or the loop's end interrupted

consolVars == <<episodes, entries, repeats, given, consumer, shown, edits, facts, found,
                replaced, torn>>

Facts == 1..MaxFacts
NoEdits == [add |-> 0, update |-> <<>>, delete |-> <<>>]
Named(s) == UNION {[1..n -> s] : n \in 0..MaxEdits}
ConsumerSteps == {"reading", "counting", "extracting", "searching", "editing", "judging",
                  "applying", "storing", "dead"}

ConsolTypeOK ==
    /\ episodes \in 0..MaxEpisodes /\ repeats \in 0..MaxRepeats
    /\ {entries, given} \subseteq 0..(MaxEpisodes + MaxRepeats)
    /\ consumer \in ConsumerSteps
    /\ {shown, found, replaced, torn} \subseteq SUBSET Facts
    /\ edits \in [add : 0..MaxEdits, update : Named(Facts), delete : Named(Facts)]
    /\ Len(facts) <= MaxFacts
    /\ \A m \in DOMAIN facts : facts[m] \in [open : BOOLEAN, supersedes : {0} \union Facts]

ConsolInit ==
    /\ episodes = 0 /\ entries = 0 /\ repeats = 0 /\ given = 0 /\ consumer = "reading"
    /\ shown = {} /\ edits = NoEdits /\ facts = <<>> /\ found = {} /\ replaced = {} /\ torn = {}

reading == <<entries, given>>
consolHistory == <<replaced, torn>>

-----------------------------------------------------------------------------
(* The rest of the system                                                  *)

\* store_episode; the outbox worker appends an entry for it, and again after a failure.
AddEpisode ==
    /\ episodes < MaxEpisodes
    /\ episodes' = episodes + 1 /\ entries' = entries + 1
    /\ UNCHANGED <<repeats, given, consumer, shown, edits, facts, found, consolHistory>>
RepeatEntry ==
    /\ episodes > 0 /\ repeats < MaxRepeats
    /\ repeats' = repeats + 1 /\ entries' = entries + 1
    /\ UNCHANGED <<episodes, given, consumer, shown, edits, facts, found, consolHistory>>

\* The outbox worker brings a fact's point up to date.
ProjectFact(m) ==
    /\ m \in DOMAIN facts /\ (m \in found) # facts[m].open
    /\ found' = IF facts[m].open THEN found \union {m} ELSE found \ {m}
    /\ UNCHANGED <<episodes, reading, repeats, consumer, shown, edits, facts, consolHistory>>

StoreFact(old) ==
    /\ Len(facts) < MaxFacts
    /\ facts' = Append(facts, [open |-> TRUE, supersedes |-> old])

Closed(m) == [facts EXCEPT ![m].open = FALSE]

\* write_reflections, on_task_complete: what raises there is logged, and nothing is stored.
StoreReflection ==
    /\ StoreFact(0)
    /\ UNCHANGED <<episodes, reading, repeats, consumer, shown, edits, found, consolHistory>>

-----------------------------------------------------------------------------
(* consume_tasks                                                           *)

\* XREADGROUP ">": an entry is given once.
ReadEntries ==
    /\ consumer = "reading" /\ given = 0 /\ entries > 0
    /\ given' = entries /\ entries' = 0 /\ consumer' = "counting"
    /\ UNCHANGED <<episodes, repeats, shown, edits, facts, found, consolHistory>>

\* maybe_consolidate has returned: XACK, and the next entry.
Acked ==
    /\ given' = given - 1
    /\ consumer' = IF given = 1 THEN "reading" ELSE "counting"
    /\ shown' = {} /\ edits' = NoEdits

\* The count is the one of now, whichever episode the entry was appended for.
CountEpisodes ==
    /\ consumer = "counting"
    /\ IF episodes % EpisodeInterval # 0 THEN Acked
       ELSE consumer' = "extracting" /\ UNCHANGED <<given, shown, edits>>
    /\ UNCHANGED <<episodes, entries, repeats, facts, found, consolHistory>>

\* _extract_memories: nothing, or some candidates.
Extract ==
    /\ consumer = "extracting"
    /\ (consumer' = "searching" /\ UNCHANGED <<given, shown, edits>>) \/ Acked
    /\ UNCHANGED <<episodes, entries, repeats, facts, found, consolHistory>>

\* _gather_neighbors: some of the facts whose point says they are current.
GatherNeighbors ==
    /\ consumer = "searching" /\ consumer' = "editing"
    /\ shown' \in SUBSET found
    /\ UNCHANGED <<episodes, reading, repeats, edits, facts, found, consolHistory>>

\* _self_edit: a reply that is not JSON makes all candidates additions.
SelfEdit ==
    /\ consumer = "editing" /\ consumer' = "judging"
    /\ edits' \in [add : 0..MaxEdits, update : Named(shown), delete : Named(shown)]
    /\ UNCHANGED <<episodes, reading, repeats, shown, facts, found, consolHistory>>

\* What may be left of a list.
PartsOf(list) ==
    {u \in Named(Facts) :
         \E at \in [DOMAIN u -> DOMAIN list] :
             /\ \A i, j \in DOMAIN u : i < j => at[i] < at[j]
             /\ \A i \in DOMAIN u : u[i] = list[at[i]]}

\* _filter_edits: the critic drops additions and updates, never deletions.
FilterEdits ==
    /\ consumer = "judging" /\ consumer' = "applying"
    /\ IF CriticEnabled
       THEN \E n \in 0..edits.add, u \in PartsOf(edits.update) :
                edits' = [edits EXCEPT !.add = n, !.update = u]
       ELSE UNCHANGED edits
    /\ UNCHANGED <<episodes, reading, repeats, shown, facts, found, consolHistory>>

-----------------------------------------------------------------------------
(* _apply_edits: additions, then updates, then deletions                   *)

ApplyAdd ==
    /\ consumer = "applying" /\ edits.add > 0
    /\ StoreFact(0) /\ edits' = [edits EXCEPT !.add = @ - 1]
    /\ UNCHANGED <<episodes, reading, repeats, consumer, shown, found, consolHistory>>

\* supersede closes the old fact, closed already or not, ...
CloseOld ==
    /\ consumer = "applying" /\ edits.add = 0 /\ edits.update # <<>>
    /\ facts' = Closed(Head(edits.update)) /\ consumer' = "storing"
    /\ replaced' = replaced \union {Head(edits.update)}
    /\ UNCHANGED <<episodes, reading, repeats, shown, edits, found, torn>>

\* Mutant: the new fact is stored without what it supersedes.
StoreNewUnlinked ==
    /\ consumer = "storing" /\ consumer' = "applying"
    /\ StoreFact(0)
    /\ edits' = [edits EXCEPT !.update = Tail(@)]
    /\ UNCHANGED <<episodes, reading, repeats, shown, found, consolHistory>>

\* ... then stores the new one.
StoreNew ==
    /\ consumer = "storing" /\ consumer' = "applying"
    /\ StoreFact(Head(edits.update))
    /\ edits' = [edits EXCEPT !.update = Tail(@)]
    /\ UNCHANGED <<episodes, reading, repeats, shown, found, consolHistory>>

ApplyDelete ==
    /\ consumer = "applying" /\ edits.add = 0 /\ edits.update = <<>> /\ edits.delete # <<>>
    /\ facts' = Closed(Head(edits.delete))
    /\ edits' = [edits EXCEPT !.delete = Tail(@)]
    /\ UNCHANGED <<episodes, reading, repeats, consumer, shown, found, consolHistory>>

Applied ==
    /\ consumer = "applying" /\ edits = NoEdits
    /\ Acked
    /\ UNCHANGED <<episodes, entries, repeats, facts, found, consolHistory>>

\* A call raises: the exception leaves maybe_consolidate and the loop, which is not started
\* again; the entries it was given stay pending.
ConsumerRaises ==
    /\ consumer \notin {"reading", "dead"} /\ consumer' = "dead"
    /\ torn' = IF consumer = "storing" THEN {Head(edits.update)} ELSE {}
    /\ UNCHANGED <<episodes, reading, repeats, shown, edits, facts, found, replaced>>

ConsumerNext ==
    \/ ReadEntries \/ CountEpisodes \/ Extract \/ GatherNeighbors \/ SelfEdit \/ FilterEdits
    \/ ApplyAdd \/ CloseOld \/ StoreNew \/ ApplyDelete \/ Applied

ConsolNext ==
    \/ AddEpisode \/ RepeatEntry \/ StoreReflection
    \/ \E m \in Facts : ProjectFact(m)
    \/ ConsumerNext
    \/ ConsumerRaises

ConsolSpec == ConsolInit /\ [][ConsolNext]_consolVars

-----------------------------------------------------------------------------
\* A fact that an update has closed is replaced by one that says so, whatever the model
\* names (facts closed meanwhile, a fact twice) and however many edits were applied when the
\* loop ends.  The one update it may end in is excepted: supersede closes the old fact and
\* then stores the new one, and a raise between the two leaves the fact closed for nothing.
ReplacedNotLost ==
    \A m \in replaced :
        \/ \E n \in DOMAIN facts : facts[n].supersedes = m
        \/ consumer = "storing" /\ Head(edits.update) = m
        \/ m \in torn
=============================================================================
