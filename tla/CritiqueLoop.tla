---------------------------- MODULE CritiqueLoop ----------------------------
(***************************************************************************)
(* skills/critique: the reflexion loop (critique) over one output, the     *)
(* debate it may escalate to, and the single pass the verify gate asks for *)
(* (score_once, behind the tool of server.py).                             *)
(*                                                                         *)
(* A draft is a number: the output given is 0, every revision is the next. *)
(* The model scores a draft and says what it likes beside that, so that a  *)
(* verdict need not agree with a score.  Any call may raise.               *)
(***************************************************************************)
EXTENDS Naturals

CONSTANTS MaxIters,      \* MAX_ITERS
          StopScore,     \* STOP_THRESHOLD, the highest of the scores 0..StopScore
          TokenizerKnown \* the model's tokenizer is in the local cache

ASSUME CritiqueAssumption ==
    /\ MaxIters \in Nat \ {0} /\ StopScore \in Nat
    /\ TokenizerKnown \in BOOLEAN

VARIABLES
    critic,        \* where the skill is
    revision,      \* candidate
    draftScores,   \* history: the drafts evaluated, with the scores they were given
    bestDraft,     \* best_output and best_score
    judgedDraft,   \* the draft the last critique is of
    timeUp,        \* MAX_WALL_SECONDS are over
    handedBack     \* what the caller gets: a draft, the draft its critique is of, and why

critiqueVars == <<critic, revision, draftScores, bestDraft, judgedDraft, timeUp, handedBack>>

DraftNumbers == 0..MaxIters
CriticScores == 0..StopScore
NoCritique == [output |-> 0, critique |-> 0, how |-> "nothing"]

CritiqueTypeOK ==
    /\ critic \in {"called", "scoring", "grounding", "evaluating", "deciding", "reflecting",
                   "refining", "debating", "revising", "done"}
    /\ {revision, judgedDraft} \subseteq DraftNumbers
    /\ DOMAIN draftScores \subseteq DraftNumbers
    /\ \A d \in DOMAIN draftScores : draftScores[d] \in CriticScores
    /\ bestDraft \in [draft : DraftNumbers, score : CriticScores]
    /\ timeUp \in BOOLEAN
    /\ handedBack \in [output : 0..(MaxIters + 1), critique : DraftNumbers,
                     how : {"nothing", "error", "scored", "verdict", "stopped", "debated"}]

CritiqueInit ==
    /\ critic = "called" /\ revision = 0 /\ draftScores = <<>>
    /\ bestDraft = [draft |-> 0, score |-> 0] /\ judgedDraft = 0 /\ timeUp = FALSE
    /\ handedBack = NoCritique

critiqueState == <<revision, draftScores, bestDraft, judgedDraft>>

GiveBack(output, how) ==
    /\ critic' = "done"
    /\ handedBack' = [output |-> output, critique |-> judgedDraft, how |-> how]

\* Which of the two entry points is called.
EnterCritique ==
    /\ critic = "called" /\ critic' \in {"scoring", "grounding"}
    /\ UNCHANGED <<critiqueState, timeUp, handedBack>>

\* score_once: one evaluation of the output.
ScoreOnce ==
    /\ critic = "scoring" /\ GiveBack(0, "scored")
    /\ UNCHANGED <<critiqueState, timeUp>>

\* The test suite, the linter, or the questions about the draft and their answers, of the
\* candidate of this round.
GroundWithSignals ==
    /\ critic = "grounding" /\ critic' = "evaluating"
    /\ UNCHANGED <<critiqueState, timeUp, handedBack>>

\* Mutant: the last draft takes the place of the best.
KeepLatest(d, score) ==
    bestDraft' = [draft |-> d, score |-> score]

\* Only a draft with a higher score takes the place of the best.
KeepBest(d, score) ==
    bestDraft' = IF score > bestDraft.score THEN [draft |-> d, score |-> score] ELSE bestDraft

\* A critical or a security finding opens a debate about the best draft; a pass or the score
\* ends the loop.
EvaluateDraft ==
    /\ critic = "evaluating" /\ judgedDraft' = revision
    /\ \E score \in CriticScores :
           /\ draftScores' = [d \in DOMAIN draftScores \union {revision} |->
                                 IF d = revision THEN score ELSE draftScores[d]]
           /\ KeepBest(revision, score)
           /\ \/ critic' = "debating" /\ UNCHANGED handedBack
              \/ /\ critic' = "done"
                 /\ handedBack' = [output |-> bestDraft'.draft, critique |-> revision,
                                 how |-> IF score = StopScore THEN "scored" ELSE "verdict"]
              \/ score < StopScore /\ critic' = "deciding" /\ UNCHANGED handedBack
    /\ UNCHANGED <<revision, timeUp>>

ClockRunsOut ==
    /\ critic \notin {"called", "done"} /\ ~timeUp /\ timeUp' = TRUE
    /\ UNCHANGED <<critic, critiqueState, handedBack>>

\* The deadline is looked at before a round of reflection, and not during one.
AffordRound ==
    /\ critic = "deciding"
    /\ IF timeUp THEN GiveBack(bestDraft.draft, "stopped")
       ELSE critic' \in {"reflecting", "refining"} /\ UNCHANGED handedBack
    /\ UNCHANGED <<critiqueState, timeUp>>

\* Only a critique the model is confident of leaves lessons for the revision.
LearnLesson ==
    /\ critic = "reflecting" /\ critic' = "refining"
    /\ UNCHANGED <<critiqueState, timeUp, handedBack>>

\* A revision that hardly differs ends the loop, and so does the last round: it is written
\* and not evaluated.
RefineDraft ==
    /\ critic = "refining"
    /\ \/ GiveBack(bestDraft.draft, "stopped") /\ UNCHANGED revision
       \/ /\ revision + 1 < MaxIters /\ revision' = revision + 1
          /\ critic' = "grounding" /\ UNCHANGED handedBack
    /\ UNCHANGED <<draftScores, bestDraft, judgedDraft, timeUp>>

\* run_debate: two positions, a rebuttal and a judgement.  Whether the positions agree is
\* asked of the tokenizer, and raises without it.
RunDebate ==
    /\ critic = "debating" /\ TokenizerKnown /\ critic' = "revising"
    /\ UNCHANGED <<critiqueState, timeUp, handedBack>>

\* The judgement is of the best draft; its revision is returned as it comes, not evaluated.
ReviseJudged ==
    /\ critic = "revising" /\ critic' = "done"
    /\ handedBack' = [output |-> revision + 1, critique |-> bestDraft.draft, how |-> "debated"]
    /\ UNCHANGED <<critiqueState, timeUp>>

\* The model or a program raises: the caller has an error and no draft.
CritiqueRaises ==
    /\ critic \notin {"called", "deciding", "done"} /\ critic' = "done"
    /\ handedBack' = [NoCritique EXCEPT !.how = "error"]
    /\ UNCHANGED <<critiqueState, timeUp>>

CritiqueNext ==
    \/ EnterCritique \/ ScoreOnce \/ GroundWithSignals \/ EvaluateDraft \/ ClockRunsOut
    \/ AffordRound \/ LearnLesson \/ RefineDraft \/ RunDebate \/ ReviseJudged \/ CritiqueRaises

CritiqueSpec == CritiqueInit /\ [][CritiqueNext]_critiqueVars

-----------------------------------------------------------------------------
\* Wherever the loop ends (a verdict, the score, the deadline, a revision that changes little,
\* the last round), what it returns is the first of the drafts with the highest score; and
\* the critique that goes with it is of that draft when its score ended the loop.
BestReturned ==
    (handedBack.how \in {"verdict", "stopped", "scored"} /\ draftScores # <<>>) =>
        /\ handedBack.output \in DOMAIN draftScores
        /\ \A d \in DOMAIN draftScores :
               draftScores[d] < draftScores[handedBack.output]
                   \/ (draftScores[d] = draftScores[handedBack.output] /\ handedBack.output <= d)
        /\ handedBack.how = "scored" => handedBack.critique = handedBack.output
=============================================================================
