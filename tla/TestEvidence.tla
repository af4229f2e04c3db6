---------------------------- MODULE TestEvidence ----------------------------
(***************************************************************************)
(* How a run of tests becomes the evidence the coding loop works with      *)
(* (ReactLoop takes its outcome as given).  The loop asks the client, the  *)
(* sandbox (in a container or in a local process) or the shell; the run    *)
(* ends, is killed or never starts; what comes back is text, from which    *)
(* the orchestrator tells apart a pass, a failure and a broken toolchain.  *)
(* A text is the set of what those functions look for in it.               *)
(***************************************************************************)
EXTENDS Naturals

CONSTANT MaxTestRuns \* bound: attempts in a goal

ASSUME EvidenceAssumption == MaxTestRuns \in Nat \ {0}

VARIABLES
    exposeBug,   \* _expose_bug: a failing test is what the goal asks for
    what,        \* the attempt: run_tests, or code with an assert in the sandbox
    via,         \* and where it runs
    stage,       \* how far it is
    real,        \* what the command really did
    output,      \* the text it has written
    exitZero, overtime,
    testsPassed, \* tests_passed of the loop
    testRuns,
    earned,      \* history: an attempt really gave what the goal asks for
    legible      \* history: every attempt judged so far could be read

evidenceVars == <<exposeBug, what, via, stage, real, output, exitZero, overtime,
                  testsPassed, testRuns, earned, legible>>

Counts == {"passed", "failed", "error"} \* "<n> passed" and the like, n > 0

\* Other things a text may hold: that no tests ran, a word of _INFRA_MARKERS, "infra",
\* a count of none ("0 failed") or of some failures ahead of the summary, a summary at
\* the start of its line (pytest -q), more than fits the budget of a tool result.
Words == {"none", "marker", "infra", "clean", "red", "quiet", "long"}

EvidenceTypeOK ==
    /\ exposeBug \in BOOLEAN
    /\ what \in {"tests", "assertion"} /\ via \in {"client", "docker", "local", "shell"}
    /\ stage \in {"idle", "asked", "running", "over"}
    /\ real \in {"nothing", "green", "red"}
    /\ output \subseteq Counts \union Words
    /\ exitZero \in BOOLEAN /\ overtime \in BOOLEAN
    /\ testsPassed \in BOOLEAN /\ testRuns \in 0..MaxTestRuns
    /\ earned \in BOOLEAN /\ legible \in BOOLEAN

EvidenceInit ==
    /\ exposeBug \in BOOLEAN
    /\ what = "tests" /\ via = "client" /\ stage = "idle" /\ real = "nothing"
    /\ output = {} /\ exitZero = FALSE /\ overtime = FALSE
    /\ testsPassed = FALSE /\ testRuns = 0 /\ earned = FALSE /\ legible = TRUE

-----------------------------------------------------------------------------
(* What the orchestrator reads in an answer.                               *)

\* Counts of failures found by _parse_pytest: the first match of each pattern, and one
\* error when the text says that no tests ran and nothing was counted.
Fails(text) ==
    \/ "red" \in text
    \/ text \intersect {"failed", "error"} # {} /\ "clean" \notin text
    \/ "none" \in text /\ text \intersect Counts = {}

\* Mutant: the errors of the collection are not looked at.
PodPassesWithErrors(text, late) == ~Fails(text \ {"error"}) /\ ~late

\* shape_sandbox_test_result; the exit status of pytest is not among its inputs.
PodPasses(text, late) == ~Fails(text) /\ ~late

\* The content of a tool message: JSON with ok and raw_output, unless it is cut.
Content(ok, text) == [json |-> "long" \notin text, ok |-> ok, text |-> text]
Plain(text) == [json |-> FALSE, ok |-> FALSE, text |-> text]

\* _run_tests_passed
RunTestsPassed(c) == c.json /\ c.ok

\* _run_bash_passed: the counts are sought in the JSON text, where a count at the start
\* of a line follows the n of an escaped newline and is not found.
RunBashPassed(c) ==
    /\ "error" \notin c.text /\ "red" \notin c.text
    /\ "failed" \in c.text => "quiet" \in c.text
    /\ "passed" \in c.text
    /\ "quiet" \in c.text => "failed" \in c.text

\* classify_test_attempt
Classify(c) ==
    CASE ~c.json -> "infra"
      [] c.json /\ c.ok /\ "infra" \notin c.text -> "passed"
      [] c.json /\ ~(c.ok /\ "infra" \notin c.text) ->
            IF c.text \intersect {"none", "marker"} # {} THEN "infra" ELSE "red"

\* The attempt gave evidence.
Gave == real = "green" \/ (what = "tests" /\ exposeBug /\ real = "red")

\* Its answer cannot be mistaken for another: the summary was printed in time and nothing
\* else in the text reads like part of it, or the text says that no test ran or that the
\* client stopped the run.
Readable ==
    \/ real # "nothing" /\ ~overtime /\ output \intersect (Words \ {"long"}) = {}
    \/ "none" \in output
    \/ overtime /\ "marker" \in output

\* The loop accounts for the attempt; read is whether it was read as a pass, and kind
\* what it was classified as ("unjudged": an error answered in its place).
Judge(read, kind, clear) ==
    /\ testsPassed' = (testsPassed \/ read \/ (exposeBug /\ kind = "red"))
    /\ earned' = (earned \/ Gave) /\ legible' = (legible /\ clear)
    /\ stage' = "idle"
    /\ UNCHANGED <<exposeBug, what, via, real, output, exitZero, overtime, testRuns>>

JudgeTests(c, clear) == Judge(RunTestsPassed(c), Classify(c), clear)

-----------------------------------------------------------------------------
(* An attempt.                                                             *)

\* The model calls run_tests, run_bash with pytest in its command, or runs code with an
\* assert in the sandbox; which client and which executor there are decides the rest.
StartAttempt(w, v) ==
    /\ stage = "idle" /\ testRuns < MaxTestRuns
    /\ w = "assertion" => v \in {"docker", "local"}
    /\ what' = w /\ via' = v /\ stage' = "asked" /\ testRuns' = testRuns + 1
    /\ real' = "nothing" /\ output' = {} /\ exitZero' = FALSE /\ overtime' = FALSE
    /\ UNCHANGED <<exposeBug, testsPassed, earned, legible>>

\* The client's permissions do not allow the runner, or it cannot be spawned.
ClientRefuses ==
    /\ stage = "asked" /\ via = "client"
    /\ JudgeTests(Content(FALSE, {}), FALSE)

\* guard_run_bash refuses the command, or bash cannot be spawned.
ShellRefuses ==
    /\ stage = "asked" /\ via = "shell"
    /\ Judge(FALSE, Classify(Plain({})), TRUE)

GoOn(s) ==
    /\ stage' = s
    /\ UNCHANGED <<exposeBug, what, via, testsPassed, testRuns, earned, legible>>

\* The process or the container starts.
Launch == stage = "asked" /\ GoOn("running") /\ UNCHANGED <<real, output, exitZero, overtime>>

\* The local executor cannot start it: it answers as if it had run and ended with -1.
ProcessFails ==
    /\ stage = "asked" /\ via = "local"
    /\ GoOn("over") /\ UNCHANGED <<real, output, exitZero, overtime>>

\* Creating, starting or reading the container raises.  The server answers {"error"}: no
\* counts for run_tests, and for _sandbox_exit_zero no exit code, which it takes for a
\* clean exit.
ContainerRaises ==
    /\ stage \in {"asked", "over"} /\ via = "docker"
    /\ \/ /\ what = "tests"
          /\ \E t \in {{}, {"marker"}} : JudgeTests(Content(FALSE, t), FALSE)
       \/ what = "assertion" /\ Judge(TRUE, "unjudged", FALSE)

\* pytest runs to its summary.
SuiteEnds ==
    /\ stage = "running" /\ what = "tests"
    /\ \E s \in (SUBSET Counts) \ {{}}, x \in {{}} \union {{w} : w \in Words \ {"none"}} :
           /\ output' = s \union x /\ exitZero' = (s = {"passed"})
           /\ real' = IF s = {"passed"} THEN "green" ELSE "red"
    /\ GoOn("over") /\ UNCHANGED overtime

\* No test runs: none is found, all are deselected, or pytest is missing or killed.
NothingRuns ==
    /\ stage = "running" /\ what = "tests"
    /\ output' \in {{}, {"none"}} /\ exitZero' = FALSE
    /\ GoOn("over") /\ UNCHANGED <<real, overtime>>

\* The code with the assert runs to its end, or raises.
CodeEnds ==
    /\ stage = "running" /\ what = "assertion"
    /\ exitZero' \in BOOLEAN /\ real' = IF exitZero' THEN "green" ELSE "red"
    /\ GoOn("over") /\ UNCHANGED <<output, overtime>>

\* What the executors wait for it is over, before it ends or just after.
Late == stage \in {"running", "over"} /\ ~overtime

\* The client kills it and says so in the output.
ClientTimesOut ==
    /\ Late /\ via = "client"
    /\ overtime' = TRUE /\ exitZero' = FALSE /\ output' = output \union {"marker"}
    /\ GoOn("over") /\ UNCHANGED real

ShellTimesOut ==
    /\ Late /\ via = "shell"
    /\ Judge(FALSE, Classify(Plain({})), TRUE)

\* The local executor kills the process group.
ProcessTimesOut ==
    /\ Late /\ via = "local"
    /\ overtime' = TRUE /\ exitZero' = FALSE
    /\ GoOn("over") /\ UNCHANGED <<real, output>>

\* Any exception of wait counts as a time-out, and the container is killed.
WaitRaises ==
    /\ Late /\ via = "docker"
    /\ overtime' = TRUE /\ exitZero' = FALSE
    /\ GoOn("over") /\ UNCHANGED <<real, output>>

\* The client's answer arrives.
ClientAnswers ==
    /\ stage = "over" /\ via = "client"
    /\ JudgeTests(Content(exitZero, output), Readable)

\* The sandbox's counts arrive through the worker and the router.
SandboxAnswers ==
    /\ stage = "over" /\ via \in {"docker", "local"} /\ what = "tests"
    /\ JudgeTests(Content(PodPasses(output, overtime), output), Readable)

\* is_assertion_verification
AssertionAnswers ==
    /\ stage = "over" /\ what = "assertion"
    /\ Judge(exitZero, "unjudged", Readable)

\* The bridge's answer arrives.
ShellAnswers ==
    /\ stage = "over" /\ via = "shell"
    /\ LET c == Content(exitZero, output) IN Judge(RunBashPassed(c), Classify(c), Readable)

\* The client or the bridge does not answer: an error takes the place of the answer.
AnswerLost ==
    /\ stage # "idle" /\ via \in {"client", "shell"}
    /\ Judge(FALSE, "unjudged", TRUE)

\* The router gives up, or the worker answers with an error whose name or detail holds a
\* marker (skill_unavailable, timeout) or none (internal_error, malformed_payload).
DispatchFails ==
    /\ stage # "idle" /\ via \in {"docker", "local"}
    /\ IF what = "tests"
       THEN \E t \in {{}, {"marker"}} : JudgeTests(Content(FALSE, t), t # {})
       ELSE Judge(FALSE, "unjudged", TRUE)

EvidenceNext ==
    \/ \E w \in {"tests", "assertion"}, v \in {"client", "docker", "local", "shell"} :
           StartAttempt(w, v)
    \/ ClientRefuses \/ ShellRefuses \/ Launch \/ ProcessFails \/ ContainerRaises
    \/ SuiteEnds \/ NothingRuns \/ CodeEnds
    \/ ClientTimesOut \/ ShellTimesOut \/ ProcessTimesOut \/ WaitRaises
    \/ ClientAnswers \/ SandboxAnswers \/ AssertionAnswers \/ ShellAnswers
    \/ AnswerLost \/ DispatchFails

EvidenceSpec == EvidenceInit /\ [][EvidenceNext]_evidenceVars

-----------------------------------------------------------------------------
\* While every answer could be read (pytest printed its summary, in time, and nothing
\* else in the text reads like part of one, or the failure was recognised), the loop
\* takes for verified only what was: some suite or assertion really passed, or, for a
\* goal that asks for it, really failed, whichever of the five ways it was run.  Of an
\* answer that could not be read nothing is said: without legible it is false.
LegibleCredit == testsPassed /\ legible => earned

\* "True iff a code-sandbox run executed an assertion that PASSED"
\* (completion_guard.py:214): an attempt by an assertion sets tests_passed only if the
\* code with the assert was run and ended well.
AssertionRan == [][what = "assertion" /\ ~testsPassed /\ testsPassed' => real = "green"]_evidenceVars
=============================================================================
