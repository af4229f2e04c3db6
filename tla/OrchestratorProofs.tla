------------------------- MODULE OrchestratorProofs -------------------------
(***************************************************************************)
(* What the orchestrator's parts promise of a turn, a goal and a task, for *)
(* any goals, skills, drafts and calls: an inductive invariant for each    *)
(* part, kept by each of its actions, and the theorem that follows.        *)
(***************************************************************************)
EXTENDS GoalGraph, LoopDetection, GoalHandler, OrchestratorRun, CritiqueLoop, SkillRouting, TestEvidence,
        FiniteSetTheorems, FunctionTheorems, SequenceTheorems, TLAPS

-----------------------------------------------------------------------------
(* GoalGraph, for any number of subtasks and turns, any bound on retries   *)
(* and any setting of the two gates.  NodeInv says what is known at each   *)
(* node: before check has finalized the tree there is no answer and, past  *)
(* the plan, no question is open; once it has, a tree without an error has *)
(* nothing but completed subtasks.                                         *)

AllDone == \A c \in Present : status[c] = "COMPLETED"
NothingRan == \A g \in GoalIds : runs[g] = 0

NodeInv ==
  /\ answer \in {NoTurn, turn} \/ node = "idle"
  /\ node \in {"assess", "plan", "execute", "verify", "check", "reflect"} =>
       answer = NoTurn /\ ~direct
  /\ node \in {"assess", "plan"} => NothingRan
  /\ node \in {"execute", "verify", "check", "reflect", "revise"} => ~awaiting /\ ~direct
  /\ node = "revise" => (~error => AllDone)
  /\ node = "end" /\ awaiting => NothingRan
  /\ node = "end" /\ ~awaiting /\ ~direct /\ ~error => AllDone
  /\ node # "idle" => outcome = NoOutcome

Promises == FailureNotMasked /\ QuestionMeansNoWork /\ AnswerIsFresh

GraphInv == TypeOK /\ NodeInv /\ Promises

-----------------------------------------------------------------------------
(* Every step keeps the types. *)
LEMMA TypeStep ==
  TypeOK /\ [LimitedNext]_vars => TypeOK'
<1>1. ASSUME TypeOK, StartTurn
      PROVE  TypeOK'
  <2>1. node' \in Nodes \cup {"end", "idle"}
    BY <1>1, GraphAssumption DEF StartTurn, Restart, goals, gates, flags, history, TypeOK, Nodes
  <2>2. turn' \in Turns /\ answer' \in Turns /\ question' \in Turns /\ tested' \in Turns
    BY <1>1, GraphAssumption DEF StartTurn, Restart, goals, gates, flags, history, TypeOK,
       Turns, NoTurn
  <2>3. steps' \in 0 .. RecursionLimit /\ verifyRetries' \in 0 .. MaxVerifyRetries
     /\ revisions' \in 0 .. MaxRevisions
    BY <1>1, GraphAssumption DEF StartTurn, Restart, goals, gates, flags, history, TypeOK
  <2>4. status' \in [GoalIds -> {"none", "PENDING", "COMPLETED", "FAILED"}]
    BY <1>1, GraphAssumption DEF StartTurn, Restart, goals, gates, flags, history, TypeOK
  <2>5. attempts' \in [GoalIds -> Nat] /\ runs' \in [GoalIds -> Nat]
    BY <1>1, GraphAssumption DEF StartTurn, Restart, goals, gates, flags, history, TypeOK
  <2>6. completed' \subseteq GoalIds /\ exhausted' \subseteq GoalIds /\ current' \in GoalIds
    BY <1>1, GraphAssumption DEF StartTurn, Restart, goals, gates, flags, history, TypeOK,
       GoalIds, Root
  <2>7. error' \in BOOLEAN /\ awaiting' \in BOOLEAN /\ direct' \in BOOLEAN
    BY <1>1, GraphAssumption DEF StartTurn, Restart, goals, gates, flags, history, TypeOK
  <2>8. skipVerify' \in BOOLEAN
    BY <1>1, GraphAssumption DEF StartTurn, Restart, goals, gates, flags, history, TypeOK
  <2>9. artifact' \in Artifacts
    BY <1>1, GraphAssumption DEF StartTurn, Restart, goals, gates, flags, history, TypeOK,
       Artifacts
  <2>10. outcome' \in [kind : {"none", "question", "direct", "streamed", "failed"},
          claim : {"none", "plain", "punt", "success"}, ok : BOOLEAN]
    BY <1>1, GraphAssumption DEF StartTurn, Restart, goals, gates, flags, history, TypeOK,
       NoOutcome
  <2> QED
    BY <2>1, <2>2, <2>3, <2>4, <2>5, <2>6, <2>7, <2>8, <2>9, <2>10 DEF TypeOK
<1>2. ASSUME TypeOK, Assess
      PROVE  TypeOK'
  <2>1. node' \in Nodes \cup {"end", "idle"}
    BY <1>2, GraphAssumption DEF Assess, Runs, goals, gates, flags, history, TypeOK, Nodes
  <2>2. turn' \in Turns /\ answer' \in Turns /\ question' \in Turns /\ tested' \in Turns
    BY <1>2, GraphAssumption DEF Assess, Runs, goals, gates, flags, history, TypeOK, Turns,
       NoTurn
  <2>3. steps' \in 0 .. RecursionLimit /\ verifyRetries' \in 0 .. MaxVerifyRetries
     /\ revisions' \in 0 .. MaxRevisions
    BY <1>2, GraphAssumption DEF Assess, Runs, goals, gates, flags, history, TypeOK
  <2>4. status' \in [GoalIds -> {"none", "PENDING", "COMPLETED", "FAILED"}]
    BY <1>2, GraphAssumption DEF Assess, Runs, goals, gates, flags, history, TypeOK
  <2>5. attempts' \in [GoalIds -> Nat] /\ runs' \in [GoalIds -> Nat]
    BY <1>2, GraphAssumption DEF Assess, Runs, goals, gates, flags, history, TypeOK
  <2>6. completed' \subseteq GoalIds /\ exhausted' \subseteq GoalIds /\ current' \in GoalIds
    BY <1>2, GraphAssumption DEF Assess, Runs, goals, gates, flags, history, TypeOK, GoalIds,
       Root
  <2>7. error' \in BOOLEAN /\ awaiting' \in BOOLEAN /\ direct' \in BOOLEAN
    BY <1>2, GraphAssumption DEF Assess, Runs, goals, gates, flags, history, TypeOK
  <2>8. skipVerify' \in BOOLEAN
    BY <1>2, GraphAssumption DEF Assess, Runs, goals, gates, flags, history, TypeOK
  <2>9. artifact' \in Artifacts
    BY <1>2, GraphAssumption DEF Assess, Runs, goals, gates, flags, history, TypeOK, Artifacts
  <2>10. outcome' \in [kind : {"none", "question", "direct", "streamed", "failed"},
          claim : {"none", "plain", "punt", "success"}, ok : BOOLEAN]
    BY <1>2, GraphAssumption DEF Assess, Runs, goals, gates, flags, history, TypeOK, NoOutcome
  <2> QED
    BY <2>1, <2>2, <2>3, <2>4, <2>5, <2>6, <2>7, <2>8, <2>9, <2>10 DEF TypeOK
<1>3. ASSUME TypeOK, PlanRouted
      PROVE  TypeOK'
  <2>1. node' \in Nodes \cup {"end", "idle"}
    BY <1>3, GraphAssumption DEF PlanRouted, Runs, Create, AfterPlan, goals, gates, flags,
       history, TypeOK, Nodes
  <2>2. turn' \in Turns /\ answer' \in Turns /\ question' \in Turns /\ tested' \in Turns
    BY <1>3, GraphAssumption DEF PlanRouted, Runs, Create, AfterPlan, goals, gates, flags,
       history, TypeOK, Turns, NoTurn
  <2>3. steps' \in 0 .. RecursionLimit /\ verifyRetries' \in 0 .. MaxVerifyRetries
     /\ revisions' \in 0 .. MaxRevisions
    BY <1>3, GraphAssumption DEF PlanRouted, Runs, Create, AfterPlan, goals, gates, flags,
       history, TypeOK
  <2>4. status' \in [GoalIds -> {"none", "PENDING", "COMPLETED", "FAILED"}]
    BY <1>3, GraphAssumption DEF PlanRouted, Runs, Create, AfterPlan, goals, gates, flags,
       history, TypeOK
  <2>5. attempts' \in [GoalIds -> Nat] /\ runs' \in [GoalIds -> Nat]
    BY <1>3, GraphAssumption DEF PlanRouted, Runs, Create, AfterPlan, goals, gates, flags,
       history, TypeOK
  <2>6. completed' \subseteq GoalIds /\ exhausted' \subseteq GoalIds /\ current' \in GoalIds
    BY <1>3, GraphAssumption DEF PlanRouted, Runs, Create, AfterPlan, goals, gates, flags,
       history, TypeOK, GoalIds, Root
  <2>7. error' \in BOOLEAN /\ awaiting' \in BOOLEAN /\ direct' \in BOOLEAN
    BY <1>3, GraphAssumption DEF PlanRouted, Runs, Create, AfterPlan, goals, gates, flags,
       history, TypeOK
  <2>8. skipVerify' \in BOOLEAN
    BY <1>3, GraphAssumption DEF PlanRouted, Runs, Create, AfterPlan, goals, gates, flags,
       history, TypeOK
  <2>9. artifact' \in Artifacts
    BY <1>3, GraphAssumption DEF PlanRouted, Runs, Create, AfterPlan, goals, gates, flags,
       history, TypeOK, Artifacts
  <2>10. outcome' \in [kind : {"none", "question", "direct", "streamed", "failed"},
          claim : {"none", "plain", "punt", "success"}, ok : BOOLEAN]
    BY <1>3, GraphAssumption DEF PlanRouted, Runs, Create, AfterPlan, goals, gates, flags,
       history, TypeOK, NoOutcome
  <2> QED
    BY <2>1, <2>2, <2>3, <2>4, <2>5, <2>6, <2>7, <2>8, <2>9, <2>10 DEF TypeOK
<1>4. ASSUME TypeOK, PlanDirect
      PROVE  TypeOK'
  BY <1>4, GraphAssumption
  DEF PlanDirect, Runs, AfterPlan, goals, gates, flags, history, TypeOK, Turns, Nodes, NoTurn, Root, Children, GoalIds, NoOutcome, Artifacts
<1>5. ASSUME TypeOK, PlanFallback
      PROVE  TypeOK'
  BY <1>5, GraphAssumption
  DEF PlanFallback, Runs, Create, AfterPlan, goals, gates, flags, history, TypeOK, Turns, Nodes, NoTurn, Root, Children, GoalIds, NoOutcome, Artifacts
<1>6. ASSUME TypeOK, Execute
      PROVE  TypeOK'
  <2>1. node' \in Nodes \cup {"end", "idle"}
    BY <1>6, GraphAssumption DEF Execute, Runs, AttemptsAfter, goals, gates, flags, history,
       TypeOK, Nodes
  <2>2. turn' \in Turns /\ answer' \in Turns /\ question' \in Turns /\ tested' \in Turns
    BY <1>6, GraphAssumption DEF Execute, Runs, AttemptsAfter, goals, gates, flags, history,
       TypeOK, Turns, NoTurn
  <2>3. steps' \in 0 .. RecursionLimit /\ verifyRetries' \in 0 .. MaxVerifyRetries
     /\ revisions' \in 0 .. MaxRevisions
    BY <1>6, GraphAssumption DEF Execute, Runs, AttemptsAfter, goals, gates, flags, history,
       TypeOK
  <2>4. status' \in [GoalIds -> {"none", "PENDING", "COMPLETED", "FAILED"}]
    BY <1>6, GraphAssumption DEF Execute, Runs, AttemptsAfter, goals, gates, flags, history,
       TypeOK
  <2>5. attempts' \in [GoalIds -> Nat] /\ runs' \in [GoalIds -> Nat]
    BY <1>6, GraphAssumption DEF Execute, Runs, AttemptsAfter, goals, gates, flags, history,
       TypeOK
  <2>6. completed' \subseteq GoalIds /\ exhausted' \subseteq GoalIds /\ current' \in GoalIds
    BY <1>6, GraphAssumption DEF Execute, Runs, Ready, goals, gates, flags, history, TypeOK,
       GoalIds, Root
  <2>7. error' \in BOOLEAN /\ awaiting' \in BOOLEAN /\ direct' \in BOOLEAN
    BY <1>6, GraphAssumption DEF Execute, Runs, AttemptsAfter, goals, gates, flags, history,
       TypeOK
  <2>8. skipVerify' \in BOOLEAN
    BY <1>6, GraphAssumption DEF Execute, Runs, AttemptsAfter, goals, gates, flags, history,
       TypeOK
  <2>9. artifact' \in Artifacts
    BY <1>6, GraphAssumption DEF Execute, Runs, AttemptsAfter, goals, gates, flags, history,
       TypeOK, Artifacts
  <2>10. outcome' \in [kind : {"none", "question", "direct", "streamed", "failed"},
          claim : {"none", "plain", "punt", "success"}, ok : BOOLEAN]
    BY <1>6, GraphAssumption DEF Execute, Runs, AttemptsAfter, goals, gates, flags, history,
       TypeOK, NoOutcome
  <2> QED
    BY <2>1, <2>2, <2>3, <2>4, <2>5, <2>6, <2>7, <2>8, <2>9, <2>10 DEF TypeOK
<1>7. ASSUME TypeOK, Verify
      PROVE  TypeOK'
  <2>1. node' \in Nodes \cup {"end", "idle"}
    BY <1>7, GraphAssumption DEF Verify, Runs, CritiqueMayReject, goals, gates, flags, history,
       TypeOK, Nodes
  <2>2. turn' \in Turns /\ answer' \in Turns /\ question' \in Turns /\ tested' \in Turns
    BY <1>7, GraphAssumption DEF Verify, Runs, CritiqueMayReject, goals, gates, flags, history,
       TypeOK, Turns, NoTurn
  <2>3. steps' \in 0 .. RecursionLimit /\ verifyRetries' \in 0 .. MaxVerifyRetries
     /\ revisions' \in 0 .. MaxRevisions
    <3>1. verifyRetries' = verifyRetries
          \/ (CritiqueMayReject /\ verifyRetries' = verifyRetries + 1)
      BY <1>7 DEF Verify
    <3>2. steps < RecursionLimit /\ steps' = steps + 1 /\ revisions' = revisions
      BY <1>7 DEF Verify, Runs
    <3> QED
      BY <1>7, <3>1, <3>2, GraphAssumption DEF CritiqueMayReject, TypeOK
  <2>4. status' \in [GoalIds -> {"none", "PENDING", "COMPLETED", "FAILED"}]
    BY <1>7, GraphAssumption DEF Verify, Runs, CritiqueMayReject, goals, gates, flags, history,
       TypeOK
  <2>5. attempts' \in [GoalIds -> Nat] /\ runs' \in [GoalIds -> Nat]
    BY <1>7, GraphAssumption DEF Verify, Runs, CritiqueMayReject, goals, gates, flags, history,
       TypeOK
  <2>6. completed' \subseteq GoalIds /\ exhausted' \subseteq GoalIds /\ current' \in GoalIds
    BY <1>7, GraphAssumption DEF Verify, Runs, CritiqueMayReject, goals, gates, flags, history,
       TypeOK, GoalIds, Root
  <2>7. error' \in BOOLEAN /\ awaiting' \in BOOLEAN /\ direct' \in BOOLEAN
    BY <1>7, GraphAssumption DEF Verify, Runs, CritiqueMayReject, goals, gates, flags, history,
       TypeOK
  <2>8. skipVerify' \in BOOLEAN
    BY <1>7, GraphAssumption DEF Verify, Runs, CritiqueMayReject, goals, gates, flags, history,
       TypeOK
  <2>9. artifact' \in Artifacts
    BY <1>7, GraphAssumption DEF Verify, Runs, CritiqueMayReject, goals, gates, flags, history,
       TypeOK, Artifacts
  <2>10. outcome' \in [kind : {"none", "question", "direct", "streamed", "failed"},
          claim : {"none", "plain", "punt", "success"}, ok : BOOLEAN]
    BY <1>7, GraphAssumption DEF Verify, Runs, CritiqueMayReject, goals, gates, flags, history,
       TypeOK, NoOutcome
  <2> QED
    BY <2>1, <2>2, <2>3, <2>4, <2>5, <2>6, <2>7, <2>8, <2>9, <2>10 DEF TypeOK
<1>8. ASSUME TypeOK, CheckRetry
      PROVE  TypeOK'
  BY <1>8, GraphAssumption
  DEF CheckRetry, Runs, RetryableChildren, Present, goals, gates, flags, history, TypeOK, Turns, Nodes, NoTurn, Root, Children, GoalIds, NoOutcome, Artifacts
<1>9. ASSUME TypeOK, CheckGoesOn
      PROVE  TypeOK'
  BY <1>9, GraphAssumption
  DEF CheckGoesOn, Runs, Route, goals, gates, flags, history, TypeOK, Turns, Nodes, NoTurn, Root, Children, GoalIds, NoOutcome, Artifacts
<1>10. ASSUME TypeOK, CheckFinalizes
      PROVE  TypeOK'
  BY <1>10, GraphAssumption
  DEF CheckFinalizes, Runs, Finalize, goals, gates, flags, history, TypeOK, Turns, Nodes, NoTurn, Root, Children, GoalIds, NoOutcome, Artifacts
<1>11. ASSUME TypeOK, Reflect
      PROVE  TypeOK'
  BY <1>11, GraphAssumption
  DEF Reflect, Runs, goals, gates, flags, history, TypeOK, Turns, Nodes, NoTurn, Root, Children, GoalIds, NoOutcome, Artifacts
<1>12. ASSUME TypeOK, Revise
      PROVE  TypeOK'
  BY <1>12, GraphAssumption
  DEF Revise, Runs, ShouldRevise, goals, gates, flags, history, TypeOK, Turns, Nodes, NoTurn, Root, Children, GoalIds, NoOutcome, Artifacts
<1>13. ASSUME TypeOK, Deliver
      PROVE  TypeOK'
  <2>1. node' \in Nodes \cup {"end", "idle"}
    BY <1>13, GraphAssumption DEF Deliver, Ends, Accepts, goals, gates, flags, history, TypeOK,
       Nodes
  <2>2. turn' \in Turns /\ answer' \in Turns /\ question' \in Turns /\ tested' \in Turns
    BY <1>13, GraphAssumption DEF Deliver, Ends, Accepts, goals, gates, flags, history, TypeOK,
       Turns, NoTurn
  <2>3. steps' \in 0 .. RecursionLimit /\ verifyRetries' \in 0 .. MaxVerifyRetries
     /\ revisions' \in 0 .. MaxRevisions
    BY <1>13, GraphAssumption DEF Deliver, Ends, Accepts, goals, gates, flags, history, TypeOK
  <2>4. status' \in [GoalIds -> {"none", "PENDING", "COMPLETED", "FAILED"}]
    BY <1>13, GraphAssumption DEF Deliver, Ends, Accepts, goals, gates, flags, history, TypeOK
  <2>5. attempts' \in [GoalIds -> Nat] /\ runs' \in [GoalIds -> Nat]
    BY <1>13, GraphAssumption DEF Deliver, Ends, Accepts, goals, gates, flags, history, TypeOK
  <2>6. completed' \subseteq GoalIds /\ exhausted' \subseteq GoalIds /\ current' \in GoalIds
    BY <1>13, GraphAssumption DEF Deliver, Ends, Accepts, goals, gates, flags, history, TypeOK,
       GoalIds, Root
  <2>7. error' \in BOOLEAN /\ awaiting' \in BOOLEAN /\ direct' \in BOOLEAN
    BY <1>13, GraphAssumption DEF Deliver, Ends, Accepts, goals, gates, flags, history, TypeOK
  <2>8. skipVerify' \in BOOLEAN
    BY <1>13, GraphAssumption DEF Deliver, Ends, Accepts, goals, gates, flags, history, TypeOK
  <2>9. artifact' \in Artifacts
    BY <1>13, GraphAssumption DEF Deliver, Ends, Accepts, goals, gates, flags, history, TypeOK,
       Artifacts
  <2>10. outcome' \in [kind : {"none", "question", "direct", "streamed", "failed"},
          claim : {"none", "plain", "punt", "success"}, ok : BOOLEAN]
    <3>1. CASE awaiting
      <4>1. (~error) \in BOOLEAN
        OBVIOUS
      <4>2. outcome' = [kind |-> "question", claim |-> "none", ok |-> ~error]
        BY <1>13, <3>1 DEF Deliver, Ends
      <4>3. ASSUME NEW b \in BOOLEAN
            PROVE  [kind |-> "question", claim |-> "none", ok |-> b] \in
                     [kind : {"none", "question", "direct", "streamed", "failed"},
                      claim : {"none", "plain", "punt", "success"}, ok : BOOLEAN]
        OBVIOUS
      <4> QED
        BY <4>1, <4>2, <4>3
    <3>2. CASE ~awaiting
      <4>1. PICK claim \in {"plain", "punt", "success"} :
              Ends(IF direct THEN "direct" ELSE "streamed", claim, Accepts(claim))
        BY <1>13, <3>2 DEF Deliver
      <4>2. Accepts(claim) \in BOOLEAN
        BY DEF Accepts
      <4> QED
        BY <4>1, <4>2 DEF Ends
    <3> QED
      BY <3>1, <3>2
  <2> QED
    BY <2>1, <2>2, <2>3, <2>4, <2>5, <2>6, <2>7, <2>8, <2>9, <2>10 DEF TypeOK
<1>14. ASSUME TypeOK, Raise
      PROVE  TypeOK'
  BY <1>14, GraphAssumption
  DEF Raise, Ends, goals, gates, flags, history, TypeOK, Turns, Nodes, NoTurn, Root, Children, GoalIds, NoOutcome, Artifacts
<1>15. ASSUME TypeOK, CutShort
      PROVE  TypeOK'
  BY <1>15, GraphAssumption
  DEF CutShort, Ends, goals, gates, flags, history, TypeOK, Turns, Nodes, NoTurn, Root, Children, GoalIds, NoOutcome, Artifacts
<1>16. ASSUME TypeOK, UNCHANGED vars
      PROVE  TypeOK'
  BY <1>16 DEF vars, goals, gates, flags, history, TypeOK, Turns, Nodes, NoTurn, Root, Children,
     GoalIds, NoOutcome, Artifacts
<1> QED
  BY <1>1, <1>2, <1>3, <1>4, <1>5, <1>6, <1>7, <1>8, <1>9, <1>10, <1>11, <1>12, <1>13, <1>14,
     <1>15, <1>16
  DEF LimitedNext, Next, Plan, Check

(* Every step keeps what is known at each node. *)
LEMMA NodeStep ==
  TypeOK /\ NodeInv /\ [LimitedNext]_vars => NodeInv'
<1>1. ASSUME TypeOK, NodeInv, StartTurn
      PROVE  NodeInv'
  BY <1>1, GraphAssumption
  DEF StartTurn, Restart, goals, gates, flags, history, NodeInv, AllDone, NothingRan, Present, TypeOK, Turns, Nodes, NoTurn, Root, Children, GoalIds, NoOutcome, Artifacts
<1>2. ASSUME TypeOK, NodeInv, Assess
      PROVE  NodeInv'
  BY <1>2, GraphAssumption
  DEF Assess, Runs, goals, gates, flags, history, NodeInv, AllDone, NothingRan, Present, TypeOK, Turns, Nodes, NoTurn, Root, Children, GoalIds, NoOutcome, Artifacts
<1>3. ASSUME TypeOK, NodeInv, PlanRouted
      PROVE  NodeInv'
  BY <1>3, GraphAssumption
  DEF PlanRouted, Runs, Create, AfterPlan, goals, gates, flags, history, NodeInv, AllDone, NothingRan, Present, TypeOK, Turns, Nodes, NoTurn, Root, Children, GoalIds, NoOutcome, Artifacts
<1>4. ASSUME TypeOK, NodeInv, PlanDirect
      PROVE  NodeInv'
  BY <1>4, GraphAssumption
  DEF PlanDirect, Runs, AfterPlan, goals, gates, flags, history, NodeInv, AllDone, NothingRan, Present, TypeOK, Turns, Nodes, NoTurn, Root, Children, GoalIds, NoOutcome, Artifacts
<1>5. ASSUME TypeOK, NodeInv, PlanFallback
      PROVE  NodeInv'
  BY <1>5, GraphAssumption
  DEF PlanFallback, Runs, Create, AfterPlan, goals, gates, flags, history, NodeInv, AllDone, NothingRan, Present, TypeOK, Turns, Nodes, NoTurn, Root, Children, GoalIds, NoOutcome, Artifacts
<1>6. ASSUME TypeOK, NodeInv, Execute
      PROVE  NodeInv'
  BY <1>6, GraphAssumption
  DEF Execute, Runs, AttemptsAfter, goals, gates, flags, history, NodeInv, AllDone, NothingRan, Present, TypeOK, Turns, Nodes, NoTurn, Root, Children, GoalIds, NoOutcome, Artifacts
<1>7. ASSUME TypeOK, NodeInv, Verify
      PROVE  NodeInv'
  BY <1>7, GraphAssumption
  DEF Verify, Runs, CritiqueMayReject, goals, gates, flags, history, NodeInv, AllDone, NothingRan, Present, TypeOK, Turns, Nodes, NoTurn, Root, Children, GoalIds, NoOutcome, Artifacts
<1>8. ASSUME TypeOK, NodeInv, CheckRetry
      PROVE  NodeInv'
  BY <1>8, GraphAssumption
  DEF CheckRetry, Runs, RetryableChildren, Present, goals, gates, flags, history, NodeInv, AllDone, NothingRan, Present, TypeOK, Turns, Nodes, NoTurn, Root, Children, GoalIds, NoOutcome, Artifacts
<1>9. ASSUME TypeOK, NodeInv, CheckGoesOn
      PROVE  NodeInv'
  BY <1>9, GraphAssumption
  DEF CheckGoesOn, Runs, Route, Waiting, Ready, goals, gates, flags, history, NodeInv, AllDone, NothingRan, Present, TypeOK, Turns, Nodes, NoTurn, Root, Children, GoalIds, NoOutcome, Artifacts
<1>10. ASSUME TypeOK, NodeInv, CheckFinalizes
      PROVE  NodeInv'
  <2>1. ~error' => AllDone'
    <3>1. status' = [status EXCEPT ![Root] = IF Failed # {} THEN "FAILED" ELSE "COMPLETED"]
          /\ (~error' => Failed = {})
      BY <1>10 DEF CheckFinalizes, Finalize
    <3>2. \A c \in Children : status'[c] = status[c]
      BY <1>10, <3>1, GraphAssumption DEF TypeOK, GoalIds, Children, Root
    <3>3. Present' = Present
      BY <1>10, <3>2 DEF CheckFinalizes, Present
    <3>4. ASSUME Failed = {}, NEW c \in Present
          PROVE  status[c] = "COMPLETED"
      <4>1. status[c] # "PENDING" /\ status[c] # "FAILED" /\ status[c] # "none"
        BY <1>10, <3>4 DEF CheckFinalizes, Waiting, Failed, Present
      <4> QED
        BY <1>10, <4>1 DEF TypeOK, GoalIds, Present, Children
    <3> QED
      BY <3>1, <3>2, <3>3, <3>4 DEF AllDone, Present
  <2>2. node = "check" /\ node' = "revise" /\ answer' = turn /\ turn' = turn
        /\ awaiting' = awaiting /\ direct' = direct /\ outcome' = outcome
    BY <1>10 DEF CheckFinalizes, Runs, flags
  <2>3. ~awaiting /\ ~direct /\ outcome = NoOutcome
    BY <1>10, <2>2 DEF NodeInv
  <2>4. NoOutcome' = NoOutcome
    BY DEF NoOutcome
  <2> QED
    BY <2>1, <2>2, <2>3, <2>4 DEF NodeInv
<1>11. ASSUME TypeOK, NodeInv, Reflect
      PROVE  NodeInv'
  BY <1>11, GraphAssumption
  DEF Reflect, Runs, goals, gates, flags, history, NodeInv, AllDone, NothingRan, Present, TypeOK, Turns, Nodes, NoTurn, Root, Children, GoalIds, NoOutcome, Artifacts
<1>12. ASSUME TypeOK, NodeInv, Revise
      PROVE  NodeInv'
  BY <1>12, GraphAssumption
  DEF Revise, Runs, ShouldRevise, goals, gates, flags, history, NodeInv, AllDone, NothingRan, Present, TypeOK, Turns, Nodes, NoTurn, Root, Children, GoalIds, NoOutcome, Artifacts
<1>13. ASSUME TypeOK, NodeInv, Deliver
      PROVE  NodeInv'
  BY <1>13, GraphAssumption
  DEF Deliver, Ends, Accepts, goals, gates, flags, history, NodeInv, AllDone, NothingRan, Present, TypeOK, Turns, Nodes, NoTurn, Root, Children, GoalIds, NoOutcome, Artifacts
<1>14. ASSUME TypeOK, NodeInv, Raise
      PROVE  NodeInv'
  BY <1>14, GraphAssumption
  DEF Raise, Ends, goals, gates, flags, history, NodeInv, AllDone, NothingRan, Present, TypeOK, Turns, Nodes, NoTurn, Root, Children, GoalIds, NoOutcome, Artifacts
<1>15. ASSUME TypeOK, NodeInv, CutShort
      PROVE  NodeInv'
  BY <1>15, GraphAssumption
  DEF CutShort, Ends, goals, gates, flags, history, NodeInv, AllDone, NothingRan, Present, TypeOK, Turns, Nodes, NoTurn, Root, Children, GoalIds, NoOutcome, Artifacts
<1>16. ASSUME TypeOK, NodeInv, UNCHANGED vars
      PROVE  NodeInv'
  BY <1>16 DEF vars, goals, gates, flags, history, NodeInv, AllDone, NothingRan, Present,
     TypeOK, Turns, Nodes, NoTurn, Root, Children, GoalIds, NoOutcome, Artifacts
<1> QED
  BY <1>1, <1>2, <1>3, <1>4, <1>5, <1>6, <1>7, <1>8, <1>9, <1>10, <1>11, <1>12, <1>13, <1>14,
     <1>15, <1>16
  DEF LimitedNext, Next, Plan, Check

(* Every step keeps the promises; only Deliver makes an outcome. *)
LEMMA PromiseStep ==
  TypeOK /\ NodeInv /\ Promises /\ [LimitedNext]_vars => Promises'
<1>1. ASSUME TypeOK, NodeInv, Promises, StartTurn
      PROVE  Promises'
  BY <1>1, GraphAssumption
  DEF StartTurn, Restart, goals, gates, flags, history, Promises, FailureNotMasked, QuestionMeansNoWork, AnswerIsFresh, NodeInv, AllDone, NothingRan, Present, TypeOK, Turns, Nodes, NoTurn, Root, Children, GoalIds, NoOutcome, Artifacts
<1>2. ASSUME TypeOK, NodeInv, Promises, Assess
      PROVE  Promises'
  BY <1>2, GraphAssumption
  DEF Assess, Runs, goals, gates, flags, history, Promises, FailureNotMasked, QuestionMeansNoWork, AnswerIsFresh, NodeInv, AllDone, NothingRan, Present, TypeOK, Turns, Nodes, NoTurn, Root, Children, GoalIds, NoOutcome, Artifacts
<1>3. ASSUME TypeOK, NodeInv, Promises, PlanRouted
      PROVE  Promises'
  BY <1>3, GraphAssumption
  DEF PlanRouted, Runs, Create, AfterPlan, goals, gates, flags, history, Promises, FailureNotMasked, QuestionMeansNoWork, AnswerIsFresh, NodeInv, AllDone, NothingRan, Present, TypeOK, Turns, Nodes, NoTurn, Root, Children, GoalIds, NoOutcome, Artifacts
<1>4. ASSUME TypeOK, NodeInv, Promises, PlanDirect
      PROVE  Promises'
  BY <1>4, GraphAssumption
  DEF PlanDirect, Runs, AfterPlan, goals, gates, flags, history, Promises, FailureNotMasked, QuestionMeansNoWork, AnswerIsFresh, NodeInv, AllDone, NothingRan, Present, TypeOK, Turns, Nodes, NoTurn, Root, Children, GoalIds, NoOutcome, Artifacts
<1>5. ASSUME TypeOK, NodeInv, Promises, PlanFallback
      PROVE  Promises'
  BY <1>5, GraphAssumption
  DEF PlanFallback, Runs, Create, AfterPlan, goals, gates, flags, history, Promises, FailureNotMasked, QuestionMeansNoWork, AnswerIsFresh, NodeInv, AllDone, NothingRan, Present, TypeOK, Turns, Nodes, NoTurn, Root, Children, GoalIds, NoOutcome, Artifacts
<1>6. ASSUME TypeOK, NodeInv, Promises, Execute
      PROVE  Promises'
  BY <1>6, GraphAssumption
  DEF Execute, Runs, AttemptsAfter, goals, gates, flags, history, Promises, FailureNotMasked, QuestionMeansNoWork, AnswerIsFresh, NodeInv, AllDone, NothingRan, Present, TypeOK, Turns, Nodes, NoTurn, Root, Children, GoalIds, NoOutcome, Artifacts
<1>7. ASSUME TypeOK, NodeInv, Promises, Verify
      PROVE  Promises'
  BY <1>7, GraphAssumption
  DEF Verify, Runs, CritiqueMayReject, goals, gates, flags, history, Promises, FailureNotMasked, QuestionMeansNoWork, AnswerIsFresh, NodeInv, AllDone, NothingRan, Present, TypeOK, Turns, Nodes, NoTurn, Root, Children, GoalIds, NoOutcome, Artifacts
<1>8. ASSUME TypeOK, NodeInv, Promises, CheckRetry
      PROVE  Promises'
  BY <1>8, GraphAssumption
  DEF CheckRetry, Runs, RetryableChildren, Present, goals, gates, flags, history, Promises, FailureNotMasked, QuestionMeansNoWork, AnswerIsFresh, NodeInv, AllDone, NothingRan, Present, TypeOK, Turns, Nodes, NoTurn, Root, Children, GoalIds, NoOutcome, Artifacts
<1>9. ASSUME TypeOK, NodeInv, Promises, CheckGoesOn
      PROVE  Promises'
  BY <1>9, GraphAssumption
  DEF CheckGoesOn, Runs, Route, goals, gates, flags, history, Promises, FailureNotMasked, QuestionMeansNoWork, AnswerIsFresh, NodeInv, AllDone, NothingRan, Present, TypeOK, Turns, Nodes, NoTurn, Root, Children, GoalIds, NoOutcome, Artifacts
<1>10. ASSUME TypeOK, NodeInv, Promises, CheckFinalizes
      PROVE  Promises'
  BY <1>10, GraphAssumption
  DEF CheckFinalizes, Runs, Finalize, goals, gates, flags, history, Promises, FailureNotMasked, QuestionMeansNoWork, AnswerIsFresh, NodeInv, AllDone, NothingRan, Present, TypeOK, Turns, Nodes, NoTurn, Root, Children, GoalIds, NoOutcome, Artifacts
<1>11. ASSUME TypeOK, NodeInv, Promises, Reflect
      PROVE  Promises'
  BY <1>11, GraphAssumption
  DEF Reflect, Runs, goals, gates, flags, history, Promises, FailureNotMasked, QuestionMeansNoWork, AnswerIsFresh, NodeInv, AllDone, NothingRan, Present, TypeOK, Turns, Nodes, NoTurn, Root, Children, GoalIds, NoOutcome, Artifacts
<1>12. ASSUME TypeOK, NodeInv, Promises, Revise
      PROVE  Promises'
  BY <1>12, GraphAssumption
  DEF Revise, Runs, ShouldRevise, goals, gates, flags, history, Promises, FailureNotMasked, QuestionMeansNoWork, AnswerIsFresh, NodeInv, AllDone, NothingRan, Present, TypeOK, Turns, Nodes, NoTurn, Root, Children, GoalIds, NoOutcome, Artifacts
<1>13. ASSUME TypeOK, NodeInv, Promises, Deliver
      PROVE  Promises'
  BY <1>13, GraphAssumption
  DEF Deliver, Ends, Accepts, goals, gates, flags, history, Promises, FailureNotMasked, QuestionMeansNoWork, AnswerIsFresh, NodeInv, AllDone, NothingRan, Present, TypeOK, Turns, Nodes, NoTurn, Root, Children, GoalIds, NoOutcome, Artifacts
<1>14. ASSUME TypeOK, NodeInv, Promises, Raise
      PROVE  Promises'
  BY <1>14, GraphAssumption
  DEF Raise, Ends, goals, gates, flags, history, Promises, FailureNotMasked, QuestionMeansNoWork, AnswerIsFresh, NodeInv, AllDone, NothingRan, Present, TypeOK, Turns, Nodes, NoTurn, Root, Children, GoalIds, NoOutcome, Artifacts
<1>15. ASSUME TypeOK, NodeInv, Promises, CutShort
      PROVE  Promises'
  BY <1>15, GraphAssumption
  DEF CutShort, Ends, goals, gates, flags, history, Promises, FailureNotMasked, QuestionMeansNoWork, AnswerIsFresh, NodeInv, AllDone, NothingRan, Present, TypeOK, Turns, Nodes, NoTurn, Root, Children, GoalIds, NoOutcome, Artifacts
<1>16. ASSUME TypeOK, NodeInv, Promises, UNCHANGED vars
      PROVE  Promises'
  BY <1>16 DEF vars, goals, gates, flags, history, Promises, FailureNotMasked,
     QuestionMeansNoWork, AnswerIsFresh, NodeInv, AllDone, NothingRan, Present, TypeOK, Turns,
     Nodes, NoTurn, Root, Children, GoalIds, NoOutcome, Artifacts
<1> QED
  BY <1>1, <1>2, <1>3, <1>4, <1>5, <1>6, <1>7, <1>8, <1>9, <1>10, <1>11, <1>12, <1>13, <1>14,
     <1>15, <1>16
  DEF LimitedNext, Next, Plan, Check

(* A session starts with the invariant. *)
LEMMA GraphInitInv == Init => GraphInv
<1> SUFFICES ASSUME Init PROVE GraphInv
  OBVIOUS
<1>1. TypeOK
  <2>1. error \in BOOLEAN /\ awaiting \in BOOLEAN /\ direct \in BOOLEAN
        /\ skipVerify \in BOOLEAN
    BY DEF Init
  <2>2. outcome \in [kind : {"none", "question", "direct", "streamed", "failed"},
                     claim : {"none", "plain", "punt", "success"}, ok : BOOLEAN]
    BY DEF Init, NoOutcome
  <2>3. turn \in Turns /\ answer \in Turns /\ question \in Turns /\ tested \in Turns
    BY GraphAssumption DEF Init, Turns, NoTurn
  <2>4. status \in [GoalIds -> {"none", "PENDING", "COMPLETED", "FAILED"}]
        /\ attempts \in [GoalIds -> Nat] /\ runs \in [GoalIds -> Nat]
    BY DEF Init
  <2>5. steps \in 0 .. RecursionLimit /\ verifyRetries \in 0 .. MaxVerifyRetries
        /\ revisions \in 0 .. MaxRevisions
    BY GraphAssumption DEF Init
  <2>6. node \in Nodes \cup {"end", "idle"} /\ artifact \in Artifacts
    BY DEF Init, Artifacts
  <2>7. completed \subseteq GoalIds /\ exhausted \subseteq GoalIds /\ current \in GoalIds
    BY DEF Init, GoalIds
  <2> QED
    BY <2>1, <2>2, <2>3, <2>4, <2>5, <2>6, <2>7 DEF TypeOK
<1>2. NodeInv
  BY DEF Init, NodeInv
<1>3. Promises
  BY DEF Init, NoOutcome, Promises, FailureNotMasked, QuestionMeansNoWork, AnswerIsFresh
<1> QED
  BY <1>1, <1>2, <1>3 DEF GraphInv

-----------------------------------------------------------------------------
(* Every variable of the graph keeps its type, with and without the two    *)
(* gates, however the recursion limit cuts a turn short.                   *)
THEOREM GraphTypeCorrect == LimitedSpec => []TypeOK
<1>1. Init => TypeOK
  BY GraphInitInv DEF GraphInv
<1> QED
  BY <1>1, TypeStep, PTL DEF LimitedSpec

(* The promises of a turn hold for any number of subtasks, turns and retries. *)
LEMMA InvariantHolds == LimitedSpec => []GraphInv
<1>1. GraphInv /\ [LimitedNext]_vars => GraphInv'
  BY TypeStep, NodeStep, PromiseStep DEF GraphInv
<1> QED
  BY <1>1, GraphInitInv, PTL DEF LimitedSpec

(* A turn that is a success has completed all the subtasks it was divided   *)
(* into, whatever the order of retries and of the verify gate.  Of a turn   *)
(* divided into none it says nothing.                                       *)
THEOREM NoFailureMasked == LimitedSpec => []FailureNotMasked
<1>1. GraphInv => FailureNotMasked
  BY DEF GraphInv, Promises
<1> QED
  BY <1>1, InvariantHolds, PTL

(* A turn that ends with a question has executed no goal.                   *)
THEOREM QuestionHalts == LimitedSpec => []QuestionMeansNoWork
<1>1. GraphInv => QuestionMeansNoWork
  BY DEF GraphInv, Promises
<1> QED
  BY <1>1, InvariantHolds, PTL

(* No turn delivers the answer of an earlier one.                           *)
THEOREM FreshAnswers == LimitedSpec => []AnswerIsFresh
<1>1. GraphInv => AnswerIsFresh
  BY DEF GraphInv, Promises
<1> QED
  BY <1>1, InvariantHolds, PTL

-----------------------------------------------------------------------------
(* GoalGraph: a goal that failed for good stays so while the turn works,    *)
(* and a goal runs as often as its attempts allow.                          *)

Working == {"execute", "verify", "check", "reflect"}

\* The subtasks that are still to run for the first time, or again.
Unrun == {c \in Children : status[c] = "PENDING" /\ c \notin completed}

EndedKept ==
    /\ node \in {"assess", "plan"} => exhausted = {}
    /\ node \in Working => \A g \in exhausted : status[g] = "FAILED" /\ attempts[g] >= MaxAttempts
    /\ node \in {"execute", "reflect"} => current \notin exhausted /\ Root \notin exhausted
    /\ node = "verify" /\ artifact \in CritiqueTypes => current \notin exhausted /\ Root \notin exhausted
    /\ node \in {"verify", "check"} /\ Root \in exhausted => \A c \in Present : status[c] = "COMPLETED"

\* After the first execution only the goal sent back is to run.
OneToRun ==
    /\ node \in {"assess", "plan"} => current = Root
    /\ node \in {"verify", "check", "reflect"} => Unrun = {}
    /\ node = "execute" => current = Root \/ Unrun \subseteq {current}

TermInv == TypeOK /\ EndedKept /\ OneToRun

\* Each run of a goal that the verify gate did not send back used up an attempt,
\* but for the one that completes it.
AttemptsUsed ==
    verifyRetries = 0 =>
        /\ \A g \in GoalIds : runs[g] <= MaxAttempts
        /\ node \in {"assess", "plan"} =>
               \A g \in GoalIds : attempts[g] = 0 /\ runs[g] = 0 /\ g \notin completed
        /\ node \in Nodes \ {"revise"} => \A g \in GoalIds :
               /\ attempts[g] <= MaxAttempts
               /\ status[g] # "COMPLETED" => runs[g] <= attempts[g] /\ g \notin completed
               /\ status[g] \in {"none", "PENDING"} => attempts[g] < MaxAttempts
        /\ node = "reflect" => Retryable(current)

-----------------------------------------------------------------------------
(* What an execution does, goal by goal. *)
LEMMA ExecuteDoes ==
  ASSUME TypeOK, Execute
  PROVE  \E got \in [Ready(status) -> Results], oks \in SUBSET (Ready(status) \ completed) :
           /\ oks = {g \in Ready(status) \ completed : got[g] = "ok"}
           /\ \A g \in GoalIds :
                /\ g \in oks => status'[g] = "COMPLETED" /\ attempts'[g] = attempts[g]
                /\ g \in (Ready(status) \ completed) \ oks =>
                     /\ status'[g] = "FAILED"
                     /\ attempts'[g] = AttemptsAfter(got[g], attempts[g])
                /\ g \notin Ready(status) \ completed =>
                     status'[g] = status[g] /\ attempts'[g] = attempts[g]
                /\ runs'[g] = IF g \in Ready(status) THEN runs[g] + 1 ELSE runs[g]
           /\ completed' = completed \cup oks
           /\ oks = {} /\ Ready(status) # {} => artifact' = "other"
           /\ exhausted' = exhausted \cup
                {g \in (Ready(status) \ completed) \ oks : got[g] = "terminal"}
           /\ node = "execute" /\ node' = "verify" /\ turn' = turn
           /\ current' = current /\ verifyRetries' = verifyRetries
<1> DEFINE ready == Ready(status)
           fresh == ready \ completed
<1>1. PICK got \in [ready -> Results] :
        LET oks == {g \in fresh : got[g] = "ok"}
            failed == fresh \ oks
        IN /\ status' = [g \in GoalIds |-> IF g \in oks THEN "COMPLETED"
                                           ELSE IF g \in failed THEN "FAILED" ELSE status[g]]
           /\ attempts' = [g \in GoalIds |->
                             IF g \in fresh THEN AttemptsAfter(got[g], attempts[g])
                             ELSE attempts[g]]
           /\ completed' = completed \cup oks
           /\ IF ready = {} THEN UNCHANGED artifact
              ELSE artifact' \in (IF oks = {} THEN {"other"} ELSE Artifacts)
           /\ runs' = [g \in GoalIds |-> IF g \in ready THEN runs[g] + 1 ELSE runs[g]]
           /\ exhausted' = exhausted \cup {g \in failed : got[g] = "terminal"}
  BY DEF Execute
<1>2. node = "execute" /\ node' = "verify" /\ turn' = turn /\ current' = current
      /\ verifyRetries' = verifyRetries
  BY DEF Execute, Runs
<1> DEFINE oks == {g \in fresh : got[g] = "ok"}
<1>3. oks \in SUBSET fresh
  OBVIOUS
<1>4. \A g \in oks : AttemptsAfter(got[g], attempts[g]) = attempts[g]
  BY DEF AttemptsAfter
<1>5. status' = [g \in GoalIds |-> IF g \in oks THEN "COMPLETED"
                                   ELSE IF g \in fresh \ oks THEN "FAILED" ELSE status[g]]
  BY <1>1
<1>6. attempts' = [g \in GoalIds |-> IF g \in fresh THEN AttemptsAfter(got[g], attempts[g])
                                     ELSE attempts[g]]
  BY <1>1
<1>7. completed' = completed \cup oks /\ (oks = {} /\ ready # {} => artifact' = "other")
  BY <1>1
<1>8. runs' = [g \in GoalIds |-> IF g \in ready THEN runs[g] + 1 ELSE runs[g]]
  BY <1>1
<1>9. exhausted' = exhausted \cup {g \in fresh \ oks : got[g] = "terminal"}
  BY <1>1
<1>10. oks = {g \in fresh : got[g] = "ok"}
  OBVIOUS
<1> HIDE DEF oks
<1>11. \A g \in GoalIds :
         /\ g \in oks => status'[g] = "COMPLETED" /\ attempts'[g] = attempts[g]
         /\ g \in fresh \ oks => /\ status'[g] = "FAILED"
                                 /\ attempts'[g] = AttemptsAfter(got[g], attempts[g])
         /\ g \notin fresh => status'[g] = status[g] /\ attempts'[g] = attempts[g]
         /\ runs'[g] = IF g \in ready THEN runs[g] + 1 ELSE runs[g]
  <2> HIDE DEF fresh, ready
  <2> QED
    BY <1>3, <1>4, <1>5, <1>6, <1>8
<1> QED
  BY <1>1, <1>2, <1>3, <1>7, <1>9, <1>10, <1>11

(* A goal that is ready is created and has no result. *)
LEMMA ReadyGoals ==
  ASSUME TypeOK
  PROVE  /\ Ready(status) \subseteq GoalIds
         /\ \A g \in Ready(status) : status[g] = "PENDING"
         /\ \A c \in Children : status[c] = "PENDING" => c \in Ready(status)
         /\ Root \in Ready(status) => \A c \in Present : status[c] = "COMPLETED"
BY GraphAssumption DEF Ready, GoalIds, Children, Root

(* An execution leaves no subtask that is still to run. *)
LEMMA ExecuteRunsAll ==
  ASSUME TypeOK, Execute
  PROVE  Unrun' = {}
<1>1. PICK got \in [Ready(status) -> Results], oks \in SUBSET (Ready(status) \ completed) :
        /\ \A g \in GoalIds :
             /\ g \in oks => status'[g] = "COMPLETED"
             /\ g \in (Ready(status) \ completed) \ oks => status'[g] = "FAILED"
             /\ g \notin Ready(status) \ completed => status'[g] = status[g]
        /\ completed' = completed \cup oks
  BY ExecuteDoes
<1>2. ASSUME NEW c \in Children, status'[c] = "PENDING", c \notin completed'
      PROVE  FALSE
  <2>1. c \in GoalIds
    BY DEF GoalIds
  <2>2. c \notin Ready(status) \ completed
    BY <1>1, <1>2, <2>1
  <2>3. status[c] = "PENDING" /\ c \notin completed
    BY <1>1, <1>2, <2>1, <2>2
  <2> QED
    BY <2>2, <2>3, ReadyGoals
<1> QED
  BY <1>2 DEF Unrun, Children

(* Only the goal sent back is to run when there is one. *)
LEMMA OneToRunStep ==
  TypeOK /\ OneToRun /\ [LimitedNext]_vars => OneToRun'
<1> SUFFICES ASSUME TypeOK, OneToRun, [LimitedNext]_vars
             PROVE  OneToRun'
  OBVIOUS
<1> USE GraphAssumption DEF OneToRun, goals, gates, flags, history
<1>1. CASE StartTurn
  BY <1>1 DEF StartTurn, Restart
<1>2. CASE Assess
  BY <1>2 DEF Assess, Runs
<1>3. CASE PlanRouted
  BY <1>3 DEF PlanRouted, Runs, AfterPlan
<1>4. CASE PlanDirect
  BY <1>4 DEF PlanDirect, Runs, AfterPlan
<1>5. CASE PlanFallback
  BY <1>5 DEF PlanFallback, Runs, AfterPlan
<1>6. CASE Execute
  BY <1>6, ExecuteRunsAll DEF Execute
<1>7. CASE Verify
  BY <1>7 DEF Verify, Runs, Unrun
<1>8. CASE CheckRetry
  BY <1>8 DEF CheckRetry, Runs, Unrun
<1>9. CASE CheckGoesOn
  BY <1>9 DEF CheckGoesOn, Runs, Route, Unrun
<1>10. CASE CheckFinalizes
  BY <1>10 DEF CheckFinalizes, Runs
<1>11. CASE Reflect
  <2>1. node = "reflect" /\ node' = "execute" /\ current' = current /\ completed' = completed
        /\ status' = [status EXCEPT ![current] = "PENDING"]
    BY <1>11 DEF Reflect, Runs
  <2>2. \A c \in Children : c # current => status'[c] = status[c]
    BY <2>1 DEF TypeOK, GoalIds
  <2>3. Unrun = {}
    BY <2>1
  <2>4. Unrun' \subseteq {current}
    BY <2>1, <2>2, <2>3 DEF Unrun
  <2> QED
    BY <2>1, <2>4
<1>12. CASE Revise
  BY <1>12 DEF Revise, Runs
<1>13. CASE Deliver
  BY <1>13 DEF Deliver, Ends
<1>14. CASE Raise
  BY <1>14 DEF Raise, Ends
<1>15. CASE CutShort
  BY <1>15 DEF CutShort, Ends
<1>16. CASE UNCHANGED vars
  BY <1>16 DEF vars, Unrun
<1> QED
  BY <1>1, <1>2, <1>3, <1>4, <1>5, <1>6, <1>7, <1>8, <1>9, <1>10, <1>11, <1>12, <1>13, <1>14,
     <1>15, <1>16
  DEF LimitedNext, Next, Plan, Check

(* A goal that fails for good now leaves nothing for the critique: it was the only one to run. *)
LEMMA ExecuteKeepsEnded ==
  ASSUME TypeOK, OneToRun, EndedKept, Execute
  PROVE  EndedKept'
<1> DEFINE ready == Ready(status)
           fresh == ready \ completed
<1>1. PICK got \in [ready -> Results], oks \in SUBSET fresh :
        /\ oks = {g \in fresh : got[g] = "ok"}
        /\ \A g \in GoalIds :
             /\ g \in fresh \ oks => /\ status'[g] = "FAILED"
                                     /\ attempts'[g] = AttemptsAfter(got[g], attempts[g])
             /\ g \notin fresh => status'[g] = status[g] /\ attempts'[g] = attempts[g]
        /\ oks = {} /\ ready # {} => artifact' = "other"
        /\ exhausted' = exhausted \cup {g \in fresh \ oks : got[g] = "terminal"}
        /\ node = "execute" /\ node' = "verify" /\ current' = current
  BY ExecuteDoes
<1>2. /\ ready \subseteq GoalIds
      /\ \A g \in ready : status[g] = "PENDING"
      /\ Root \in ready => \A c \in Present : status[c] = "COMPLETED"
  BY ReadyGoals
<1>3. current \notin exhausted /\ Root \notin exhausted
      /\ \A g \in exhausted : status[g] = "FAILED" /\ attempts[g] >= MaxAttempts
  BY <1>1 DEF EndedKept, Working
<1>4. MaxAttempts \in Nat /\ exhausted \subseteq GoalIds /\ current \in GoalIds
      /\ Root \in GoalIds
  BY GraphAssumption DEF TypeOK, GoalIds
<1> HIDE DEF ready, fresh
<1>5. ASSUME NEW g \in exhausted'
      PROVE  status'[g] = "FAILED" /\ attempts'[g] >= MaxAttempts
  <2>1. CASE g \in exhausted
    <3>1. g \notin fresh /\ g \in GoalIds
      BY <2>1, <1>2, <1>3, <1>4 DEF fresh
    <3> QED
      BY <3>1, <2>1, <1>1, <1>3
  <2>2. CASE g \notin exhausted
    <3>1. g \in fresh \ oks /\ got[g] = "terminal"
      BY <2>2, <1>1, <1>5
    <3>2. g \in GoalIds
      BY <3>1, <1>2 DEF fresh
    <3>3. attempts'[g] = MaxAttempts
      BY <3>1, <3>2, <1>1 DEF AttemptsAfter
    <3>4. status'[g] = "FAILED"
      BY <3>1, <3>2, <1>1
    <3> QED
      BY <3>3, <3>4, <1>4
  <2> QED
    BY <2>1, <2>2
<1>6. ASSUME artifact' \in CritiqueTypes
      PROVE  current \notin exhausted' /\ Root \notin exhausted'
  <2>1. ~(oks = {} /\ ready # {})
    BY <1>1, <1>6, GraphAssumption
  <2>2. ASSUME NEW g \in fresh \ oks, g = Root \/ g = current
        PROVE  FALSE
    <3>1. PICK h \in oks : TRUE
      BY <2>1, <2>2 DEF fresh
    <3>2. h \in fresh /\ h # g
      BY <3>1, <2>2
    <3>3. CASE Root \in fresh
      <4>1. PICK c \in {g, h} : c # Root
        BY <3>2
      <4>2. c \in Children /\ status[c] = "PENDING"
        BY <4>1, <3>2, <2>2, <1>2 DEF fresh, GoalIds
      <4>3. c \in Present
        BY <4>2 DEF Present
      <4> QED
        BY <3>3, <4>2, <4>3, <1>2 DEF fresh
    <3>4. CASE Root \notin fresh
      <4>1. g = current /\ current # Root
        BY <3>4, <2>2
      <4>2. Unrun \subseteq {current}
        BY <4>1, <1>1 DEF OneToRun
      <4>3. h \in Children /\ status[h] = "PENDING" /\ h \notin completed
        BY <3>2, <3>4, <1>2 DEF fresh, GoalIds
      <4> QED
        BY <3>2, <4>1, <4>2, <4>3 DEF Unrun
    <3> QED
      BY <3>3, <3>4
  <2> QED
    BY <2>2, <1>1, <1>3
<1>7. ASSUME Root \in exhausted', NEW c \in Present'
      PROVE  status'[c] = "COMPLETED"
  <2>1. Root \in ready
    BY <1>1, <1>3, <1>7 DEF fresh
  <2>2. c \in GoalIds /\ c \in Children
    BY <1>7 DEF Present, GoalIds
  <2>3. c \notin fresh
    <3>1. ASSUME c \in fresh
          PROVE  FALSE
      <4>1. status[c] = "PENDING"
        BY <3>1, <1>2 DEF fresh
      <4> QED
        BY <4>1, <2>1, <2>2, <1>2 DEF Present
    <3> QED
      BY <3>1
  <2>4. status'[c] = status[c]
    BY <2>2, <2>3, <1>1
  <2>5. c \in Present
    BY <1>7, <2>4, <2>2 DEF Present
  <2> QED
    BY <2>1, <2>4, <2>5, <1>2
<1> QED
  BY <1>1, <1>5, <1>6, <1>7 DEF EndedKept, Working

(* A goal that failed for good stays so, and none of the nodes that send a  *)
(* goal back can send it.                                                   *)
LEMMA EndedStep ==
  TypeOK /\ OneToRun /\ EndedKept /\ [LimitedNext]_vars => EndedKept'
<1> SUFFICES ASSUME TypeOK, OneToRun, EndedKept, [LimitedNext]_vars
             PROVE  EndedKept'
  OBVIOUS
<1> USE GraphAssumption DEF EndedKept, Working, goals, gates, flags, history
<1>1. CASE StartTurn
  BY <1>1 DEF StartTurn, Restart
<1>2. CASE Assess
  BY <1>2 DEF Assess, Runs
<1>3. CASE PlanRouted
  BY <1>3 DEF PlanRouted, Runs, AfterPlan
<1>4. CASE PlanDirect
  BY <1>4 DEF PlanDirect, Runs, AfterPlan
<1>5. CASE PlanFallback
  BY <1>5 DEF PlanFallback, Runs, AfterPlan
<1>6. CASE Execute
  BY <1>6, ExecuteKeepsEnded
<1>7. CASE Verify
  <2>1. /\ node = "verify" /\ node' \in {"check", "reflect"}
        /\ node' = "reflect" => artifact \in CritiqueTypes
        /\ UNCHANGED <<status, attempts, current, artifact, exhausted>>
    BY <1>7 DEF Verify, Runs, CritiqueMayReject
  <2>2. Present' = Present
    BY <2>1 DEF Present
  <2> QED
    BY <2>1, <2>2
<1>8. CASE CheckRetry
  <2>1. /\ node = "check" /\ node' = "reflect"
        /\ UNCHANGED <<status, attempts, exhausted>>
        /\ current' \in RetryableChildren
    BY <1>8 DEF CheckRetry, Runs
  <2>2. current' \in Present /\ status[current'] = "FAILED" /\ attempts[current'] < MaxAttempts
    BY <2>1 DEF RetryableChildren, Retryable
  <2>3. current' \in GoalIds
    BY <2>2 DEF Present, GoalIds
  <2>4. attempts[current'] \in Nat
    BY <2>3 DEF TypeOK
  <2>5. current' \notin exhausted
    BY <2>1, <2>2, <2>4
  <2>6. Root \notin exhausted
    BY <2>1, <2>2
  <2> QED
    BY <2>1, <2>5, <2>6
<1>9. CASE CheckGoesOn
  <2>1. /\ node = "check" /\ node' = Route
        /\ UNCHANGED <<status, attempts, current, exhausted>>
        /\ Present = {} \/ Waiting
    BY <1>9 DEF CheckGoesOn, Runs
  <2>2. Retryable(current) => node' = "reflect"
    BY <2>1 DEF Route
  <2>3. ~Retryable(current) => node' = IF Ready(status) # {} THEN "execute" ELSE "end"
    BY <2>1 DEF Route
  <2>4. ASSUME node' \in {"execute", "reflect"}
        PROVE  current \notin exhausted /\ Root \notin exhausted
    <3>1. Root \notin exhausted
      <4>1. SUFFICES ASSUME Root \in exhausted
                     PROVE  FALSE
        OBVIOUS
      <4>2. /\ \A c \in Present : status[c] = "COMPLETED"
            /\ status[Root] = "FAILED" /\ attempts[Root] >= MaxAttempts
        BY <4>1, <2>1
      <4>3. Present = {}
        BY <4>2, <2>1 DEF Waiting
      <4>4. Ready(status) = {}
        <5>1. ASSUME NEW g \in Ready(status)
              PROVE  FALSE
          <6>1. g \in GoalIds /\ status[g] = "PENDING"
            BY <5>1, ReadyGoals
          <6>2. g \in Children
            BY <6>1, <4>2 DEF GoalIds
          <6> QED
            BY <6>1, <6>2, <4>3 DEF Present
        <5> QED
          BY <5>1
      <4>5. Retryable(current)
        BY <2>3, <2>4, <4>4
      <4>6. current # Root
        <5>1. attempts[Root] \in Nat
          BY DEF TypeOK, GoalIds
        <5> QED
          BY <4>2, <4>5, <5>1 DEF Retryable
      <4>7. current \in Children
        BY <4>6 DEF TypeOK, GoalIds
      <4> QED
        BY <4>3, <4>5, <4>7 DEF Retryable, Present
    <3>2. current \notin exhausted
      <4>1. SUFFICES ASSUME current \in exhausted
                     PROVE  FALSE
        OBVIOUS
      <4>2. status[current] = "FAILED" /\ current \in Children
        BY <4>1, <3>1, <2>1 DEF TypeOK, GoalIds
      <4>3. current \in Present /\ Failed # {}
        BY <4>2 DEF Present, Failed
      <4> QED
        BY <4>3, <2>1 DEF Waiting
    <3> QED
      BY <3>1, <3>2
  <2>5. node' \in {"reflect", "execute", "end"}
    BY <2>2, <2>3
  <2> QED
    BY <2>1, <2>4, <2>5
<1>10. CASE CheckFinalizes
  BY <1>10 DEF CheckFinalizes, Runs
<1>11. CASE Reflect
  <2>1. /\ node = "reflect" /\ node' = "execute"
        /\ UNCHANGED <<attempts, current, exhausted>>
        /\ status' = [status EXCEPT ![current] = "PENDING"]
    BY <1>11 DEF Reflect, Runs
  <2>2. current \notin exhausted /\ Root \notin exhausted
    BY <2>1
  <2>3. \A g \in exhausted : status'[g] = status[g]
    BY <2>1, <2>2 DEF TypeOK
  <2> QED
    BY <2>1, <2>2, <2>3
<1>12. CASE Revise
  BY <1>12 DEF Revise, Runs
<1>13. CASE Deliver
  BY <1>13 DEF Deliver, Ends
<1>14. CASE Raise
  BY <1>14 DEF Raise, Ends
<1>15. CASE CutShort
  BY <1>15 DEF CutShort, Ends
<1>16. CASE UNCHANGED vars
  BY <1>16 DEF vars, Present
<1> QED
  BY <1>1, <1>2, <1>3, <1>4, <1>5, <1>6, <1>7, <1>8, <1>9, <1>10, <1>11, <1>12, <1>13, <1>14,
     <1>15, <1>16
  DEF LimitedNext, Next, Plan, Check

(* A step of the turn does not run a goal that failed for good. *)
LEMMA EndedNotRun ==
  TypeOK /\ EndedKept /\ [LimitedNext]_vars =>
    (turn' = turn => \A g \in exhausted : runs'[g] = runs[g])
<1> SUFFICES ASSUME TypeOK, EndedKept, [LimitedNext]_vars, turn' = turn, NEW g \in exhausted
             PROVE  runs'[g] = runs[g]
  OBVIOUS
<1> USE DEF goals, gates, flags, history
<1>1. CASE Execute
  <2>1. node = "execute" /\ g \in GoalIds
    BY <1>1 DEF Execute, Runs, TypeOK
  <2>2. status[g] = "FAILED"
    BY <2>1 DEF EndedKept, Working
  <2>3. g \notin Ready(status)
    BY <2>2 DEF Ready
  <2>4. runs'[g] = IF g \in Ready(status) THEN runs[g] + 1 ELSE runs[g]
    BY <1>1, <2>1, ExecuteDoes
  <2> QED
    BY <2>3, <2>4
<1>2. CASE StartTurn
  BY <1>2 DEF StartTurn, Restart, TypeOK, Turns
<1>3. CASE Assess \/ Plan \/ Verify \/ Check \/ Reflect \/ Revise
  BY <1>3 DEF Assess, Plan, PlanRouted, PlanDirect, PlanFallback, Verify, Check, CheckRetry,
              CheckGoesOn, CheckFinalizes, Reflect, Revise
<1>4. CASE Deliver \/ Raise \/ CutShort
  BY <1>4 DEF Deliver, Raise, CutShort, Ends
<1>5. CASE UNCHANGED vars
  BY <1>5 DEF vars
<1> QED
  BY <1>1, <1>2, <1>3, <1>4, <1>5 DEF LimitedNext, Next

(* A failure uses up an attempt at least, and never more than there are. *)
LEMMA FailureUsesAttempt ==
  ASSUME NEW r \in {"terminal", "limited", "retryable"}, NEW prior \in Nat, prior < MaxAttempts
  PROVE  AttemptsAfter(r, prior) \in prior + 1 .. MaxAttempts
<1>1. MaxAttempts \in Nat
  BY GraphAssumption
<1>2. AttemptsAfter(r, prior) = MaxAttempts \/ AttemptsAfter(r, prior) = prior + 1
  BY DEF AttemptsAfter
<1> QED
  BY <1>1, <1>2

(* Until the verify gate sends a goal back, each run of a goal has its attempt. *)
LEMMA AttemptsStep ==
  TypeOK /\ AttemptsUsed /\ [LimitedNext]_vars => AttemptsUsed'
<1> SUFFICES ASSUME TypeOK, AttemptsUsed, [LimitedNext]_vars, verifyRetries' = 0
             PROVE  /\ \A g \in GoalIds : runs'[g] <= MaxAttempts
                    /\ node' \in {"assess", "plan"} =>
                         \A g \in GoalIds : attempts'[g] = 0 /\ runs'[g] = 0 /\ g \notin completed'
                    /\ node' \in Nodes \ {"revise"} => \A g \in GoalIds :
                         /\ attempts'[g] <= MaxAttempts
                         /\ status'[g] # "COMPLETED" =>
                              runs'[g] <= attempts'[g] /\ g \notin completed'
                         /\ status'[g] \in {"none", "PENDING"} => attempts'[g] < MaxAttempts
                    /\ node' = "reflect" => Retryable(current)'
  BY DEF AttemptsUsed
<1>1. MaxAttempts \in Nat \ {0}
  BY GraphAssumption
<1>2. ASSUME verifyRetries = 0
      PROVE  /\ \A g \in GoalIds : runs[g] <= MaxAttempts
             /\ node \in {"assess", "plan"} =>
                  \A g \in GoalIds : attempts[g] = 0 /\ runs[g] = 0 /\ g \notin completed
             /\ node \in Nodes \ {"revise"} => \A g \in GoalIds :
                  /\ attempts[g] <= MaxAttempts
                  /\ status[g] # "COMPLETED" => runs[g] <= attempts[g] /\ g \notin completed
                  /\ status[g] \in {"none", "PENDING"} => attempts[g] < MaxAttempts
             /\ node = "reflect" => Retryable(current)
  BY <1>2 DEF AttemptsUsed
<1> USE DEF goals, gates, flags, history
<1>3. CASE StartTurn
  <2>1. node' = "assess" /\ completed' = {}
        /\ \A g \in GoalIds : attempts'[g] = 0 /\ runs'[g] = 0
    BY <1>3 DEF StartTurn, Restart
  <2> QED
    BY <2>1, <1>1
<1>4. CASE Assess
  <2>1. /\ node = "assess" /\ node' \in {"plan", "end"}
        /\ UNCHANGED <<status, attempts, completed, runs, verifyRetries>>
    BY <1>4 DEF Assess, Runs
  <2> QED
    BY <2>1, <1>1, <1>2 DEF Nodes
<1>5. CASE Plan
  <2>1. /\ node = "plan" /\ node' \in {"execute", "end"}
        /\ UNCHANGED <<attempts, completed, runs, verifyRetries>>
    BY <1>5 DEF Plan, PlanRouted, PlanDirect, PlanFallback, Runs, AfterPlan
  <2> QED
    BY <2>1, <1>1, <1>2 DEF Nodes
<1>6. CASE Execute
  <2>1. PICK got \in [Ready(status) -> Results], oks \in SUBSET (Ready(status) \ completed) :
          /\ oks = {g \in Ready(status) \ completed : got[g] = "ok"}
          /\ \A g \in GoalIds :
               /\ g \in oks => status'[g] = "COMPLETED" /\ attempts'[g] = attempts[g]
               /\ g \in (Ready(status) \ completed) \ oks =>
                    /\ status'[g] = "FAILED"
                    /\ attempts'[g] = AttemptsAfter(got[g], attempts[g])
               /\ g \notin Ready(status) \ completed =>
                    status'[g] = status[g] /\ attempts'[g] = attempts[g]
               /\ runs'[g] = IF g \in Ready(status) THEN runs[g] + 1 ELSE runs[g]
          /\ completed' = completed \cup oks
          /\ node = "execute" /\ node' = "verify" /\ verifyRetries' = verifyRetries
    BY <1>6, ExecuteDoes
  <2>2. ASSUME NEW g \in GoalIds
        PROVE  /\ runs'[g] <= MaxAttempts
               /\ attempts'[g] <= MaxAttempts
               /\ status'[g] # "COMPLETED" => runs'[g] <= attempts'[g] /\ g \notin completed'
               /\ status'[g] \in {"none", "PENDING"} => attempts'[g] < MaxAttempts
    <3>1. /\ runs[g] <= MaxAttempts /\ attempts[g] <= MaxAttempts
          /\ status[g] # "COMPLETED" => runs[g] <= attempts[g] /\ g \notin completed
          /\ status[g] \in {"none", "PENDING"} => attempts[g] < MaxAttempts
      BY <2>1, <2>2, <1>2 DEF Nodes
    <3>2. attempts[g] \in Nat /\ runs[g] \in Nat
      BY DEF TypeOK
    <3>3. CASE g \in Ready(status)
      <4>1. status[g] = "PENDING"
        BY <3>3, ReadyGoals
      <4>2. g \in Ready(status) \ completed /\ runs[g] <= attempts[g] /\ attempts[g] < MaxAttempts
        BY <3>1, <3>3, <4>1
      <4>3. runs'[g] = runs[g] + 1
        BY <2>1, <2>2, <3>3
      <4>4. runs[g] + 1 <= MaxAttempts /\ runs[g] + 1 <= attempts[g] + 1
        BY <3>2, <4>2, <1>1
      <4>5. CASE g \in oks
        BY <2>1, <2>2, <4>3, <4>4, <4>5, <3>1
      <4>6. CASE g \notin oks
        <5>1. got[g] \in {"terminal", "limited", "retryable"}
          BY <2>1, <3>3, <4>2, <4>6 DEF Results
        <5>2. /\ status'[g] = "FAILED" /\ g \notin completed'
              /\ attempts'[g] = AttemptsAfter(got[g], attempts[g])
          BY <2>1, <2>2, <4>2, <4>6
        <5>3. attempts'[g] \in attempts[g] + 1 .. MaxAttempts
          BY <5>1, <5>2, <3>2, <4>2, FailureUsesAttempt
        <5>4. attempts[g] + 1 <= attempts'[g] /\ attempts'[g] <= MaxAttempts /\ attempts'[g] \in Int
          BY <5>3, <3>2, <1>1
        <5>5. runs'[g] <= attempts'[g]
          BY <5>4, <4>3, <4>4, <3>2
        <5> QED
          BY <4>3, <4>4, <5>2, <5>4, <5>5
      <4> QED
        BY <4>5, <4>6
    <3>4. CASE g \notin Ready(status)
      <4>1. status'[g] = status[g] /\ attempts'[g] = attempts[g] /\ runs'[g] = runs[g]
        BY <2>1, <2>2, <3>4
      <4>2. g \notin oks
        BY <3>4
      <4> QED
        BY <4>1, <4>2, <3>1, <2>1
    <3> QED
      BY <3>3, <3>4
  <2> QED
    BY <2>1, <2>2
<1>7. CASE Verify
  <2>1. PICK reflects \in BOOLEAN :
          /\ verifyRetries' = IF reflects THEN verifyRetries + 1 ELSE verifyRetries
          /\ node' = IF reflects /\ ~skipVerify THEN "reflect" ELSE "check"
    BY <1>7 DEF Verify
  <2>2. ~reflects /\ verifyRetries = 0
    BY <2>1 DEF TypeOK
  <2>3. node = "verify" /\ node' = "check" /\ UNCHANGED <<status, attempts, completed, runs>>
    BY <1>7, <2>1, <2>2 DEF Verify, Runs
  <2> QED
    BY <2>2, <2>3, <1>2 DEF Nodes
<1>8. CASE CheckRetry
  <2>1. /\ node = "check" /\ node' = "reflect" /\ current' \in RetryableChildren
        /\ UNCHANGED <<status, attempts, completed, runs, verifyRetries>>
    BY <1>8 DEF CheckRetry, Runs
  <2>2. Retryable(current)'
    BY <2>1 DEF RetryableChildren, Retryable
  <2> QED
    BY <2>1, <2>2, <1>2 DEF Nodes
<1>9. CASE CheckGoesOn
  <2>1. /\ node = "check" /\ node' = Route
        /\ UNCHANGED <<status, attempts, completed, runs, verifyRetries, current>>
    BY <1>9 DEF CheckGoesOn, Runs
  <2>2. node' \in {"reflect", "execute", "end"} /\ (node' = "reflect" => Retryable(current)')
    BY <2>1 DEF Route, Retryable
  <2> QED
    BY <2>1, <2>2, <1>2 DEF Nodes
<1>10. CASE CheckFinalizes
  BY <1>10, <1>2 DEF CheckFinalizes, Runs
<1>11. CASE Reflect
  <2>1. /\ node = "reflect" /\ node' = "execute"
        /\ UNCHANGED <<attempts, completed, runs, verifyRetries>>
        /\ status' = [status EXCEPT ![current] = "PENDING"]
    BY <1>11 DEF Reflect, Runs
  <2>2. status[current] = "FAILED" /\ attempts[current] < MaxAttempts
    BY <2>1, <1>2 DEF Retryable
  <2>3. \A g \in GoalIds : g # current => status'[g] = status[g]
    BY <2>1 DEF TypeOK
  <2>4. \A g \in GoalIds :
          /\ attempts[g] <= MaxAttempts
          /\ status'[g] # "COMPLETED" => runs[g] <= attempts[g] /\ g \notin completed
          /\ status'[g] \in {"none", "PENDING"} => attempts[g] < MaxAttempts
    <3>1. ASSUME NEW g \in GoalIds
          PROVE  /\ attempts[g] <= MaxAttempts
                 /\ status'[g] # "COMPLETED" => runs[g] <= attempts[g] /\ g \notin completed
                 /\ status'[g] \in {"none", "PENDING"} => attempts[g] < MaxAttempts
      <4>1. /\ attempts[g] <= MaxAttempts
            /\ status[g] # "COMPLETED" => runs[g] <= attempts[g] /\ g \notin completed
            /\ status[g] \in {"none", "PENDING"} => attempts[g] < MaxAttempts
        BY <2>1, <1>2 DEF Nodes
      <4>2. CASE g = current
        BY <4>1, <4>2, <2>2
      <4>3. CASE g # current
        BY <4>1, <4>3, <2>3
      <4> QED
        BY <4>2, <4>3
    <3> QED
      BY <3>1
  <2> QED
    BY <2>1, <2>4, <1>2
<1>12. CASE Revise
  BY <1>12, <1>2 DEF Revise, Runs, Nodes
<1>13. CASE Deliver \/ Raise \/ CutShort
  <2>1. node' = "idle" /\ UNCHANGED <<runs, verifyRetries>>
    BY <1>13 DEF Deliver, Raise, CutShort, Ends
  <2> QED
    BY <2>1, <1>2 DEF Nodes
<1>14. CASE UNCHANGED vars
  <2>1. UNCHANGED <<node, status, attempts, completed, runs, verifyRetries, current>>
    BY <1>14 DEF vars
  <2>2. Retryable(current)' = Retryable(current)
    BY <2>1 DEF Retryable
  <2> QED
    BY <2>1, <2>2, <1>2
<1> QED
  BY <1>3, <1>4, <1>5, <1>6, <1>7, <1>8, <1>9, <1>10, <1>11, <1>12, <1>13, <1>14
  DEF LimitedNext, Next, Check

-----------------------------------------------------------------------------
(* A goal whose error was terminal is not executed again in the turn,       *)
(* however the retries of others and the verify gate go, for any number of  *)
(* subtasks, attempts and verify retries, and a decomposition of no line.   *)
THEOREM TerminalStaysEnded == LimitedSpec => TerminalNotRetried
<1>1. Init => TermInv
  BY GraphInitInv DEF GraphInv, TermInv, EndedKept, OneToRun, Working, Init, Root
<1>2. TermInv /\ [LimitedNext]_vars => TermInv'
  BY TypeStep, OneToRunStep, EndedStep DEF TermInv
<1>3. TermInv /\ [LimitedNext]_vars =>
        [turn' = turn => \A g \in exhausted : runs'[g] = runs[g]]_vars
  BY EndedNotRun DEF TermInv
<1> QED
  BY <1>1, <1>2, <1>3, PTL DEF LimitedSpec, TerminalNotRetried

(* A goal runs MAX_GOAL_ATTEMPTS times at most in a turn in which the       *)
(* verify gate sends none back, whatever errors it meets.                   *)
THEOREM RetriesAreBounded == LimitedSpec => []RetriesBounded
<1>1. Init => TypeOK /\ AttemptsUsed
  <2>1. Init => TypeOK
    BY GraphInitInv DEF GraphInv
  <2>2. Init => AttemptsUsed
    BY GraphAssumption DEF Init, AttemptsUsed, Nodes
  <2> QED
    BY <2>1, <2>2
<1>2. TypeOK /\ AttemptsUsed /\ [LimitedNext]_vars => (TypeOK /\ AttemptsUsed)'
  BY TypeStep, AttemptsStep
<1>3. AttemptsUsed => RetriesBounded
  BY DEF AttemptsUsed, RetriesBounded
<1> QED
  BY <1>1, <1>2, <1>3, PTL DEF LimitedSpec

-----------------------------------------------------------------------------
(* GoalGraph: how many super-steps a turn takes.  Each execution after the  *)
(* first runs one goal again, and there are four steps to an execution.     *)

FailedHasRun ==
    node \in Nodes \ {"revise"} => \A g \in GoalIds : status[g] = "FAILED" => runs[g] >= 1

\* Nothing has run; or the goal sent back runs again, and nothing else does.
FirstExecution == steps = 2 /\ \A g \in GoalIds : runs[g] = 0
OneAgain ==
    /\ steps = 6 + 4 * Cardinality(Again)
    /\ runs[current] >= 1
    /\ status[current] = "PENDING" /\ Ready(status) = {current}

StepsCounted ==
    verifyRetries = 0 =>
        /\ node = "assess" => steps = 0
        /\ node = "plan" => steps = 1
        /\ node = "execute" => FirstExecution \/ OneAgain
        /\ node = "verify" => steps = 3 + 4 * Cardinality(Again)
        /\ node = "check" => steps = 4 + 4 * Cardinality(Again)
        /\ node \in {"reflect", "revise"} => steps = 5 + 4 * Cardinality(Again)
        /\ node \in {"verify", "check"} /\ Present = {} => status[Root] # "PENDING"
        /\ node = "reflect" /\ current = Root => Present = {}

StepsInv == GraphInv /\ OneToRun /\ AttemptsUsed /\ FailedHasRun /\ StepsCounted

(* The executions of goals after their first can be counted.               *)
LEMMA AgainCounts == IsFiniteSet(Again) /\ Cardinality(Again) \in Nat
<1>1. MaxChildren \in Nat /\ MaxAttempts - 1 \in Nat
  BY GraphAssumption
<1>2. IsFiniteSet(GoalIds) /\ IsFiniteSet(1 .. MaxAttempts - 1)
  <2>1. IsFiniteSet(1 .. MaxChildren) /\ IsFiniteSet(1 .. MaxAttempts - 1)
    BY <1>1, FS_Interval
  <2>2. IsFiniteSet(Children \cup {Root})
    BY <2>1, FS_AddElement DEF Children
  <2> QED
    BY <2>1, <2>2 DEF GoalIds
<1>3. IsFiniteSet(GoalIds \X (1 .. MaxAttempts - 1))
  BY <1>2, FS_Product
<1>4. Again \subseteq GoalIds \X (1 .. MaxAttempts - 1)
  BY DEF Again
<1> QED
  BY <1>3, <1>4, FS_Subset, FS_CardinalityType

(* Nothing has run again when nothing has run, or when each ran once.       *)
LEMMA NoneAgain ==
  ASSUME \A g \in GoalIds : runs'[g] \in {0, 1}
  PROVE  Cardinality(Again)' = 0
<1>1. Again' = {}
  <2>1. \A run \in GoalIds \X (1 .. MaxAttempts - 1) :
          run[1] \in GoalIds /\ run[2] \in 1 .. MaxAttempts - 1
    OBVIOUS
  <2>2. Again' = {run \in GoalIds \X (1 .. MaxAttempts - 1) : run[2] < runs'[run[1]]}
    BY DEF Again, GoalIds, Children, Root
  <2> QED
    BY <2>1, <2>2, GraphAssumption
<1> QED
  BY <1>1, FS_EmptySet

(* One goal that runs again counts once.                                   *)
LEMMA OneMoreAgain ==
  ASSUME NEW c \in GoalIds, runs[c] \in 1 .. MaxAttempts - 1, runs'[c] = runs[c] + 1,
         \A d \in GoalIds : d # c => runs'[d] = runs[d]
  PROVE  Cardinality(Again)' = Cardinality(Again) + 1
<1>1. MaxAttempts - 1 \in Nat
  BY GraphAssumption
<1>2. <<c, runs[c]>> \notin Again
  BY DEF Again
<1>3. Again' = Again \cup {<<c, runs[c]>>}
  <2> DEFINE MayRunAgain == GoalIds \X (1 .. MaxAttempts - 1)
  <2>1. <<c, runs[c]>> \in MayRunAgain
    OBVIOUS
  <2>2. ASSUME NEW run \in MayRunAgain
        PROVE  run[2] < runs'[run[1]] <=> run[2] < runs[run[1]] \/ run = <<c, runs[c]>>
    <3>1. run = <<run[1], run[2]>> /\ run[1] \in GoalIds /\ run[2] \in 1 .. MaxAttempts - 1
      OBVIOUS
    <3>2. CASE run[1] # c
      BY <3>1, <3>2
    <3>3. CASE run[1] = c
      <4>1. run[2] < runs[c] + 1 <=> run[2] < runs[c] \/ run[2] = runs[c]
        BY <1>1, <3>1
      <4>2. run = <<c, runs[c]>> <=> run[2] = runs[c]
        BY <3>1, <3>3
      <4> QED
        BY <3>3, <4>1, <4>2
    <3> QED
      BY <3>2, <3>3
  <2>3. Again' = {run \in MayRunAgain : run[2] < runs'[run[1]]}
        /\ Again = {run \in MayRunAgain : run[2] < runs[run[1]]}
    BY DEF Again, GoalIds, Children, Root
  <2> HIDE DEF MayRunAgain
  <2> QED
    BY <2>1, <2>2, <2>3
<1>4. Cardinality(Again \cup {<<c, runs[c]>>}) = Cardinality(Again) + 1
  BY <1>2, AgainCounts, FS_AddElement
<1> QED
  BY <1>3, <1>4

(* A goal that has failed has run.                                          *)
LEMMA FailedHasRunStep ==
  TypeOK /\ FailedHasRun /\ [LimitedNext]_vars => FailedHasRun'
<1> SUFFICES ASSUME TypeOK, FailedHasRun, [LimitedNext]_vars
             PROVE  FailedHasRun'
  OBVIOUS
<1> USE DEF goals, gates, flags, history
<1>1. Root \in GoalIds /\ \A g \in GoalIds : runs[g] \in Nat
  BY DEF GoalIds, TypeOK
<1>2. node \in Nodes \ {"revise"} => \A c \in GoalIds : status[c] = "FAILED" => runs[c] >= 1
  BY DEF FailedHasRun
<1>3. CASE StartTurn
  <2>1. \A c \in GoalIds : status'[c] \in {"none", "PENDING"}
    BY <1>3, <1>1 DEF StartTurn, Restart
  <2> QED
    BY <2>1 DEF FailedHasRun
<1>4. CASE Assess
  BY <1>4, <1>2 DEF Assess, Runs, FailedHasRun, Nodes
<1>5. CASE Plan
  <2>1. node = "plan" /\ runs' = runs
        /\ \A c \in GoalIds : status'[c] = "FAILED" => status[c] = "FAILED"
    BY <1>5, <1>1 DEF Plan, PlanRouted, PlanDirect, PlanFallback, Runs, Create, TypeOK
  <2> QED
    BY <2>1, <1>2 DEF FailedHasRun, Nodes
<1>6. CASE Execute
  <2>1. PICK got \in [Ready(status) -> Results], oks \in SUBSET (Ready(status) \ completed) :
          /\ \A g \in GoalIds :
               /\ g \notin Ready(status) \ completed => status'[g] = status[g]
               /\ runs'[g] = IF g \in Ready(status) THEN runs[g] + 1 ELSE runs[g]
          /\ node = "execute"
    BY <1>6, ExecuteDoes
  <2>2. ASSUME NEW c \in GoalIds, status'[c] = "FAILED"
        PROVE  runs'[c] >= 1
    <3>1. c \in GoalIds /\ runs[c] \in Nat
      BY <1>1
    <3>2. CASE c \in Ready(status)
      <4>1. runs'[c] = runs[c] + 1
        BY <2>1, <3>1, <3>2
      <4> QED
        BY <3>1, <4>1
    <3>3. CASE c \notin Ready(status)
      <4>1. status[c] = "FAILED" /\ runs'[c] = runs[c]
        BY <2>1, <2>2, <3>1, <3>3
      <4> QED
        BY <2>1, <4>1, <1>2 DEF Nodes
    <3> QED
      BY <3>2, <3>3
  <2> QED
    BY <2>2 DEF FailedHasRun
<1>7. CASE Verify
  BY <1>7, <1>2 DEF Verify, Runs, FailedHasRun, Nodes
<1>8. CASE CheckRetry \/ CheckGoesOn
  BY <1>8, <1>2 DEF CheckRetry, CheckGoesOn, Runs, FailedHasRun, Nodes
<1>9. CASE CheckFinalizes
  BY <1>9 DEF CheckFinalizes, FailedHasRun
<1>10. CASE Reflect
  <2>1. node = "reflect" /\ runs' = runs /\ status' = [status EXCEPT ![current] = "PENDING"]
    BY <1>10 DEF Reflect, Runs
  <2>2. \A c \in GoalIds : status'[c] = "FAILED" => status[c] = "FAILED"
    BY <2>1, <1>1 DEF TypeOK
  <2> QED
    BY <2>1, <2>2, <1>2 DEF FailedHasRun, Nodes
<1>11. CASE Revise \/ Deliver \/ Raise \/ CutShort
  BY <1>11 DEF Revise, Deliver, Raise, CutShort, Ends, FailedHasRun, Nodes
<1>12. CASE UNCHANGED vars
  BY <1>12 DEF vars, FailedHasRun
<1> QED
  BY <1>3, <1>4, <1>5, <1>6, <1>7, <1>8, <1>9, <1>10, <1>11, <1>12 DEF LimitedNext, Next, Check

(* A turn without subtasks leaves its task run, whatever came of it.        *)
LEMMA TaskHasRun ==
  ASSUME TypeOK, AttemptsUsed, verifyRetries = 0, Execute, Present' = {}
  PROVE  status'[Root] # "PENDING"
<1>1. PICK got \in [Ready(status) -> Results], oks \in SUBSET (Ready(status) \ completed) :
        /\ \A g \in GoalIds :
             /\ g \in oks => status'[g] = "COMPLETED"
             /\ g \in (Ready(status) \ completed) \ oks => status'[g] = "FAILED"
             /\ g \notin Ready(status) \ completed => status'[g] = status[g]
        /\ node = "execute"
  BY ExecuteDoes
<1>2. Root \in GoalIds /\ Children \subseteq GoalIds
  BY DEF GoalIds
<1>3. CASE status[Root] # "PENDING"
  <2>1. Root \notin Ready(status)
    BY <1>3, ReadyGoals
  <2> QED
    BY <1>1, <1>2, <1>3, <2>1
<1>4. CASE status[Root] = "PENDING"
  <2>1. Root \notin completed
    BY <1>1, <1>2, <1>4 DEF AttemptsUsed, Nodes
  <2>2. Present = {}
    <3>1. ASSUME NEW c \in Children, status'[c] = "none"
          PROVE  status[c] = "none"
      BY <1>1, <1>2, <3>1
    <3> QED
      BY <3>1 DEF Present, Children
  <2>3. Root \in Ready(status)
    BY <1>2, <1>4, <2>2 DEF Ready
  <2> QED
    BY <1>1, <1>2, <2>1, <2>3
<1> QED
  BY <1>3, <1>4

(* Each step of a turn in which the gate sends nothing back is counted.     *)
LEMMA StepsCountedStep ==
  StepsInv /\ [LimitedNext]_vars => StepsCounted'
<1> SUFFICES ASSUME StepsInv, [LimitedNext]_vars, verifyRetries' = 0
             PROVE  StepsCounted'
  BY DEF StepsCounted
<1> USE DEF goals, gates, flags, history
<1>1. TypeOK /\ NodeInv /\ OneToRun /\ AttemptsUsed /\ FailedHasRun /\ StepsCounted
  BY DEF StepsInv, GraphInv
<1>2. /\ Children \subseteq GoalIds /\ Root \notin Children /\ Root \in GoalIds
      /\ \A g \in GoalIds : runs[g] \in Nat /\ attempts[g] \in Nat
      /\ MaxAttempts \in Nat \ {0} /\ steps \in Nat /\ current \in GoalIds
  BY <1>1, GraphAssumption DEF GoalIds, Root, Children, TypeOK
<1>3. Cardinality(Again) \in Nat
  BY AgainCounts
<1>4. runs' = runs => Again' = Again
  BY DEF Again, GoalIds, Children, Root
<1>5. status' = status => Present' = Present
  BY DEF Present, Children
<1>6. CASE StartTurn
  BY <1>6 DEF StartTurn, Restart, StepsCounted
<1>7. CASE Assess
  <2>1. node = "assess" /\ node' \in {"plan", "end"} /\ steps' = steps + 1
        /\ verifyRetries = 0
    BY <1>7 DEF Assess, Runs
  <2> QED
    BY <2>1, <1>1 DEF StepsCounted
<1>8. CASE Plan
  <2>1. node = "plan" /\ node' \in {"execute", "end"} /\ steps' = steps + 1
        /\ verifyRetries = 0 /\ runs' = runs
    BY <1>8 DEF Plan, PlanRouted, PlanDirect, PlanFallback, Runs, AfterPlan
  <2>2. steps' = 2
    BY <2>1, <1>1 DEF StepsCounted
  <2>3. \A g \in GoalIds' : runs'[g] = 0
    BY <2>1, <1>1, <1>2 DEF NodeInv, NothingRan, GoalIds, Children, Root
  <2> QED
    BY <2>1, <2>2, <2>3 DEF StepsCounted, FirstExecution
<1>9. CASE Execute
  <2>1. PICK got \in [Ready(status) -> Results], oks \in SUBSET (Ready(status) \ completed) :
          /\ \A g \in GoalIds : runs'[g] = IF g \in Ready(status) THEN runs[g] + 1 ELSE runs[g]
          /\ node = "execute" /\ node' = "verify" /\ verifyRetries' = verifyRetries
    BY <1>9, <1>1, ExecuteDoes
  <2>2. steps' = steps + 1
    BY <1>9 DEF Execute, Runs
  <2>3. Present' = {} => status'[Root] # "PENDING"
    BY <1>9, <1>1, <2>1, TaskHasRun
  <2>4. steps' = 3 + 4 * Cardinality(Again)'
    <3>1. CASE FirstExecution
      <4>1. \A g \in GoalIds : runs'[g] \in {0, 1}
        BY <2>1, <3>1, <1>2 DEF FirstExecution
      <4>2. Cardinality(Again)' = 0
        BY <4>1, NoneAgain
      <4> QED
        BY <2>2, <3>1, <4>2 DEF FirstExecution
    <3>2. CASE OneAgain
      <4>1. runs[current] >= 1 /\ status[current] = "PENDING" /\ Ready(status) = {current}
            /\ steps = 6 + 4 * Cardinality(Again)
        BY <3>2 DEF OneAgain
      <4>2. runs[current] <= attempts[current] /\ attempts[current] < MaxAttempts
        BY <4>1, <2>1, <1>1, <1>2 DEF AttemptsUsed, Nodes
      <4>3. runs[current] \in 1 .. MaxAttempts - 1
        <5>1. runs[current] \in Nat /\ attempts[current] \in Nat
          BY <1>2
        <5> QED
          BY <5>1, <4>1, <4>2, <1>2
      <4>4. runs'[current] = runs[current] + 1 /\ \A d \in GoalIds : d # current => runs'[d] = runs[d]
        BY <2>1, <4>1, <1>2
      <4>5. Cardinality(Again)' = Cardinality(Again) + 1
        BY <1>2, <4>3, <4>4, OneMoreAgain
      <4> QED
        BY <2>2, <4>1, <4>5, <1>3
    <3> QED
      BY <3>1, <3>2, <2>1, <1>1 DEF StepsCounted
  <2> QED
    BY <2>1, <2>3, <2>4 DEF StepsCounted, Root
<1>10. CASE Verify
  <2>1. PICK reflects \in BOOLEAN :
          /\ verifyRetries' = IF reflects THEN verifyRetries + 1 ELSE verifyRetries
          /\ node' = IF reflects /\ ~skipVerify THEN "reflect" ELSE "check"
    BY <1>10 DEF Verify
  <2>2. ~reflects /\ verifyRetries = 0
    BY <2>1, <1>1 DEF TypeOK
  <2>3. node = "verify" /\ node' = "check" /\ steps' = steps + 1 /\ runs' = runs /\ status' = status
    BY <1>10, <2>1, <2>2 DEF Verify, Runs
  <2>4. steps = 3 + 4 * Cardinality(Again) /\ Cardinality(Again)' = Cardinality(Again)
    BY <2>2, <2>3, <1>1, <1>4 DEF StepsCounted
  <2>5. steps' = 4 + 4 * Cardinality(Again)'
    BY <2>3, <2>4, <1>3
  <2>6. Present' = {} => status'[Root] # "PENDING"
    BY <2>2, <2>3, <1>1, <1>5 DEF StepsCounted
  <2> QED
    BY <2>3, <2>5, <2>6 DEF StepsCounted, Root
<1>11. ASSUME node = "check", verifyRetries = 0, Waiting
       PROVE  FALSE
  <2>1. PICK c \in Present : status[c] = "PENDING"
    BY <1>11 DEF Waiting
  <2>2. c \in Children /\ c \notin completed
    BY <1>11, <2>1, <1>1, <1>2 DEF Present, AttemptsUsed, Nodes
  <2> QED
    BY <1>11, <2>1, <2>2, <1>1 DEF OneToRun, Unrun
<1>12. CASE Check
  <2>1. node = "check" /\ steps' = steps + 1 /\ runs' = runs /\ verifyRetries = 0
    BY <1>12 DEF Check, CheckRetry, CheckGoesOn, CheckFinalizes, Runs
  <2>2. /\ node' \in {"reflect", "revise", "end"}
        /\ node' = "reflect" /\ current' = Root => Present' = {}
    <3>1. CASE CheckRetry
      BY <3>1, <1>2 DEF CheckRetry, RetryableChildren, Present
    <3>2. CASE CheckFinalizes
      BY <3>2 DEF CheckFinalizes
    <3>3. CASE CheckGoesOn
      <4>1. Present = {} /\ status' = status /\ node' = Route
        BY <3>3, <2>1, <1>11 DEF CheckGoesOn
      <4>2. Ready(status) = {}
        <5>1. status[Root] # "PENDING" /\ \A c \in Children : status[c] = "none"
          BY <2>1, <4>1, <1>1 DEF StepsCounted, Present
        <5> QED
          BY <5>1 DEF Ready, GoalIds
      <4> QED
        BY <4>1, <4>2, <1>5 DEF Route
    <3> QED
      BY <1>12, <3>1, <3>2, <3>3 DEF Check
  <2>3. steps = 4 + 4 * Cardinality(Again) /\ Cardinality(Again)' = Cardinality(Again)
    BY <2>1, <1>1, <1>4 DEF StepsCounted
  <2>4. steps' = 5 + 4 * Cardinality(Again)'
    BY <2>1, <2>3, <1>3
  <2> QED
    BY <2>2, <2>4 DEF StepsCounted, Root
<1>13. CASE Reflect
  <2>1. /\ node = "reflect" /\ node' = "execute" /\ steps' = steps + 1
        /\ runs' = runs /\ current' = current /\ completed' = completed /\ verifyRetries = 0
        /\ status' = [status EXCEPT ![current] = "PENDING"]
    BY <1>13 DEF Reflect, Runs
  <2>2. /\ steps = 5 + 4 * Cardinality(Again) /\ Cardinality(Again)' = Cardinality(Again)
        /\ current = Root => Present = {}
    BY <2>1, <1>1, <1>4 DEF StepsCounted
  <2>3. steps' = 6 + 4 * Cardinality(Again)'
    BY <2>1, <2>2, <1>3
  <2>4. status'[current] = "PENDING" /\ \A g \in GoalIds : g # current => status'[g] = status[g]
    BY <2>1, <1>1, <1>2 DEF TypeOK
  <2>5. \A c \in Children : status[c] # "PENDING"
    <3>1. \A c \in Children : status[c] = "PENDING" => c \notin completed
      BY <2>1, <1>1, <1>2 DEF AttemptsUsed, Nodes
    <3> QED
      BY <3>1, <2>1, <1>1 DEF OneToRun, Unrun
  <2>6. status[current] = "FAILED"
    BY <2>1, <1>1 DEF AttemptsUsed, Retryable
  <2>7. runs[current] >= 1
    BY <2>1, <2>6, <1>1, <1>2 DEF FailedHasRun, Nodes
  <2>8. Ready(status)' = {g \in GoalIds : /\ status'[g] = "PENDING"
                                          /\ g = Root => \A c \in Present' : status'[c] = "COMPLETED"}
    BY DEF Ready, GoalIds, Children, Root
  <2>9. \A c \in Children : c # current => status'[c] # "PENDING"
    BY <2>4, <2>5, <1>2
  <2>10. Ready(status)' = {current}
    <3>1. CASE current = Root
      <4>1. \A c \in Children : status'[c] = "none"
        BY <2>2, <2>4, <3>1, <1>2 DEF Present
      <4>2. Present' = {}
        BY <4>1 DEF Present, Children
      <4> QED
        BY <2>4, <2>8, <2>9, <3>1, <4>2, <1>2 DEF GoalIds
    <3>2. CASE current # Root
      <4>1. current \in Children
        BY <3>2, <1>2 DEF GoalIds
      <4>2. current \in Present'
        BY <2>4, <4>1 DEF Present, Children
      <4> QED
        BY <2>4, <2>8, <2>9, <3>2, <4>1, <4>2, <1>2 DEF GoalIds
    <3> QED
      BY <3>1, <3>2
  <2> QED
    BY <2>1, <2>3, <2>4, <2>7, <2>10 DEF StepsCounted, OneAgain
<1>14. CASE Revise \/ Deliver \/ Raise \/ CutShort
  BY <1>14 DEF Revise, Deliver, Raise, CutShort, Ends, StepsCounted
<1>15. CASE UNCHANGED vars
  <2>1. UNCHANGED <<node, steps, status, runs, current, verifyRetries>>
    BY <1>15 DEF vars
  <2>2. Again' = Again /\ Present' = Present
    BY <2>1, <1>4, <1>5
  <2>3. Cardinality(Again)' = Cardinality(Again) /\ Ready(status)' = Ready(status)
    BY <2>1, <2>2 DEF Ready, GoalIds, Children, Root
  <2> QED
    BY <2>1, <2>2, <2>3, <1>1
    DEF StepsCounted, FirstExecution, OneAgain, GoalIds, Children, Root
<1> QED
  BY <1>6, <1>7, <1>8, <1>9, <1>10, <1>12, <1>13, <1>14, <1>15 DEF LimitedNext, Next

(* The count of steps says what a turn that has used up its limit has done. *)
LEMMA LimitIsSpent == StepsInv => CutShortByRetries
<1> SUFFICES ASSUME StepsInv, verifyRetries = 0, node \in Nodes
             PROVE  steps <= 6 + 4 * Cardinality(Again)
  BY DEF CutShortByRetries
<1> DEFINE again == Cardinality(Again)
<1>1. again \in Nat
  BY AgainCounts
<1>2. /\ node = "assess" => steps = 0
      /\ node = "plan" => steps = 1
      /\ node = "execute" => steps = 2 \/ steps = 6 + 4 * again
      /\ node = "verify" => steps = 3 + 4 * again
      /\ node = "check" => steps = 4 + 4 * again
      /\ node \in {"reflect", "revise"} => steps = 5 + 4 * again
  BY DEF StepsInv, StepsCounted, FirstExecution, OneAgain
<1> HIDE DEF again
<1> QED
  BY <1>1, <1>2 DEF Nodes, again

(* A turn that the recursion limit cuts short has spent the limit on goals  *)
(* run again, four steps each, or was sent back by the verify gate: for any *)
(* number of subtasks, any bound on attempts and any limit.                 *)
THEOREM LimitSpentOnRetries == LimitedSpec => []CutShortByRetries
<1>1. Init => StepsInv
  <2> SUFFICES ASSUME Init
               PROVE  StepsInv
    OBVIOUS
  <2>1. GraphInv
    BY GraphInitInv
  <2>2. OneToRun /\ AttemptsUsed /\ FailedHasRun /\ StepsCounted
    BY GraphAssumption DEF Init, OneToRun, AttemptsUsed, FailedHasRun, StepsCounted, Nodes
  <2> QED
    BY <2>1, <2>2 DEF StepsInv
<1>2. StepsInv /\ [LimitedNext]_vars => StepsInv'
  BY TypeStep, NodeStep, PromiseStep, OneToRunStep, AttemptsStep, FailedHasRunStep,
     StepsCountedStep
  DEF StepsInv, GraphInv
<1>3. StepsInv => CutShortByRetries
  BY LimitIsSpent
<1> QED
  BY <1>1, <1>2, <1>3, PTL DEF LimitedSpec

-----------------------------------------------------------------------------
(* LoopDetection: what is known of the calls that were let pass.            *)

Upto(s, k) == SubSeq(s, 1, k)

\* Each call but a load was let pass on the calls up to it.
LetPass(s, k) == s[k] \in LoadCalls \/ Verdict(Upto(s, k), LimitFor(s[k])) = "no"

HaltInv ==
    /\ halted = "no" => \A k \in 1 .. Len(sigs) : LetPass(sigs, k)
    /\ NewCallNeverHalts

DetectorInv == DetectorTypeOK /\ HaltInv

\* The elements at finitely many places are finitely many.
LEMMA PlacesAreFinite ==
  ASSUME NEW f, NEW D, IsFiniteSet(D)
  PROVE  IsFiniteSet({f[i] : i \in D})
<1> DEFINE g == [i \in D |-> f[i]]
           T == {f[i] : i \in D}
<1>1. g \in Surjection(D, T)
  BY DEF Surjection
<1> HIDE DEF g, T
<1>2. IsFiniteSet(T)
  BY <1>1, FS_Surjection
<1> QED BY <1>2 DEF T

\* The last of a sequence's elements.
LEMMA LastOnes ==
  ASSUME NEW s \in Seq(Calls), NEW n \in Nat, n <= Len(s)
  PROVE  /\ ToSet(LastOf(s, n)) = {s[i] : i \in (Len(s) - n + 1) .. Len(s)}
         /\ Len(LastOf(s, n)) = n
<1>1. /\ Len(s) \in Nat /\ Len(s) - n \in Nat
      /\ \A i \in 1 .. Len(s) : s[i] \in Calls
  BY LenProperties, ElementOfSeq
<1> DEFINE first == Len(s) - n + 1
           last == SubSeq(s, first, Len(s))
<1>2. LastOf(s, n) = last
  <2>1. (IF Len(s) > n THEN Len(s) - n ELSE 0) = Len(s) - n
    BY <1>1
  <2> QED BY <2>1 DEF LastOf
<1>3. first \in Nat /\ Len(s) - first + 1 = n /\ \A i \in first .. Len(s) : s[i] \in Calls
  BY <1>1
<1> HIDE DEF first
<1>4. /\ last \in Seq(Calls) /\ Len(last) = (IF first <= Len(s) THEN Len(s) - first + 1 ELSE 0)
      /\ \A i \in 1 .. Len(s) - first + 1 : last[i] = s[first + i - 1]
  BY <1>1, <1>3, SubSeqProperties
<1>5. Len(last) = n /\ \A i \in 1 .. n : last[i] = s[first + i - 1]
  BY <1>1, <1>3, <1>4
<1>6. DOMAIN last = 1 .. n
  BY <1>4, <1>5, LenProperties
<1>7. ToSet(last) = {last[i] : i \in 1 .. n}
  BY <1>6 DEF ToSet
<1>8. {last[i] : i \in 1 .. n} = {s[i] : i \in first .. Len(s)}
  <2>1. \A i \in 1 .. n : first + i - 1 \in first .. Len(s)
    BY <1>1, <1>3
  <2>2. \A i \in first .. Len(s) : i - first + 1 \in 1 .. n /\ first + (i - first + 1) - 1 = i
    BY <1>1, <1>3
  <2>3. ASSUME NEW i \in first .. Len(s) PROVE s[i] \in {last[j] : j \in 1 .. n}
    <3>1. last[i - first + 1] = s[i]
      BY <1>5, <2>2
    <3> QED BY <2>2, <3>1
  <2>4. ASSUME NEW i \in 1 .. n PROVE last[i] \in {s[j] : j \in first .. Len(s)}
    BY <1>5, <2>1
  <2> HIDE DEF last
  <2> QED BY <2>3, <2>4
<1> QED BY <1>2, <1>5, <1>7, <1>8 DEF first

\* The first of a sequence's elements.
LEMMA FirstOnes ==
  ASSUME NEW s \in Seq(Calls), NEW n \in 0 .. Len(s)
  PROVE  /\ Upto(s, n) \in Seq(Calls) /\ Len(Upto(s, n)) = n
         /\ \A i \in 1 .. n : Upto(s, n)[i] = s[i]
         /\ ToSet(Upto(s, n)) = {s[i] : i \in 1 .. n}
<1>1. Len(s) \in Nat /\ n \in Nat /\ \A i \in 1 .. n : s[i] \in Calls
  BY LenProperties, ElementOfSeq
<1>2. /\ Upto(s, n) \in Seq(Calls)
      /\ Len(Upto(s, n)) = (IF 1 <= n THEN n - 1 + 1 ELSE 0)
      /\ \A i \in 1 .. n - 1 + 1 : Upto(s, n)[i] = s[1 + i - 1]
  BY <1>1, SubSeqProperties DEF Upto
<1>3. Len(Upto(s, n)) = n /\ \A i \in 1 .. n : Upto(s, n)[i] = s[i]
  BY <1>1, <1>2
<1>4. DOMAIN Upto(s, n) = 1 .. n
  BY <1>2, <1>3, LenProperties
<1>5. ToSet(Upto(s, n)) = {Upto(s, n)[i] : i \in 1 .. n}
  BY <1>4 DEF ToSet
<1>6. {Upto(s, n)[i] : i \in 1 .. n} = {s[i] : i \in 1 .. n}
  BY <1>3
<1> QED BY <1>2, <1>3, <1>5, <1>6

\* A call that was let pass did not end as many of it as its limit allows.
LEMMA PassedDoesNotRepeat ==
  ASSUME NEW s \in Seq(Calls), NEW k \in 1 .. Len(s), LetPass(s, k), s[k] \notin LoadCalls,
         LimitFor(s[k]) <= k
  PROVE  \E j \in (k - LimitFor(s[k]) + 1) .. k : s[j] # s[k]
<1> DEFINE n == LimitFor(s[k])
           t == Upto(s, k)
<1>1. n \in Nat \ {0} /\ n <= k /\ k \in Nat /\ k \in 0 .. Len(s) /\ Len(s) \in Nat
  BY DetectorAssumption, LenProperties DEF LimitFor
<1>2. t \in Seq(Calls) /\ Len(t) = k /\ \A i \in 1 .. k : t[i] = s[i]
  BY <1>1, FirstOnes
<1>3. Verdict(t, n) = "no"
  BY DEF LetPass
<1> HIDE DEF t, n
<1>4. ~Repeats(t, n)
  BY <1>1, <1>2, <1>3 DEF Verdict
<1>5. Cardinality(ToSet(LastOf(t, n))) # 1
  BY <1>1, <1>2, <1>4 DEF Repeats
<1>6. ToSet(LastOf(t, n)) = {t[i] : i \in (k - n + 1) .. k}
  BY <1>1, <1>2, LastOnes
<1>7. (k - n + 1) .. k \subseteq 1 .. k /\ k \in (k - n + 1) .. k
  BY <1>1
<1>8. ASSUME \A j \in (k - n + 1) .. k : s[j] = s[k] PROVE FALSE
  <2>1. \A i \in (k - n + 1) .. k : t[i] = s[k]
    BY <1>2, <1>7, <1>8
  <2>2. {t[i] : i \in (k - n + 1) .. k} = {s[k]}
    BY <1>7, <2>1
  <2> QED BY <1>5, <1>6, <2>2, FS_Singleton
<1> QED BY <1>8 DEF n

\* A window of calls that were let pass, and no load among them, is not spent on RepeatLimit calls.
LEMMA WindowIsVaried ==
  ASSUME LimitsFit, NEW s \in Seq(Calls), Len(s) >= CycleWindow,
         \A k \in 1 .. Len(s) : LetPass(s, k),
         ToSet(LastOf(s, CycleWindow)) \cap LoadCalls = {}
  PROVE  Cardinality(ToSet(LastOf(s, CycleWindow))) > RepeatLimit
<1> DEFINE w == CycleWindow
           r == RepeatLimit
           len == Len(s)
           window == ToSet(LastOf(s, w))
<1>1. /\ w \in Nat /\ r \in {1, 2} /\ WriteLimit \in Nat \ {0} /\ len \in Nat
      /\ 2 * r <= w /\ WriteLimit + r <= w /\ w <= len
  BY DetectorAssumption, LenProperties DEF LimitsFit
<1>2. window = {s[i] : i \in (len - w + 1) .. len} /\ Len(LastOf(s, w)) = w
  BY <1>1, LastOnes
<1>3. IsFiniteSet(window) /\ Cardinality(window) \in Nat
  <2>1. LastOf(s, w) \in Seq(Calls)
    <3>1. \A i \in 1 .. len : s[i] \in Calls
      BY ElementOfSeq
    <3>2. (IF len > w THEN len - w ELSE 0) + 1 \in 1 .. (len + 1)
      BY <1>1
    <3> QED BY <1>1, <3>1, <3>2, SubSeqProperties DEF LastOf
  <2>2. IsFiniteSet((len - w + 1) .. len)
    BY <1>1, FS_Interval
  <2>3. IsFiniteSet({s[i] : i \in (len - w + 1) .. len})
    BY <2>2, PlacesAreFinite
  <2> QED BY <1>2, <2>3, FS_CardinalityType
<1>4. \A i \in (len - w + 1) .. len : /\ i \in 1 .. len /\ s[i] \in window
                                      /\ s[i] \notin LoadCalls /\ LetPass(s, i)
  BY <1>1, <1>2
<1>5. \A c : LimitFor(c) \in Nat \ {0} /\ LimitFor(c) + r <= w
  BY <1>1 DEF LimitFor
<1> DEFINE k == len - r
<1>6. k \in (len - w + 1) .. len /\ k \in Nat /\ k <= len
  BY <1>1
<1>7. PICK j \in (k - LimitFor(s[k]) + 1) .. k : s[j] # s[k]
  <2>1. LimitFor(s[k]) <= k
    BY <1>1, <1>5, <1>6
  <2> HIDE DEF k
  <2> QED BY <1>4, <1>6, <2>1, PassedDoesNotRepeat
<1>8. j \in (len - w + 1) .. len /\ j \in 1 .. k
  <2>1. LimitFor(s[k]) \in Nat /\ LimitFor(s[k]) + r <= w
    BY <1>5
  <2> HIDE DEF window
  <2> QED BY <1>1, <1>6, <1>7, <2>1
<1>9. k \in 1 .. k
  BY <1>1, <1>6
<1>10. s[k] \in window /\ s[j] \in window /\ s[j] # s[k]
  BY <1>4, <1>6, <1>7, <1>8
<1> DEFINE two == {s[j], s[k]}
<1>11. IsFiniteSet(two) /\ Cardinality(two) = 2 /\ two \in SUBSET window
  <2>1. IsFiniteSet({s[k]}) /\ Cardinality({s[k]}) = 1
    BY FS_Singleton
  <2>2. s[j] \notin {s[k]} /\ two = {s[k]} \cup {s[j]} /\ two \in SUBSET window
    BY <1>10
  <2>3. IsFiniteSet({s[k]} \cup {s[j]}) /\ Cardinality({s[k]} \cup {s[j]}) = 1 + 1
    <3> HIDE DEF k
    <3> QED BY <2>1, <2>2, FS_AddElement
  <2> HIDE DEF two, window
  <2> QED BY <2>2, <2>3
<1>12. Cardinality(two) <= Cardinality(window) /\ (Cardinality(window) = 2 => window = two)
  BY <1>3, <1>11, FS_Subset
<1> DEFINE older == SubSeq(s, 1, len - r)
<1>13. ToSet(older) = {s[i] : i \in 1 .. k}
  BY <1>6, FirstOnes DEF Upto
<1>14. two \subseteq ToSet(older)
  BY <1>8, <1>9, <1>13
<1>15. ASSUME Cardinality(window) <= r PROVE FALSE
  <2>1. r = 2 /\ Cardinality(window) = 2 /\ window = two
    BY <1>1, <1>3, <1>11, <1>12, <1>15
  <2>2. ToSet(LastOf(s, r)) \subseteq window
    <3>1. ToSet(LastOf(s, r)) = {s[i] : i \in (len - r + 1) .. len}
      BY <1>1, LastOnes, SMTT(30)
    <3>2. (len - r + 1) .. len \subseteq (len - w + 1) .. len
      BY <1>1
    <3> QED BY <1>2, <3>1, <3>2
  <2>3. ToSet(LastOf(s, r)) \subseteq ToSet(older)
    BY <1>14, <2>1, <2>2
  <2>4. Cycles(s)
    BY <1>1, <1>2, <1>15, <2>3 DEF Cycles
  <2>5. len \in (len - w + 1) .. len /\ Upto(s, len) = s
    BY <1>1, SubSeqFull DEF Upto
  <2>6. Verdict(s, LimitFor(s[len])) = "no"
    BY <1>4, <2>5 DEF LetPass
  <2>7. ~(len < LimitFor(s[len]))
    BY <1>1, <1>5
  <2> QED BY <2>4, <2>6, <2>7 DEF Verdict
<1> QED BY <1>1, <1>3, <1>15

\* What was let pass is not looked at again.
LEMMA AppendedPasses ==
  ASSUME NEW s \in Seq(Calls), NEW call \in Calls, NEW k \in 1 .. Len(s)
  PROVE  LetPass(Append(s, call), k) <=> LetPass(s, k)
<1>1. Append(s, call)[k] = s[k] /\ Len(s) \in Nat
  BY LenProperties
<1>2. Upto(Append(s, call), k) = Upto(s, k)
  BY DEF Upto
<1> QED BY <1>1, <1>2 DEF LetPass

LEMMA DetectorStep ==
  DetectorInv /\ [DetectorNext]_detectorVars => DetectorInv'
<1> SUFFICES ASSUME DetectorInv, [DetectorNext]_detectorVars
             PROVE  DetectorInv'
  OBVIOUS
<1>1. /\ sigs \in Seq(Calls) /\ Len(sigs) \in Nat /\ halted \in {"no", "repeat", "cycle"}
      /\ Len(sigs) <= MaxRecords /\ MaxRecords \in Nat
  BY DetectorAssumption, LenProperties DEF DetectorInv, DetectorTypeOK
<1>2. ASSUME NEW call \in Calls, Record(call)
      PROVE  DetectorInv'
  <2> DEFINE s == Append(sigs, call)
  <2>1. /\ halted = "no" /\ Len(sigs) < MaxRecords /\ sigs' = s
        /\ halted' = Verdict(s, LimitFor(call))
    BY <1>2 DEF Record
  <2>2. /\ s \in Seq(Calls) /\ Len(s) = Len(sigs) + 1 /\ s[Len(s)] = call
    BY <1>1, AppendProperties
  <2>3. Verdict(s, LimitFor(call)) \in {"no", "repeat", "cycle"}
    BY DEF Verdict
  <2>4. DetectorTypeOK'
    BY <1>1, <2>1, <2>2, <2>3 DEF DetectorTypeOK
  <2>5. halted' = "no" => \A k \in 1 .. Len(s) : LetPass(s, k)
    <3>1. ASSUME halted' = "no", NEW k \in 1 .. Len(s)
          PROVE  LetPass(s, k)
      <4>1. CASE k = Len(s)
        <5>1. Upto(s, Len(s)) = s
          BY <2>2, SubSeqFull DEF Upto
        <5> HIDE DEF s
        <5> QED BY <2>1, <2>2, <3>1, <4>1, <5>1 DEF LetPass
      <4>2. CASE k # Len(s)
        <5>1. k \in 1 .. Len(sigs)
          BY <1>1, <2>2, <4>2
        <5>2. LetPass(sigs, k)
          BY <2>1, <5>1 DEF DetectorInv, HaltInv
        <5> QED BY <1>1, <5>1, <5>2, AppendedPasses
      <4> QED BY <4>1, <4>2
    <3> QED BY <3>1
  <2> DEFINE len == Len(s)
  <2>6. ASSUME halted' # "no", RepeatLimit # 1, WriteLimit # 1
        PROVE  \E i \in 1 .. len - 1 : s[i] = s[len]
    <3>1. LimitFor(call) \in Nat /\ LimitFor(call) >= 2 /\ RepeatLimit \in Nat /\ RepeatLimit >= 2
      BY <2>6, DetectorAssumption DEF LimitFor
    <3>2. ~(len < LimitFor(call)) /\ (Repeats(s, LimitFor(call)) \/ Cycles(s))
      BY <2>1, <2>6 DEF Verdict
    <3> HIDE DEF s
    <3>3. CASE Repeats(s, LimitFor(call))
      <4> DEFINE n == LimitFor(call)
                 last == {s[i] : i \in (len - n + 1) .. len}
      <4>1. n <= len /\ Cardinality(last) = 1
        <5>1. n <= len /\ n \in Nat
          BY <1>1, <2>2, <3>1, <3>2
        <5> QED BY <2>2, <3>3, <5>1, LastOnes DEF Repeats
      <4>2. len - 1 \in (len - n + 1) .. len /\ len \in (len - n + 1) .. len /\ len - 1 \in 1 .. len - 1
        BY <1>1, <2>2, <3>1, <4>1
      <4>3. IsFiniteSet(last)
        <5>1. (len - n + 1) \in Int /\ len \in Int
          BY <1>1, <2>2, <3>1
        <5>2. IsFiniteSet((len - n + 1) .. len)
          <6> HIDE DEF len, n
          <6> QED BY <5>1, FS_Interval
        <5> QED BY <5>2, PlacesAreFinite
      <4>4. PICK x : last = {x}
        BY <4>1, <4>3, FS_Singleton
      <4>5. s[len - 1] \in last /\ s[len] \in last
        BY <4>2
      <4> HIDE DEF last
      <4> QED BY <4>2, <4>4, <4>5
    <3>4. CASE Cycles(s)
      <4> DEFINE r == RepeatLimit
      <4>1. /\ Len(LastOf(s, CycleWindow)) >= 2 * r
            /\ ToSet(LastOf(s, r)) \subseteq ToSet(SubSeq(s, 1, len - r))
        BY <3>4 DEF Cycles
      <4>2. Len(LastOf(s, CycleWindow)) <= len
        <5>1. /\ CycleWindow \in Nat /\ len \in Nat
              /\ \A i \in 1 .. len : s[i] \in Calls
          BY <1>1, <2>2, DetectorAssumption, ElementOfSeq
        <5> DEFINE m == (IF len > CycleWindow THEN len - CycleWindow ELSE 0) + 1
        <5>2. m \in Nat \ {0}
          BY <5>1
        <5>3. \A i \in m .. len : s[i] \in Calls
          BY <5>1, <5>2
        <5> HIDE DEF m
        <5>4. Len(SubSeq(s, m, len)) = IF m <= len THEN len - m + 1 ELSE 0
          BY <5>1, <5>2, <5>3, SubSeqProperties
        <5>5. LastOf(s, CycleWindow) = SubSeq(s, m, len)
          BY DEF LastOf, m
        <5> QED BY <5>1, <5>2, <5>4, <5>5
      <4>3. r \in Nat /\ r >= 2 /\ 2 * r <= len /\ len \in Nat
        <5>1. Len(LastOf(s, CycleWindow)) \in Int
          BY <4>2, DetectorAssumption, <2>2, LastOnes, <1>1
        <5> QED BY <1>1, <2>2, <3>1, <4>1, <4>2, <5>1
      <4>4. len \in (len - r + 1) .. len /\ len - r \in 0 .. len /\ len - r \in Nat
        BY <4>3
      <4>5. s[len] \in ToSet(LastOf(s, r))
        BY <2>2, <4>3, <4>4, LastOnes
      <4>6. ToSet(SubSeq(s, 1, len - r)) = {s[i] : i \in 1 .. (len - r)}
        BY <2>2, <4>4, FirstOnes DEF Upto
      <4>7. PICK i \in 1 .. (len - r) : s[len] = s[i]
        BY <4>1, <4>5, <4>6
      <4>8. i \in 1 .. len - 1
        BY <4>3
      <4> QED BY <4>7, <4>8
    <3> QED BY <3>2, <3>3, <3>4
  <2>7. NewCallNeverHalts'
    BY <2>1, <2>6 DEF NewCallNeverHalts
  <2> HIDE DEF s
  <2> QED BY <2>1, <2>4, <2>5, <2>7 DEF DetectorInv, HaltInv
<1>3. ASSUME NEW load \in LoadCalls, RecordRepeatLoad(load)
      PROVE  DetectorInv'
  <2> DEFINE s == Append(sigs, load)
  <2>1. /\ halted = "no" /\ halted' = "no" /\ Len(sigs) < MaxRecords /\ sigs' = s
        /\ load \in Calls
    BY <1>3 DEF RecordRepeatLoad, Calls
  <2>2. /\ s \in Seq(Calls) /\ Len(s) = Len(sigs) + 1 /\ s[Len(s)] = load
    BY <1>1, <2>1, AppendProperties
  <2>3. DetectorTypeOK'
    BY <1>1, <2>1, <2>2 DEF DetectorTypeOK
  <2>4. ASSUME NEW k \in 1 .. Len(s)
        PROVE  LetPass(s, k)
    <3>1. CASE k = Len(s)
      BY <2>2, <3>1 DEF LetPass
    <3>2. CASE k # Len(s)
      <4>1. k \in 1 .. Len(sigs)
        BY <1>1, <2>2, <3>2
      <4>2. LetPass(sigs, k)
        BY <2>1, <4>1 DEF DetectorInv, HaltInv
      <4> QED BY <1>1, <2>1, <4>1, <4>2, AppendedPasses
    <3> QED BY <3>1, <3>2
  <2>5. NewCallNeverHalts'
    BY <2>1 DEF NewCallNeverHalts
  <2> HIDE DEF s
  <2> QED BY <2>1, <2>3, <2>4, <2>5 DEF DetectorInv, HaltInv
<1>4. CASE UNCHANGED detectorVars
  BY <1>4 DEF detectorVars, DetectorInv, DetectorTypeOK, HaltInv, LetPass, NewCallNeverHalts
<1> QED BY <1>2, <1>3, <1>4 DEF DetectorNext

\* Unless one call is already a repeat, a call that is new to the goal never halts it; and with limits
\* that fit the window (LimitsFit), as the code's defaults do, a goal that goes on has not spent a whole
\* window on as few calls as a repeat (loop_detection.py), for any calls and any length of the history.
THEOREM StuckStops ==
  DetectorSpec => [](DetectorTypeOK /\ NewCallNeverHalts /\ StuckIsHalted)
<1>1. DetectorInit => DetectorInv
  <2>1. <<>> \in Seq(Calls) /\ Len(<<>>) = 0
    BY EmptySeq
  <2> QED BY <2>1, DetectorAssumption DEF DetectorInit, DetectorInv, DetectorTypeOK, HaltInv,
       NewCallNeverHalts
<1>2. DetectorInv /\ [DetectorNext]_detectorVars => DetectorInv'
  BY DetectorStep
<1>3. DetectorInv => DetectorTypeOK /\ NewCallNeverHalts /\ StuckIsHalted
  <2> SUFFICES ASSUME DetectorInv
               PROVE  DetectorTypeOK /\ NewCallNeverHalts /\ StuckIsHalted
    OBVIOUS
  <2>1. sigs \in Seq(Calls) /\ (halted = "no" => \A k \in 1 .. Len(sigs) : LetPass(sigs, k))
    BY DEF DetectorInv, DetectorTypeOK, HaltInv
  <2>2. StuckIsHalted
    BY <2>1, WindowIsVaried, SMTT(30) DEF StuckIsHalted
  <2> QED BY <2>2 DEF DetectorInv, HaltInv
<1> QED BY <1>1, <1>2, <1>3, PTL DEF DetectorSpec

-----------------------------------------------------------------------------
(* GoalHandler: what a goal has been told of its end, step by step.        *)

\* Nothing has been said of the goal.
Untold(g) ==
    /\ result[g] = "none" /\ doneStatus[g] = "none" /\ record[g] = "none"
    /\ g \notin unwritten

\* Which goal is where, and that only the one in _handle may have half of its reports.
HandledInv ==
    /\ waiting \intersect pendingGoals = {}
    /\ handling = NoGoal <=> hAt = "none"
    /\ hAt # "none" => handling \in pendingGoals
    /\ \A g \in waiting : Untold(g)
    /\ hAt \in {"begun", "running", "ran", "answering"} => Untold(handling)
    /\ hAt \in {"failing", "closing"} => doneStatus[handling] = "none" /\ record[handling] = "none"

\* What task_succeeded and the state's error say agrees with the result that is written.
VerdictInv ==
    /\ hAt \in {"begun", "running"} => ~succeeded
    /\ hAt \in {"ran", "answering"} /\ handling \in TaskGoals => succeeded
    /\ hAt = "failing" /\ handling \notin unwritten => ~succeeded
    /\ hAt \in {"closing", "done"} => result[handling] # "none" \/ handling \in unwritten
    /\ hAt = "closing" /\ handling \in TaskGoals /\ handling \notin unwritten =>
          (result[handling] = "ok") = Ended

MainInv == MainTypeOK /\ HandledInv /\ VerdictInv /\ AckedIsAnswered /\ ReportsAgree

\* Every action of the process keeps it: a result is written before the record and the publish
\* that repeat it.
LEMMA MainStep == MainInv /\ [MainNext]_mainVars => MainInv'
<1> SUFFICES ASSUME MainInv, [MainNext]_mainVars PROVE MainInv'
  OBVIOUS
<1> USE DEF MainInv, MainTypeOK, HandledInv, VerdictInv, AckedIsAnswered, ReportsAgree, Untold
<1>1. NoGoal \notin MainGoals /\ TaskGoals \intersect CompactGoals = {} /\ MaxMainFaults \in Nat /\ MainGoals = TaskGoals \cup CompactGoals
  BY MainAssumption DEF MainGoals
<1>2. ASSUME NEW g \in MainGoals, TakeGoal(g) PROVE MainInv'
  BY <1>1, <1>2 DEF TakeGoal, outcomeVars
<1>3. CASE Shutdown
  BY <1>1, <1>3 DEF Shutdown, outcomeVars, Ended
<1>4. CASE LoopEnds
  BY <1>1, <1>4 DEF LoopEnds, outcomeVars, Ended
<1>5. CASE StartProcess
  BY <1>1, <1>5 DEF StartProcess, outcomeVars, Ended
<1>6. CASE HandleCompact \/ HandleTask
  BY <1>1, <1>6 DEF HandleCompact, HandleTask, outcomeVars, streamVars
<1>7. ASSUME NEW broken \in BOOLEAN, RunTask(broken) PROVE MainInv'
  BY <1>1, <1>7 DEF RunTask, outcomeVars, streamVars
<1>8. ASSUME NEW punt \in BOOLEAN, RenderAnswer(punt) PROVE MainInv'
  BY <1>1, <1>8 DEF RenderAnswer, outcomeVars, streamVars
<1>9. CASE WriteAnswer
  BY <1>1, <1>9 DEF WriteAnswer, streamVars, Answer, Ended
<1>10. CASE WriteFailure
  BY <1>1, <1>10 DEF WriteFailure, streamVars, Ended
<1>11. ASSUME NEW recorded \in BOOLEAN, NEW emitted \in BOOLEAN, Close(recorded, emitted)
       PROVE  MainInv'
  BY <1>1, <1>11 DEF Close, streamVars, Ended
<1>12. CASE AckGoal
  <2>1. \A g \in MainGoals \ (waiting' \union pendingGoals') : result'[g] # "none" \/ g \in unwritten'
    BY <1>1, <1>12 DEF AckGoal, outcomeVars
  <2> QED BY <1>1, <1>12, <2>1 DEF AckGoal, outcomeVars
<1>13. CASE AckRaises
  <2>1. mainFaults' \in 0 .. MaxMainFaults
    BY <1>1, <1>13 DEF AckRaises, Faulty
  <2>2. HandledInv'
    BY <1>1, <1>13 DEF AckRaises, outcomeVars
  <2>3. VerdictInv'
    BY <1>1, <1>13 DEF AckRaises, outcomeVars
  <2>4. ReportsAgree' /\ AckedIsAnswered'
    BY <1>1, <1>13 DEF AckRaises, outcomeVars
  <2>5. MainTypeOK'
    BY <1>1, <2>1, <1>13 DEF AckRaises, outcomeVars
  <2> QED BY <2>1, <2>2, <2>3, <2>4, <2>5
<1>14. CASE MainCrash
  <2>1. mainFaults' \in 0 .. MaxMainFaults
    BY <1>1, <1>14 DEF MainCrash, Faulty
  <2>2. HandledInv'
    BY <1>1, <1>14 DEF MainCrash, outcomeVars
  <2>3. VerdictInv'
    BY <1>1, <1>14 DEF MainCrash, outcomeVars
  <2>4. ReportsAgree' /\ AckedIsAnswered'
    BY <1>1, <1>14 DEF MainCrash, outcomeVars
  <2>5. MainTypeOK'
    BY <1>1, <2>1, <1>14 DEF MainCrash, outcomeVars
  <2> QED BY <2>1, <2>2, <2>3, <2>4, <2>5
<1>15. ASSUME NEW st \in BOOLEAN, HandleRaises(st) PROVE MainInv'
  BY <1>1, <1>15 DEF HandleRaises, streamVars, Faulty, Answer
<1>16. ASSUME NEW st \in BOOLEAN, WriteFailureRaises(st) PROVE MainInv'
  BY <1>1, <1>16 DEF WriteFailureRaises, streamVars, Faulty
<1>17. CASE UNCHANGED mainVars
  BY <1>17 DEF mainVars, Ended
<1> QED BY <1>2, <1>3, <1>4, <1>5, <1>6, <1>7, <1>8, <1>9, <1>10, <1>11, <1>12, <1>13, <1>14,
           <1>15, <1>16, <1>17 DEF MainNext, HandleStep

\* Nothing is delivered, nothing is said.
LEMMA MainInitInv == MainInit => MainInv
<1>1. 0 \in 0 .. MaxMainFaults /\ NoGoal \notin MainGoals /\ TaskGoals \subseteq MainGoals
  BY MainAssumption DEF MainGoals
<1>2. MainInit => MainTypeOK
  BY <1>1 DEF MainInit, MainTypeOK
<1>3. MainInit => HandledInv /\ VerdictInv
  BY <1>1 DEF MainInit, HandledInv, VerdictInv, Untold
<1>4. MainInit => AckedIsAnswered /\ ReportsAgree
  BY <1>1 DEF MainInit, AckedIsAnswered, ReportsAgree
<1> QED BY <1>2, <1>3, <1>4 DEF MainInv

\* The invariant holds of every reachable state of the process.
LEMMA MainInvariant == MainSpec => []MainInv
<1> QED BY MainInitInv, MainStep, PTL DEF MainSpec

\* A goal that is acknowledged has a result, and its three reports agree, wherever a call raises
\* and however often the process dies (_handle, main.py).
THEOREM GoalsReported == MainSpec => [](MainTypeOK /\ AckedIsAnswered /\ ReportsAgree)
<1>1. MainInv => MainTypeOK /\ AckedIsAnswered /\ ReportsAgree
  BY DEF MainInv
<1> QED BY <1>1, MainInvariant, PTL

-----------------------------------------------------------------------------
(* OrchestratorRun: what is open, made and running at each step of run.    *)

RunInv ==
    /\ RunTypeOK
    /\ runStore = "open" <=> runAt \notin {"storage", "bridges", "over"}
    /\ runAt \in InLoop \union {"graph", "tasks"} => groupMade
    /\ runAt \in InLoop \union {"tasks"} => graphBuilt
    /\ runAt # "over" => \A b \in BridgeNames : bridges[b] # "ended"
    /\ runAt = "over" /\ ~runRaises => \A b \in BridgeNames : bridges[b] \in {"none", "ended"}
    /\ \A t \in SideTasks : background[t] \in {"asleep", "sweeping"} =>
          runAt \in InLoop \union {"compactor"} \/ (runAt = "curator" /\ t = "curator")

\* Faults and reflections stay within their bounds.
LEMMA RunCounted ==
  ASSUME RunInv
  PROVE  /\ RunFault => runFaults' \in 0 .. MaxRunFaults
         /\ Reflecting \/ ReflectionsWritten => reflections' \in 0 .. MaxReflections
         /\ 0 \in 0 .. MaxReflections
<1>1. /\ runFaults \in 0 .. MaxRunFaults /\ MaxRunFaults \in Nat
      /\ reflections \in 0 .. MaxReflections /\ MaxReflections \in Nat
  BY RunAssumption DEF RunInv, RunTypeOK
<1>2. RunFault => runFaults' \in 0 .. MaxRunFaults
  BY <1>1 DEF RunFault
<1>3. Reflecting => reflections' \in 0 .. MaxReflections
  BY DEF Reflecting
<1>4. ReflectionsWritten => reflections' \in 0 .. MaxReflections
  BY <1>1 DEF ReflectionsWritten
<1> QED BY <1>1, <1>2, <1>3, <1>4

\* Every step of run, raising or not, and the kill of the process keep it.
LEMMA RunStepKeeps == RunInv /\ [RunNext]_runVars => RunInv'
<1> SUFFICES ASSUME RunInv, [RunNext]_runVars PROVE RunInv'
  OBVIOUS
<1> USE DEF RunInv, RunTypeOK, InLoop, RunSteps, BridgeNames, SideTasks, RunStep
<1>1. MaxRunFaults \in Nat /\ MaxReflections \in Nat
  BY RunAssumption
<1>2. CASE StopSignal \/ OpenStorage \/ EnsureGroup \/ BuildAgent
  BY <1>1, <1>2 DEF StopSignal, OpenStorage, EnsureGroup, BuildAgent
<1>3. CASE StartTasks
  BY <1>1, <1>3 DEF StartTasks
<1>4. CASE StartRaises
  <2>1. runFaults' \in 0 .. MaxRunFaults
    BY <1>4, RunCounted DEF StartRaises
  <2> QED BY <1>1, <1>4, <2>1 DEF StartRaises
<1>5. ASSUME NEW b \in BridgeNames, StartBridge(b) PROVE RunInv'
  BY <1>1, <1>5 DEF StartBridge
<1>6. ASSUME NEW b \in BridgeNames, BridgeOpens(b) PROVE RunInv'
  BY <1>1, <1>6 DEF BridgeOpens
<1>7. ASSUME NEW b \in BridgeNames, BridgeAwaited(b) PROVE RunInv'
  BY <1>1, <1>7 DEF BridgeAwaited
<1>8. CASE LoopTurns
  BY <1>1, <1>8 DEF LoopTurns
<1>9. CASE GoalOver \/ ReflectionsWritten
  <2>1. reflections' \in 0 .. MaxReflections
    BY <1>9, RunCounted DEF GoalOver
  <2> QED BY <1>9, <2>1 DEF GoalOver, ReflectionsWritten
<1>10. CASE LeaveLoop
  <2>1. runFaults' \in 0 .. MaxRunFaults
    BY <1>10, RunCounted DEF LeaveLoop
  <2> QED BY <1>1, <1>10, <2>1 DEF LeaveLoop
<1>11. ASSUME NEW t \in SideTasks, TaskWakes(t) PROVE RunInv'
  BY <1>1, <1>11 DEF TaskWakes
<1>12. ASSUME NEW t \in SideTasks, TaskSleeps(t) PROVE RunInv'
  BY <1>1, <1>12 DEF TaskSleeps, Reflecting
<1>13. ASSUME NEW t \in SideTasks, EndTask(t) PROVE RunInv'
  BY <1>1, <1>13 DEF EndTask
<1>14. CASE CloseStorage
  <2>1. runFaults' \in 0 .. MaxRunFaults
    BY <1>14, RunCounted DEF CloseStorage
  <2> QED BY <1>1, <1>14, <2>1 DEF CloseStorage
<1>15. CASE ShutdownBridges
  BY <1>1, <1>15 DEF ShutdownBridges
<1>16. CASE Gone
  <2>1. runFaults' \in 0 .. MaxRunFaults
    BY <1>16, RunCounted DEF Gone
  <2>2. bridges' \in [BridgeNames -> {"none", "opening", "ready", "ended"}]
    BY <1>16 DEF Gone, NoBridges
  <2>3. background' \in [SideTasks -> {"none", "asleep", "sweeping", "ended"}]
    BY <1>16 DEF Gone, NoSideTasks
  <2>4. RunTypeOK'
    BY <1>16, <2>1, <2>2, <2>3, RunCounted DEF Gone
  <2> QED BY <1>16, <2>4 DEF Gone, NoBridges, NoSideTasks
<1>17. CASE UNCHANGED runVars
  BY <1>17 DEF runVars
<1> QED BY <1>2, <1>3, <1>4, <1>5, <1>6, <1>7, <1>8, <1>9, <1>10, <1>11, <1>12, <1>13, <1>14,
           <1>15, <1>16, <1>17 DEF RunNext

\* A process that has not begun holds nothing.
LEMMA RunInitInv == RunInit => RunInv
<1>1. 0 \in 0 .. MaxRunFaults /\ 0 \in 0 .. MaxReflections
  BY RunAssumption
<1>2. RunInit => RunTypeOK
  BY <1>1 DEF RunInit, RunTypeOK, RunSteps, InLoop, NoBridges, NoSideTasks
<1> QED BY <1>2 DEF RunInit, RunInv, InLoop, NoBridges, NoSideTasks

\* The invariant holds at every step of run.
LEMMA RunInvariant == RunSpec => []RunInv
<1> QED BY RunInitInv, RunStepKeeps, PTL DEF RunSpec

\* Whoever works finds open what it works with, and run ends what it started, for any number of
\* signals, raising steps and kills (run, main.py).
THEOREM RunKeepsOrder == RunSpec => [](RunTypeOK /\ RunInOrder)
<1>1. RunInv => RunTypeOK /\ RunInOrder
  BY DEF RunInv, RunTypeOK, RunInOrder, OpenWhileUsed, EndsWhatItStarted, InLoop, SideTasks,
         BridgeNames
<1> QED BY <1>1, RunInvariant, PTL

-----------------------------------------------------------------------------
(* CritiqueLoop: the best draft is the first of the highest score.         *)

\* bestDraft stands for the drafts evaluated so far.
BestKept ==
    /\ bestDraft.draft \in DOMAIN draftScores
    /\ draftScores[bestDraft.draft] = bestDraft.score
    /\ \A d \in DOMAIN draftScores :
           draftScores[d] < bestDraft.score
               \/ (draftScores[d] = bestDraft.score /\ bestDraft.draft <= d)

\* Before a draft is evaluated the ones before it were; the loop goes on below StopScore only.
CritiqueInv ==
    /\ CritiqueTypeOK
    /\ critic \in {"called", "scoring"} => draftScores = <<>>
    /\ critic \in {"called", "grounding", "evaluating"} => DOMAIN draftScores = {d \in DraftNumbers : d < revision}
    /\ critic \in {"called", "grounding", "evaluating"} /\ revision = 0 =>
          bestDraft = [draft |-> 0, score |-> 0]
    /\ critic \in {"deciding", "reflecting", "refining"} => DOMAIN draftScores = {d \in DraftNumbers : d <= revision}
    /\ critic \in {"grounding", "evaluating"} /\ revision > 0 => BestKept /\ bestDraft.score < StopScore
    /\ critic \in {"deciding", "reflecting", "refining"} => BestKept /\ bestDraft.score < StopScore
    /\ critic # "done" => handedBack.how = "nothing"
    /\ critic \in {"called", "scoring"} => revision = 0
    /\ revision < MaxIters
    /\ BestReturned

\* One more draft is evaluated, whatever its score.
LEMMA BestAfterEvaluation ==
  ASSUME CritiqueInv, critic = "evaluating", NEW score \in CriticScores,
         draftScores' = [d \in DOMAIN draftScores \union {revision} |->
                           IF d = revision THEN score ELSE draftScores[d]],
         KeepBest(revision, score)
  PROVE  /\ DOMAIN draftScores' = {d \in DraftNumbers : d <= revision}
         /\ \A d \in DOMAIN draftScores' : draftScores'[d] \in CriticScores
         /\ BestKept' /\ bestDraft' \in [draft : DraftNumbers, score : CriticScores]
         /\ score = StopScore => bestDraft'.draft = revision
         /\ score < StopScore => bestDraft'.score < StopScore
<1>1. /\ revision \in Nat /\ MaxIters \in Nat /\ revision < MaxIters /\ StopScore \in Nat
      /\ score \in 0 .. StopScore /\ bestDraft.score \in 0 .. StopScore /\ bestDraft.draft \in Nat
      /\ bestDraft \in [draft : DraftNumbers, score : CriticScores]
      /\ DOMAIN draftScores = {d \in DraftNumbers : d < revision}
      /\ \A d \in DOMAIN draftScores : draftScores[d] \in 0 .. StopScore
  BY CritiqueAssumption DEF CritiqueInv, CritiqueTypeOK, DraftNumbers, CriticScores
<1>2. DOMAIN draftScores' = {d \in DraftNumbers : d <= revision}
  BY <1>1 DEF DraftNumbers
<1>3. /\ draftScores'[revision] = score /\ revision \in DraftNumbers
      /\ \A d \in DOMAIN draftScores : draftScores'[d] = draftScores[d] /\ d < revision
  BY <1>1, <1>2 DEF DraftNumbers
<1>4. \A d \in DOMAIN draftScores' : d = revision \/ d \in DOMAIN draftScores
  BY <1>1, <1>2 DEF DraftNumbers
<1>5. bestDraft' = IF score > bestDraft.score THEN [draft |-> revision, score |-> score] ELSE bestDraft
  BY DEF KeepBest
<1>6. bestDraft' \in [draft : DraftNumbers, score : CriticScores]
  BY <1>1, <1>3, <1>5
<1>7. CASE revision = 0
  <2>1. bestDraft = [draft |-> 0, score |-> 0]
    BY <1>7 DEF CritiqueInv
  <2>2. bestDraft'.draft = 0 /\ bestDraft'.score = score
    BY <1>1, <1>5, <1>7, <2>1
  <2>3. \A d \in DOMAIN draftScores' : d = 0
    BY <1>1, <1>2, <1>7 DEF DraftNumbers
  <2>4. BestKept'
    BY <1>1, <1>2, <1>3, <1>7, <2>2, <2>3 DEF BestKept
  <2> QED BY <1>1, <1>2, <1>3, <1>4, <1>6, <1>7, <2>2, <2>4 DEF CriticScores
<1>8. CASE revision > 0
  <2>1. BestKept /\ bestDraft.score < StopScore
    BY <1>8 DEF CritiqueInv
  <2>2. CASE score > bestDraft.score
    <3>1. bestDraft'.draft = revision /\ bestDraft'.score = score
      BY <1>5, <2>2
    <3>2. BestKept'
      BY <1>1, <1>2, <1>3, <1>4, <2>1, <2>2, <3>1 DEF BestKept
    <3> QED BY <1>1, <1>2, <1>3, <1>4, <1>6, <3>1, <3>2 DEF CriticScores
  <2>3. CASE ~(score > bestDraft.score)
    <3>1. bestDraft' = bestDraft
      BY <1>5, <2>3
    <3>2. BestKept'
      BY <1>1, <1>2, <1>3, <1>4, <2>1, <2>3, <3>1 DEF BestKept
    <3> QED BY <1>1, <1>2, <1>3, <1>4, <1>6, <2>1, <2>3, <3>1, <3>2 DEF CriticScores
  <2> QED BY <2>2, <2>3
<1> QED BY <1>1, <1>7, <1>8

\* Every step of the loop keeps the first draft of the highest score as the best.
LEMMA CritiqueStep == CritiqueInv /\ [CritiqueNext]_critiqueVars => CritiqueInv'
<1> SUFFICES ASSUME CritiqueInv, [CritiqueNext]_critiqueVars PROVE CritiqueInv'
  OBVIOUS
<1>1. MaxIters \in Nat \ {0} /\ StopScore \in Nat /\ revision \in Nat /\ judgedDraft \in DraftNumbers
  BY CritiqueAssumption DEF CritiqueInv, CritiqueTypeOK, DraftNumbers
<1>2. CASE EvaluateDraft
  <2>1. PICK score \in CriticScores :
          /\ draftScores' = [d \in DOMAIN draftScores \union {revision} |->
                               IF d = revision THEN score ELSE draftScores[d]]
          /\ KeepBest(revision, score)
          /\ \/ critic' = "debating" /\ UNCHANGED handedBack
             \/ /\ critic' = "done"
                /\ handedBack' = [output |-> bestDraft'.draft, critique |-> revision,
                                  how |-> IF score = StopScore THEN "scored" ELSE "verdict"]
             \/ score < StopScore /\ critic' = "deciding" /\ UNCHANGED handedBack
    BY <1>2 DEF EvaluateDraft
  <2>2. critic = "evaluating" /\ judgedDraft' = revision /\ UNCHANGED <<revision, timeUp>>
    BY <1>2 DEF EvaluateDraft
  <2>3. /\ DOMAIN draftScores' = {d \in DraftNumbers : d <= revision}
        /\ \A d \in DOMAIN draftScores' : draftScores'[d] \in CriticScores
        /\ BestKept' /\ bestDraft' \in [draft : DraftNumbers, score : CriticScores]
        /\ score = StopScore => bestDraft'.draft = revision
        /\ score < StopScore => bestDraft'.score < StopScore
    BY <2>1, <2>2, BestAfterEvaluation
  <2>4. revision \in DraftNumbers /\ revision < MaxIters /\ DraftNumbers \subseteq 0 .. (MaxIters + 1)
    BY <1>1 DEF CritiqueInv, CritiqueTypeOK, DraftNumbers
  <2>5. bestDraft'.draft \in DraftNumbers
    BY <2>3
  <2>6. CritiqueTypeOK'
    <3>1. handedBack' \in [output : 0 .. (MaxIters + 1), critique : DraftNumbers,
                 how : {"nothing", "error", "scored", "verdict", "stopped", "debated"}]
      <4>1. CASE UNCHANGED handedBack
        BY <4>1 DEF CritiqueInv, CritiqueTypeOK
      <4>2. CASE handedBack' = [output |-> bestDraft'.draft, critique |-> revision,
                                how |-> IF score = StopScore THEN "scored" ELSE "verdict"]
        <5>1. bestDraft'.draft \in 0 .. (MaxIters + 1)
          BY <2>4, <2>5
        <5> QED BY <2>4, <4>2, <5>1
      <4> QED BY <2>1, <4>1, <4>2
    <3>2. judgedDraft' \in DraftNumbers /\ revision' \in DraftNumbers /\ DOMAIN draftScores' \subseteq DraftNumbers
      BY <2>2, <2>3, <2>4
    <3> QED BY <2>1, <2>2, <2>3, <3>1, <3>2 DEF CritiqueInv, CritiqueTypeOK
  <2>7. BestReturned'
    <3>1. CASE critic' = "done"
      <4>1. handedBack'.output = bestDraft'.draft /\ handedBack'.critique = revision
        BY <2>1, <2>2, <3>1 DEF CritiqueInv
      <4>2. handedBack'.how = "scored" => score = StopScore
        BY <2>1, <2>2, <3>1 DEF CritiqueInv
      <4> QED BY <2>3, <4>1, <4>2 DEF BestReturned, BestKept
    <3>2. CASE critic' # "done"
      BY <2>1, <2>2, <3>2 DEF BestReturned, CritiqueInv
    <3> QED BY <3>1, <3>2
  <2> QED BY <2>1, <2>2, <2>3, <2>4, <2>6, <2>7 DEF CritiqueInv
<1>3. CASE EnterCritique
  BY <1>1, <1>3 DEF EnterCritique, critiqueState, CritiqueInv, CritiqueTypeOK, BestKept,
     BestReturned
<1>4. CASE GroundWithSignals
  BY <1>1, <1>4 DEF GroundWithSignals, critiqueState, CritiqueInv, CritiqueTypeOK, BestKept,
     BestReturned
<1>5. CASE ClockRunsOut
  BY <1>1, <1>5 DEF ClockRunsOut, critiqueState, CritiqueInv, CritiqueTypeOK, BestKept,
     BestReturned
<1>6. CASE LearnLesson
  BY <1>1, <1>6 DEF LearnLesson, critiqueState, CritiqueInv, CritiqueTypeOK, BestKept,
     BestReturned
<1>7. CASE RunDebate
  BY <1>1, <1>7 DEF RunDebate, critiqueState, CritiqueInv, CritiqueTypeOK, BestKept,
     BestReturned
<1>8. CASE ScoreOnce
  BY <1>1, <1>8 DEF ScoreOnce, critiqueState, GiveBack, CritiqueInv, CritiqueTypeOK, BestKept,
     BestReturned, DraftNumbers
<1>9. CASE AffordRound
  BY <1>1, <1>9 DEF AffordRound, critiqueState, GiveBack, CritiqueInv, CritiqueTypeOK, BestKept,
     BestReturned, DraftNumbers
<1>10. CASE RefineDraft
  BY <1>1, <1>10 DEF RefineDraft, GiveBack, CritiqueInv, CritiqueTypeOK, BestKept, BestReturned,
     DraftNumbers
<1>11. CASE ReviseJudged \/ CritiqueRaises
  BY <1>1, <1>11 DEF ReviseJudged, CritiqueRaises, critiqueState, NoCritique, CritiqueInv,
     CritiqueTypeOK, BestReturned, DraftNumbers
<1>12. CASE UNCHANGED critiqueVars
  BY <1>12 DEF critiqueVars, CritiqueInv, CritiqueTypeOK, BestKept, BestReturned
<1> QED BY <1>2, <1>3, <1>4, <1>5, <1>6, <1>7, <1>8, <1>9, <1>10, <1>11, <1>12 DEF CritiqueNext

\* No draft is scored yet.
LEMMA CritiqueInitInv == CritiqueInit => CritiqueInv
<1>1. /\ 0 \in DraftNumbers /\ 0 \in CriticScores /\ 0 < MaxIters /\ 0 \in 0 .. (MaxIters + 1)
      /\ {d \in DraftNumbers : d < 0} = {}
  BY CritiqueAssumption DEF DraftNumbers, CriticScores
<1>2. DOMAIN <<>> = {}
  OBVIOUS
<1>3. CritiqueInit => CritiqueTypeOK
  <2>1. NoCritique \in [output : 0..(MaxIters + 1), critique : DraftNumbers,
                        how : {"nothing", "error", "scored", "verdict", "stopped", "debated"}]
    BY <1>1 DEF NoCritique
  <2>2. [draft |-> 0, score |-> 0] \in [draft : DraftNumbers, score : CriticScores]
    BY <1>1
  <2> QED BY <1>1, <1>2, <2>1, <2>2 DEF CritiqueInit, CritiqueTypeOK
<1> QED BY <1>1, <1>2, <1>3 DEF CritiqueInit, CritiqueInv, NoCritique, BestReturned

\* The invariant holds of every reachable state of the critique.
LEMMA CritiqueInvariant == CritiqueSpec => []CritiqueInv
<1> QED BY CritiqueInitInv, CritiqueStep, PTL DEF CritiqueSpec

\* Wherever the critique ends, it returns the first of its best drafts, for any number of rounds
\* and any scores (critique skill).
THEOREM BestDraftReturned == CritiqueSpec => [](CritiqueTypeOK /\ BestReturned)
<1>1. CritiqueInv => CritiqueTypeOK /\ BestReturned
  BY DEF CritiqueInv
<1> QED BY <1>1, CritiqueInvariant, PTL

-----------------------------------------------------------------------------
(* SkillRouting: what a goal has sent and shown at each place.             *)

RoutingInv ==
    /\ RoutingTypeOK
    /\ goalAt \in {"routing", "answering", "selecting", "breaking", "planning", "starting"} =>
          card.start = 0 /\ ~sent
    /\ goalAt \in {"calling", "closing", "judging"} => card.start = 1
    /\ goalAt \in {"closing", "judging"} => (reply = "result" => sent)
    /\ goalAt = "judging" => card.done = 1
    /\ goalAt \in {"planning", "starting", "calling", "closing", "judging"} => choice # NoVote
    /\ RunOrLoop

\* The catalog names the tier of each skill that has one.
LEMMA DiscoveredTiers ==
  ASSUME NEW files \in [Tiers -> SUBSET SkillNames] PROVE Discovered(files) \in [SkillNames -> 0..3]
<1> DEFINE With(s) == {t \in Tiers : s \in files[t]}
           first(s) == CHOOSE t \in With(s) : \A u \in With(s) : t <= u
<1>1. ASSUME NEW s \in SkillNames, With(s) # {} PROVE first(s) \in 0..3
  <2>1. \E t \in With(s) : \A u \in With(s) : t <= u
    BY <1>1 DEF Tiers
  <2>2. first(s) \in With(s)
    BY <2>1
  <2> QED BY <2>2 DEF Tiers
<1> HIDE DEF first
<1>2. Discovered(files) = [s \in SkillNames |-> IF With(s) = {} THEN 0 ELSE first(s)]
  BY DEF Discovered, first
<1> QED BY <1>1, <1>2

\* Every step of a goal keeps what it has sent and shown in line with where it is.
LEMMA RoutingStep == RoutingInv /\ [RoutingNext]_routingVars => RoutingInv'
<1> SUFFICES ASSUME RoutingInv, [RoutingNext]_routingVars PROVE RoutingInv'
  OBVIOUS
<1> USE DEF RoutingInv, RoutingTypeOK, RunOrLoop
<1>1. NoVote \notin SkillNames /\ PlanAttempts \in Nat /\ MaxReloads \in Nat
  BY RoutingAssumption
<1>2. CASE ReloadCatalog
  <2>1. tiers' \in [Tiers -> SUBSET SkillNames] /\ catalog' \in [SkillNames -> 0..3]
    BY <1>2, DiscoveredTiers DEF ReloadCatalog
  <2>2. reloads' \in 0..MaxReloads
    BY <1>1, <1>2 DEF ReloadCatalog
  <2> QED BY <1>2, <2>1, <2>2 DEF ReloadCatalog, running
<1>3. CASE RouteGoal \/ AnswerDirectly
  BY <1>3 DEF RouteGoal, AnswerDirectly, skillFiles, running
<1>4. CASE SelectSkill
  <2>1. /\ \/ goalAt' = "over" /\ goalOutcome' = "loop" /\ UNCHANGED choice
           \/ goalAt' = "planning" /\ choice' \in SkillNames /\ UNCHANGED goalOutcome
           \/ goalAt' = "breaking" /\ UNCHANGED <<choice, goalOutcome>>
        /\ goalAt = "selecting"
    <3>1. PICK votes \in Gathered :
            IF Hits(votes) = {} THEN goalAt' = "over" /\ goalOutcome' = "loop" /\ UNCHANGED choice
            ELSE IF Cardinality(Hits(votes)) = 1
            THEN goalAt' = "planning" /\ choice' \in Hits(votes) /\ UNCHANGED goalOutcome
            ELSE goalAt' = "breaking" /\ UNCHANGED <<choice, goalOutcome>>
      BY <1>4 DEF SelectSkill
    <3>2. Hits(votes) \subseteq SkillNames
      BY DEF Hits, Gathered, InCatalog
    <3> QED BY <1>4, <3>1, <3>2 DEF SelectSkill
  <2> QED BY <1>1, <1>4, <2>1 DEF SelectSkill, skillFiles, running
<1>5. CASE BreakTie
  BY <1>1, <1>5 DEF BreakTie, InCatalog, skillFiles, running
<1>6. CASE NoPlan
  BY <1>6 DEF NoPlan, skillFiles, running
<1>7. CASE PlanAttempt
  <2>1. tries' \in 0..PlanAttempts
    BY <1>1, <1>7 DEF PlanAttempt
  <2> QED BY <1>7, <2>1 DEF PlanAttempt, skillFiles
<1>8. CASE StartCard
  BY <1>8 DEF StartCard, skillFiles
<1>9. CASE CallSkill
  BY <1>9 DEF CallSkill, skillFiles, Replies
<1>10. CASE CloseCard
  BY <1>10 DEF CloseCard, skillFiles
<1>11. CASE JudgeReply
  BY <1>11 DEF JudgeReply, skillFiles, running
<1>12. CASE UNCHANGED routingVars
  BY <1>12 DEF routingVars
<1> QED BY <1>2, <1>3, <1>4, <1>5, <1>6, <1>7, <1>8, <1>9, <1>10, <1>11, <1>12 DEF RoutingNext

\* A goal starts without a card, with the catalog its files make.
LEMMA RoutingInitInv == RoutingInit => RoutingInv
<1>1. 0 \in 0..PlanAttempts /\ 0 \in 0..MaxReloads
  BY RoutingAssumption
<1>2. RoutingInit => catalog \in [SkillNames -> 0..3]
  BY DiscoveredTiers DEF RoutingInit
<1>3. RoutingInit => RoutingTypeOK
  <2>1. [start |-> 0, done |-> 0] \in [start : 0..1, done : 0..1]
    OBVIOUS
  <2> QED BY <1>1, <1>2, <2>1 DEF RoutingInit, RoutingTypeOK, Replies
<1> QED BY <1>3 DEF RoutingInit, RoutingInv, RunOrLoop

\* The invariant holds of every reachable state of a routed goal.
LEMMA RoutingInvariant == RoutingSpec => []RoutingInv
<1> QED BY RoutingInitInv, RoutingStep, PTL DEF RoutingSpec

\* A goal that ends in the loop has sent nothing and shown no card, and one that a skill took,
\* even if it failed before the task was queued, has shown one card from start to end, for any
\* catalog, votes, plans and reloads (SkillRouter.run, _run_skill_first).
THEOREM SkillRunsOrLoops == RoutingSpec => [](RoutingTypeOK /\ RunOrLoop)
<1>1. RoutingInv => RoutingTypeOK /\ RunOrLoop
  BY DEF RoutingInv
<1> QED BY <1>1, RoutingInvariant, PTL

-----------------------------------------------------------------------------
(* TestEvidence: what the text of a run says of what the run did.          *)

\* The summary counts what happened, and the exit status agrees unless the run was killed.
TextInv ==
    /\ what = "assertion" => via \in {"docker", "local"}
    /\ overtime => via # "shell"
    /\ stage \in {"asked", "running"} =>
          real = "nothing" /\ output = {} /\ ~exitZero /\ ~overtime
    /\ real = "green" /\ what = "tests" =>
          "passed" \in output /\ "failed" \notin output /\ "error" \notin output
    /\ real = "red" /\ what = "tests" => "failed" \in output \/ "error" \in output
    /\ exitZero => real = "green"
    /\ real = "green" /\ ~overtime => exitZero
    /\ "none" \in output => real = "nothing" /\ output \intersect Counts = {}

EvidenceInv == EvidenceTypeOK /\ TextInv /\ LegibleCredit

\* The loop's account: an attempt that is read as evidence, and is legible, gave some.
LEMMA JudgedRight ==
  ASSUME EvidenceInv, NEW read \in BOOLEAN, NEW kind, NEW clear \in BOOLEAN,
         Judge(read, kind, clear), clear /\ (read \/ (exposeBug /\ kind = "red")) => Gave
  PROVE  EvidenceInv'
<1>1. EvidenceTypeOK' /\ TextInv'
  BY DEF EvidenceInv, EvidenceTypeOK, TextInv, Judge, Gave
<1>2. LegibleCredit'
  BY DEF EvidenceInv, EvidenceTypeOK, LegibleCredit, Judge, Gave
<1> QED BY <1>1, <1>2 DEF EvidenceInv

\* What is read of a text that can be read: its exit status or its counts say what really ran.
LEMMA TextsTold ==
  ASSUME EvidenceInv, Readable
  PROVE  /\ exitZero => real = "green"
         /\ RunBashPassed(Content(exitZero, output)) /\ what = "tests" /\ via = "shell" =>
                real = "green"
         /\ PodPasses(output, overtime) /\ what = "tests" => real = "green"
         /\ Classify(Content(exitZero, output)) = "red" /\ what = "tests" => real = "red"
         /\ Classify(Content(PodPasses(output, overtime), output)) = "red" /\ what = "tests" =>
                real = "red"
<1> USE DEF EvidenceInv, TextInv, Readable, Words, Counts
<1>1. exitZero => real = "green"
  OBVIOUS
<1>2. real \in {"nothing", "green", "red"} /\ output \subseteq Counts \union Words
  BY DEF EvidenceTypeOK
<1>3. RunBashPassed(Content(exitZero, output)) /\ what = "tests" /\ via = "shell" => real = "green"
  BY <1>2 DEF RunBashPassed, Content
<1>4. PodPasses(output, overtime) /\ what = "tests" => real = "green"
  BY <1>2 DEF PodPasses, Fails
<1>5. Classify(Content(exitZero, output)) = "red" /\ what = "tests" => real = "red"
  BY <1>2 DEF Classify, Content
<1>6. Classify(Content(PodPasses(output, overtime), output)) = "red" /\ what = "tests" =>
          real = "red"
  BY <1>2 DEF Classify, Content, PodPasses, Fails
<1> QED BY <1>1, <1>3, <1>4, <1>5, <1>6

\* A step of the runner writes a text that says what happened.
LEMMA RunnerSteps ==
  ASSUME EvidenceInv,
         \/ \E w \in {"tests", "assertion"}, v \in {"client", "docker", "local", "shell"} :
                StartAttempt(w, v)
         \/ Launch \/ ProcessFails \/ SuiteEnds \/ NothingRuns \/ CodeEnds
         \/ ClientTimesOut \/ ProcessTimesOut \/ WaitRaises
  PROVE  EvidenceInv'
<1> USE DEF EvidenceInv, EvidenceTypeOK, TextInv, LegibleCredit, GoOn, Late, Words, Counts
<1>1. ASSUME NEW w \in {"tests", "assertion"}, NEW v \in {"client", "docker", "local", "shell"},
             StartAttempt(w, v)
      PROVE  EvidenceInv'
  <2>1. testRuns' \in 0 .. MaxTestRuns
    BY <1>1, EvidenceAssumption DEF StartAttempt
  <2> QED BY <1>1, <2>1 DEF StartAttempt
<1>2. CASE Launch
  BY <1>2 DEF Launch
<1>3. CASE SuiteEnds
  <2>1. PICK s \in (SUBSET Counts) \ {{}}, x \in {{}} \union {{w} : w \in Words \ {"none"}} :
          output' = s \union x /\ exitZero' = (s = {"passed"})
            /\ real' = IF s = {"passed"} THEN "green" ELSE "red"
    BY <1>3 DEF SuiteEnds
  <2>2. x \subseteq Words \ {"none"}
    OBVIOUS
  <2>3. s # {"passed"} => "failed" \in s \/ "error" \in s
    <3>1. s \in SUBSET Counts /\ s \notin {{}}
      BY Zenon
    <3>2. s # {}
      BY <3>1
    <3> QED BY <3>1, <3>2
  <2>4. /\ output' \subseteq Counts \union Words /\ "none" \notin output'
        /\ s = {"passed"} => "passed" \in output' /\ "failed" \notin output' /\ "error" \notin output'
        /\ s # {"passed"} => "failed" \in output' \/ "error" \in output'
    BY <2>1, <2>2, <2>3
  <2>5. stage' = "over" /\ UNCHANGED <<exposeBug, what, via, testsPassed, testRuns, earned, legible>>
    BY <1>3 DEF SuiteEnds
  <2>6. UNCHANGED overtime /\ stage = "running" /\ what = "tests"
    BY <1>3 DEF SuiteEnds
  <2>7. exitZero' \in BOOLEAN /\ real' \in {"green", "red"} /\ (exitZero' <=> real' = "green")
    BY <2>1
  <2> QED BY <2>1, <2>4, <2>5, <2>6, <2>7
<1>4. CASE NothingRuns
  BY <1>4 DEF NothingRuns
<1>5. CASE CodeEnds
  BY <1>5 DEF CodeEnds
<1>6. CASE ClientTimesOut
  BY <1>6 DEF ClientTimesOut
<1>7. CASE ProcessTimesOut
  BY <1>7 DEF ProcessTimesOut
<1>8. CASE WaitRaises
  BY <1>8 DEF WaitRaises
<1>9. CASE ProcessFails
  BY <1>9 DEF ProcessFails
<1> QED BY <1>1, <1>2, <1>3, <1>4, <1>5, <1>6, <1>7, <1>8, <1>9

\* Every answer is judged for what it is.
LEMMA AnswerSteps ==
  ASSUME EvidenceInv,
         \/ ClientRefuses \/ ShellRefuses \/ ContainerRaises \/ ShellTimesOut
         \/ ClientAnswers \/ SandboxAnswers \/ AssertionAnswers \/ ShellAnswers
         \/ AnswerLost \/ DispatchFails
  PROVE  EvidenceInv'
<1>1. exitZero \in BOOLEAN /\ overtime \in BOOLEAN
  BY DEF EvidenceInv, EvidenceTypeOK
<1>2. Readable \in BOOLEAN
  BY DEF Readable
<1>3. CASE ClientAnswers
  <2>1. RunTestsPassed(Content(exitZero, output)) \in BOOLEAN
    BY <1>1 DEF RunTestsPassed, Content
  <2>2. what = "tests"
    BY <1>3 DEF ClientAnswers, EvidenceInv, TextInv, EvidenceTypeOK
  <2>3. /\ Readable
        /\ \/ RunTestsPassed(Content(exitZero, output))
           \/ exposeBug /\ Classify(Content(exitZero, output)) = "red"
        => Gave
    BY <2>2, TextsTold DEF RunTestsPassed, Content, Gave
  <2> QED BY <1>2, <1>3, <2>1, <2>3, JudgedRight DEF ClientAnswers, JudgeTests
<1>4. CASE SandboxAnswers
  <2> DEFINE told == Content(PodPasses(output, overtime), output)
  <2>1. RunTestsPassed(told) \in BOOLEAN
    BY <1>1 DEF RunTestsPassed, Content, PodPasses
  <2>2. what = "tests"
    BY <1>4 DEF SandboxAnswers
  <2>3. Readable /\ (RunTestsPassed(told) \/ (exposeBug /\ Classify(told) = "red")) => Gave
    BY <2>2, TextsTold DEF RunTestsPassed, Content, Gave
  <2> QED BY <1>2, <1>4, <2>1, <2>3, JudgedRight DEF SandboxAnswers, JudgeTests
<1>5. CASE AssertionAnswers
  <2>1. Readable /\ (exitZero \/ (exposeBug /\ "unjudged" = "red")) => Gave
    BY TextsTold DEF Gave
  <2> QED BY <1>1, <1>2, <1>5, <2>1, JudgedRight DEF AssertionAnswers
<1>6. CASE ShellAnswers
  <2> DEFINE told == Content(exitZero, output)
  <2>1. RunBashPassed(told) \in BOOLEAN
    BY DEF RunBashPassed
  <2>2. what = "tests" /\ via = "shell"
    BY <1>6 DEF ShellAnswers, EvidenceInv, TextInv, EvidenceTypeOK
  <2>3. Readable /\ (RunBashPassed(told) \/ (exposeBug /\ Classify(told) = "red")) => Gave
    BY <2>2, TextsTold DEF Gave
  <2>4. Judge(RunBashPassed(told), Classify(told), Readable)
    BY <1>6 DEF ShellAnswers
  <2> HIDE DEF told
  <2> QED BY <1>2, <2>1, <2>3, <2>4, JudgedRight
<1>7. CASE AnswerLost
  BY <1>7, JudgedRight DEF AnswerLost
<1>8. CASE ShellRefuses \/ ShellTimesOut
  <2>1. Judge(FALSE, Classify(Plain({})), TRUE) /\ Classify(Plain({})) = "infra"
    BY <1>8 DEF ShellRefuses, ShellTimesOut, Classify, Plain
  <2> QED BY <2>1, JudgedRight
<1>9. CASE ClientRefuses
  <2>1. Judge(FALSE, Classify(Content(FALSE, {})), FALSE)
    BY <1>9 DEF ClientRefuses, JudgeTests, RunTestsPassed, Content
  <2> QED BY <2>1, JudgedRight
<1>10. CASE ContainerRaises
  <2>1. ASSUME NEW t \in {{}, {"marker"}}, JudgeTests(Content(FALSE, t), FALSE)
        PROVE  EvidenceInv'
    <3>1. Judge(FALSE, Classify(Content(FALSE, t)), FALSE)
      BY <2>1 DEF JudgeTests, RunTestsPassed, Content
    <3> QED BY <3>1, JudgedRight
  <2>2. CASE Judge(TRUE, "unjudged", FALSE)
    BY <2>2, JudgedRight
  <2> QED BY <1>10, <2>1, <2>2 DEF ContainerRaises
<1>11. CASE DispatchFails
  <2>1. ASSUME NEW t \in {{}, {"marker"}}, JudgeTests(Content(FALSE, t), t # {})
        PROVE  EvidenceInv'
    <3>1. Judge(FALSE, Classify(Content(FALSE, t)), t # {})
      BY <2>1 DEF JudgeTests, RunTestsPassed, Content
    <3>2. t # {} => Classify(Content(FALSE, t)) = "infra"
      BY DEF Classify, Content
    <3> QED BY <3>1, <3>2, JudgedRight
  <2>2. CASE Judge(FALSE, "unjudged", TRUE)
    BY <2>2, JudgedRight
  <2> QED BY <1>11, <2>1, <2>2 DEF DispatchFails
<1> QED BY <1>3, <1>4, <1>5, <1>6, <1>7, <1>8, <1>9, <1>10, <1>11

\* Together: every step of an attempt keeps the credit honest.
LEMMA EvidenceStep == EvidenceInv /\ [EvidenceNext]_evidenceVars => EvidenceInv'
<1> SUFFICES ASSUME EvidenceInv, [EvidenceNext]_evidenceVars PROVE EvidenceInv'
  OBVIOUS
<1>1. CASE UNCHANGED evidenceVars
  BY <1>1 DEF evidenceVars, EvidenceInv, EvidenceTypeOK, TextInv, LegibleCredit
<1>2. CASE EvidenceNext
  BY <1>2, RunnerSteps, AnswerSteps DEF EvidenceNext
<1> QED BY <1>1, <1>2

\* No attempt was made.
LEMMA EvidenceInitInv == EvidenceInit => EvidenceInv
<1>1. 0 \in 0..MaxTestRuns
  BY EvidenceAssumption
<1> QED BY <1>1 DEF EvidenceInit, EvidenceInv, EvidenceTypeOK, TextInv, LegibleCredit

\* The invariant holds of every reachable state of the attempts.
LEMMA EvidenceInvariant == EvidenceSpec => []EvidenceInv
<1> QED BY EvidenceInitInv, EvidenceStep, PTL DEF EvidenceSpec

\* As long as every answer could be read, the loop takes for verified only what was, for any
\* number of attempts by any executor (_run_tests_passed, _run_bash_passed).
THEOREM CreditIsHonest == EvidenceSpec => [](EvidenceTypeOK /\ LegibleCredit)
<1>1. EvidenceInv => EvidenceTypeOK /\ LegibleCredit
  BY DEF EvidenceInv
<1> QED BY <1>1, EvidenceInvariant, PTL
=============================================================================
