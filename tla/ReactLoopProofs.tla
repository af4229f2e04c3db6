-------------------------- MODULE ReactLoopProofs --------------------------
(***************************************************************************)
(* Proofs about ReactLoop, for every budget, nudge cap, number of attempts *)
(* and crashes.  TurnInv relates the running loop to the checkpoint it     *)
(* would be resumed from: the saved turn count is never ahead of the live  *)
(* one, and what a crash drops is accounted for in `lost`.  EvidenceInv    *)
(* carries the verification evidence through the checkpoint: a stored      *)
(* tests_passed is as real as a live one.                                  *)
(***************************************************************************)
EXTENDS ReactLoop, TLAPS

TurnInv ==
  /\ phase = "start" => turns <= SavedTurns + lost
  /\ phase # "start" => /\ turns <= absTurns + lost
                        /\ SavedTurns <= absTurns

EvidenceInv ==
  /\ PassedIsReal
  /\ cp.saved /\ cp.passed => work # "unverified"
  /\ OkIsEarned
  /\ NudgedBeforeAccepted

(* TypeOK in two parts: the flags, and the rest. *)
Flags ==
  /\ graceUsed \in BOOLEAN /\ cheap \in BOOLEAN
  /\ edited \in BOOLEAN /\ passed \in BOOLEAN /\ exposed \in BOOLEAN

Ranges ==
  /\ phase \in {"start", "top", "model", "tools", "end", "done"}
  /\ used \in 0 .. MaxTotal /\ absTurns \in 0 .. 2 * MaxTotal
  /\ nudges \in 0 .. MaxNudges /\ infra \in 0 .. MaxInfraErrors
  /\ known \subseteq {"skill", "analysis"}
  /\ calls \in 0 .. MaxCalls
  /\ attempt \in 1 .. MaxAttempts /\ crashes \in 0 .. MaxCrashes
  /\ turns \in Nat /\ lost \in Nat
  /\ work \in {"unverified", "verified", "stale"}

Records ==
  /\ cp \in Checkpoint \cup {NoCheckpoint}
  /\ result \in Results \cup {NoResult}

IInv == TypeOK /\ TurnInv /\ EvidenceInv

-----------------------------------------------------------------------------
(* A checkpoint and a result are not the "nothing" values.                 *)
LEMMA ResultKinds ==
  /\ \A c \in Checkpoint : /\ c.saved
                            /\ c.used \in 0 .. MaxTotal /\ c.abs \in 0 .. 2 * MaxTotal
                            /\ c.grace \in BOOLEAN /\ c.edited \in BOOLEAN
                            /\ c.passed \in BOOLEAN /\ c.nudges \in 0 .. MaxNudges
                            /\ c.skill \in BOOLEAN
  /\ ~NoCheckpoint.saved
  /\ NoResult \notin Results
  /\ \A u \in 0 .. MaxTotal, a \in 0 .. 2 * MaxTotal, n \in 0 .. MaxNudges,
        g, e, p, k \in BOOLEAN :
       [saved |-> TRUE, used |-> u, abs |-> a, grace |-> g, edited |-> e,
        passed |-> p, nudges |-> n, skill |-> k] \in Checkpoint
  /\ \A k \in {"finish", "answer", "cutoff", "loop", "cancel", "error"}, o, c \in BOOLEAN :
       /\ [kind |-> k, ok |-> o, claim |-> c] # NoResult
       /\ [kind |-> k, ok |-> o, claim |-> c] \in Results
<1>1. ASSUME NEW k, NEW o, NEW c
      PROVE  [kind |-> k, ok |-> o, claim |-> c] # NoResult
  <2>1. DOMAIN [kind |-> k, ok |-> o, claim |-> c] # DOMAIN NoResult
    <3>1. "ok" \in DOMAIN [kind |-> k, ok |-> o, claim |-> c]
      OBVIOUS
    <3>2. "ok" \notin DOMAIN NoResult
      BY DEF NoResult
    <3> QED BY <3>1, <3>2
  <2> QED BY <2>1
<1>2. \A r \in Results : r = [kind |-> r.kind, ok |-> r.ok, claim |-> r.claim]
  BY DEF Results
<1> QED
  BY <1>1, <1>2 DEF Checkpoint, NoCheckpoint, Results

(* Every step keeps the types: three lemmas, one for each part. *)
LEMMA FlagsStep == TypeOK /\ [Next]_vars => Flags'
<1>1. ASSUME TypeOK, Start
      PROVE  Flags'
  BY <1>1, LoopAssumption, ResultKinds
  DEF Start, Rehydrate, budget, evidence, Flags, TypeOK
<1>2. ASSUME TypeOK, Cancelled
      PROVE  Flags'
  BY <1>2, LoopAssumption, ResultKinds
  DEF Cancelled, Return, budget, evidence, Flags, TypeOK
<1>3. ASSUME TypeOK, DeadlineExceeded
      PROVE  Flags'
  BY <1>3, LoopAssumption, ResultKinds
  DEF DeadlineExceeded, Return, Credit, budget, evidence, Flags, TypeOK
<1>4. ASSUME TypeOK, CeilingReached
      PROVE  Flags'
  BY <1>4, LoopAssumption, ResultKinds
  DEF CeilingReached, Return, Credit, budget, evidence, Flags, TypeOK
<1>5. ASSUME TypeOK, BudgetExhausted
      PROVE  Flags'
  BY <1>5, LoopAssumption, ResultKinds
  DEF BudgetExhausted, Return, Credit, RecordTurn, budget, evidence, Flags,
      TypeOK
<1>6. ASSUME TypeOK, TakeTurn
      PROVE  Flags'
  BY <1>6, LoopAssumption, ResultKinds
  DEF TakeTurn, RecordTurn, ConsumeOrGrace, budget, evidence, Flags, TypeOK
<1>7. ASSUME TypeOK, Answer
      PROVE  Flags'
  BY <1>7, LoopAssumption, ResultKinds
  DEF Answer, Return, budget, evidence, Flags, TypeOK
<1>8. ASSUME TypeOK, CallTools
      PROVE  Flags'
  BY <1>8, LoopAssumption, ResultKinds
  DEF CallTools, budget, evidence, Flags, TypeOK
<1>9. ASSUME TypeOK, Fails
      PROVE  Flags'
  BY <1>9, LoopAssumption, ResultKinds
  DEF Fails, Return, budget, evidence, Flags, TypeOK
<1>10. ASSUME TypeOK, FinishDeferred
      PROVE  Flags'
  BY <1>10, LoopAssumption, ResultKinds
  DEF FinishDeferred, NextCall, MoreCalls, NeedsVerification, budget,
      evidence, Flags, TypeOK
<1>11. ASSUME TypeOK, FinishAccepted
      PROVE  Flags'
  BY <1>11, LoopAssumption, ResultKinds
  DEF FinishAccepted, Return, MoreCalls, NeedsVerification, InfraBlocked,
      FinishOk, budget, evidence, Flags, TypeOK
<1>12. ASSUME TypeOK, LoopDetected
      PROVE  Flags'
  BY <1>12, LoopAssumption, ResultKinds
  DEF LoopDetected, Return, MoreCalls, budget, evidence, Flags, TypeOK
<1>13. ASSUME TypeOK, LoadSkill
      PROVE  Flags'
  BY <1>13, LoopAssumption, ResultKinds
  DEF LoadSkill, NextCall, MoreCalls, Refund, budget, evidence, Flags, TypeOK
<1>14. ASSUME TypeOK, RepeatAnalysis
      PROVE  Flags'
  BY <1>14, LoopAssumption, ResultKinds
  DEF RepeatAnalysis, NextCall, MoreCalls, Refund, budget, evidence, Flags,
      TypeOK
<1>15. ASSUME TypeOK, CallSkillTool
      PROVE  Flags'
  BY <1>15, LoopAssumption, ResultKinds
  DEF CallSkillTool, NextCall, MoreCalls, budget, evidence, Flags, TypeOK
<1>16. ASSUME TypeOK, NEW outcome \in {"pass", "fail", "infra", "raised"}, RunTests(outcome)
      PROVE  Flags'
  BY <1>16, LoopAssumption, ResultKinds
  DEF RunTests, NextCall, MoreCalls, Verifies, InfraStreak, budget,
      evidence, Flags, TypeOK
<1>17. ASSUME TypeOK, NEW confirmed \in BOOLEAN, WriteFile(confirmed)
      PROVE  Flags'
  BY <1>17, LoopAssumption, ResultKinds
  DEF WriteFile, NextCall, MoreCalls, Edit, budget, evidence, Flags, TypeOK
<1>18. ASSUME TypeOK, NEW refundable \in BOOLEAN, OtherTool(refundable)
      PROVE  Flags'
  BY <1>18, LoopAssumption, ResultKinds
  DEF OtherTool, NextCall, MoreCalls, budget, evidence, Flags, TypeOK
<1>19. ASSUME TypeOK, ToolsDone
      PROVE  Flags'
  BY <1>19, LoopAssumption, ResultKinds
  DEF ToolsDone, budget, evidence, Flags, TypeOK
<1>20. ASSUME TypeOK, EndTurn
      PROVE  Flags'
  BY <1>20, LoopAssumption, ResultKinds
  DEF EndTurn, Refund, budget, evidence, Flags, TypeOK
<1>21. ASSUME TypeOK, Crash
      PROVE  Flags'
  BY <1>21, LoopAssumption, ResultKinds
  DEF Crash, FreshLocals, SavedTurns, budget, evidence, Flags, TypeOK
<1>22. ASSUME TypeOK, Retry
      PROVE  Flags'
  BY <1>22, LoopAssumption, ResultKinds
  DEF Retry, FreshLocals, budget, evidence, Flags, TypeOK
<1>23. ASSUME TypeOK, Finished
      PROVE  Flags'
  BY <1>23, LoopAssumption, ResultKinds
  DEF Finished, budget, evidence, vars, Flags, TypeOK
<1>24. ASSUME TypeOK, UNCHANGED vars
      PROVE  Flags'
  BY <1>24 DEF vars, budget, evidence, Flags, TypeOK
<1> QED
  BY <1>1, <1>2, <1>3, <1>4, <1>5, <1>6, <1>7, <1>8, <1>9, <1>10, <1>11,
     <1>12, <1>13, <1>14, <1>15, <1>16, <1>17, <1>18, <1>19, <1>20, <1>21,
     <1>22, <1>23, <1>24
  DEF Next, LoopNext, TopNext, ModelNext, ToolNext

LEMMA RangesStep == TypeOK /\ TurnInv /\ [Next]_vars => Ranges'
<1>1. ASSUME TypeOK, TurnInv, Start
      PROVE  Ranges'
  BY ZenonT(40), <1>1, LoopAssumption, ResultKinds
  DEF Start, Rehydrate, budget, evidence, Ranges, TypeOK, TurnInv, SavedTurns
<1>2. ASSUME TypeOK, TurnInv, Cancelled
      PROVE  Ranges'
  BY <1>2, LoopAssumption, ResultKinds
  DEF Cancelled, Return, budget, evidence, Ranges, TypeOK, TurnInv, SavedTurns
<1>3. ASSUME TypeOK, TurnInv, DeadlineExceeded
      PROVE  Ranges'
  BY <1>3, LoopAssumption, ResultKinds
  DEF DeadlineExceeded, Return, Credit, budget, evidence, Ranges, TypeOK,
      TurnInv, SavedTurns
<1>4. ASSUME TypeOK, TurnInv, CeilingReached
      PROVE  Ranges'
  BY <1>4, LoopAssumption, ResultKinds
  DEF CeilingReached, Return, Credit, budget, evidence, Ranges, TypeOK,
      TurnInv, SavedTurns
<1>5. ASSUME TypeOK, TurnInv, BudgetExhausted
      PROVE  Ranges'
  BY <1>5, LoopAssumption, ResultKinds
  DEF BudgetExhausted, Return, Credit, RecordTurn, budget, evidence, Ranges,
      TypeOK, TurnInv, SavedTurns
<1>6. ASSUME TypeOK, TurnInv, TakeTurn
      PROVE  Ranges'
  BY <1>6, LoopAssumption, ResultKinds
  DEF TakeTurn, RecordTurn, ConsumeOrGrace, budget, evidence, Ranges,
      TypeOK, TurnInv, SavedTurns
<1>7. ASSUME TypeOK, TurnInv, Answer
      PROVE  Ranges'
  BY <1>7, LoopAssumption, ResultKinds
  DEF Answer, Return, budget, evidence, Ranges, TypeOK, TurnInv, SavedTurns
<1>8. ASSUME TypeOK, TurnInv, CallTools
      PROVE  Ranges'
  BY <1>8, LoopAssumption, ResultKinds
  DEF CallTools, budget, evidence, Ranges, TypeOK, TurnInv, SavedTurns
<1>9. ASSUME TypeOK, TurnInv, Fails
      PROVE  Ranges'
  BY <1>9, LoopAssumption, ResultKinds
  DEF Fails, Return, budget, evidence, Ranges, TypeOK, TurnInv, SavedTurns
<1>10. ASSUME TypeOK, TurnInv, FinishDeferred
      PROVE  Ranges'
  BY <1>10, LoopAssumption, ResultKinds
  DEF FinishDeferred, NextCall, MoreCalls, NeedsVerification, budget,
      evidence, Ranges, TypeOK, TurnInv, SavedTurns
<1>11. ASSUME TypeOK, TurnInv, FinishAccepted
      PROVE  Ranges'
  BY <1>11, LoopAssumption, ResultKinds
  DEF FinishAccepted, Return, MoreCalls, NeedsVerification, InfraBlocked,
      FinishOk, budget, evidence, Ranges, TypeOK, TurnInv, SavedTurns
<1>12. ASSUME TypeOK, TurnInv, LoopDetected
      PROVE  Ranges'
  BY <1>12, LoopAssumption, ResultKinds
  DEF LoopDetected, Return, MoreCalls, budget, evidence, Ranges, TypeOK,
      TurnInv, SavedTurns
<1>13. ASSUME TypeOK, TurnInv, LoadSkill
      PROVE  Ranges'
  <2>1. used' \in 0 .. MaxTotal
    BY <1>13, LoopAssumption DEF LoadSkill, Refund, TypeOK
  <2>2. known' \subseteq {"skill", "analysis"}
    BY <1>13 DEF LoadSkill, TypeOK
  <2>3. calls' \in 0 .. MaxCalls
    BY <1>13, LoopAssumption DEF LoadSkill, NextCall, MoreCalls, TypeOK
  <2> QED
    BY <1>13, <2>1, <2>2, <2>3 DEF LoadSkill, Ranges, TypeOK, evidence
<1>14. ASSUME TypeOK, TurnInv, RepeatAnalysis
      PROVE  Ranges'
  BY <1>14, LoopAssumption, ResultKinds
  DEF RepeatAnalysis, NextCall, MoreCalls, Refund, budget, evidence, Ranges,
      TypeOK, TurnInv, SavedTurns
<1>15. ASSUME TypeOK, TurnInv, CallSkillTool
      PROVE  Ranges'
  BY <1>15, LoopAssumption, ResultKinds
  DEF CallSkillTool, NextCall, MoreCalls, budget, evidence, Ranges, TypeOK,
      TurnInv, SavedTurns
<1>16. ASSUME TypeOK, TurnInv, NEW outcome \in {"pass", "fail", "infra", "raised"}, RunTests(outcome)
      PROVE  Ranges'
  BY <1>16, LoopAssumption, ResultKinds
  DEF RunTests, NextCall, MoreCalls, Verifies, InfraStreak, budget,
      evidence, Ranges, TypeOK, TurnInv, SavedTurns
<1>17. ASSUME TypeOK, TurnInv, NEW confirmed \in BOOLEAN, WriteFile(confirmed)
      PROVE  Ranges'
  BY <1>17, LoopAssumption, ResultKinds
  DEF WriteFile, NextCall, MoreCalls, Edit, budget, evidence, Ranges,
      TypeOK, TurnInv, SavedTurns
<1>18. ASSUME TypeOK, TurnInv, NEW refundable \in BOOLEAN, OtherTool(refundable)
      PROVE  Ranges'
  BY <1>18, LoopAssumption, ResultKinds
  DEF OtherTool, NextCall, MoreCalls, budget, evidence, Ranges, TypeOK,
      TurnInv, SavedTurns
<1>19. ASSUME TypeOK, TurnInv, ToolsDone
      PROVE  Ranges'
  BY <1>19, LoopAssumption, ResultKinds
  DEF ToolsDone, budget, evidence, Ranges, TypeOK, TurnInv, SavedTurns
<1>20. ASSUME TypeOK, TurnInv, EndTurn
      PROVE  Ranges'
  BY <1>20, LoopAssumption, ResultKinds
  DEF EndTurn, Refund, budget, evidence, Ranges, TypeOK, TurnInv, SavedTurns
<1>21. ASSUME TypeOK, TurnInv, Crash
      PROVE  Ranges'
  BY <1>21, LoopAssumption, ResultKinds
  DEF Crash, FreshLocals, SavedTurns, budget, evidence, Ranges, TypeOK,
      TurnInv
<1>22. ASSUME TypeOK, TurnInv, Retry
      PROVE  Ranges'
  BY <1>22, LoopAssumption, ResultKinds
  DEF Retry, FreshLocals, budget, evidence, Ranges, TypeOK, TurnInv,
      SavedTurns
<1>23. ASSUME TypeOK, TurnInv, Finished
      PROVE  Ranges'
  BY <1>23, LoopAssumption, ResultKinds
  DEF Finished, budget, evidence, vars, Ranges, TypeOK, TurnInv, SavedTurns
<1>24. ASSUME TypeOK, TurnInv, UNCHANGED vars
      PROVE  Ranges'
  BY <1>24 DEF vars, budget, evidence, Ranges, TypeOK, TurnInv, SavedTurns
<1> QED
  BY <1>1, <1>2, <1>3, <1>4, <1>5, <1>6, <1>7, <1>8, <1>9, <1>10, <1>11,
     <1>12, <1>13, <1>14, <1>15, <1>16, <1>17, <1>18, <1>19, <1>20, <1>21,
     <1>22, <1>23, <1>24
  DEF Next, LoopNext, TopNext, ModelNext, ToolNext

LEMMA RecordsStep == TypeOK /\ [Next]_vars => Records'
<1>1. ASSUME TypeOK, Start
      PROVE  Records'
  BY <1>1, LoopAssumption, ResultKinds
  DEF Start, Rehydrate, budget, evidence, Records, TypeOK
<1>2. ASSUME TypeOK, Cancelled
      PROVE  Records'
  BY <1>2, LoopAssumption, ResultKinds
  DEF Cancelled, Return, budget, evidence, Records, TypeOK
<1>3. ASSUME TypeOK, DeadlineExceeded
      PROVE  Records'
  BY <1>3, LoopAssumption, ResultKinds
  DEF DeadlineExceeded, Return, Credit, budget, evidence, Records, TypeOK
<1>4. ASSUME TypeOK, CeilingReached
      PROVE  Records'
  BY <1>4, LoopAssumption, ResultKinds
  DEF CeilingReached, Return, Credit, budget, evidence, Records, TypeOK
<1>5. ASSUME TypeOK, BudgetExhausted
      PROVE  Records'
  BY <1>5, LoopAssumption, ResultKinds
  DEF BudgetExhausted, Return, Credit, RecordTurn, budget, evidence,
      Records, TypeOK
<1>6. ASSUME TypeOK, TakeTurn
      PROVE  Records'
  BY <1>6, LoopAssumption, ResultKinds
  DEF TakeTurn, RecordTurn, ConsumeOrGrace, budget, evidence, Records, TypeOK
<1>7. ASSUME TypeOK, Answer
      PROVE  Records'
  BY <1>7, LoopAssumption, ResultKinds
  DEF Answer, Return, budget, evidence, Records, TypeOK
<1>8. ASSUME TypeOK, CallTools
      PROVE  Records'
  BY <1>8, LoopAssumption, ResultKinds
  DEF CallTools, budget, evidence, Records, TypeOK
<1>9. ASSUME TypeOK, Fails
      PROVE  Records'
  BY <1>9, LoopAssumption, ResultKinds
  DEF Fails, Return, budget, evidence, Records, TypeOK
<1>10. ASSUME TypeOK, FinishDeferred
      PROVE  Records'
  BY <1>10, LoopAssumption, ResultKinds
  DEF FinishDeferred, NextCall, MoreCalls, NeedsVerification, budget,
      evidence, Records, TypeOK
<1>11. ASSUME TypeOK, FinishAccepted
      PROVE  Records'
  BY <1>11, LoopAssumption, ResultKinds
  DEF FinishAccepted, Return, MoreCalls, NeedsVerification, InfraBlocked,
      FinishOk, budget, evidence, Records, TypeOK
<1>12. ASSUME TypeOK, LoopDetected
      PROVE  Records'
  BY <1>12, LoopAssumption, ResultKinds
  DEF LoopDetected, Return, MoreCalls, budget, evidence, Records, TypeOK
<1>13. ASSUME TypeOK, LoadSkill
      PROVE  Records'
  BY <1>13, LoopAssumption, ResultKinds
  DEF LoadSkill, NextCall, MoreCalls, Refund, budget, evidence, Records,
      TypeOK
<1>14. ASSUME TypeOK, RepeatAnalysis
      PROVE  Records'
  BY <1>14, LoopAssumption, ResultKinds
  DEF RepeatAnalysis, NextCall, MoreCalls, Refund, budget, evidence,
      Records, TypeOK
<1>15. ASSUME TypeOK, CallSkillTool
      PROVE  Records'
  BY <1>15, LoopAssumption, ResultKinds
  DEF CallSkillTool, NextCall, MoreCalls, budget, evidence, Records, TypeOK
<1>16. ASSUME TypeOK, NEW outcome \in {"pass", "fail", "infra", "raised"}, RunTests(outcome)
      PROVE  Records'
  BY <1>16, LoopAssumption, ResultKinds
  DEF RunTests, NextCall, MoreCalls, Verifies, InfraStreak, budget,
      evidence, Records, TypeOK
<1>17. ASSUME TypeOK, NEW confirmed \in BOOLEAN, WriteFile(confirmed)
      PROVE  Records'
  BY <1>17, LoopAssumption, ResultKinds
  DEF WriteFile, NextCall, MoreCalls, Edit, budget, evidence, Records, TypeOK
<1>18. ASSUME TypeOK, NEW refundable \in BOOLEAN, OtherTool(refundable)
      PROVE  Records'
  BY <1>18, LoopAssumption, ResultKinds
  DEF OtherTool, NextCall, MoreCalls, budget, evidence, Records, TypeOK
<1>19. ASSUME TypeOK, ToolsDone
      PROVE  Records'
  BY <1>19, LoopAssumption, ResultKinds
  DEF ToolsDone, budget, evidence, Records, TypeOK
<1>20. ASSUME TypeOK, EndTurn
      PROVE  Records'
  <2>1. used' \in 0 .. MaxTotal
    BY <1>20, LoopAssumption DEF EndTurn, Refund, TypeOK
  <2>2. ("skill" \in known) \in BOOLEAN
    OBVIOUS
  <2>3. [saved |-> TRUE, used |-> used', abs |-> absTurns, grace |-> graceUsed,
         edited |-> edited, passed |-> passed, nudges |-> nudges,
         skill |-> "skill" \in known] \in Checkpoint
    BY <1>20, <2>1, <2>2 DEF TypeOK, Checkpoint
  <2>4. cp' \in Checkpoint \cup {NoCheckpoint}
    BY <1>20, <2>3 DEF EndTurn, TypeOK
  <2> QED
    BY <1>20, <2>4 DEF EndTurn, Records, TypeOK
<1>21. ASSUME TypeOK, Crash
      PROVE  Records'
  BY <1>21, LoopAssumption, ResultKinds
  DEF Crash, FreshLocals, SavedTurns, budget, evidence, Records, TypeOK
<1>22. ASSUME TypeOK, Retry
      PROVE  Records'
  BY <1>22, LoopAssumption, ResultKinds
  DEF Retry, FreshLocals, budget, evidence, Records, TypeOK
<1>23. ASSUME TypeOK, Finished
      PROVE  Records'
  BY <1>23, LoopAssumption, ResultKinds
  DEF Finished, budget, evidence, vars, Records, TypeOK
<1>24. ASSUME TypeOK, UNCHANGED vars
      PROVE  Records'
  BY <1>24 DEF vars, budget, evidence, Records, TypeOK
<1> QED
  BY <1>1, <1>2, <1>3, <1>4, <1>5, <1>6, <1>7, <1>8, <1>9, <1>10, <1>11,
     <1>12, <1>13, <1>14, <1>15, <1>16, <1>17, <1>18, <1>19, <1>20, <1>21,
     <1>22, <1>23, <1>24
  DEF Next, LoopNext, TopNext, ModelNext, ToolNext

(* The saved turn count is never ahead; a crash's loss is recorded. *)
LEMMA TurnStep == TypeOK /\ TurnInv /\ [Next]_vars => TurnInv'
<1>1. ASSUME TypeOK, TurnInv, Start
      PROVE  TurnInv'
  BY <1>1, LoopAssumption, ResultKinds
  DEF Start, Rehydrate, budget, evidence, TurnInv, SavedTurns, TypeOK
<1>2. ASSUME TypeOK, TurnInv, Cancelled
      PROVE  TurnInv'
  BY <1>2, LoopAssumption, ResultKinds
  DEF Cancelled, Return, budget, evidence, TurnInv, SavedTurns, TypeOK
<1>3. ASSUME TypeOK, TurnInv, DeadlineExceeded
      PROVE  TurnInv'
  BY <1>3, LoopAssumption, ResultKinds
  DEF DeadlineExceeded, Return, Credit, budget, evidence, TurnInv,
      SavedTurns, TypeOK
<1>4. ASSUME TypeOK, TurnInv, CeilingReached
      PROVE  TurnInv'
  BY <1>4, LoopAssumption, ResultKinds
  DEF CeilingReached, Return, Credit, budget, evidence, TurnInv, SavedTurns,
      TypeOK
<1>5. ASSUME TypeOK, TurnInv, BudgetExhausted
      PROVE  TurnInv'
  BY <1>5, LoopAssumption, ResultKinds
  DEF BudgetExhausted, Return, Credit, RecordTurn, budget, evidence,
      TurnInv, SavedTurns, TypeOK
<1>6. ASSUME TypeOK, TurnInv, TakeTurn
      PROVE  TurnInv'
  BY <1>6, LoopAssumption, ResultKinds
  DEF TakeTurn, RecordTurn, ConsumeOrGrace, budget, evidence, TurnInv,
      SavedTurns, TypeOK
<1>7. ASSUME TypeOK, TurnInv, Answer
      PROVE  TurnInv'
  BY <1>7, LoopAssumption, ResultKinds
  DEF Answer, Return, budget, evidence, TurnInv, SavedTurns, TypeOK
<1>8. ASSUME TypeOK, TurnInv, CallTools
      PROVE  TurnInv'
  BY <1>8, LoopAssumption, ResultKinds
  DEF CallTools, budget, evidence, TurnInv, SavedTurns, TypeOK
<1>9. ASSUME TypeOK, TurnInv, Fails
      PROVE  TurnInv'
  BY <1>9, LoopAssumption, ResultKinds
  DEF Fails, Return, budget, evidence, TurnInv, SavedTurns, TypeOK
<1>10. ASSUME TypeOK, TurnInv, FinishDeferred
      PROVE  TurnInv'
  BY <1>10, LoopAssumption, ResultKinds
  DEF FinishDeferred, NextCall, MoreCalls, NeedsVerification, budget,
      evidence, TurnInv, SavedTurns, TypeOK
<1>11. ASSUME TypeOK, TurnInv, FinishAccepted
      PROVE  TurnInv'
  BY <1>11, LoopAssumption, ResultKinds
  DEF FinishAccepted, Return, MoreCalls, NeedsVerification, InfraBlocked,
      FinishOk, budget, evidence, TurnInv, SavedTurns, TypeOK
<1>12. ASSUME TypeOK, TurnInv, LoopDetected
      PROVE  TurnInv'
  BY <1>12, LoopAssumption, ResultKinds
  DEF LoopDetected, Return, MoreCalls, budget, evidence, TurnInv,
      SavedTurns, TypeOK
<1>13. ASSUME TypeOK, TurnInv, LoadSkill
      PROVE  TurnInv'
  BY <1>13, LoopAssumption, ResultKinds
  DEF LoadSkill, NextCall, MoreCalls, Refund, budget, evidence, TurnInv,
      SavedTurns, TypeOK
<1>14. ASSUME TypeOK, TurnInv, RepeatAnalysis
      PROVE  TurnInv'
  BY <1>14, LoopAssumption, ResultKinds
  DEF RepeatAnalysis, NextCall, MoreCalls, Refund, budget, evidence,
      TurnInv, SavedTurns, TypeOK
<1>15. ASSUME TypeOK, TurnInv, CallSkillTool
      PROVE  TurnInv'
  BY <1>15, LoopAssumption, ResultKinds
  DEF CallSkillTool, NextCall, MoreCalls, budget, evidence, TurnInv,
      SavedTurns, TypeOK
<1>16. ASSUME TypeOK, TurnInv, NEW outcome \in {"pass", "fail", "infra", "raised"}, RunTests(outcome)
      PROVE  TurnInv'
  BY <1>16, LoopAssumption, ResultKinds
  DEF RunTests, NextCall, MoreCalls, Verifies, InfraStreak, budget,
      evidence, TurnInv, SavedTurns, TypeOK
<1>17. ASSUME TypeOK, TurnInv, NEW confirmed \in BOOLEAN, WriteFile(confirmed)
      PROVE  TurnInv'
  BY <1>17, LoopAssumption, ResultKinds
  DEF WriteFile, NextCall, MoreCalls, Edit, budget, evidence, TurnInv,
      SavedTurns, TypeOK
<1>18. ASSUME TypeOK, TurnInv, NEW refundable \in BOOLEAN, OtherTool(refundable)
      PROVE  TurnInv'
  BY <1>18, LoopAssumption, ResultKinds
  DEF OtherTool, NextCall, MoreCalls, budget, evidence, TurnInv, SavedTurns,
      TypeOK
<1>19. ASSUME TypeOK, TurnInv, ToolsDone
      PROVE  TurnInv'
  BY <1>19, LoopAssumption, ResultKinds
  DEF ToolsDone, budget, evidence, TurnInv, SavedTurns, TypeOK
<1>20. ASSUME TypeOK, TurnInv, EndTurn
      PROVE  TurnInv'
  BY <1>20, LoopAssumption, ResultKinds
  DEF EndTurn, Refund, budget, evidence, TurnInv, SavedTurns, TypeOK
<1>21. ASSUME TypeOK, TurnInv, Crash
      PROVE  TurnInv'
  BY <1>21, LoopAssumption, ResultKinds
  DEF Crash, FreshLocals, SavedTurns, budget, evidence, TurnInv, TypeOK
<1>22. ASSUME TypeOK, TurnInv, Retry
      PROVE  TurnInv'
  BY <1>22, LoopAssumption, ResultKinds
  DEF Retry, FreshLocals, budget, evidence, TurnInv, SavedTurns, TypeOK
<1>23. ASSUME TypeOK, TurnInv, Finished
      PROVE  TurnInv'
  BY <1>23, LoopAssumption, ResultKinds
  DEF Finished, budget, evidence, vars, TurnInv, SavedTurns, TypeOK
<1>24. ASSUME TypeOK, TurnInv, UNCHANGED vars
      PROVE  TurnInv'
  BY <1>24 DEF vars, budget, evidence, TurnInv, SavedTurns, TypeOK
<1> QED
  BY <1>1, <1>2, <1>3, <1>4, <1>5, <1>6, <1>7, <1>8, <1>9, <1>10, <1>11,
     <1>12, <1>13, <1>14, <1>15, <1>16, <1>17, <1>18, <1>19, <1>20, <1>21,
     <1>22, <1>23, <1>24
  DEF Next, LoopNext, TopNext, ModelNext, ToolNext

(* Evidence of a verification is never invented. *)
LEMMA EvidenceStep == TypeOK /\ EvidenceInv /\ [Next]_vars => EvidenceInv'
<1>1. ASSUME TypeOK, EvidenceInv, Start
      PROVE  EvidenceInv'
  BY <1>1, LoopAssumption, ResultKinds
  DEF Start, Rehydrate, budget, evidence, EvidenceInv, PassedIsReal,
      OkIsEarned, NudgedBeforeAccepted, TypeOK
<1>2. ASSUME TypeOK, EvidenceInv, Cancelled
      PROVE  EvidenceInv'
  BY <1>2, LoopAssumption, ResultKinds
  DEF Cancelled, Return, budget, evidence, EvidenceInv, PassedIsReal,
      OkIsEarned, NudgedBeforeAccepted, TypeOK
<1>3. ASSUME TypeOK, EvidenceInv, DeadlineExceeded
      PROVE  EvidenceInv'
  BY <1>3, LoopAssumption, ResultKinds
  DEF DeadlineExceeded, Return, Credit, budget, evidence, EvidenceInv,
      PassedIsReal, OkIsEarned, NudgedBeforeAccepted, TypeOK
<1>4. ASSUME TypeOK, EvidenceInv, CeilingReached
      PROVE  EvidenceInv'
  BY <1>4, LoopAssumption, ResultKinds
  DEF CeilingReached, Return, Credit, budget, evidence, EvidenceInv,
      PassedIsReal, OkIsEarned, NudgedBeforeAccepted, TypeOK
<1>5. ASSUME TypeOK, EvidenceInv, BudgetExhausted
      PROVE  EvidenceInv'
  BY <1>5, LoopAssumption, ResultKinds
  DEF BudgetExhausted, Return, Credit, RecordTurn, budget, evidence,
      EvidenceInv, PassedIsReal, OkIsEarned, NudgedBeforeAccepted, TypeOK
<1>6. ASSUME TypeOK, EvidenceInv, TakeTurn
      PROVE  EvidenceInv'
  BY <1>6, LoopAssumption, ResultKinds
  DEF TakeTurn, RecordTurn, ConsumeOrGrace, budget, evidence, EvidenceInv,
      PassedIsReal, OkIsEarned, NudgedBeforeAccepted, TypeOK
<1>7. ASSUME TypeOK, EvidenceInv, Answer
      PROVE  EvidenceInv'
  BY <1>7, LoopAssumption, ResultKinds
  DEF Answer, Return, budget, evidence, EvidenceInv, PassedIsReal,
      OkIsEarned, NudgedBeforeAccepted, TypeOK
<1>8. ASSUME TypeOK, EvidenceInv, CallTools
      PROVE  EvidenceInv'
  BY <1>8, LoopAssumption, ResultKinds
  DEF CallTools, budget, evidence, EvidenceInv, PassedIsReal, OkIsEarned,
      NudgedBeforeAccepted, TypeOK
<1>9. ASSUME TypeOK, EvidenceInv, Fails
      PROVE  EvidenceInv'
  BY <1>9, LoopAssumption, ResultKinds
  DEF Fails, Return, budget, evidence, EvidenceInv, PassedIsReal,
      OkIsEarned, NudgedBeforeAccepted, TypeOK
<1>10. ASSUME TypeOK, EvidenceInv, FinishDeferred
      PROVE  EvidenceInv'
  BY <1>10, LoopAssumption, ResultKinds
  DEF FinishDeferred, NextCall, MoreCalls, NeedsVerification, budget,
      evidence, EvidenceInv, PassedIsReal, OkIsEarned, NudgedBeforeAccepted,
      TypeOK
<1>11. ASSUME TypeOK, EvidenceInv, FinishAccepted
      PROVE  EvidenceInv'
  BY <1>11, LoopAssumption, ResultKinds
  DEF FinishAccepted, Return, MoreCalls, NeedsVerification, InfraBlocked,
      FinishOk, budget, evidence, EvidenceInv, PassedIsReal, OkIsEarned,
      NudgedBeforeAccepted, TypeOK
<1>12. ASSUME TypeOK, EvidenceInv, LoopDetected
      PROVE  EvidenceInv'
  BY <1>12, LoopAssumption, ResultKinds
  DEF LoopDetected, Return, MoreCalls, budget, evidence, EvidenceInv,
      PassedIsReal, OkIsEarned, NudgedBeforeAccepted, TypeOK
<1>13. ASSUME TypeOK, EvidenceInv, LoadSkill
      PROVE  EvidenceInv'
  BY <1>13, LoopAssumption, ResultKinds
  DEF LoadSkill, NextCall, MoreCalls, Refund, budget, evidence, EvidenceInv,
      PassedIsReal, OkIsEarned, NudgedBeforeAccepted, TypeOK
<1>14. ASSUME TypeOK, EvidenceInv, RepeatAnalysis
      PROVE  EvidenceInv'
  BY <1>14, LoopAssumption, ResultKinds
  DEF RepeatAnalysis, NextCall, MoreCalls, Refund, budget, evidence,
      EvidenceInv, PassedIsReal, OkIsEarned, NudgedBeforeAccepted, TypeOK
<1>15. ASSUME TypeOK, EvidenceInv, CallSkillTool
      PROVE  EvidenceInv'
  BY <1>15, LoopAssumption, ResultKinds
  DEF CallSkillTool, NextCall, MoreCalls, budget, evidence, EvidenceInv,
      PassedIsReal, OkIsEarned, NudgedBeforeAccepted, TypeOK
<1>16. ASSUME TypeOK, EvidenceInv, NEW outcome \in {"pass", "fail", "infra", "raised"}, RunTests(outcome)
      PROVE  EvidenceInv'
  BY <1>16, LoopAssumption, ResultKinds
  DEF RunTests, NextCall, MoreCalls, Verifies, InfraStreak, budget,
      evidence, EvidenceInv, PassedIsReal, OkIsEarned, NudgedBeforeAccepted,
      TypeOK
<1>17. ASSUME TypeOK, EvidenceInv, NEW confirmed \in BOOLEAN, WriteFile(confirmed)
      PROVE  EvidenceInv'
  BY <1>17, LoopAssumption, ResultKinds
  DEF WriteFile, NextCall, MoreCalls, Edit, budget, evidence, EvidenceInv,
      PassedIsReal, OkIsEarned, NudgedBeforeAccepted, TypeOK
<1>18. ASSUME TypeOK, EvidenceInv, NEW refundable \in BOOLEAN, OtherTool(refundable)
      PROVE  EvidenceInv'
  BY <1>18, LoopAssumption, ResultKinds
  DEF OtherTool, NextCall, MoreCalls, budget, evidence, EvidenceInv,
      PassedIsReal, OkIsEarned, NudgedBeforeAccepted, TypeOK
<1>19. ASSUME TypeOK, EvidenceInv, ToolsDone
      PROVE  EvidenceInv'
  BY <1>19, LoopAssumption, ResultKinds
  DEF ToolsDone, budget, evidence, EvidenceInv, PassedIsReal, OkIsEarned,
      NudgedBeforeAccepted, TypeOK
<1>20. ASSUME TypeOK, EvidenceInv, EndTurn
      PROVE  EvidenceInv'
  BY <1>20, LoopAssumption, ResultKinds
  DEF EndTurn, Refund, budget, evidence, EvidenceInv, PassedIsReal,
      OkIsEarned, NudgedBeforeAccepted, TypeOK
<1>21. ASSUME TypeOK, EvidenceInv, Crash
      PROVE  EvidenceInv'
  BY <1>21, LoopAssumption, ResultKinds
  DEF Crash, FreshLocals, SavedTurns, budget, evidence, EvidenceInv,
      PassedIsReal, OkIsEarned, NudgedBeforeAccepted, TypeOK
<1>22. ASSUME TypeOK, EvidenceInv, Retry
      PROVE  EvidenceInv'
  BY <1>22, LoopAssumption, ResultKinds
  DEF Retry, FreshLocals, budget, evidence, EvidenceInv, PassedIsReal,
      OkIsEarned, NudgedBeforeAccepted, TypeOK
<1>23. ASSUME TypeOK, EvidenceInv, Finished
      PROVE  EvidenceInv'
  BY <1>23, LoopAssumption, ResultKinds
  DEF Finished, budget, evidence, vars, EvidenceInv, PassedIsReal,
      OkIsEarned, NudgedBeforeAccepted, TypeOK
<1>24. ASSUME TypeOK, EvidenceInv, UNCHANGED vars
      PROVE  EvidenceInv'
  BY <1>24 DEF vars, budget, evidence, EvidenceInv, PassedIsReal, OkIsEarned, NudgedBeforeAccepted, TypeOK
<1> QED
  BY <1>1, <1>2, <1>3, <1>4, <1>5, <1>6, <1>7, <1>8, <1>9, <1>10, <1>11,
     <1>12, <1>13, <1>14, <1>15, <1>16, <1>17, <1>18, <1>19, <1>20, <1>21,
     <1>22, <1>23, <1>24
  DEF Next, LoopNext, TopNext, ModelNext, ToolNext

-----------------------------------------------------------------------------
(* The inductive invariant holds in every reachable state. *)
THEOREM LoopInvariance == Spec => []IInv
<1>1. Init => IInv
  <2>1. Init => Flags /\ Ranges /\ Records
    <3>1. Init => Flags
      BY DEF Init, Flags
    <3>2. Init => Ranges
      BY LoopAssumption DEF Init, Ranges
    <3> QED
      BY <3>1, <3>2 DEF Init, Records
  <2>2. Init => TurnInv
    BY ResultKinds DEF Init, TurnInv, SavedTurns
  <2>3. Init => EvidenceInv
    BY ResultKinds
    DEF Init, EvidenceInv, PassedIsReal, OkIsEarned, NudgedBeforeAccepted
  <2> QED
    BY <2>1, <2>2, <2>3 DEF IInv, TypeOK, Flags, Ranges, Records
<1>2. IInv /\ [Next]_vars => IInv'
  BY FlagsStep, RangesStep, RecordsStep, TurnStep, EvidenceStep
  DEF IInv, TypeOK, Flags, Ranges, Records
<1> QED
  BY <1>1, <1>2, PTL DEF Spec

(* Every variable stays within its bound: in particular the budget is never *)
(* overdrawn and a refund never takes it below zero. *)
THEOREM LoopTypeCorrect == Spec => []TypeOK
<1> QED
  BY LoopInvariance, PTL DEF IInv

(* The ceiling of 2 * max_total turns holds over any number of crashes and  *)
(* failed checkpoint saves. *)
THEOREM Ceiling == Spec => []TurnCeiling
<1>1. IInv => TurnCeiling
  BY LoopAssumption, ResultKinds
  DEF IInv, TypeOK, TurnInv, SavedTurns, TurnCeiling
<1> QED
  BY <1>1, LoopInvariance, PTL

(* tests_passed is always backed by a verification that really passed. *)
THEOREM Evidence == Spec => []PassedIsReal
<1> QED
  BY LoopInvariance, PTL DEF IInv, EvidenceInv

(* A credited cutoff, or a finish that claims success, was earned. *)
THEOREM Earned == Spec => []OkIsEarned
<1> QED
  BY LoopInvariance, PTL DEF IInv, EvidenceInv

(* An unverified finish is accepted only after the last nudge. *)
THEOREM Nudged == Spec => []NudgedBeforeAccepted
<1> QED
  BY LoopInvariance, PTL DEF IInv, EvidenceInv
=============================================================================
