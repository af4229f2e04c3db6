--------------------------- MODULE LoopDetection ---------------------------
(***************************************************************************)
(* services/orchestrator/loop_detection.py: the signatures of the tool     *)
(* calls of one goal, and the decision to halt it.  A load_skill for a     *)
(* skill the goal has loaded is recorded without asking for a decision.  A *)
(* run resumed from its checkpoint goes on with the same signatures.       *)
(***************************************************************************)
EXTENDS Naturals, FiniteSets, SequencesExt

CONSTANTS
  ReadCalls,       \* signatures of calls that only read
  WriteCalls,      \* signatures of write_file and call_skill_tool calls
  LoadCalls,       \* signatures of load_skill calls
  RepeatLimit, \* LOOP_REPEAT_LIMIT
  WriteLimit,  \* LOOP_REPEAT_LIMIT_MUTATING
  CycleWindow, \* cycle_window
  MaxRecords   \* bound: calls of the goal

ASSUME DetectorAssumption ==
  /\ RepeatLimit \in Nat \ {0} /\ WriteLimit \in Nat \ {0}
  /\ CycleWindow \in Nat /\ MaxRecords \in Nat
  /\ ReadCalls \cap WriteCalls = {} /\ (ReadCalls \cup WriteCalls) \cap LoadCalls = {}

VARIABLES
  sigs,   \* LoopDetector._sigs
  halted  \* the reason the goal was halted for: "no", "repeat" or "cycle"

detectorVars == <<sigs, halted>>

Calls == ReadCalls \cup WriteCalls \cup LoadCalls

LastOf(s, n) == SubSeq(s, (IF Len(s) > n THEN Len(s) - n ELSE 0) + 1, Len(s))

DetectorTypeOK ==
  /\ sigs \in Seq(Calls)
  /\ Len(sigs) <= MaxRecords
  /\ halted \in {"no", "repeat", "cycle"}

DetectorInit == sigs = <<>> /\ halted = "no"

\* repeat_limit_for
LimitFor(call) == IF call \in WriteCalls THEN WriteLimit ELSE RepeatLimit

Repeats(s, n) == Len(s) >= n /\ Cardinality(ToSet(LastOf(s, n))) = 1

\* Mutant: it is not asked whether the recent calls were seen before.
CyclesOnNew(s) ==
  LET window == LastOf(s, CycleWindow)
  IN  /\ Len(window) >= 2 * RepeatLimit
      /\ Cardinality(ToSet(window)) <= RepeatLimit

\* Mutant: only a window of one signature counts as a cycle.
CyclesOfOne(s) ==
  LET window == LastOf(s, CycleWindow)
      older == SubSeq(s, 1, Len(s) - RepeatLimit)
  IN  /\ Len(window) >= 2 * RepeatLimit
      /\ Cardinality(ToSet(window)) < RepeatLimit
      /\ ToSet(LastOf(s, RepeatLimit)) \subseteq ToSet(older)

\* The recent window goes round a small set and brings nothing new.
Cycles(s) ==
  LET window == LastOf(s, CycleWindow)
      older == SubSeq(s, 1, Len(s) - RepeatLimit)
  IN  /\ Len(window) >= 2 * RepeatLimit
      /\ Cardinality(ToSet(window)) <= RepeatLimit
      /\ ToSet(LastOf(s, RepeatLimit)) \subseteq ToSet(older)

\* Mutant: a repeat is reported without its reason.
VerdictUnexplained(s, n) ==
  IF Len(s) < n THEN "no"
  ELSE IF Repeats(s, n) THEN ""
  ELSE IF Cycles(s) THEN "cycle"
  ELSE "no"

\* should_break and its reason; a shorter history than the limit never breaks.
Verdict(s, n) ==
  IF Len(s) < n THEN "no"
  ELSE IF Repeats(s, n) THEN "repeat"
  ELSE IF Cycles(s) THEN "cycle"
  ELSE "no"

Record(call) ==
  /\ halted = "no" /\ Len(sigs) < MaxRecords
  /\ sigs' = Append(sigs, call)
  /\ halted' = Verdict(sigs', LimitFor(call))

RecordRepeatLoad(load) ==
  /\ halted = "no" /\ Len(sigs) < MaxRecords
  /\ load \in ToSet(sigs)
  /\ sigs' = Append(sigs, load)
  /\ UNCHANGED halted

DetectorNext ==
  \/ \E call \in Calls : Record(call)
  \/ \E load \in LoadCalls : RecordRepeatLoad(load)

DetectorSpec == DetectorInit /\ [][DetectorNext]_detectorVars

-----------------------------------------------------------------------------
(* Properties                                                              *)

\* "legitimately distinct calls never trip it": the call that halts the goal
\* was made before in the same goal, unless one call alone is a repeat.
NewCallNeverHalts ==
  halted # "no" /\ RepeatLimit # 1 /\ WriteLimit # 1
    => \E i \in 1 .. Len(sigs) - 1 : sigs[i] = sigs[Len(sigs)]

\* Limits for which the two rules leave no gap in the window, as the defaults 2, 4 and 6.
LimitsFit ==
  /\ RepeatLimit \in {1, 2} /\ 2 * RepeatLimit <= CycleWindow
  /\ WriteLimit + RepeatLimit <= CycleWindow

\* A goal that goes on has not spent a whole window on one or two calls: a
\* stuck model is stopped within CycleWindow calls, whichever rule stops it.
\* The environment may set limits that do not fit, for which nothing is said.
StuckIsHalted ==
  halted = "no" /\ Len(sigs) >= CycleWindow /\ LimitsFit
    => LET window == ToSet(LastOf(sigs, CycleWindow))
       IN window \cap LoadCalls # {} \/ Cardinality(window) > RepeatLimit
=============================================================================
