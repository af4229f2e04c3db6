---------------------------- MODULE AgentProofs -----------------------------
(***************************************************************************)
(* A behaviour of the specification of all the parts is, to each of them,  *)
(* one of that part; so what they promise holds in it together.            *)
(***************************************************************************)
EXTENDS MCAgent, OrchestratorProofs, StoreProofs, ClientProofs

-----------------------------------------------------------------------------
(* A behaviour of the agent is, to each of its parts, one of that part.     *)

LEMMA GraphIsPart == AgentSpec => LimitedSpec
<1>1. AgentInit => Init
  BY DEF AgentInit
<1>2. [AgentNext]_agentVars => [LimitedNext]_vars
  BY DEF AgentNext, Step, agentVars
<1> QED BY <1>1, <1>2, PTL DEF AgentSpec, LimitedSpec

LEMMA MainIsPart == AgentSpec => MainSpec
<1>1. AgentInit => MainInit
  BY DEF AgentInit
<1>2. [AgentNext]_agentVars => [MainNext]_mainVars
  BY DEF AgentNext, Step, agentVars
<1> QED BY <1>1, <1>2, PTL DEF AgentSpec, MainSpec

LEMMA ProcessIsPart == AgentSpec => RunSpec
<1>1. AgentInit => RunInit
  BY DEF AgentInit
<1>2. [AgentNext]_agentVars => [RunNext]_runVars
  BY DEF AgentNext, Step, agentVars
<1> QED BY <1>1, <1>2, PTL DEF AgentSpec, RunSpec

LEMMA CritiqueIsPart == AgentSpec => CritiqueSpec
<1>1. AgentInit => CritiqueInit
  BY DEF AgentInit
<1>2. [AgentNext]_agentVars => [CritiqueNext]_critiqueVars
  BY DEF AgentNext, Step, agentVars
<1> QED BY <1>1, <1>2, PTL DEF AgentSpec, CritiqueSpec

LEMMA RoutingIsPart == AgentSpec => RoutingSpec
<1>1. AgentInit => RoutingInit
  BY DEF AgentInit
<1>2. [AgentNext]_agentVars => [RoutingNext]_routingVars
  BY DEF AgentNext, Step, agentVars
<1> QED BY <1>1, <1>2, PTL DEF AgentSpec, RoutingSpec

LEMMA EvidenceIsPart == AgentSpec => EvidenceSpec
<1>1. AgentInit => EvidenceInit
  BY DEF AgentInit
<1>2. [AgentNext]_agentVars => [EvidenceNext]_evidenceVars
  BY DEF AgentNext, Step, agentVars
<1> QED BY <1>1, <1>2, PTL DEF AgentSpec, EvidenceSpec

LEMMA FillIsPart == AgentSpec => FillSpec
<1>1. AgentInit => FillInit
  BY DEF AgentInit
<1>2. [AgentNext]_agentVars => [FillNext]_fillVars
  BY DEF AgentNext, Step, agentVars
<1> QED BY <1>1, <1>2, PTL DEF AgentSpec, FillSpec

LEMMA CallsIsPart == AgentSpec => CallSpec
<1>1. AgentInit => CallInit
  BY DEF AgentInit
<1>2. [AgentNext]_agentVars => [CallNext]_callVars
  BY DEF AgentNext, Step, agentVars
<1> QED BY <1>1, <1>2, PTL DEF AgentSpec, CallSpec

LEMMA IndexIsPart == AgentSpec => CodeIndexSpec
<1>1. AgentInit => CodeIndexInit
  BY DEF AgentInit
<1>2. [AgentNext]_agentVars => [CodeIndexNext]_codeIndexVars
  BY DEF AgentNext, Step, agentVars
<1> QED BY <1>1, <1>2, PTL DEF AgentSpec, CodeIndexSpec

LEMMA StreamIsPart == AgentSpec => StreamSpec
<1>1. AgentInit => StreamInit
  BY DEF AgentInit
<1>2. [AgentNext]_agentVars => [StreamNext]_tailVars
  BY DEF AgentNext, Step, agentVars
<1> QED BY <1>1, <1>2, PTL DEF AgentSpec, StreamSpec

LEMMA ServersIsPart == AgentSpec => McpSpec
<1>1. AgentInit => McpInit
  BY DEF AgentInit
<1>2. [AgentNext]_agentVars => [McpNext]_mcpVars
  BY DEF AgentNext, Step, agentVars
<1> QED BY <1>1, <1>2, PTL DEF AgentSpec, McpSpec

LEMMA FoldersIsPart == AgentSpec => FoldersSpec
<1>1. AgentInit => FoldersInit
  BY DEF AgentInit
<1>2. [AgentNext]_agentVars => [FoldersNext]_folderVars
  BY DEF AgentNext, Step, agentVars
<1> QED BY <1>1, <1>2, PTL DEF AgentSpec, FoldersSpec


LEMMA StoreIsPart == AgentSpec => StoreSpec
<1>1. AgentInit => StoreInit
  BY DEF AgentInit
<1>2. [AgentNext]_agentVars => [StoreNext]_storeVars
  BY DEF AgentNext, Step, agentVars
<1> QED BY <1>1, <1>2, PTL DEF AgentSpec, StoreSpec

LEMMA RecordsIsPart == AgentSpec => RecordsSpec
<1>1. AgentInit => RecordsInit
  BY DEF AgentInit
<1>2. [AgentNext]_agentVars => [RecordsNext]_recordVars
  BY DEF AgentNext, Step, agentVars
<1> QED BY <1>1, <1>2, PTL DEF AgentSpec, RecordsSpec

LEMMA AccountsIsPart == AgentSpec => AccountsSpec
<1>1. AgentInit => AccountsInit
  BY DEF AgentInit
<1>2. [AgentNext]_agentVars => [AccountsNext]_accountVars
  BY DEF AgentNext, Step, agentVars
<1> QED BY <1>1, <1>2, PTL DEF AgentSpec, AccountsSpec

LEMMA PaperIsPart == AgentSpec => PaperSpec
<1>1. AgentInit => PaperInit
  BY DEF AgentInit
<1>2. [AgentNext]_agentVars => [PaperNext]_paperVars
  BY DEF AgentNext, Step, agentVars
<1> QED BY <1>1, <1>2, PTL DEF AgentSpec, PaperSpec

LEMMA ContextIsPart == AgentSpec => CtxSpec
<1>1. AgentInit => CtxInit
  BY DEF AgentInit
<1>2. [AgentNext]_agentVars => [CtxNext]_ctxVars
  BY DEF AgentNext, Step, agentVars
<1> QED BY <1>1, <1>2, PTL DEF AgentSpec, CtxSpec

LEMMA MemoryIsPart == AgentSpec => ConsolSpec
<1>1. AgentInit => ConsolInit
  BY DEF AgentInit
<1>2. [AgentNext]_agentVars => [ConsolNext]_consolVars
  BY DEF AgentNext, Step, agentVars
<1> QED BY <1>1, <1>2, PTL DEF AgentSpec, ConsolSpec

LEMMA CliIsPart == AgentSpec => CliSpec
<1>1. AgentInit => CliInit
  BY DEF AgentInit
<1>2. [AgentNext]_agentVars => [CliNext]_cliVars
  BY DEF AgentNext, Step, agentVars
<1> QED BY <1>1, <1>2, PTL DEF AgentSpec, CliSpec

LEMMA WindowIsPart == AgentSpec => WindowSpec
<1>1. AgentInit => WindowInit
  BY DEF AgentInit
<1>2. [AgentNext]_agentVars => [WindowNext]_windowVars
  BY DEF AgentNext, Step, agentVars
<1> QED BY <1>1, <1>2, PTL DEF AgentSpec, WindowSpec

LEMMA ViewIsPart == AgentSpec => ViewSpec
<1>1. AgentInit => ViewInit
  BY DEF AgentInit
<1>2. [AgentNext]_agentVars => [ViewNext]_viewVars
  BY DEF AgentNext, Step, agentVars
<1> QED BY <1>1, <1>2, PTL DEF AgentSpec, ViewSpec

LEMMA DiscordIsPart == AgentSpec => DiscordSpec
<1>1. AgentInit => DiscordInit
  BY DEF AgentInit
<1>2. [AgentNext]_agentVars => [DiscordNext]_discordVars
  BY DEF AgentNext, Step, agentVars
<1> QED BY <1>1, <1>2, PTL DEF AgentSpec, DiscordSpec

LEMMA HomeIsPart == AgentSpec => CliSessionSpec
<1>1. AgentInit => CliSessionInit
  BY DEF AgentInit
<1>2. [AgentNext]_agentVars => [CliSessionNext]_homeVars
  BY DEF AgentNext, Step, agentVars
<1> QED BY <1>1, <1>2, PTL DEF AgentSpec, CliSessionSpec

LEMMA DetectorIsPart == AgentSpec => DetectorSpec
<1>1. AgentInit => DetectorInit
  BY DEF AgentInit
<1>2. [AgentNext]_agentVars => [DetectorNext]_detectorVars
  BY DEF AgentNext, Step, agentVars
<1> QED BY <1>1, <1>2, PTL DEF AgentSpec, DetectorSpec

\* A goal that was taken off its stream is answered, once, its client, its record and its caller
\* are told the same, and what it needs is open while it is handled (main.py).
THEOREM GoalsAreAnswered == AgentSpec => []GoalsAnswered
<1>1. AckedIsAnswered /\ ReportsAgree /\ RunInOrder => GoalsAnswered
  BY DEF GoalsAnswered
<1> QED BY <1>1, MainIsPart, ProcessIsPart, GoalsReported, RunKeepsOrder, PTL

\* What the stores keep agrees with what was written to them: sessions and their turns, the records
\* of skills, accounts and their attempts, and a paper with the references it cites
\* (mongo_session_store.py, skill_telemetry.py, user_store.py, citation_validator.py).
THEOREM DocumentsAreKept == AgentSpec => []DocumentsKept
<1>1. StoreConsistent /\ RecordsKept /\ AccountsKept /\ CitesResolve => DocumentsKept
  BY DEF DocumentsKept
<1> QED BY <1>1, StoreIsPart, RecordsIsPart, AccountsIsPart, PaperIsPart, SessionsHold,
           RecordsHold,
           AccountsHold, CitationsHold, PTL

\* What was said and learnt stays known, with the exceptions of the three theorems it is made of:
\* no turn is skipped until two compactions overwrite each other, an updated fact has the one that
\* replaces it but for the update a raise interrupts, and no message is passed over after the last
\* opening without a token (context_manager.py, memory_consolidator.py, memory/storage_manager.py).
THEOREM MemoryIsKept == AgentSpec => []MemoryKept
<1>1. NoTurnSkipped /\ ReplacedNotLost /\ NothingSkipped => MemoryKept
  BY DEF MemoryKept
<1> QED BY <1>1, ContextIsPart, MemoryIsPart, StreamIsPart, ContextKept, FactsReplaced,
           TokenSkipsNothing, PTL

\* What each client shows is its own, as far as the five theorems it is made of say: a task's answer
\* until one times out, a chat's window with each of its turns, a turn shown as it is stored, a
\* Discord record that fits its thread, though it calls a failed goal completed, and the files of
\* the command line (client.py, useLabmateWS.ts, server.py, discord_connector.py, session_store.py).
THEOREM ClientsDoAgree == AgentSpec => []ClientsAgree
<1>1. OwnResult /\ WindowComplete /\ StoredIsShown /\ RecordFitsThread /\ HomeKept => ClientsAgree
  BY DEF ClientsAgree
<1> QED BY <1>1, CliIsPart, WindowIsPart, ViewIsPart, DiscordIsPart, HomeIsPart, ResultsAreOwn,
           WindowsAreComplete, StoredTurnsAreShown, RecordsFitThreads, HomeIsKept, PTL

\* For any goals, calls and plans: a goal runs again only as often as its attempts allow; a turn that
\* the recursion limit cuts short spent it on goals run again; and the loop detector stops no call that
\* is new and lets no goal go round for a whole window, as far as its limits fit that window (graph.py,
\* loop_detection.py).  What the verify gate sends back is bounded by the recursion limit alone.
THEOREM LoopsAreBounded == AgentSpec => []LoopsBounded
<1>1. RetriesBounded /\ CutShortByRetries /\ StuckIsHalted /\ NewCallNeverHalts => LoopsBounded
  BY DEF LoopsBounded
<1>2. LimitedSpec => []CutShortByRetries
  BY LimitSpentOnRetries
<1>3. DetectorSpec => [](DetectorTypeOK /\ NewCallNeverHalts /\ StuckIsHalted)
  BY StuckStops
<1> QED BY <1>1, <1>2, <1>3, GraphIsPart, DetectorIsPart, RetriesAreBounded, PTL
=============================================================================
