------------------------------- MODULE MCAgent -------------------------------
(***************************************************************************)
(* The agent's graph and the smaller specifications that need no fairness, *)
(* one instance of each, for TLC.  They share no variable, so their product*)
(* would only multiply the states: a behaviour is a behaviour of one part, *)
(* chosen at the start, while the others stay in their initial states.     *)
(***************************************************************************)
EXTENDS GoalGraph, LoopDetection, ContextWindow, GoalHandler, SessionStore, CliTurns,
        ChatWindow, TestEvidence, CodeIndex, Consolidation, SkillRecords, SkillRouting,
        Accounts, DiscordTasks, CritiqueLoop, McpHosts, ContextFill, ModelCalls,
        ClientFolders, TurnView, StreamOutbox, OrchestratorRun, CitedPaper, CliSession

VARIABLE part \* the specification whose behaviour this is

\* The file of each symbol of the code index.
HomeFile == [s \in Symbols |-> IF s = 3 THEN 2 ELSE 1]

\* Every spelling is one of the same email.
LowerCase == [s \in Spellings |-> CHOOSE e \in Emails : TRUE]

BuiltinServers == <<"ast">>

\* Texts of none, one and two lines, in tokens; and what is pinned, within the budget and over.
FewTexts == {<<>>, <<1>>, <<2, 1>>, <<1, 2>>}
FewPinned == {<<>>, <<2, 1>>, <<5>>, <<4, 3>>}

\* Two folders side by side, and paths inside and outside of them.
TwoFolders == {<<"x">>, <<"..z">>}
FirstFolder == <<"x">>
SomePaths ==
    [absolute : {FALSE}, steps : {<<"x">>, <<"..", "..z">>, <<"..z">>}] \union
    [absolute : {TRUE}, steps : {<<"..z", "x">>, <<"x", "..", "..z">>}]

\* References with one key, of which two may be confirmed; and one that comes with a key that is
\* made for another.
SomeBibliographies ==
    LET Ref(k, b, r) == [key |-> k, by |-> b, real |-> r]
    IN {<<Ref(<<11>>, "doi", TRUE), Ref(<<11>>, "title", FALSE), Ref(<<11>>, "arxiv", FALSE)>>,
        <<Ref(<<11>>, "arxiv", TRUE), Ref(<<11>>, "doi", FALSE),
          Ref(<<11, 1>>, "unreadable", TRUE)>>}
MadeUpKeys == {<<9>>}

Parts == {"graph", "detector", "context", "main", "store", "cli", "window", "evidence",
          "index", "memory", "records", "routing", "accounts", "discord",
          "critique", "servers", "fill", "calls", "folders", "view", "stream",
          "process", "paper", "home"}

agentVars == <<part, vars, detectorVars, ctxVars, mainVars, storeVars, cliVars, windowVars,
               evidenceVars, codeIndexVars, consolVars, recordVars, routingVars, accountVars,
               discordVars, critiqueVars, mcpVars, fillVars, callVars, folderVars,
               viewVars, tailVars, runVars, paperVars, homeVars>>

AgentInit ==
    /\ part \in Parts
    /\ Init /\ DetectorInit /\ CtxInit /\ MainInit /\ StoreInit /\ CliInit /\ WindowInit
    /\ CodeIndexInit /\ ConsolInit /\ RecordsInit /\ RoutingInit /\ AccountsInit
    /\ DiscordInit /\ CritiqueInit /\ McpInit /\ FillInit /\ CallInit /\ FoldersInit /\ ViewInit
    /\ StreamInit /\ PaperInit /\ CliSessionInit /\ RunInit /\ (part # "process" => ~podGraph)
    /\ EvidenceInit /\ (part # "evidence" => ~exposeBug)
    /\ part # "calls" => ~isStreamed
    /\ part # "paper" => supplied = CHOOSE b \in Bibliographies : TRUE
    /\ part # "routing" => catalog = [s \in SkillNames |-> 0]
    /\ part # "servers" =>
           /\ Len(toStart) = Len(Builtins)
           /\ mcpRoots = [chat |-> CHOOSE c \in McpChats : TRUE, folders |-> 0]

\* The step is one of part p.
Step(p) ==
    /\ part = p /\ UNCHANGED part
    /\ p # "graph" => UNCHANGED vars
    /\ p # "detector" => UNCHANGED detectorVars
    /\ p # "context" => UNCHANGED ctxVars
    /\ p # "main" => UNCHANGED mainVars
    /\ p # "store" => UNCHANGED storeVars
    /\ p # "cli" => UNCHANGED cliVars
    /\ p # "window" => UNCHANGED windowVars
    /\ p # "evidence" => UNCHANGED evidenceVars
    /\ p # "index" => UNCHANGED codeIndexVars
    /\ p # "memory" => UNCHANGED consolVars
    /\ p # "records" => UNCHANGED recordVars
    /\ p # "routing" => UNCHANGED routingVars
    /\ p # "accounts" => UNCHANGED accountVars
    /\ p # "discord" => UNCHANGED discordVars
    /\ p # "critique" => UNCHANGED critiqueVars
    /\ p # "servers" => UNCHANGED mcpVars
    /\ p # "fill" => UNCHANGED fillVars
    /\ p # "calls" => UNCHANGED callVars
    /\ p # "folders" => UNCHANGED folderVars
    /\ p # "view" => UNCHANGED viewVars
    /\ p # "stream" => UNCHANGED tailVars
    /\ p # "process" => UNCHANGED runVars
    /\ p # "paper" => UNCHANGED paperVars
    /\ p # "home" => UNCHANGED homeVars

AgentNext ==
    \/ Step("graph") /\ LimitedNext
    \/ Step("detector") /\ DetectorNext
    \/ Step("context") /\ CtxNext
    \/ Step("main") /\ MainNext
    \/ Step("store") /\ StoreNext
    \/ Step("cli") /\ CliNext
    \/ Step("window") /\ WindowNext
    \/ Step("evidence") /\ EvidenceNext
    \/ Step("index") /\ CodeIndexNext
    \/ Step("memory") /\ ConsolNext
    \/ Step("records") /\ RecordsNext
    \/ Step("routing") /\ RoutingNext
    \/ Step("accounts") /\ AccountsNext
    \/ Step("discord") /\ DiscordNext
    \/ Step("critique") /\ CritiqueNext
    \/ Step("servers") /\ McpNext
    \/ Step("fill") /\ FillNext
    \/ Step("calls") /\ CallNext
    \/ Step("folders") /\ FoldersNext
    \/ Step("view") /\ ViewNext
    \/ Step("stream") /\ StreamNext
    \/ Step("process") /\ RunNext
    \/ Step("paper") /\ PaperNext
    \/ Step("home") /\ CliSessionNext

AgentSpec == AgentInit /\ [][AgentNext]_agentVars

AgentTypeOK ==
    /\ part \in Parts
    /\ TypeOK /\ DetectorTypeOK /\ CtxTypeOK /\ MainTypeOK /\ StoreTypeOK /\ CliTypeOK
    /\ WindowTypeOK /\ EvidenceTypeOK /\ CodeIndexTypeOK /\ ConsolTypeOK /\ RecordsTypeOK
    /\ RoutingTypeOK /\ AccountsTypeOK /\ DiscordTypeOK /\ CritiqueTypeOK
    /\ McpTypeOK /\ FillTypeOK /\ CallTypeOK /\ FoldersTypeOK /\ ViewTypeOK
    /\ StreamTypeOK /\ RunTypeOK /\ PaperTypeOK /\ CliSessionTypeOK

-----------------------------------------------------------------------------
(* Properties of several parts that say the same of them; each of their     *)
(* conjuncts is stated where its part is.                                   *)

\* Nothing goes round for ever, and what is stopped went round: a subtask runs as often as its
\* attempts allow, unless the verify gate sent one back; the graph's recursion limit, which loses
\* a turn's results, cuts off only a turn that used it up by running what failed again, or by what
\* that gate sent back (graph.py); and a model that only repeats its calls is halted within a
\* window of them, if the limits set fit the window (loop_detection.py).
LoopsBounded == RetriesBounded /\ CutShortByRetries /\ StuckIsHalted /\ NewCallNeverHalts

\* A goal that was taken off its stream is answered, once, and those who are told of its end,
\* the client, the workspace's record and the caller, are told the same (_handle_task, main.py);
\* and while one is handled, what it needs is open, however the process is stopped (run, main.py).
GoalsAnswered == AckedIsAnswered /\ ReportsAgree /\ RunInOrder

\* What was said and learnt is still known after compaction, consolidation and projection, each
\* with the exceptions its conjunct names: the turns a prompt leaves out are the oldest
\* (context_manager.py), a fact an update has closed has the one that took its place
\* (memory_consolidator.py), and the outbox's task passes over no message
\* (memory/storage_manager.py).
MemoryKept == NoTurnSkipped /\ ReplacedNotLost /\ NothingSkipped

\* The stores that several tasks and processes write agree with what was written: sessions and
\* their turns (mongo_session_store.py), the records of skills (skill_telemetry.py,
\* skill_curator.py), and the accounts and their attempts (user_store.py); and a paper's sections
\* agree with the references they cite (academic_writing_skill.py, citation_validator.py).
DocumentsKept == StoreConsistent /\ RecordsKept /\ AccountsKept /\ CitesResolve

\* What each client shows is its own, with the exceptions its conjunct names: the command line
\* prints the result of its own task until one times out (cli/event_stream.py), the desktop's
\* chat has each of its turns once (useLabmateWS.ts) and a turn is the same live and reopened
\* (ws_gateway/server.py), Discord's record fits what its thread shows, which is not whether the
\* goal failed (discord_connector.py); and the clients of one user agree on what they keep at
\* home (cli/main.py, token_store.py, session_store.py).
ClientsAgree == OwnResult /\ WindowComplete /\ StoredIsShown /\ RecordFitsThread /\ HomeKept
=============================================================================
