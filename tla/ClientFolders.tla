---------------------------- MODULE ClientFolders ----------------------------
(***************************************************************************)
(* The folders of the chats in the desktop application and the tools that  *)
(* work in them: WorkspaceStore and resolveToolPath (workspace.ts), the    *)
(* handlers of main.ts, the tools of tool-executor.ts, the fuzzy search of *)
(* fs-search.ts, and the renderer's choice of the chat for a tool request  *)
(* (useLabmateWS.ts).                                                      *)
(*                                                                         *)
(* A place is the sequence of names from the top of the file system to it. *)
(* A path that a tool is given is absolute or not, and a sequence of steps.*)
(***************************************************************************)
EXTENDS Naturals, SequencesExt

CONSTANTS FolderChats, NoChatId,
          PathNames,    \* names of files and folders
          DottedNames,  \* those that begin with a dot; each begins with two here
          SomeFolders,  \* folders the user may choose
          FewPaths,     \* paths the model may give to a tool
          SeedFolder,   \* LABMATE_WORKSPACE, or NoFolder
          ToolTurns,
          MaxLines,     \* bound: lines of a file that is read
          MaxHits,      \* max_results of a search
          MaxChanges,   \* bound: changes of folders by the user
          MaxFolderFaults \* bound: failing saves, restarts, reloads, reconnects

NoFolder == <<>>
NoEntry == <<NoFolder>>   \* a chat without an entry in perSession
Up == ".."

ASSUME FoldersAssumption ==
    /\ DottedNames \subseteq PathNames /\ Up \notin PathNames /\ NoChatId \notin FolderChats
    /\ SomeFolders \subseteq Seq(PathNames) /\ NoFolder \notin SomeFolders
    /\ SeedFolder \in SomeFolders \union {NoFolder}
    /\ {MaxLines, MaxHits, MaxChanges, MaxFolderFaults} \subseteq Nat /\ MaxHits > 0

VARIABLES
    store,      \* WorkspaceStore.state: the default folder and the folders of each chat
    storeFile,  \* workspaces.json, and whether it can be parsed
    dialogue,   \* the chat a folder is being chosen for
    chosen,     \* history: the folders of each chat as the user last left them
    unsaved,    \* history: a change since has not reached the file
    sentIn,     \* turn -> the chat it was sent in
    toldOf,     \* turns relayed on the connection there is
    inbound,    \* frames on their way to the renderer
    turnChat,   \* turnSessionRef.current
    wanted,     \* tools the renderer has asked the main process for
    observed,   \* history: the tool or the search of this step, if it was one
    changes, folderFaults

folderVars == <<store, storeFile, dialogue, chosen, unsaved, sentIn, toldOf, inbound, turnChat,
                wanted, observed, changes, folderFaults>>

ChatIds == FolderChats \union {NoChatId}
RootLists == {NoEntry} \union {s \in SeqOf(SomeFolders, Cardinality(SomeFolders)) :
                                   IsInjective(s)}
Stores == [default : SomeFolders \union {NoFolder}, perChat : [FolderChats -> RootLists]]
Nowhere == <<"">>
Nothing == [what |-> "nothing"]
Frames == [kind : {"turn.created", "tool.request"}, turn : ToolTurns]
    \union [kind : {"session.history"}, chat : FolderChats]

FoldersTypeOK ==
    /\ store \in Stores /\ storeFile.state \in Stores /\ storeFile.whole \in BOOLEAN
    /\ dialogue \in ChatIds /\ chosen \in [FolderChats -> RootLists] /\ unsaved \in BOOLEAN
    /\ sentIn \in [ToolTurns -> ChatIds] /\ toldOf \subseteq ToolTurns
    /\ inbound \in Seq(Frames) /\ turnChat \in [ToolTurns -> ChatIds]
    /\ wanted \subseteq [turn : ToolTurns, chat : ChatIds]
    /\ observed.what \in {"nothing", "tool", "hosted", "mention"}
    /\ changes \in 0..MaxChanges /\ folderFaults \in 0..MaxFolderFaults

-----------------------------------------------------------------------------
(* workspace.ts                                                            *)

EmptyStore == [default |-> NoFolder, perChat |-> [c \in FolderChats |-> NoEntry]]
Seeded(s) == IF s.default = NoFolder THEN [s EXCEPT !.default = SeedFolder] ELSE s

\* resolveRoots: an entry counts even when it is empty.
Roots(chat) ==
    IF chat \in FolderChats /\ store.perChat[chat] # NoEntry THEN store.perChat[chat]
    ELSE IF store.default = NoFolder THEN <<>> ELSE <<store.default>>

Normalized(place, steps) ==
    FoldLeft(LAMBDA at, step : IF step # Up THEN Append(at, step)
                               ELSE IF at = <<>> THEN at ELSE Front(at), place, steps)

\* path.relative does not start with two dots.
Inside(place, root) ==
    /\ IsPrefix(root, place)
    /\ place # root => place[Len(root) + 1] \notin DottedNames

\* Mutant: a relative path is tried in the folders one after the other, unchecked.
ResolveLoosely(path, roots) ==
    IF roots = <<>> THEN Nowhere
    ELSE IF path.absolute
         THEN IF \E i \in DOMAIN roots : Inside(Normalized(<<>>, path.steps), roots[i])
              THEN Normalized(<<>>, path.steps) ELSE Nowhere
         ELSE Normalized(roots[1], path.steps)

\* resolveToolPath, or Nowhere for its errors.
ResolveToolPath(path, roots) ==
    LET place == IF path.absolute THEN Normalized(<<>>, path.steps)
                 ELSE Normalized(roots[1], path.steps)
        within == IF path.absolute THEN ToSet(roots) ELSE {roots[1]}
    IN IF roots # <<>> /\ \E root \in within : Inside(place, root) THEN place ELSE Nowhere

FolderFault == folderFaults < MaxFolderFaults /\ folderFaults' = folderFaults + 1

\* save: the file is written in place, and a failure is passed over.
Save(new) ==
    /\ store' = new
    /\ \/ storeFile' = [state |-> new, whole |-> TRUE] /\ unsaved' = FALSE
          /\ UNCHANGED folderFaults
       \/ FolderFault /\ unsaved' = TRUE
          /\ \/ UNCHANGED storeFile
             \/ storeFile' = [storeFile EXCEPT !.whole = FALSE]

FoldersInit ==
    /\ store = Seeded(EmptyStore) /\ storeFile = [state |-> Seeded(EmptyStore), whole |-> TRUE]
    /\ dialogue = NoChatId /\ chosen = EmptyStore.perChat /\ unsaved = FALSE
    /\ sentIn = [t \in ToolTurns |-> NoChatId] /\ toldOf = {} /\ inbound = <<>>
    /\ turnChat = sentIn /\ wanted = {} /\ observed = Nothing
    /\ changes = 0 /\ folderFaults = 0

toolSide == <<sentIn, toldOf, inbound, turnChat, wanted>>
storeSide == <<store, storeFile, chosen, unsaved, changes>>
Same == observed' = Nothing /\ UNCHANGED folderFaults

-----------------------------------------------------------------------------
(* The user and the folders                                                *)

UserChange == changes < MaxChanges /\ changes' = changes + 1

SetDefault(folder) ==
    /\ UserChange /\ Save([store EXCEPT !.default = folder])
    /\ observed' = Nothing /\ UNCHANGED <<dialogue, chosen, toolSide>>

\* labmate:add-workspace-root waits for the dialogue of the operating system.
OpenDialogue(chat) ==
    /\ dialogue = NoChatId /\ changes < MaxChanges /\ dialogue' = chat
    /\ Same /\ UNCHANGED <<storeSide, toolSide>>

\* The folders with those added that are not there.
Joined(roots, folders) ==
    FoldLeft(LAMBDA known, f : IF Contains(known, f) THEN known ELSE Append(known, f), roots, folders)

\* addRoot for each folder that was picked: the default that stood in for the chat's folders
\* becomes one of them.
AddRoots(folders) ==
    /\ dialogue # NoChatId /\ UserChange /\ dialogue' = NoChatId
    /\ LET next == Joined(Roots(dialogue), folders) IN
          /\ Save([store EXCEPT !.perChat[dialogue] = next])
          /\ chosen' = [chosen EXCEPT ![dialogue] = next]
    /\ observed' = Nothing /\ UNCHANGED toolSide

CloseDialogue ==
    /\ dialogue # NoChatId /\ dialogue' = NoChatId
    /\ Same /\ UNCHANGED <<storeSide, toolSide>>

\* The folders but for one.
Without(roots, folder) ==
    FoldLeft(LAMBDA rest, f : IF f = folder THEN rest ELSE Append(rest, f), <<>>, roots)

RemoveRoot(chat, folder) ==
    /\ Contains(Roots(chat), folder) /\ UserChange
    /\ LET next == Without(Roots(chat), folder) IN
          /\ Save([store EXCEPT !.perChat[chat] = next])
          /\ chosen' = [chosen EXCEPT ![chat] = next]
    /\ observed' = Nothing /\ UNCHANGED <<dialogue, toolSide>>

\* Mutant: a chat without folders has no entry in the file.
ParseWithoutEmpty(s) ==
    [s EXCEPT !.perChat = [c \in FolderChats |-> IF @[c] = <<>> THEN NoEntry ELSE @[c]]]

\* parseWorkspaceState keeps an empty entry.
ParseStore(s) == s

\* The application ends and is started again; the renderer's maps end with it.
RestartApplication ==
    /\ FolderFault
    /\ LET loaded == IF storeFile.whole THEN ParseStore(storeFile.state) ELSE EmptyStore IN
       /\ store' = Seeded(loaded)
       /\ storeFile' = IF loaded.default = NoFolder /\ SeedFolder # NoFolder
                       THEN [state |-> Seeded(loaded), whole |-> TRUE] ELSE storeFile
    /\ chosen' = IF unsaved THEN store'.perChat ELSE chosen
    /\ unsaved' = FALSE
    /\ dialogue' = NoChatId /\ toldOf' = {} /\ inbound' = <<>> /\ wanted' = {}
    /\ turnChat' = [t \in ToolTurns |-> NoChatId]
    /\ UNCHANGED <<sentIn, changes>> /\ observed' = Nothing

-----------------------------------------------------------------------------
(* The search for a mention                                                *)

\* Mutant: what is found in any folder is inserted relative to it.
FoundRelative(roots, i, below) ==
    [place |-> roots[i] \o below, path |-> [absolute |-> FALSE, steps |-> below]]

\* searchWorkspace: relative in the first folder, absolute in the others.
Found(roots, i, below) ==
    [place |-> roots[i] \o below,
     path |-> IF i = 1 THEN [absolute |-> FALSE, steps |-> below]
              ELSE [absolute |-> TRUE, steps |-> roots[i] \o below]]

\* Hidden entries are passed over; any other may be among those that match.
PickMention(chat) ==
    /\ \E i \in DOMAIN Roots(chat), name \in PathNames \ DottedNames :
           observed' = [what |-> "mention", roots |-> Roots(chat),
                        found |-> Found(Roots(chat), i, <<name>>)]
    /\ UNCHANGED <<storeSide, dialogue, toolSide, folderFaults>>

-----------------------------------------------------------------------------
(* A turn and its tools                                                    *)

\* The gateway tells of the turn before it relays what the turn does.
BeginTurn(t, chat) ==
    /\ sentIn[t] = NoChatId /\ sentIn' = [sentIn EXCEPT ![t] = chat]
    /\ toldOf' = toldOf \union {t}
    /\ inbound' = Append(inbound, [kind |-> "turn.created", turn |-> t])
    /\ Same /\ UNCHANGED <<turnChat, wanted, storeSide, dialogue>>

AskTool(t) ==
    /\ t \in toldOf /\ Len(inbound) < 2
    /\ inbound' = Append(inbound, [kind |-> "tool.request", turn |-> t])
    /\ Same /\ UNCHANGED <<sentIn, toldOf, turnChat, wanted, storeSide, dialogue>>

\* session.history, when a chat is opened.
SendHistory(chat) ==
    /\ inbound = <<>> /\ inbound' = <<[kind |-> "session.history", chat |-> chat]>>
    /\ Same /\ UNCHANGED <<sentIn, toldOf, turnChat, wanted, storeSide, dialogue>>

\* Mutant: the turns of the chat that is opened replace those that were known.
LearnOpened(f) ==
    turnChat' = [t \in ToolTurns |-> CASE f.kind = "session.history" ->
                                             IF sentIn[t] = f.chat THEN f.chat ELSE NoChatId
                                       [] f.kind = "turn.created" ->
                                             IF f.turn = t THEN sentIn[t] ELSE turnChat[t]
                                       [] OTHER -> turnChat[t]]

\* turnSessionRef is only added to: the turn that was created, the turns of the history.
LearnTurns(f) ==
    turnChat' = [t \in ToolTurns |->
                    IF \/ f.kind = "turn.created" /\ f.turn = t
                       \/ f.kind = "session.history" /\ sentIn[t] = f.chat
                    THEN sentIn[t] ELSE turnChat[t]]

\* A tool request goes to the main process with the chat the turn is known to be of.
ReceiveFrame ==
    /\ inbound # <<>> /\ inbound' = Tail(inbound) /\ LearnTurns(Head(inbound))
    /\ wanted' = IF Head(inbound).kind # "tool.request" THEN wanted
                ELSE wanted \union {[turn |-> Head(inbound).turn,
                                    chat |-> turnChat[Head(inbound).turn]]}
    /\ Same /\ UNCHANGED <<sentIn, toldOf, storeSide, dialogue>>

\* The window is reloaded, or the socket reconnects: nothing more is relayed of the turns.
Reconnect(known) ==
    /\ FolderFault /\ toldOf' = {} /\ inbound' = <<>>
    /\ turnChat' = known
    /\ observed' = Nothing /\ UNCHANGED <<sentIn, wanted, storeSide, dialogue>>

ReloadWindow == Reconnect([t \in ToolTurns |-> NoChatId])
ReconnectSocket == Reconnect(turnChat)

\* The lines of a file of n lines that read_file returns; offset and limit may be missing (0).
ReadLines(n, offset, limit) ==
    LET from == IF offset = 0 THEN 1 ELSE offset IN
    {i \in 1..n : i >= from /\ (limit # 0 => i < from + limit)}

\* Mutant: a search that failed is one without hits.
SearchForgiving(status, matches) ==
    IF status = 0 THEN [hits |-> IF matches > MaxHits THEN MaxHits ELSE matches,
                        truncated |-> matches > MaxHits]
    ELSE [hits |-> 0, truncated |-> FALSE]

\* The answer to a search that ended with a status of ripgrep: 1 says that nothing matched.
SearchAnswer(status, matches) ==
    CASE status = 0 -> [hits |-> IF matches > MaxHits THEN MaxHits ELSE matches,
                        truncated |-> matches > MaxHits]
      [] status = 1 -> [hits |-> 0, truncated |-> FALSE]
      [] OTHER -> [error |-> TRUE]

\* resolveMcpPathArgs, injectCodegraphProjectPath: a relative path, and the project of the code
\* graph (a path without steps), are joined to the first folder; a path is not checked.
RootedPath(path, roots) ==
    CASE path.absolute -> Normalized(<<>>, path.steps)
      [] ~path.absolute /\ roots # <<>> -> Normalized(roots[1], path.steps)
      [] OTHER -> Nowhere

\* labmate:tool-execute: the folders are those of now, and the path is resolved first.
ExecuteTool(call) ==
    /\ call \in wanted /\ wanted' = wanted \ {call}
    /\ \E path \in FewPaths, what \in {"tool", "hosted"} :
           LET roots == Roots(call.chat) IN
           observed' = [what |-> what, turn |-> call.turn, chat |-> call.chat, roots |-> roots,
                        place |-> IF what = "tool" THEN ResolveToolPath(path, roots)
                                  ELSE RootedPath(path, roots)]
    /\ UNCHANGED <<sentIn, toldOf, inbound, turnChat, storeSide, dialogue, folderFaults>>

FoldersNext ==
    \/ \E f \in SomeFolders : SetDefault(f)
    \/ \E picked \in RootLists \ {NoEntry, <<>>} : AddRoots(picked)
    \/ \E c \in FolderChats : \/ OpenDialogue(c) \/ PickMention(c) \/ SendHistory(c)
                              \/ \E f \in SomeFolders : RemoveRoot(c, f)
                              \/ \E t \in ToolTurns : BeginTurn(t, c)
    \/ CloseDialogue \/ RestartApplication
    \/ \E t \in ToolTurns : AskTool(t)
    \/ ReceiveFrame \/ ReloadWindow \/ ReconnectSocket
    \/ \E call \in wanted : ExecuteTool(call)

FoldersSpec == FoldersInit /\ [][FoldersNext]_folderVars

-----------------------------------------------------------------------------
\* A tool works in the folders of the chat whose turn asked for it, whichever chat is open and
\* whatever connection brought the request, and one of the application itself at a place inside
\* one of them.
ToolInOwnFolders ==
    /\ observed.what \in {"tool", "hosted"} => observed.chat = sentIn[observed.turn]
    /\ observed.what = "tool" =>
           \/ observed.place = Nowhere
           \/ \E i \in DOMAIN observed.roots : IsPrefix(observed.roots[i], observed.place)

\* What a search puts into a message is, to the tools, the entry that was found.
MentionResolves ==
    observed.what = "mention" =>
        ResolveToolPath(observed.found.path, observed.roots) = observed.found.place

\* The folders of a chat are as its user left them, in this run and the ones after it, unless
\* what they were changed to was not saved.
FoldersKept == store.perChat = chosen

\* A file can be read to its end in parts, none of its lines missing or twice, and a search
\* that is not an error says that nothing matched only when nothing did.
ToolsTell ==
    /\ \A n \in 0..MaxLines, limit \in 1..MaxLines :
           LET page(k) == ReadLines(n, 1 + k * limit, limit) IN
           /\ UNION {page(k) : k \in 0..n} = ReadLines(n, 0, 0)
           /\ \A j, k \in 0..n : j # k => page(j) \intersect page(k) = {}
    /\ \A matches \in 0..(MaxHits + 1), status \in 0..2 :
           LET answer == SearchAnswer(status, matches) IN
           (matches > 0 <=> status # 1) /\ "error" \notin DOMAIN answer =>
               /\ answer.hits = 0 <=> matches = 0
               /\ answer.truncated <=> answer.hits < matches

FoldersRight ==
    /\ ToolInOwnFolders /\ MentionResolves /\ FoldersKept
    /\ observed.what = "tool" => ToolsTell
=============================================================================
