------------------------------ MODULE McpHosts ------------------------------
(***************************************************************************)
(* frontend/electron: the MCP servers of the desktop application.          *)
(* McpHostManager (mcp-registry.ts) starts the built-in servers and those  *)
(* of the user's file, one after the other, collects their tools, routes   *)
(* the calls, and tells the servers when the workspace's roots change;     *)
(* main.ts calls it for the chats.                                         *)
(*                                                                         *)
(* A server asks for the roots when it has started and whenever it is told *)
(* that they changed.  The folders of a chat are a number, how often they  *)
(* were changed.  A spec is a server's name and where it comes from.       *)
(***************************************************************************)
EXTENDS Naturals, Sequences

CONSTANTS Builtins,   \* BUILTIN_MCP_SERVERS, a sequence of names
          ConfigNames, \* names the user's file may have
          McpChats,
          MaxFolders,  \* bound: changes of a chat's folders
          MaxMcpFaults \* bound: servers and notifications that fail

ASSUME McpAssumption ==
    Builtins \in Seq(STRING) /\ {MaxFolders, MaxMcpFaults} \subseteq Nat

VARIABLES
    toStart,     \* the servers to start, in order
    startingAt,  \* what startAll does with the first of toStart
    mcpHosts,    \* name -> spec of the host the calls for that name go to, or no spec
    mcpLive,     \* specs whose process is connected
    mcpTools,    \* specs whose tools are in toolDescriptors
    mcpRoots,    \* currentRoots: the chat and its folders, as last set
    chatFolders, \* chat -> its folders in the workspace store
    inquirers,   \* specs that have a question for the roots on its way
    rootsSeen,   \* spec -> roots it was last given
    uninformed,  \* history: specs whose notification failed
    quitting,    \* stopAll
    mcpFaults

mcpVars == <<toStart, startingAt, mcpHosts, mcpLive, mcpTools, mcpRoots, chatFolders, inquirers,
             rootsSeen, uninformed, quitting, mcpFaults>>

ServerNames == {Builtins[i] : i \in DOMAIN Builtins} \union ConfigNames
ServerSpecs == [name : ServerNames, from : {"labmate", "user"}]
NoSpec == [name |-> "", from |-> "none"]
RootSets == [chat : McpChats, folders : 0..MaxFolders]

McpTypeOK ==
    /\ toStart \in Seq(ServerSpecs) /\ startingAt \in {"next", "connecting", "listing", "over"}
    /\ mcpHosts \in [ServerNames -> ServerSpecs \union {NoSpec}]
    /\ {mcpLive, mcpTools, inquirers, uninformed} \subseteq SUBSET ServerSpecs
    /\ mcpRoots \in RootSets /\ rootsSeen \in [ServerSpecs -> RootSets \union {NoSpec}]
    /\ chatFolders \in [McpChats -> 0..MaxFolders]
    /\ quitting \in {"no", "yes", "done"} /\ mcpFaults \in 0..MaxMcpFaults

\* readUserMcpServers: the names of an object, so each is there once.
ConfigFiles == {<<>>} \union {<<n>> : n \in ConfigNames}
                      \union {f \in ConfigNames \X ConfigNames : f[1] # f[2]}

\* app.whenReady: startAll is called, and the roots of the workspace seeded.
McpInit ==
    /\ \E file \in ConfigFiles :
           toStart = [i \in DOMAIN Builtins |-> [name |-> Builtins[i], from |-> "labmate"]]
                   \o [i \in DOMAIN file |-> [name |-> file[i], from |-> "user"]]
    /\ startingAt = "next" /\ mcpHosts = [n \in ServerNames |-> NoSpec]
    /\ mcpLive = {} /\ mcpTools = {} /\ inquirers = {} /\ uninformed = {}
    /\ chatFolders = [c \in McpChats |-> 0]
    /\ \E c \in McpChats : mcpRoots = [chat |-> c, folders |-> 0]
    /\ rootsSeen = [s \in ServerSpecs |-> NoSpec] /\ quitting = "no" /\ mcpFaults = 0

rootsSide == <<mcpRoots, chatFolders, uninformed>>
McpFault == mcpFaults < MaxMcpFaults /\ mcpFaults' = mcpFaults + 1
NoMcpFault == UNCHANGED mcpFaults

-----------------------------------------------------------------------------
(* startAll                                                                *)

\* The loop goes on to the next server.
NextInLine == startingAt' = "next" /\ toStart' = Tail(toStart)

\* Mutant: a server of the user is started whatever its name.
NextServerUnchecked ==
    /\ startingAt = "next"
    /\ IF toStart = <<>> THEN startingAt' = "over" /\ UNCHANGED toStart
       ELSE \/ startingAt' = "connecting" /\ UNCHANGED toStart
            \/ Head(toStart).from = "labmate" /\ NextInLine
    /\ UNCHANGED <<mcpHosts, mcpLive, mcpTools, inquirers, rootsSeen, rootsSide, quitting,
                   mcpFaults>>

\* A built-in server that was not built is passed over, and so is a server of the user with
\* the name of one that has started.
NextServer ==
    /\ startingAt = "next"
    /\ IF toStart = <<>> THEN startingAt' = "over" /\ UNCHANGED toStart
       ELSE \/ /\ Head(toStart).from = "user" => mcpHosts[Head(toStart).name] = NoSpec
               /\ startingAt' = "connecting" /\ UNCHANGED toStart
            \/ /\ Head(toStart).from = "user" => mcpHosts[Head(toStart).name] # NoSpec
               /\ NextInLine
    /\ UNCHANGED <<mcpHosts, mcpLive, mcpTools, inquirers, rootsSeen, rootsSide, quitting,
                   mcpFaults>>

\* A server that does not start is left out.
ConnectHost ==
    /\ startingAt = "connecting"
    /\ LET spec == Head(toStart) IN
       \/ /\ mcpLive' = mcpLive \union {spec}
          /\ mcpHosts' = [mcpHosts EXCEPT ![spec.name] = spec]
          /\ inquirers' = inquirers \union {spec}
          /\ startingAt' = "listing" /\ UNCHANGED toStart /\ NoMcpFault
       \/ NextInLine /\ McpFault /\ UNCHANGED <<mcpHosts, mcpLive, inquirers>>
    /\ UNCHANGED <<mcpTools, rootsSeen, rootsSide, quitting>>

\* Its tools, unless the server fails or is stopped; it stays a host all the same.
ListHostTools ==
    /\ startingAt = "listing" /\ NextInLine
    /\ \/ Head(toStart) \in mcpLive /\ mcpTools' = mcpTools \union {Head(toStart)} /\ NoMcpFault
       \/ Head(toStart) \in mcpLive /\ McpFault /\ UNCHANGED mcpTools
       \/ Head(toStart) \notin mcpLive /\ UNCHANGED mcpTools /\ NoMcpFault
    /\ UNCHANGED <<mcpHosts, mcpLive, inquirers, rootsSeen, rootsSide, quitting>>

\* A server asks for the roots, and gets the ones of now.
AnswerRoots(s) ==
    /\ s \in inquirers /\ inquirers' = inquirers \ {s}
    /\ rootsSeen' = [rootsSeen EXCEPT ![s] = mcpRoots]
    /\ UNCHANGED <<toStart, startingAt, mcpHosts, mcpLive, mcpTools, rootsSide, quitting,
                   mcpFaults>>

-----------------------------------------------------------------------------
(* The chats                                                               *)

\* Every one of the hosts is sent a notification, and one may fail.
InformHosts(informed) ==
    \/ inquirers' = inquirers \union informed /\ uninformed' = uninformed \ informed /\ NoMcpFault
    \/ /\ McpFault
       /\ \E s \in informed : /\ inquirers' = inquirers \union (informed \ {s})
                             /\ uninformed' = (uninformed \ informed) \union {s}

\* Mutant: the hosts that listed their tools are told, and one that is about to is not.
SetRootsOfListed(chat) ==
    /\ mcpRoots' = [chat |-> chat, folders |-> chatFolders'[chat]]
    /\ InformHosts({mcpHosts[n] : n \in ServerNames} \intersect mcpTools \intersect mcpLive)
    /\ UNCHANGED <<toStart, startingAt, mcpHosts, mcpLive, mcpTools, rootsSeen, quitting>>

SetWorkspaceRoots(chat) ==
    /\ mcpRoots' = [chat |-> chat, folders |-> chatFolders'[chat]]
    /\ InformHosts({mcpHosts[n] : n \in ServerNames} \intersect mcpLive)
    /\ UNCHANGED <<toStart, startingAt, mcpHosts, mcpLive, mcpTools, rootsSeen, quitting>>

\* A chat is opened; or the dialogue to add folders to a chat was cancelled.
ShowChatRoots(c) == UNCHANGED chatFolders /\ SetWorkspaceRoots(c)

\* Folders were picked for a chat, or a root of it is removed: the servers get the roots of
\* that chat, whichever was opened while the dialogue was.
ChangeRoots(c) ==
    /\ chatFolders[c] < MaxFolders /\ chatFolders' = [chatFolders EXCEPT ![c] = @ + 1]
    /\ SetWorkspaceRoots(c)

-----------------------------------------------------------------------------
(* stopAll, when the application quits; a startAll under way goes on       *)

QuitApplication ==
    /\ quitting = "no" /\ quitting' = "yes"
    /\ UNCHANGED <<toStart, startingAt, mcpHosts, mcpLive, mcpTools, inquirers, rootsSeen,
                   rootsSide, mcpFaults>>

StopHost(s) ==
    /\ quitting = "yes" /\ s \in mcpLive /\ mcpHosts[s.name] = s
    /\ mcpLive' = mcpLive \ {s} /\ inquirers' = inquirers \ {s}
    /\ UNCHANGED <<toStart, startingAt, mcpHosts, mcpTools, rootsSeen, rootsSide, quitting,
                   mcpFaults>>

ForgetHosts ==
    /\ quitting = "yes" /\ \A n \in ServerNames : mcpHosts[n] \notin mcpLive
    /\ quitting' = "done" /\ mcpHosts' = [n \in ServerNames |-> NoSpec]
    /\ UNCHANGED <<toStart, startingAt, mcpLive, mcpTools, inquirers, rootsSeen, rootsSide,
                   mcpFaults>>

McpNext ==
    \/ NextServer \/ ConnectHost \/ ListHostTools \/ QuitApplication \/ ForgetHosts
    \/ \E s \in ServerSpecs : AnswerRoots(s) \/ StopHost(s)
    \/ \E c \in McpChats : ShowChatRoots(c) \/ ChangeRoots(c)

McpSpec == McpInit /\ [][McpNext]_mcpVars

-----------------------------------------------------------------------------
\* Whatever changes while the servers start, each that runs is the one its name leads to, so
\* that a call reaches the server that listed the tool and none runs unreachable (until the
\* application quits); and a server that is not about to ask, and was told of every change,
\* knows the roots that were set last.
McpServersAgree ==
    /\ quitting = "no" => \A s \in mcpLive \union mcpTools : mcpHosts[s.name] = s
    /\ \A s \in mcpLive \ (inquirers \union uninformed) : rootsSeen[s] = mcpRoots
=============================================================================
