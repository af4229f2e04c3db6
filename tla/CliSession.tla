----------------------------- MODULE CliSession -----------------------------
(***************************************************************************)
(* How a terminal client starts and ends (cli/main.py, repl.py), and what  *)
(* it keeps under ~/.labmate: the token of the gateway, the workspaces and *)
(* a line for each task sent.  Several clients run at once, none locks a   *)
(* file, and any may be killed between two steps.                          *)
(*                                                                         *)
(* The identity is on file; a workspace is its id.  What is done with a    *)
(* task once it is sent is in CliTurns.                                    *)
(***************************************************************************)
EXTENDS Naturals, Sequences

CONSTANTS Clis,           \* clients
          DefaultSpace,   \* "default", the workspace of one-shot tasks and of a first start
          OtherSpaces,    \* ids of the other workspaces
          RecentSessions, \* limit of SessionStore.list
          MaxTokens,      \* bound: logins
          MaxSessions     \* bound: lines of sessions.jsonl

ASSUME CliSessionAssumption ==
    /\ DefaultSpace \notin OtherSpaces
    /\ {RecentSessions, MaxTokens, MaxSessions} \subseteq Nat

VARIABLES
    shell,      \* where each client is, its token, the workspaces it read last, and its own
    tokenFile,  \* token.json: the number of a login, 0 for no file
    issued,     \* logins so far
    refusing,   \* the last token that the gateway takes no more
    spaceFile,  \* workspaces.json: its ids, and whether it is whole
    sessionFile,\* sessions.jsonl: the workspace of each session
    discarded,  \* history: tokens a client was refused with, and cleared
    saved,      \* history: workspaces written
    overlapped  \* history: a save began during another's, or read a file that was not whole

homeVars == <<shell, tokenFile, issued, refusing, spaceFile, sessionFile, discarded,
                 saved, overlapped>>

Spaces == OtherSpaces \union {DefaultSpace}
Tokens == 1..MaxTokens
Off == [at |-> "off", token |-> 0, seen |-> {}, space |-> DefaultSpace, resumed |-> 0]

CliSessionTypeOK ==
    /\ shell \in [Clis -> [at : {"off", "login", "keep", "choose", "empty",
                                 "write", "connect", "refused", "prompt"},
                           token : 0..MaxTokens, seen : SUBSET Spaces, space : Spaces,
                           resumed : 0..MaxSessions]]
    /\ tokenFile \in 0..MaxTokens /\ issued \in 0..MaxTokens /\ refusing \in 0..MaxTokens
    /\ spaceFile \in [whole : BOOLEAN, ids : SUBSET Spaces]
    /\ sessionFile \in Seq(Spaces) /\ Len(sessionFile) <= MaxSessions
    /\ discarded \subseteq Tokens /\ saved \subseteq Spaces /\ overlapped \in BOOLEAN

CliSessionInit ==
    /\ shell = [c \in Clis |-> Off] /\ tokenFile = 0 /\ issued = 0 /\ refusing = 0
    /\ spaceFile = [whole |-> TRUE, ids |-> {}] /\ sessionFile = <<>>
    /\ discarded = {} /\ saved = {} /\ overlapped = FALSE

ShellGoes(c, at) == shell' = [shell EXCEPT ![c].at = at]
homeFiles == <<tokenFile, spaceFile, sessionFile>>
homeGateway == <<issued, refusing>>
homeHistory == <<discarded, saved, overlapped>>

-----------------------------------------------------------------------------
\* _load_workspaces: a file that cannot be read is an empty one.
ReadableSpaces == IF spaceFile.whole THEN spaceFile.ids ELSE {}

\* A client reads the workspaces and then the token, and no step writes both files.  load_token:
\* the cached token, if there is one that has not run out; one that the gateway refuses for
\* another reason is taken too.
StartCli(c) ==
    /\ shell[c].at = "off"
    /\ \E at \in {"login", "choose"} :
           /\ at = "login" => tokenFile <= refusing
           /\ at = "choose" => tokenFile # 0
           /\ shell' = [shell EXCEPT ![c] = [Off EXCEPT !.at = at, !.seen = ReadableSpaces,
                                !.token = IF at = "choose" THEN tokenFile ELSE 0]]
    /\ UNCHANGED <<homeFiles, homeGateway, homeHistory>>

\* _get_token: a login gives a new token; without one the client ends.
LogInCli(c) ==
    /\ shell[c].at = "login"
    /\ \/ /\ issued < MaxTokens /\ issued' = issued + 1
          /\ shell' = [shell EXCEPT ![c].at = "keep", ![c].token = issued + 1]
       \/ shell' = [shell EXCEPT ![c] = Off] /\ UNCHANGED issued
    /\ UNCHANGED <<homeFiles, refusing, homeHistory>>

SaveCliToken(c) ==
    /\ shell[c].at = "keep" /\ ShellGoes(c, "choose") /\ tokenFile' = shell[c].token
    /\ UNCHANGED <<spaceFile, sessionFile, homeGateway, homeHistory>>

\* Tokens run out in the order of their logins, or the gateway has a new secret.
RefuseTokens ==
    /\ refusing < issued /\ refusing' \in (refusing + 1)..issued
    /\ UNCHANGED <<shell, homeFiles, issued, homeHistory>>

-----------------------------------------------------------------------------
\* SessionStore.list reverses the lines and takes the last of them: the oldest sessions.
Listed == {i \in DOMAIN sessionFile : i <= RecentSessions}

\* Mutant: a save adds to what was read when the client started.
BaseFromStart(c) == shell[c].seen

\* _save_workspace reads the file again and adds to what it reads.
SaveBase(c) == ReadableSpaces

\* Mutant: --resume goes on in any workspace the client knows.
ResumableInAny(c, i) == shell[c].seen

\* --resume: the workspace of the session, if the client read it when it started.
Resumable(c, i) == {sessionFile[i]} \intersect shell[c].seen

ResumeSession(c) ==
    /\ shell[c].at = "choose"
    /\ \E i \in Listed : \E w \in Resumable(c, i) :
           shell' = [shell EXCEPT ![c].at = "connect", ![c].space = w, ![c].seen = {},
                                  ![c].resumed = i]
    /\ UNCHANGED <<homeFiles, homeGateway, homeHistory>>

\* --workspace with one that is known.
FlagKnownSpace(c) ==
    /\ shell[c].at = "choose"
    /\ \E w \in shell[c].seen :
           shell' = [shell EXCEPT ![c].at = "connect", ![c].space = w, ![c].seen = {}]
    /\ UNCHANGED <<homeFiles, homeGateway, homeHistory>>

\* A save starts with a read at once.
SaveStarts(c, w) ==
    /\ shell' = [shell EXCEPT ![c].at = "empty", ![c].space = w, ![c].seen = SaveBase(c)]
    /\ overlapped' = (overlapped \/ ~spaceFile.whole
                        \/ \E d \in Clis \ {c} : shell[d].at \in {"empty", "write"})

\* --workspace with one that is not known, or the default one, for a task of the command line and
\* for who has none.
SeedSpace(c) ==
    /\ shell[c].at = "choose"
    /\ \E w \in (Spaces \ shell[c].seen) \union {DefaultSpace} : SaveStarts(c, w)
    /\ UNCHANGED <<homeFiles, homeGateway, discarded, saved>>

\* pick_workspace: one of those the client read when it started, or a new one.
PickSpace(c) ==
    /\ shell[c].at = "choose" /\ shell[c].seen # {}
    /\ \E w \in shell[c].seen \union OtherSpaces : SaveStarts(c, w)
    /\ UNCHANGED <<homeFiles, homeGateway, discarded, saved>>

\* write_text empties the file, and then writes it.
SaveEmpties(c) ==
    /\ shell[c].at = "empty" /\ ShellGoes(c, "write")
    /\ spaceFile' = [whole |-> FALSE, ids |-> {}]
    /\ UNCHANGED <<tokenFile, sessionFile, homeGateway, homeHistory>>

SaveWrites(c) ==
    /\ shell[c].at = "write"
    /\ shell' = [shell EXCEPT ![c].at = "connect", ![c].seen = {}]
    /\ spaceFile' = [whole |-> TRUE, ids |-> shell[c].seen \union {shell[c].space}]
    /\ saved' = saved \union {shell[c].space}
    /\ UNCHANGED <<tokenFile, sessionFile, homeGateway, discarded, overlapped>>

-----------------------------------------------------------------------------
\* connect: for the prompt, or for the one task of the command line, which is not recorded and
\* ends the client; the token is not needed again.
ConnectCli(c) ==
    /\ shell[c].at = "connect"
    /\ IF shell[c].token <= refusing THEN ShellGoes(c, "refused")
       ELSE \/ shell' = [shell EXCEPT ![c].at = "prompt", ![c].token = 0]
            \/ shell[c].resumed = 0 /\ shell' = [shell EXCEPT ![c] = Off]
    /\ UNCHANGED <<homeFiles, homeGateway, homeHistory>>

\* Mutant: the token stays on file.
LeaveTokenFile(c) == UNCHANGED tokenFile

\* clear_token removes the file, whatever token it holds by now.
ClearTokenFile(c) == tokenFile' = 0

ClearToken(c) ==
    /\ shell[c].at = "refused" /\ shell' = [shell EXCEPT ![c] = Off]
    /\ ClearTokenFile(c) /\ discarded' = discarded \union {shell[c].token}
    /\ UNCHANGED <<spaceFile, sessionFile, homeGateway, saved, overlapped>>

\* _send_task records each task as a session of its own, and not under the one resumed.
SendCliTask(c) ==
    /\ shell[c].at = "prompt" /\ Len(sessionFile) < MaxSessions
    /\ sessionFile' = Append(sessionFile, shell[c].space)
    /\ UNCHANGED <<shell, tokenFile, spaceFile, homeGateway, homeHistory>>

QuitCli(c) ==
    /\ shell[c].at = "prompt" /\ shell' = [shell EXCEPT ![c] = Off]
    /\ UNCHANGED <<homeFiles, homeGateway, homeHistory>>

KillCli(c) ==
    /\ shell[c].at # "off" /\ shell' = [shell EXCEPT ![c] = Off]
    /\ UNCHANGED <<homeFiles, homeGateway, homeHistory>>

CliSessionNext ==
    \/ \E c \in Clis :
           \/ StartCli(c) \/ LogInCli(c) \/ SaveCliToken(c) \/ ResumeSession(c)
           \/ FlagKnownSpace(c) \/ SeedSpace(c) \/ PickSpace(c) \/ SaveEmpties(c)
           \/ SaveWrites(c) \/ ConnectCli(c) \/ ClearToken(c) \/ SendCliTask(c) \/ QuitCli(c)
           \/ KillCli(c)
    \/ RefuseTokens

CliSessionSpec == CliSessionInit /\ [][CliSessionNext]_homeVars

-----------------------------------------------------------------------------
\* What the clients of a user leave for the next: a token that one was refused with is not
\* tried again, unless it is killed before it clears it; a workspace that was saved stays on file
\* unless a save was cut off or two overlapped; every session was in a workspace that was saved;
\* and who resumes one works in its workspace.
HomeKept ==
    /\ tokenFile \notin discarded
    /\ overlapped \/ ~spaceFile.whole \/ saved \subseteq spaceFile.ids
    /\ \A i \in DOMAIN sessionFile : sessionFile[i] \in saved
    /\ \A c \in Clis : shell[c].resumed # 0 => shell[c].space = sessionFile[shell[c].resumed]
=============================================================================
