----------------------------- MODULE ChatWindow -----------------------------
(***************************************************************************)
(* The desktop client's view of its chats (frontend/src/hooks/             *)
(* useLabmateWS.ts, as ChatScreen.tsx uses it) over one connection to the  *)
(* gateway (the session frames of ws_gateway/server.py).  The client keeps *)
(* the turns of one chat, plus what arrives meanwhile for others; opening a*)
(* chat makes it active at once and asks for its history, which arrives    *)
(* after whatever the gateway was sending.                                 *)
(*                                                                         *)
(* A turn is its number and role.  Texts, tools, reasoning and the order of*)
(* the chat list are left out: after a deletion any chat left may be first.*)
(***************************************************************************)
EXTENDS Naturals, Sequences, SequencesExt

CONSTANTS Chats,
          NoChat,
          OldChats, \* chats stored, with one turn each, when the client connects
          MaxTurnsSent, \* bound: messages sent
          MaxOpens      \* bound: chats opened, deleted or cancelled

ASSUME WindowAssumption ==
    /\ NoChat \notin Chats /\ OldChats \subseteq Chats
    /\ MaxTurnsSent \in Nat /\ MaxOpens \in Nat

VARIABLES
    screen,     \* the reducer's phase
    chatList,   \* state.sessions
    activeChat, \* state.activeSessionId
    window,     \* state.turns
    toServer,   \* frames on their way to the gateway
    toClient,   \* frames on their way to the client
    openedChat, \* the gateway's active_session_id
    storedTurns,\* chat -> its stored turns; deleted and new chats are absent
    relayed,    \* the turn being relayed, and whether it is done but not yet stored
    msgCount,   \* messages sent
    opens,      \* other commands so far
    givenWhole  \* history: the chat whose whole history the client was given last

windowVars == <<screen, chatList, activeChat, window, toServer, toClient, openedChat,
                storedTurns, relayed, msgCount, opens, givenWhole>>

ChatTurn(c, n, role) == [chat |-> c, n |-> n, role |-> role]
ChatTurns == [chat : Chats, n : 0..MaxTurnsSent, role : {"user", "assistant"}]
NoRelay == [turn |-> ChatTurn(NoChat, 0, "user"), at |-> "none"]
ToServer == [kind : {"open", "delete", "send", "cancel"}, chat : Chats, n : 0..MaxTurnsSent]
Command(k, c, n) == [kind |-> k, chat |-> c, n |-> n]
\* whole: history variable, no turn of the chat was running when this was sent.
ToClient(k, c, ts, whole) == [kind |-> k, chat |-> c, turns |-> ts, whole |-> whole]
Arrivals == [kind : {"plan", "ready", "updated", "history", "deleted", "created", "done"},
             chat : Chats \union {NoChat}, turns : Seq(ChatTurns), whole : BOOLEAN]
Stored(c) == IF c \in DOMAIN storedTurns THEN storedTurns[c] ELSE <<>>

WindowTypeOK ==
    /\ screen \in {"authenticating", "booting", "ready"}
    /\ chatList \subseteq Chats /\ activeChat \in Chats \union {NoChat}
    /\ window \in Seq(ChatTurns)
    /\ toServer \in Seq(ToServer)
    /\ toClient \in Seq(Arrivals)
    /\ openedChat \in Chats \union {NoChat}
    /\ DOMAIN storedTurns \subseteq Chats
    /\ \A c \in DOMAIN storedTurns : storedTurns[c] \in Seq(ChatTurns)
    /\ relayed \in [turn : ChatTurns, at : {"running", "storing"}] \union {NoRelay}
    /\ msgCount \in 0..MaxTurnsSent /\ opens \in 0..MaxOpens
    /\ givenWhole \in Chats \union {NoChat}

\* The token was accepted; the gateway sends its plan and, once booted, its chats.
WindowInit ==
    /\ screen = "authenticating" /\ chatList = {} /\ activeChat = NoChat /\ window = <<>>
    /\ toServer = <<>> /\ toClient = <<ToClient("plan", NoChat, <<>>, FALSE)>>
    /\ openedChat = NoChat /\ relayed = NoRelay /\ msgCount = 0 /\ opens = 0
    /\ storedTurns = [c \in OldChats |-> <<ChatTurn(c, 0, "user")>>]
    /\ givenWhole = NoChat

clientState == <<screen, chatList, activeChat, window, givenWhole>>
serverState == <<openedChat, storedTurns, relayed>>

-----------------------------------------------------------------------------
(* What the user does: commands change what is active at once.             *)

Commands(frame) == toServer' = Append(toServer, frame)

OpenChat(c) ==
    /\ screen = "ready" /\ c \in chatList /\ opens < MaxOpens
    /\ activeChat' = c /\ Commands(Command("open", c, 0)) /\ opens' = opens + 1
    /\ UNCHANGED <<screen, chatList, window, givenWhole, toClient, serverState, msgCount>>

\* A new chat has a fresh id that the gateway does not know.
NewChat(c) ==
    /\ screen = "ready" /\ opens < MaxOpens
    /\ c \notin OldChats \union chatList \union DOMAIN storedTurns
    /\ activeChat' = c /\ opens' = opens + 1
    /\ UNCHANGED <<screen, chatList, window, givenWhole, toServer, toClient, serverState, msgCount>>

SendMessage ==
    /\ screen = "ready" /\ activeChat # NoChat /\ msgCount < MaxTurnsSent
    /\ Commands(Command("send", activeChat, msgCount + 1)) /\ msgCount' = msgCount + 1
    /\ UNCHANGED <<clientState, toClient, serverState, opens>>

\* Delete any chat, or stop the turn shown.
OtherCommand ==
    /\ screen = "ready" /\ opens < MaxOpens /\ opens' = opens + 1
    /\ \/ \E c \in chatList : Commands(Command("delete", c, 0))
       \/ /\ \E t \in Range(window) : t.chat = activeChat /\ t.role = "assistant"
          /\ Commands(Command("cancel", activeChat, 0))
    /\ UNCHANGED <<clientState, toClient, serverState, msgCount>>

-----------------------------------------------------------------------------
(* The gateway.                                                            *)

Sends(frames) == toClient' = toClient \o frames

\* boot.ready names every chat and the newest one; no history comes with it.
BootReady ==
    /\ screen = "booting" /\ ~\E i \in DOMAIN toClient : toClient[i].kind = "ready"
    /\ \E c \in (IF OldChats = {} THEN {NoChat} ELSE OldChats) :
        Sends(<<ToClient("ready", c, <<>>, FALSE)>>)
    /\ UNCHANGED <<clientState, toServer, serverState, msgCount, opens>>

\* _handle_send: an unknown chat is created, the turn stored, then announced.
HandleMessage(c, n) ==
    /\ relayed = NoRelay
    /\ LET u == ChatTurn(c, n, "user")
           a == ChatTurn(c, n, "assistant")
       IN /\ storedTurns' = [d \in DOMAIN storedTurns \union {c} |->
                                 IF d = c THEN Append(Stored(c), u) ELSE storedTurns[d]]
          /\ Sends(<<ToClient("updated", c, <<>>, FALSE), ToClient("created", c, <<u>>, FALSE),
                     ToClient("created", c, <<a>>, FALSE)>>)
          /\ relayed' = [turn |-> a, at |-> "running"]
    /\ UNCHANGED openedChat

HandleOpen(c) ==
    /\ IF c \in DOMAIN storedTurns
       THEN /\ openedChat' = c
            /\ Sends(<<ToClient("updated", c, <<>>, FALSE),
                       ToClient("history", c, storedTurns[c], relayed.turn.chat # c)>>)
       ELSE UNCHANGED <<openedChat, toClient>>
    /\ UNCHANGED <<storedTurns, relayed>>

HandleDelete(c) ==
    /\ IF c \in DOMAIN storedTurns
       THEN /\ storedTurns' = [d \in DOMAIN storedTurns \ {c} |-> storedTurns[d]]
            /\ openedChat' = IF openedChat = c THEN NoChat ELSE openedChat
            /\ Sends(<<ToClient("deleted", c, <<>>, FALSE)>>)
       ELSE UNCHANGED <<storedTurns, openedChat, toClient>>
    /\ UNCHANGED relayed

\* A cancel ends the relay wherever it is; its turn is never stored.
HandleCancel ==
    /\ relayed' = NoRelay
    /\ Sends(<<ToClient("done", NoChat, <<>>, FALSE)>>)
    /\ UNCHANGED <<openedChat, storedTurns>>

HandleFrame ==
    /\ toServer # <<>> /\ toServer' = Tail(toServer)
    /\ LET f == Head(toServer)
       IN \/ f.kind = "send" /\ HandleMessage(f.chat, f.n)
          \/ f.kind = "open" /\ HandleOpen(f.chat)
          \/ f.kind = "delete" /\ HandleDelete(f.chat)
          \/ f.kind = "cancel" /\ HandleCancel
    /\ UNCHANGED <<clientState, msgCount, opens>>

\* turn.done is sent first and the assistant's turn stored after it.
TurnDoneSent ==
    /\ relayed.at = "running" /\ relayed' = [relayed EXCEPT !.at = "storing"]
    /\ Sends(<<ToClient("done", relayed.turn.chat, <<relayed.turn>>, FALSE)>>)
    /\ UNCHANGED <<clientState, toServer, openedChat, storedTurns, msgCount, opens>>

\* A store without the session keeps the turn all the same; nothing lists it.
TurnStored ==
    /\ relayed.at = "storing" /\ relayed' = NoRelay
    /\ LET c == relayed.turn.chat
       IN storedTurns' = IF c \in DOMAIN storedTurns
                         THEN [storedTurns EXCEPT ![c] = Append(@, relayed.turn)]
                         ELSE storedTurns
    /\ UNCHANGED <<clientState, toServer, toClient, openedChat, msgCount, opens>>

-----------------------------------------------------------------------------
(* The reducer.                                                            *)

\* Those of the turns that are some of the set, in their order.
Selected(turns, some) ==
    FoldLeft(LAMBDA kept, t : IF t \in some THEN Append(kept, t) ELSE kept, <<>>, turns)

\* Mutant: a history is only taken when the chat shows nothing yet.
MergeIntoEmpty(kept, turns) == IF kept = <<>> THEN turns ELSE kept

\* session.history: what is known of the chat, then what was not known.
Merge(kept, turns) == kept \o Selected(turns, ChatTurns \ Range(kept))

OfChat(c) == Selected(window, {t \in ChatTurns : t.chat = c})
NotOfChat(c) == Selected(window, {t \in ChatTurns : t.chat # c})

\* No chats: an id is minted for a first one.
BootReducer(f) ==
    /\ IF screen \in {"authenticating", "booting"}
       THEN screen' = "ready" /\ window' = <<>>
       ELSE UNCHANGED <<screen, window>>
    /\ chatList' = OldChats
    /\ IF f.chat = NoChat THEN \E c \in Chats : activeChat' = c ELSE activeChat' = f.chat
    /\ UNCHANGED givenWhole

\* The deleted chat's turns go; if it was active, the first chat left is.
DeletedReducer(f) ==
    /\ chatList' = chatList \ {f.chat} /\ window' = NotOfChat(f.chat)
    /\ IF f.chat # activeChat THEN UNCHANGED activeChat
       ELSE IF chatList' = {} THEN activeChat' = NoChat
       ELSE \E c \in chatList' : activeChat' = c
    /\ UNCHANGED <<screen, givenWhole>>

Reduce ==
    /\ toClient # <<>> /\ toClient' = Tail(toClient)
    /\ LET f == Head(toClient)
       IN \/ /\ f.kind = "plan" /\ screen' = "booting"
             /\ UNCHANGED <<chatList, activeChat, window, givenWhole>>
          \/ f.kind = "ready" /\ BootReducer(f)
          \/ /\ f.kind = "updated" /\ chatList' = chatList \union {f.chat}
             /\ UNCHANGED <<screen, activeChat, window, givenWhole>>
          \/ /\ f.kind = "created" /\ window' = window \o f.turns
             /\ UNCHANGED <<screen, chatList, activeChat, givenWhole>>
          \/ /\ f.kind = "history" /\ window' = Merge(OfChat(f.chat), f.turns)
             /\ givenWhole' = IF f.whole THEN f.chat ELSE NoChat
             /\ UNCHANGED <<screen, chatList, activeChat>>
          \/ f.kind = "deleted" /\ DeletedReducer(f)
          \/ f.kind = "done" /\ UNCHANGED clientState
    /\ UNCHANGED <<toServer, serverState, msgCount, opens>>

WindowNext ==
    \/ \E c \in Chats : OpenChat(c) \/ NewChat(c)
    \/ SendMessage \/ OtherCommand
    \/ BootReady \/ HandleFrame \/ TurnDoneSent \/ TurnStored
    \/ Reduce

WindowSpec == WindowInit /\ [][WindowNext]_windowVars

-----------------------------------------------------------------------------

\* When everything sent has arrived and no turn runs, the window of the chat that
\* was opened last shows every stored turn of it, unless one of its turns was
\* running when it was opened.
WindowComplete ==
    (toServer = <<>> /\ toClient = <<>> /\ relayed = NoRelay /\ activeChat = givenWhole)
        => Range(Stored(activeChat)) \subseteq Range(window)
=============================================================================
