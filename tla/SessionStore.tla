---------------------------- MODULE SessionStore ----------------------------
(***************************************************************************)
(* One chat session in the gateway's store (ws_gateway/mongo_session_store,*)
(* the session frames and the writes of turns in ws_gateway/server.py),    *)
(* with several connections on it.  Every call of MongoDB is an await; the *)
(* store swallows what a call raises and goes on with an empty answer.     *)
(* A connection writes one turn at a time: the user's, then, in its relay, *)
(* the assistant's.                                                        *)
(***************************************************************************)
EXTENDS Naturals, FiniteSets

CONSTANTS Conns,
          MaxRows,       \* bound: turns stored at once
          MaxDeletes,    \* bound: deletions
          MaxStoreFaults \* bound: raising calls, cancelled relays

ASSUME StoreAssumption == {MaxRows, MaxDeletes, MaxStoreFaults} \subseteq Nat

VARIABLES
    doc,         \* the session document exists
    turnCount,   \* its turnCount
    rows,        \* chat_turns of the session: number of the write -> seq
    written,     \* writes so far
    writer,      \* the write each connection is in: how far, which role, its count
    deletes,     \* deletions so far
    deleting,    \* connections between the two calls of delete
    storeFaults, \* faults so far
    mixed        \* history: writes or deletions overlapped, or a call raised

storeVars == <<doc, turnCount, rows, written, writer, deletes, deleting,
               storeFaults, mixed>>

StoreSteps == {"idle", "looking", "creating", "counting", "inserting", "recounting", "updating"}
NoWrite == [at |-> "idle", assistant |-> FALSE, n |-> 0]
Writes == 1..(2 * MaxRows)

StoreTypeOK ==
    /\ doc \in BOOLEAN /\ mixed \in BOOLEAN
    /\ turnCount \in 0..MaxRows
    /\ rows \subseteq Writes \X (0..MaxRows)
    /\ written \in 0..(2 * MaxRows)
    /\ deleting \subseteq Conns
    /\ writer \in [Conns -> [at : StoreSteps, assistant : BOOLEAN, n : 0..MaxRows]]
    /\ deletes \in 0..MaxDeletes /\ storeFaults \in 0..MaxStoreFaults

StoreInit ==
    /\ doc = FALSE /\ turnCount = 0 /\ rows = {} /\ written = 0
    /\ writer = [c \in Conns |-> NoWrite]
    /\ deletes = 0 /\ deleting = {} /\ storeFaults = 0 /\ mixed = FALSE

Busy(c) == writer[c].at # "idle" \/ c \in deleting
Room == Cardinality(rows) + Cardinality({c \in Conns : writer[c].at # "idle"}) < MaxRows
            /\ written < 2 * MaxRows
Moves(c, step) == writer' = [writer EXCEPT ![c].at = step]
Stops(c) == writer' = [writer EXCEPT ![c] = NoWrite]
sessionVars == <<doc, turnCount, rows, written>>
deleteVars == <<deletes, deleting>>

-----------------------------------------------------------------------------
(* Frames of a connection, and the end of its turn.                        *)

\* send: for the session the frame names, or else the active one; the previous
\* relay has ended.
SendTurn(c) ==
    /\ ~Busy(c) /\ Room
    /\ writer' = [writer EXCEPT ![c] = [NoWrite EXCEPT !.at = "looking"]]
    /\ mixed' = (mixed \/ \E d \in Conns : Busy(d))
    /\ UNCHANGED <<sessionVars, deleteVars, storeFaults>>

\* turn.done: the relay stores the assistant's turn.
StoreAnswer(c) ==
    /\ ~Busy(c) /\ Room
    /\ writer' = [writer EXCEPT ![c] = [NoWrite EXCEPT !.at = "counting", !.assistant = TRUE]]
    /\ mixed' = (mixed \/ (\E d \in Conns : Busy(d)) \/ ~doc)
    /\ UNCHANGED <<sessionVars, deleteVars, storeFaults>>

\* _handle_send: an unknown session is created under the client's id.
LookUp(c) ==
    /\ writer[c].at = "looking" /\ Moves(c, IF doc THEN "counting" ELSE "creating")
    /\ UNCHANGED <<sessionVars, deleteVars, storeFaults, mixed>>
CreateSession(c) ==
    /\ writer[c].at = "creating" /\ Moves(c, "counting")
    /\ doc' = TRUE /\ turnCount' = IF doc THEN turnCount ELSE 0
    /\ UNCHANGED <<rows, written, deleteVars, storeFaults, mixed>>

\* add_turn: the number of a turn is how many there are ...
CountTurns(c) ==
    /\ writer[c].at = "counting"
    /\ writer' = [writer EXCEPT ![c].at = "inserting", ![c].n = Cardinality(rows)]
    /\ UNCHANGED <<sessionVars, deleteVars, storeFaults, mixed>>

\* Mutant: turns are numbered from 1.
InsertFromOne(c) ==
    /\ writer[c].at = "inserting" /\ Moves(c, "recounting")
    /\ written' = written + 1 /\ rows' = rows \union {<<written + 1, writer[c].n + 1>>}
    /\ UNCHANGED <<doc, turnCount, deleteVars, storeFaults, mixed>>

\* ... when it is inserted, in a call of its own.
InsertTurn(c) ==
    /\ writer[c].at = "inserting" /\ Moves(c, "recounting")
    /\ written' = written + 1 /\ rows' = rows \union {<<written + 1, writer[c].n>>}
    /\ UNCHANGED <<doc, turnCount, deleteVars, storeFaults, mixed>>

Recount(c) ==
    /\ writer[c].at = "recounting"
    /\ writer' = [writer EXCEPT ![c].at = "updating", ![c].n = Cardinality(rows)]
    /\ UNCHANGED <<sessionVars, deleteVars, storeFaults, mixed>>
UpdateSession(c) ==
    /\ writer[c].at = "updating" /\ Stops(c)
    /\ turnCount' = IF doc THEN writer[c].n ELSE turnCount
    /\ UNCHANGED <<doc, rows, written, deleteVars, storeFaults, mixed>>

\* turns() raises, is logged, and counts as no turns at all.
CountFails(c) ==
    /\ writer[c].at \in {"counting", "recounting"} /\ storeFaults < MaxStoreFaults
    /\ storeFaults' = storeFaults + 1 /\ mixed' = TRUE
    /\ writer' = [writer EXCEPT ![c].at = IF @ = "counting" THEN "inserting" ELSE "updating",
                                ![c].n = 0]
    /\ UNCHANGED <<sessionVars, deleteVars>>

\* Another call raises, or a cancel frame ends the relay: the write ends there,
\* but a creation that raises is only logged.
WriteEnds(c) ==
    /\ \/ writer[c].at \in {"creating", "inserting", "updating"}
       \/ writer[c].assistant /\ writer[c].at # "idle"
    /\ storeFaults < MaxStoreFaults /\ storeFaults' = storeFaults + 1
    /\ mixed' = (mixed \/ writer[c].at \in {"creating", "recounting", "updating"})
    /\ IF writer[c].at = "creating" THEN Moves(c, "counting") ELSE Stops(c)
    /\ UNCHANGED <<sessionVars, deleteVars>>

\* session.delete: the document first, then the turns.
DeleteSession(c) ==
    /\ ~Busy(c) /\ deletes < MaxDeletes
    /\ deletes' = deletes + 1 /\ deleting' = deleting \union {c}
    /\ mixed' = (mixed \/ \E d \in Conns : Busy(d))
    /\ doc' = FALSE /\ turnCount' = 0
    /\ UNCHANGED <<rows, written, writer, storeFaults>>
\* Mutant: the turns are left behind.
KeepTurns(c) ==
    /\ c \in deleting /\ deleting' = deleting \ {c}
    /\ UNCHANGED <<sessionVars, writer, deletes, storeFaults, mixed>>
DeleteTurns(c) ==
    /\ c \in deleting /\ deleting' = deleting \ {c} /\ rows' = {}
    /\ UNCHANGED <<doc, turnCount, written, writer, deletes, storeFaults, mixed>>
DeleteFails(c) ==
    /\ c \in deleting /\ deleting' = deleting \ {c}
    /\ storeFaults < MaxStoreFaults /\ storeFaults' = storeFaults + 1 /\ mixed' = TRUE
    /\ UNCHANGED <<sessionVars, writer, deletes>>

-----------------------------------------------------------------------------
StoreNext ==
    \E c \in Conns :
        \/ SendTurn(c) \/ StoreAnswer(c)
        \/ LookUp(c) \/ CreateSession(c) \/ CountTurns(c) \/ InsertTurn(c)
        \/ Recount(c) \/ UpdateSession(c) \/ CountFails(c) \/ WriteEnds(c)
        \/ DeleteSession(c) \/ DeleteTurns(c) \/ DeleteFails(c)

StoreSpec == StoreInit /\ [][StoreNext]_storeVars

-----------------------------------------------------------------------------
(* Properties.                                                             *)

SeqsOf == {r[2] : r \in rows}

\* Between two writes the turns are numbered 0, 1, ... without gap or repeat,
\* the session counts them, and a session that is gone has none, unless writes
\* or deletions overlapped or a call was cut off (add_turn, delete).
StoreConsistent ==
    ~mixed /\ (\A c \in Conns : ~Busy(c)) =>
        /\ SeqsOf = 0..(Cardinality(rows) - 1) /\ Cardinality(SeqsOf) = Cardinality(rows)
        /\ doc => turnCount = Cardinality(rows)
        /\ ~doc => rows = {}

\* "0-based, monotonic per session" (mongo_session_store.py:212): no two turns
\* of the session have one number.
SeqUnique == Cardinality(SeqsOf) = Cardinality(rows)
=============================================================================
