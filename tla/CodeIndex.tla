------------------------------ MODULE CodeIndex ------------------------------
(***************************************************************************)
(* codegraph_embedder/indexer.py and server.py: the symbols of the code    *)
(* graph's database are embedded into a Chroma collection, by a full pass  *)
(* when the server starts on an empty collection and by a poll for changed *)
(* files, two tasks of one loop that start together.  The database belongs *)
(* to another program, which scans files at any time.                      *)
(*                                                                         *)
(* A symbol's text is the number of the scan that last wrote it.           *)
(***************************************************************************)
EXTENDS Naturals, FiniteSets

CONSTANTS Files, Symbols,
          Home,          \* the file of each symbol
          BatchSize,     \* BATCH_SIZE
          MaxScans,      \* bound: scans of the other program
          MaxIndexFaults \* bound: calls that raise, and restarts

ASSUME IndexAssumption ==
    /\ Home \in [Symbols -> Files]
    /\ BatchSize \in Nat \ {0} /\ MaxScans \in Nat /\ MaxIndexFaults \in Nat

VARIABLES
    indexedAt,   \* files table: when each file was scanned, 0 for no row
    nodes,       \* nodes table: the text of each symbol, 0 for no row
    scans,
    vectors,     \* collection: the text each vector was made of, 0 for none
    seenFiles,   \* _seen_files, 0 for a file not in it
    fullPass,    \* where full_index is, and the rows it has left
    poll,        \* where watch is, with its changed files, new_seen and rows
    indexFaults,
    overtaken    \* history: files scanned between the read of full_index and its end, and
                 \* not embedded again since

codeIndexVars == <<indexedAt, nodes, scans, vectors, seenFiles, fullPass, poll, indexFaults,
                   overtaken>>

Times == 0..MaxScans
Texts == [Symbols -> Times]
Asleep == [at |-> "asleep", changed |-> {}, newSeen |-> [f \in Files |-> 0],
           rows |-> [s \in Symbols |-> 0]]

CodeIndexTypeOK ==
    /\ indexedAt \in [Files -> Times] /\ nodes \in Texts /\ scans \in Times
    /\ vectors \in Texts /\ seenFiles \in [Files -> Times]
    /\ fullPass \in [at : {"starting", "reading", "embedding", "over"}, rows : Texts]
    /\ poll \in [at : {"asleep", "reading", "embedding", "purging"}, changed : SUBSET Files,
                 newSeen : [Files -> Times], rows : Texts]
    /\ indexFaults \in 0..MaxIndexFaults /\ overtaken \subseteq Files

Fresh == [at |-> "starting", rows |-> [s \in Symbols |-> 0]]

CodeIndexInit ==
    /\ indexedAt = [f \in Files |-> 0] /\ nodes = [s \in Symbols |-> 0] /\ scans = 0
    /\ vectors = [s \in Symbols |-> 0] /\ seenFiles = [f \in Files |-> 0]
    /\ fullPass = Fresh /\ poll = Asleep /\ indexFaults = 0 /\ overtaken = {}

Overtakes(f) == overtaken' = IF fullPass.at = "embedding" THEN overtaken \union {f} ELSE overtaken

database == <<indexedAt, nodes, scans>>
memory == <<seenFiles, fullPass, poll>>

\* Another program scans a file: its symbols and its row change in one transaction.
ScanFile(f) ==
    /\ scans < MaxScans /\ scans' = scans + 1
    /\ indexedAt' = [indexedAt EXCEPT ![f] = scans + 1]
    /\ \E found \in SUBSET {s \in Symbols : Home[s] = f} :
           nodes' = [s \in Symbols |-> IF Home[s] # f THEN nodes[s]
                                       ELSE IF s \in found THEN scans + 1 ELSE 0]
    /\ Overtakes(f) /\ UNCHANGED <<vectors, memory, indexFaults>>

\* A file is gone: its rows are.
ForgetFile(f) ==
    /\ indexedAt[f] # 0
    /\ indexedAt' = [indexedAt EXCEPT ![f] = 0]
    /\ nodes' = [s \in Symbols |-> IF Home[s] = f THEN 0 ELSE nodes[s]]
    /\ Overtakes(f) /\ UNCHANGED <<scans, vectors, memory, indexFaults>>

-----------------------------------------------------------------------------
(* full_index                                                              *)

Upsert(rows) == vectors' = [s \in Symbols |-> IF rows[s] # 0 THEN rows[s] ELSE vectors[s]]

\* A collection that holds anything is taken for complete.
CountVectors ==
    /\ fullPass.at = "starting"
    /\ fullPass' = [fullPass EXCEPT !.at =
                        IF \E s \in Symbols : vectors[s] # 0 THEN "over" ELSE "reading"]
    /\ UNCHANGED <<database, vectors, seenFiles, poll, indexFaults, overtaken>>

ReadAll ==
    /\ fullPass.at = "reading"
    /\ fullPass' = [at |-> "embedding", rows |-> nodes]
    /\ UNCHANGED <<database, vectors, seenFiles, poll, indexFaults, overtaken>>

Left == {s \in Symbols : fullPass.rows[s] # 0}

\* One batch is embedded and stored as it was read.
EmbedBatch ==
    /\ fullPass.at = "embedding"
    /\ IF Left = {} THEN fullPass' = [fullPass EXCEPT !.at = "over"] /\ UNCHANGED vectors
       ELSE \E b \in (SUBSET Left) \ {{}} :
                /\ Cardinality(b) = BatchSize \/ (b = Left /\ Cardinality(b) < BatchSize)
                /\ Upsert([s \in Symbols |-> IF s \in b THEN fullPass.rows[s] ELSE 0])
                /\ fullPass' = [fullPass EXCEPT !.rows =
                                   [s \in Symbols |-> IF s \in b THEN 0 ELSE @[s]]]
    /\ UNCHANGED <<database, seenFiles, poll, indexFaults, overtaken>>

\* A call of full_index raises: its task ends, and nobody awaits it.  The count is
\* guarded, and a failed count goes on as for an empty collection.
FullFails ==
    /\ fullPass.at # "over" /\ indexFaults < MaxIndexFaults
    /\ indexFaults' = indexFaults + 1
    /\ fullPass' = IF fullPass.at = "starting" THEN [fullPass EXCEPT !.at = "reading"]
                   ELSE [fullPass EXCEPT !.at = "over"]
    /\ UNCHANGED <<database, vectors, seenFiles, poll, overtaken>>

-----------------------------------------------------------------------------
(* watch                                                                   *)

\* _changed_files: rows that are new or have another time; a row that is gone is not one.
Changed == {f \in Files : indexedAt[f] # 0 /\ indexedAt[f] # seenFiles[f]}

NewSeen == [f \in Files |-> IF f \in Changed THEN indexedAt[f] ELSE seenFiles[f]]

\* Mutant: the files count as seen before they are updated.
PollForgets ==
    /\ poll.at = "asleep" /\ Changed # {}
    /\ poll' = [Asleep EXCEPT !.at = "reading", !.changed = Changed, !.newSeen = NewSeen]
    /\ seenFiles' = NewSeen
    /\ UNCHANGED <<database, vectors, fullPass, indexFaults, overtaken>>

Poll ==
    /\ poll.at = "asleep" /\ Changed # {}
    /\ poll' = [Asleep EXCEPT !.at = "reading", !.changed = Changed, !.newSeen = NewSeen]
    /\ UNCHANGED <<database, vectors, seenFiles, fullPass, indexFaults, overtaken>>

\* incremental_update reads the symbols of the changed files in a second transaction.
ReadChanged ==
    /\ poll.at = "reading"
    /\ poll' = [poll EXCEPT !.at = "embedding",
                   !.rows = [s \in Symbols |-> IF Home[s] \in poll.changed THEN nodes[s] ELSE 0]]
    /\ UNCHANGED <<database, vectors, seenFiles, fullPass, indexFaults, overtaken>>

\* New vectors first, so that a failure leaves the old ones.
EmbedChanged ==
    /\ poll.at = "embedding"
    /\ Upsert(poll.rows)
    /\ poll' = [poll EXCEPT !.at = "purging"]
    /\ overtaken' = IF fullPass.at = "embedding" THEN overtaken ELSE overtaken \ poll.changed
    /\ UNCHANGED <<database, seenFiles, fullPass, indexFaults>>

\* Then the vectors of the file that are no symbol any more, file after file; after the
\* last one the files count as seen.
PurgeFile(f) ==
    /\ poll.at = "purging" /\ f \in poll.changed
    /\ vectors' = [s \in Symbols |-> IF Home[s] = f /\ poll.rows[s] = 0 THEN 0 ELSE vectors[s]]
    /\ IF poll.changed = {f} THEN poll' = Asleep /\ seenFiles' = poll.newSeen
       ELSE poll' = [poll EXCEPT !.changed = @ \ {f}] /\ UNCHANGED seenFiles
    /\ UNCHANGED <<database, fullPass, indexFaults, overtaken>>

\* A call raises: the next poll starts from what is seen.
PollFails ==
    /\ poll.at # "asleep" /\ indexFaults < MaxIndexFaults
    /\ indexFaults' = indexFaults + 1 /\ poll' = Asleep
    /\ UNCHANGED <<database, vectors, seenFiles, fullPass, overtaken>>

\* The server restarts; _seen_files is in memory only.
IndexerRestarts ==
    /\ indexFaults < MaxIndexFaults /\ indexFaults' = indexFaults + 1
    /\ seenFiles' = [f \in Files |-> 0] /\ fullPass' = Fresh /\ poll' = Asleep
    /\ UNCHANGED <<database, vectors, overtaken>>

CodeIndexNext ==
    \/ \E f \in Files : ScanFile(f) \/ ForgetFile(f) \/ PurgeFile(f)
    \/ CountVectors \/ ReadAll \/ EmbedBatch \/ FullFails
    \/ Poll \/ ReadChanged \/ EmbedChanged \/ PollFails
    \/ IndexerRestarts

CodeIndexSpec == CodeIndexInit /\ [][CodeIndexNext]_codeIndexVars

-----------------------------------------------------------------------------
\* Once a file counts as seen as it is in the database, the collection holds exactly its
\* symbols as they are, whatever the tasks, failures and restarts, unless full_index was
\* storing rows of it read before the scan.
SeenIsCurrent ==
    \A s \in Symbols :
        LET f == Home[s]
        IN indexedAt[f] # 0 /\ seenFiles[f] = indexedAt[f] /\ f \notin overtaken
               => vectors[s] = nodes[s]
=============================================================================
