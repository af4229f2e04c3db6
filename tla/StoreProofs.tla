---------------------------- MODULE StoreProofs -----------------------------
(***************************************************************************)
(* What the stores promise that several tasks and processes write, for any *)
(* documents, messages, bounds and faults, the record of the tasks a       *)
(* channel shows and the files of the command-line client among them: an   *)
(* inductive invariant for each store, kept by each of its actions, and    *)
(* the theorem that follows.                                               *)
(***************************************************************************)
EXTENDS CodeIndex, StreamOutbox, SessionStore, SkillRecords, Accounts, CitedPaper,
        ContextWindow, Consolidation, DiscordTasks, CliSession,
        FiniteSetTheorems, TLAPS

-----------------------------------------------------------------------------
(* CodeIndex: a file that counts as seen is held as it is.                 *)
(* SeenIsCurrent says nothing of the rows the two tasks carry, so it is    *)
(* not inductive.  TimeInv says that a new scan is later than whatever is  *)
(* remembered; FullInv that the rows full_index still has to store are     *)
(* those of the database but for overtaken files; PollInv that a file in   *)
(* the poll's hands is not seen yet, and that its rows and vectors are     *)
(* current unless it was scanned again.                                    *)

TimeInv ==
    \A f \in Files : indexedAt[f] <= scans /\ seenFiles[f] <= scans /\ poll.newSeen[f] <= scans

FullInv ==
    fullPass.at = "embedding" =>
        \A s \in Symbols : Home[s] \in overtaken \/ fullPass.rows[s] \in {0, nodes[s]}

\* The files of the running poll, those already purged among them.
Polled == {f \in Files : poll.newSeen[f] # seenFiles[f]}

\* The file is still as it was when the poll began.
AsPolled(f) == f \in Polled /\ indexedAt[f] = poll.newSeen[f]

PolledInv ==
    poll.at # "asleep" =>
        /\ poll.changed \subseteq Polled
        /\ poll.at # "purging" => poll.changed = Polled
        /\ \A f \in Polled : poll.newSeen[f] # 0 /\ indexedAt[f] \in {0} \union (Times \ {seenFiles[f]})

RowsInv ==
    poll.at \in {"embedding", "purging"} =>
        \A s \in Symbols :
            /\ AsPolled(Home[s]) /\ Home[s] \in poll.changed => poll.rows[s] = nodes[s]
            /\ Home[s] \notin Polled => poll.rows[s] = 0

PurgeInv ==
    poll.at = "purging" =>
        \A s \in Symbols :
            AsPolled(Home[s]) /\ Home[s] \notin overtaken =>
                \/ vectors[s] = nodes[s]
                \/ Home[s] \in poll.changed /\ nodes[s] = 0

IndexInv == /\ CodeIndexTypeOK /\ TimeInv /\ FullInv /\ PolledInv /\ RowsInv /\ PurgeInv
        /\ SeenIsCurrent

-----------------------------------------------------------------------------
(* The initial state, and one lemma per action, one step per conjunct.     *)

\* Nothing is indexed, seen or carried at the start.
LEMMA IndexInitInv == CodeIndexInit => IndexInv
BY IndexAssumption DEF CodeIndexInit, Fresh, Asleep, IndexInv, CodeIndexTypeOK, TimeInv,
   FullInv,
   Polled, PolledInv, RowsInv, PurgeInv, SeenIsCurrent, Times, Texts

\* The other program scans a file: its time is later than any that is remembered.
LEMMA ScanKeeps ==
    ASSUME IndexInv, NEW f \in Files, ScanFile(f) PROVE IndexInv'
<1>1. CodeIndexTypeOK'
  BY IndexAssumption DEF IndexInv, ScanFile, Overtakes, memory, CodeIndexTypeOK, Times, Texts
<1>2. TimeInv'
  BY IndexAssumption DEF IndexInv, ScanFile, Overtakes, memory, CodeIndexTypeOK, Times, Texts,
     TimeInv
<1>3. FullInv'
  BY IndexAssumption DEF IndexInv, ScanFile, Overtakes, memory, CodeIndexTypeOK, Times, Texts,
     FullInv
<1>4. PolledInv'
  BY IndexAssumption DEF IndexInv, ScanFile, Overtakes, memory, CodeIndexTypeOK, Times, Texts,
     TimeInv, PolledInv, Polled
<1>5. RowsInv'
  BY IndexAssumption DEF IndexInv, ScanFile, Overtakes, memory, CodeIndexTypeOK, Times, Texts,
     TimeInv, PolledInv, RowsInv, AsPolled, Polled
<1>6. PurgeInv'
  BY IndexAssumption DEF IndexInv, ScanFile, Overtakes, memory, CodeIndexTypeOK, Times, Texts,
     TimeInv, FullInv, PolledInv, RowsInv, PurgeInv, AsPolled, Polled
<1>7. SeenIsCurrent'
  BY IndexAssumption DEF IndexInv, ScanFile, Overtakes, memory, CodeIndexTypeOK, Times, Texts,
     TimeInv, FullInv, PolledInv, PurgeInv, AsPolled, Polled, SeenIsCurrent
<1> QED BY <1>1, <1>2, <1>3, <1>4, <1>5, <1>6, <1>7 DEF IndexInv

\* A file that is gone has no time, and its symbols are gone with it.
LEMMA ForgetKeeps ==
    ASSUME IndexInv, NEW f \in Files, ForgetFile(f) PROVE IndexInv'
<1>1. CodeIndexTypeOK'
  BY IndexAssumption DEF IndexInv, ForgetFile, Overtakes, memory, CodeIndexTypeOK, Times, Texts
<1>2. TimeInv'
  BY IndexAssumption DEF IndexInv, ForgetFile, Overtakes, memory, CodeIndexTypeOK, Times, Texts,
     TimeInv
<1>3. FullInv'
  BY IndexAssumption DEF IndexInv, ForgetFile, Overtakes, memory, CodeIndexTypeOK, Times, Texts,
     FullInv
<1>4. PolledInv'
  BY IndexAssumption DEF IndexInv, ForgetFile, Overtakes, memory, CodeIndexTypeOK, Times, Texts,
     TimeInv, PolledInv, Polled
<1>5. RowsInv'
  BY IndexAssumption DEF IndexInv, ForgetFile, Overtakes, memory, CodeIndexTypeOK, Times, Texts,
     TimeInv, PolledInv, RowsInv, AsPolled, Polled
<1>6. PurgeInv'
  BY IndexAssumption DEF IndexInv, ForgetFile, Overtakes, memory, CodeIndexTypeOK, Times, Texts,
     TimeInv, FullInv, PolledInv, RowsInv, PurgeInv, AsPolled, Polled
<1>7. SeenIsCurrent'
  BY IndexAssumption DEF IndexInv, ForgetFile, Overtakes, memory, CodeIndexTypeOK, Times, Texts,
     TimeInv, FullInv, PolledInv, PurgeInv, AsPolled, Polled, SeenIsCurrent
<1> QED BY <1>1, <1>2, <1>3, <1>4, <1>5, <1>6, <1>7 DEF IndexInv

\* The count changes nothing but where the full pass is.
LEMMA CountKeeps ==
    ASSUME IndexInv, CountVectors PROVE IndexInv'
<1>1. CodeIndexTypeOK'
  BY IndexAssumption DEF IndexInv, CountVectors, database, CodeIndexTypeOK, Times, Texts
<1>2. TimeInv'
  BY IndexAssumption DEF IndexInv, CountVectors, database, CodeIndexTypeOK, Times, Texts,
     TimeInv
<1>3. FullInv'
  BY IndexAssumption DEF IndexInv, CountVectors, database, CodeIndexTypeOK, Times, Texts,
     FullInv
<1>4. PolledInv'
  BY IndexAssumption DEF IndexInv, CountVectors, database, CodeIndexTypeOK, Times, Texts,
     TimeInv, PolledInv, Polled
<1>5. RowsInv'
  BY IndexAssumption DEF IndexInv, CountVectors, database, CodeIndexTypeOK, Times, Texts,
     TimeInv, PolledInv, RowsInv, AsPolled, Polled
<1>6. PurgeInv'
  BY IndexAssumption DEF IndexInv, CountVectors, database, CodeIndexTypeOK, Times, Texts,
     TimeInv, FullInv, PolledInv, RowsInv, PurgeInv, AsPolled, Polled
<1>7. SeenIsCurrent'
  BY IndexAssumption DEF IndexInv, CountVectors, database, CodeIndexTypeOK, Times, Texts,
     TimeInv, FullInv, PolledInv, PurgeInv, AsPolled, Polled, SeenIsCurrent
<1> QED BY <1>1, <1>2, <1>3, <1>4, <1>5, <1>6, <1>7 DEF IndexInv

\* The rows just read are those of the database.
LEMMA ReadKeeps ==
    ASSUME IndexInv, ReadAll PROVE IndexInv'
<1>1. CodeIndexTypeOK'
  BY IndexAssumption DEF IndexInv, ReadAll, database, CodeIndexTypeOK, Times, Texts
<1>2. TimeInv'
  BY IndexAssumption DEF IndexInv, ReadAll, database, CodeIndexTypeOK, Times, Texts, TimeInv
<1>3. FullInv'
  BY IndexAssumption DEF IndexInv, ReadAll, database, CodeIndexTypeOK, Times, Texts, FullInv
<1>4. PolledInv'
  BY IndexAssumption DEF IndexInv, ReadAll, database, CodeIndexTypeOK, Times, Texts, TimeInv,
     PolledInv, Polled
<1>5. RowsInv'
  BY IndexAssumption DEF IndexInv, ReadAll, database, CodeIndexTypeOK, Times, Texts, TimeInv,
     PolledInv, RowsInv, AsPolled, Polled
<1>6. PurgeInv'
  BY IndexAssumption DEF IndexInv, ReadAll, database, CodeIndexTypeOK, Times, Texts, TimeInv,
     FullInv, PolledInv, RowsInv, PurgeInv, AsPolled, Polled
<1>7. SeenIsCurrent'
  BY IndexAssumption DEF IndexInv, ReadAll, database, CodeIndexTypeOK, Times, Texts, TimeInv,
     FullInv, PolledInv, PurgeInv, AsPolled, Polled, SeenIsCurrent
<1> QED BY <1>1, <1>2, <1>3, <1>4, <1>5, <1>6, <1>7 DEF IndexInv

\* A batch stores rows that are current but for overtaken files.
LEMMA BatchKeeps ==
    ASSUME IndexInv, EmbedBatch PROVE IndexInv'
<1>1. CodeIndexTypeOK'
  BY IndexAssumption DEF IndexInv, EmbedBatch, Left, Upsert, database, CodeIndexTypeOK, Times,
     Texts
<1>2. TimeInv'
  BY IndexAssumption DEF IndexInv, EmbedBatch, Left, Upsert, database, CodeIndexTypeOK, Times,
     Texts, TimeInv
<1>3. FullInv'
  BY IndexAssumption DEF IndexInv, EmbedBatch, Left, Upsert, database, CodeIndexTypeOK, Times,
     Texts, FullInv
<1>4. PolledInv'
  BY IndexAssumption DEF IndexInv, EmbedBatch, Left, Upsert, database, CodeIndexTypeOK, Times,
     Texts, TimeInv, PolledInv, Polled
<1>5. RowsInv'
  BY IndexAssumption DEF IndexInv, EmbedBatch, Left, Upsert, database, CodeIndexTypeOK, Times,
     Texts, TimeInv, PolledInv, RowsInv, AsPolled, Polled
<1>6. PurgeInv'
  BY IndexAssumption DEF IndexInv, EmbedBatch, Left, Upsert, database, CodeIndexTypeOK, Times,
     Texts, TimeInv, FullInv, PolledInv, RowsInv, PurgeInv, AsPolled, Polled
<1>7. SeenIsCurrent'
  BY IndexAssumption DEF IndexInv, EmbedBatch, Left, Upsert, database, CodeIndexTypeOK, Times,
     Texts, TimeInv, FullInv, PolledInv, PurgeInv, AsPolled, Polled, SeenIsCurrent
<1> QED BY <1>1, <1>2, <1>3, <1>4, <1>5, <1>6, <1>7 DEF IndexInv

\* A failed call of the full pass stores nothing.
LEMMA FullFailKeeps ==
    ASSUME IndexInv, FullFails PROVE IndexInv'
<1>1. CodeIndexTypeOK'
  BY IndexAssumption DEF IndexInv, FullFails, database, CodeIndexTypeOK, Times, Texts
<1>2. TimeInv'
  BY IndexAssumption DEF IndexInv, FullFails, database, CodeIndexTypeOK, Times, Texts, TimeInv
<1>3. FullInv'
  BY IndexAssumption DEF IndexInv, FullFails, database, CodeIndexTypeOK, Times, Texts, FullInv
<1>4. PolledInv'
  BY IndexAssumption DEF IndexInv, FullFails, database, CodeIndexTypeOK, Times, Texts, TimeInv,
     PolledInv, Polled
<1>5. RowsInv'
  BY IndexAssumption DEF IndexInv, FullFails, database, CodeIndexTypeOK, Times, Texts, TimeInv,
     PolledInv, RowsInv, AsPolled, Polled
<1>6. PurgeInv'
  BY IndexAssumption DEF IndexInv, FullFails, database, CodeIndexTypeOK, Times, Texts, TimeInv,
     FullInv, PolledInv, RowsInv, PurgeInv, AsPolled, Polled
<1>7. SeenIsCurrent'
  BY IndexAssumption DEF IndexInv, FullFails, database, CodeIndexTypeOK, Times, Texts, TimeInv,
     FullInv, PolledInv, PurgeInv, AsPolled, Polled, SeenIsCurrent
<1> QED BY <1>1, <1>2, <1>3, <1>4, <1>5, <1>6, <1>7 DEF IndexInv

\* A poll begins with the files whose time is not the one seen.
LEMMA PollKeeps ==
    ASSUME IndexInv, Poll PROVE IndexInv'
<1>1. CodeIndexTypeOK'
  <2>1. NewSeen \in [Files -> Times]
    BY DEF IndexInv, CodeIndexTypeOK, NewSeen
  <2>2. Changed \subseteq Files
    BY DEF Changed
  <2>3. poll' = [at |-> "reading", changed |-> Changed, newSeen |-> NewSeen,
                 rows |-> [s \in Symbols |-> 0]]
    BY DEF Poll, Asleep
  <2>4. [s \in Symbols |-> 0] \in Texts
    BY IndexAssumption DEF Texts, Times
  <2> HIDE DEF NewSeen, Changed
  <2> QED BY <2>1, <2>2, <2>3, <2>4 DEF IndexInv, Poll, database, CodeIndexTypeOK
<1>2. TimeInv'
  BY IndexAssumption DEF IndexInv, Poll, Asleep, Changed, NewSeen, database, CodeIndexTypeOK,
     Times, Texts, TimeInv
<1>3. FullInv'
  BY IndexAssumption DEF IndexInv, Poll, Asleep, Changed, NewSeen, database, CodeIndexTypeOK,
     Times, Texts, FullInv
<1>4. PolledInv'
  BY IndexAssumption DEF IndexInv, Poll, Asleep, Changed, NewSeen, database, CodeIndexTypeOK,
     Times, Texts, TimeInv, PolledInv, Polled
<1>5. RowsInv'
  BY IndexAssumption DEF IndexInv, Poll, Asleep, Changed, NewSeen, database, CodeIndexTypeOK,
     Times, Texts, TimeInv, PolledInv, RowsInv, AsPolled, Polled
<1>6. PurgeInv'
  BY IndexAssumption DEF IndexInv, Poll, Asleep, Changed, NewSeen, database, CodeIndexTypeOK,
     Times, Texts, TimeInv, FullInv, PolledInv, RowsInv, PurgeInv, AsPolled, Polled
<1>7. SeenIsCurrent'
  BY IndexAssumption DEF IndexInv, Poll, Asleep, Changed, NewSeen, database, CodeIndexTypeOK,
     Times, Texts, TimeInv, FullInv, PolledInv, PurgeInv, AsPolled, Polled, SeenIsCurrent
<1> QED BY <1>1, <1>2, <1>3, <1>4, <1>5, <1>6, <1>7 DEF IndexInv

\* The rows of the changed files are read as they are.
LEMMA ReadChangedKeeps ==
    ASSUME IndexInv, ReadChanged PROVE IndexInv'
<1>1. CodeIndexTypeOK'
  <2> DEFINE current == [s \in Symbols |-> IF Home[s] \in poll.changed THEN nodes[s] ELSE 0]
  <2>1. current \in Texts
    BY IndexAssumption DEF IndexInv, CodeIndexTypeOK, Texts, Times
  <2>2. poll' = [at |-> "embedding", changed |-> poll.changed, newSeen |-> poll.newSeen,
                 rows |-> current]
    BY DEF IndexInv, CodeIndexTypeOK, ReadChanged
  <2>3. poll.changed \in SUBSET Files /\ poll.newSeen \in [Files -> Times]
    BY DEF IndexInv, CodeIndexTypeOK
  <2>4. UNCHANGED <<indexedAt, nodes, scans, vectors, seenFiles, fullPass, indexFaults, overtaken>>
    BY DEF ReadChanged, database
  <2> HIDE DEF current
  <2> QED BY <2>1, <2>2, <2>3, <2>4 DEF IndexInv, CodeIndexTypeOK
<1>2. TimeInv'
  BY IndexAssumption DEF IndexInv, ReadChanged, database, CodeIndexTypeOK, Times, Texts, TimeInv
<1>3. FullInv'
  BY IndexAssumption DEF IndexInv, ReadChanged, database, CodeIndexTypeOK, Times, Texts, FullInv
<1>4. PolledInv'
  BY IndexAssumption DEF IndexInv, ReadChanged, database, CodeIndexTypeOK, Times, Texts,
     TimeInv, PolledInv, Polled
<1>5. RowsInv'
  BY IndexAssumption DEF IndexInv, ReadChanged, database, CodeIndexTypeOK, Times, Texts,
     TimeInv, PolledInv, RowsInv, AsPolled, Polled
<1>6. PurgeInv'
  BY IndexAssumption DEF IndexInv, ReadChanged, database, CodeIndexTypeOK, Times, Texts,
     TimeInv, FullInv, PolledInv, RowsInv, PurgeInv, AsPolled, Polled
<1>7. SeenIsCurrent'
  BY IndexAssumption DEF IndexInv, ReadChanged, database, CodeIndexTypeOK, Times, Texts,
     TimeInv, FullInv, PolledInv, PurgeInv, AsPolled, Polled, SeenIsCurrent
<1> QED BY <1>1, <1>2, <1>3, <1>4, <1>5, <1>6, <1>7 DEF IndexInv

\* The rows are stored, and their files not overtaken any more.
LEMMA EmbedChangedKeeps ==
    ASSUME IndexInv, EmbedChanged PROVE IndexInv'
<1>1. CodeIndexTypeOK'
  BY IndexAssumption DEF IndexInv, EmbedChanged, Upsert, database, CodeIndexTypeOK, Times, Texts
<1>2. TimeInv'
  BY IndexAssumption DEF IndexInv, EmbedChanged, Upsert, database, CodeIndexTypeOK, Times,
     Texts, TimeInv
<1>3. FullInv'
  BY IndexAssumption DEF IndexInv, EmbedChanged, Upsert, database, CodeIndexTypeOK, Times,
     Texts, FullInv
<1>4. PolledInv'
  BY IndexAssumption DEF IndexInv, EmbedChanged, Upsert, database, CodeIndexTypeOK, Times,
     Texts, TimeInv, PolledInv, Polled
<1>5. RowsInv'
  BY IndexAssumption DEF IndexInv, EmbedChanged, Upsert, database, CodeIndexTypeOK, Times,
     Texts, TimeInv, PolledInv, RowsInv, AsPolled, Polled
<1>6. PurgeInv'
  BY IndexAssumption DEF IndexInv, EmbedChanged, Upsert, database, CodeIndexTypeOK, Times,
     Texts, TimeInv, FullInv, PolledInv, RowsInv, PurgeInv, AsPolled, Polled
<1>7. SeenIsCurrent'
  <2> SUFFICES ASSUME NEW s \in Symbols, indexedAt[Home[s]] # 0,
                      seenFiles[Home[s]] = indexedAt[Home[s]], Home[s] \notin overtaken'
               PROVE vectors'[s] = nodes[s]
    BY DEF EmbedChanged, database, SeenIsCurrent
  <2>1. Home[s] \in Files
    BY IndexAssumption
  <2>2. Home[s] \notin poll.changed /\ poll.rows[s] = 0
    BY <2>1 DEF IndexInv, EmbedChanged, PolledInv, RowsInv, Polled
  <2>3. Home[s] \notin overtaken
    BY <2>2 DEF EmbedChanged
  <2>4. vectors'[s] = vectors[s]
    BY <2>2 DEF EmbedChanged, Upsert
  <2> QED BY <2>3, <2>4 DEF IndexInv, SeenIsCurrent
<1> QED BY <1>1, <1>2, <1>3, <1>4, <1>5, <1>6, <1>7 DEF IndexInv

\* The purge drops the vectors without a symbol; the last one makes the files seen.
LEMMA PurgeKeeps ==
    ASSUME IndexInv, NEW f \in Files, PurgeFile(f) PROVE IndexInv'
<1>1. CodeIndexTypeOK'
  BY IndexAssumption DEF IndexInv, PurgeFile, Asleep, database, CodeIndexTypeOK, Times, Texts
<1>2. TimeInv'
  BY IndexAssumption DEF IndexInv, PurgeFile, Asleep, database, CodeIndexTypeOK, Times, Texts,
     TimeInv
<1>3. FullInv'
  BY IndexAssumption DEF IndexInv, PurgeFile, Asleep, database, CodeIndexTypeOK, Times, Texts,
     FullInv
<1>4. PolledInv'
  BY IndexAssumption DEF IndexInv, PurgeFile, Asleep, database, CodeIndexTypeOK, Times, Texts,
     TimeInv, PolledInv, Polled
<1>5. RowsInv'
  BY IndexAssumption DEF IndexInv, PurgeFile, Asleep, database, CodeIndexTypeOK, Times, Texts,
     TimeInv, PolledInv, RowsInv, AsPolled, Polled
<1>6. PurgeInv'
  BY IndexAssumption DEF IndexInv, PurgeFile, Asleep, database, CodeIndexTypeOK, Times, Texts,
     TimeInv, FullInv, PolledInv, RowsInv, PurgeInv, AsPolled, Polled
<1>7. SeenIsCurrent'
  <2> SUFFICES ASSUME NEW s \in Symbols, indexedAt[Home[s]] # 0,
                      seenFiles'[Home[s]] = indexedAt[Home[s]], Home[s] \notin overtaken
               PROVE vectors'[s] = nodes[s]
    BY DEF PurgeFile, database, SeenIsCurrent
  <2>1. Home[s] \in Files
    BY IndexAssumption
  <2>2. CASE Home[s] \in Polled
    <3>1. seenFiles'[Home[s]] = poll.newSeen[Home[s]] /\ poll.changed = {f}
      BY <2>1, <2>2 DEF IndexInv, PurgeFile, PolledInv, Polled
    <3>2. AsPolled(Home[s])
      BY <2>2, <3>1 DEF AsPolled
    <3>3. CASE Home[s] = f
      BY <3>2, <3>3 DEF IndexInv, PurgeFile, RowsInv, PurgeInv, CodeIndexTypeOK, Texts
    <3>4. CASE Home[s] # f
      BY <3>1, <3>2, <3>4 DEF IndexInv, PurgeFile, PurgeInv, CodeIndexTypeOK, Texts
    <3> QED BY <3>3, <3>4
  <2>3. CASE Home[s] \notin Polled
    <3>1. seenFiles'[Home[s]] = seenFiles[Home[s]] /\ Home[s] # f
      BY <2>1, <2>3 DEF IndexInv, PurgeFile, PolledInv, Polled
    <3> QED BY <3>1 DEF IndexInv, PurgeFile, SeenIsCurrent
  <2> QED BY <2>2, <2>3
<1> QED BY <1>1, <1>2, <1>3, <1>4, <1>5, <1>6, <1>7 DEF IndexInv

\* A failed poll forgets its files, which are as unseen as before.
LEMMA PollFailKeeps ==
    ASSUME IndexInv, PollFails PROVE IndexInv'
<1>1. CodeIndexTypeOK'
  BY IndexAssumption DEF IndexInv, PollFails, Asleep, database, CodeIndexTypeOK, Times, Texts
<1>2. TimeInv'
  BY IndexAssumption DEF IndexInv, PollFails, Asleep, database, CodeIndexTypeOK, Times, Texts,
     TimeInv
<1>3. FullInv'
  BY IndexAssumption DEF IndexInv, PollFails, Asleep, database, CodeIndexTypeOK, Times, Texts,
     FullInv
<1>4. PolledInv'
  BY IndexAssumption DEF IndexInv, PollFails, Asleep, database, CodeIndexTypeOK, Times, Texts,
     TimeInv, PolledInv, Polled
<1>5. RowsInv'
  BY IndexAssumption DEF IndexInv, PollFails, Asleep, database, CodeIndexTypeOK, Times, Texts,
     TimeInv, PolledInv, RowsInv, AsPolled, Polled
<1>6. PurgeInv'
  BY IndexAssumption DEF IndexInv, PollFails, Asleep, database, CodeIndexTypeOK, Times, Texts,
     TimeInv, FullInv, PolledInv, RowsInv, PurgeInv, AsPolled, Polled
<1>7. SeenIsCurrent'
  BY IndexAssumption DEF IndexInv, PollFails, Asleep, database, CodeIndexTypeOK, Times, Texts,
     TimeInv, FullInv, PolledInv, PurgeInv, AsPolled, Polled, SeenIsCurrent
<1> QED BY <1>1, <1>2, <1>3, <1>4, <1>5, <1>6, <1>7 DEF IndexInv

\* After a restart no file is seen.
LEMMA RestartKeeps ==
    ASSUME IndexInv, IndexerRestarts PROVE IndexInv'
<1>1. CodeIndexTypeOK'
  BY IndexAssumption DEF IndexInv, IndexerRestarts, Fresh, Asleep, database, CodeIndexTypeOK,
     Times, Texts
<1>2. TimeInv'
  BY IndexAssumption DEF IndexInv, IndexerRestarts, Fresh, Asleep, database, CodeIndexTypeOK,
     Times, Texts, TimeInv
<1>3. FullInv'
  BY IndexAssumption DEF IndexInv, IndexerRestarts, Fresh, Asleep, database, CodeIndexTypeOK,
     Times, Texts, FullInv
<1>4. PolledInv'
  BY IndexAssumption DEF IndexInv, IndexerRestarts, Fresh, Asleep, database, CodeIndexTypeOK,
     Times, Texts, TimeInv, PolledInv, Polled
<1>5. RowsInv'
  BY IndexAssumption DEF IndexInv, IndexerRestarts, Fresh, Asleep, database, CodeIndexTypeOK,
     Times, Texts, TimeInv, PolledInv, RowsInv, AsPolled, Polled
<1>6. PurgeInv'
  BY IndexAssumption DEF IndexInv, IndexerRestarts, Fresh, Asleep, database, CodeIndexTypeOK,
     Times, Texts, TimeInv, FullInv, PolledInv, RowsInv, PurgeInv, AsPolled, Polled
<1>7. SeenIsCurrent'
  BY IndexAssumption DEF IndexInv, IndexerRestarts, Fresh, Asleep, database, CodeIndexTypeOK,
     Times, Texts, TimeInv, FullInv, PolledInv, PurgeInv, AsPolled, Polled, SeenIsCurrent
<1> QED BY <1>1, <1>2, <1>3, <1>4, <1>5, <1>6, <1>7 DEF IndexInv

\* Every step, stuttering among them, keeps the inductive invariant.
LEMMA StepKeeps == IndexInv /\ [CodeIndexNext]_codeIndexVars => IndexInv'
<1> SUFFICES ASSUME IndexInv, [CodeIndexNext]_codeIndexVars PROVE IndexInv'
  OBVIOUS
<1>1. CASE UNCHANGED codeIndexVars
  BY <1>1 DEF codeIndexVars, IndexInv, CodeIndexTypeOK, TimeInv, FullInv, AsPolled, Polled,
              PolledInv, RowsInv, PurgeInv, SeenIsCurrent
<1>2. CASE CodeIndexNext
  BY <1>2, ScanKeeps, ForgetKeeps, CountKeeps, ReadKeeps, BatchKeeps,
     FullFailKeeps, PollKeeps, ReadChangedKeeps, EmbedChangedKeeps,
     PurgeKeeps, PollFailKeeps, RestartKeeps
  DEF CodeIndexNext
<1> QED BY <1>1, <1>2

\* The specification never leaves the inductive invariant.
LEMMA IndexInvariant == CodeIndexSpec => []IndexInv
BY IndexInitInv, StepKeeps, PTL DEF CodeIndexSpec

-----------------------------------------------------------------------------
\* Every variable of the two tasks and of the stores keeps its type.
THEOREM IndexTypeCorrect == CodeIndexSpec => []CodeIndexTypeOK
<1>1. IndexInv => CodeIndexTypeOK
  BY DEF IndexInv
<1> QED BY <1>1, IndexInvariant, PTL

\* A file that counts as seen (_seen_files) has exactly its symbols in the collection,
\* unless full_index was storing rows of it that are older than its last scan.
THEOREM SeenCurrent == CodeIndexSpec => []SeenIsCurrent
<1>1. IndexInv => SeenIsCurrent
  BY DEF IndexInv
<1> QED BY <1>1, IndexInvariant, PTL

-----------------------------------------------------------------------------
(* StreamOutbox, for any managers, messages and faults.  NothingSkipped     *)
(* speaks of the token only; SkipsNothing says the same of what each task   *)
(* was delivered, but for the message in its hands, and HandInv what has    *)
(* been done with that one.                                                *)

\* A task does the work of a message in this order.
HandInv ==
  \A p \in Managers :
    /\ tail[p].at \in {"enqueue", "mark", "save"} => tail[p].seen \in projected
    /\ tail[p].at \in {"mark", "save"} => tail[p].seen \in queued
    /\ tail[p].at = "save" => tail[p].seen \in marked

TailInv == StreamTypeOK /\ token <= inserted /\ NothingSkipped /\ SkipsNothing /\ HandInv

\* Nothing is inserted and nothing tailed.
LEMMA StreamInitInv == StreamInit => TailInv
BY DEF StreamInit, NotTailing, TailInv, StreamTypeOK, TailOf, TailStages, NothingSkipped,
   SkipsNothing, HandInv

\* A manager is entered: its task knows nothing yet.
LEMMA StartManagerKeeps ==
  ASSUME TailInv, NEW p \in Managers, StartManager(p) PROVE TailInv'
<1>1. StreamTypeOK'
  BY DEF TailInv, StartManager, Stage, StreamFault, NotTailing, StreamTypeOK, TailOf, TailStages
<1>2. token' <= inserted'
  BY DEF TailInv, StartManager, Stage, StreamFault, StreamTypeOK, TailOf, SkipsNothing
<1>3. NothingSkipped'
  BY DEF TailInv, StartManager, Stage, StreamFault, StreamTypeOK, TailOf, NothingSkipped,
     SkipsNothing,
     HandInv, IsDone
<1>4. SkipsNothing'
  BY DEF TailInv, StartManager, Stage, StreamFault, NotTailing, StreamTypeOK, TailOf,
     NothingSkipped,
     SkipsNothing, HandInv, IsDone
<1>5. HandInv'
  BY DEF TailInv, StartManager, Stage, StreamFault, NotTailing, StreamTypeOK, TailOf, HandInv
<1> QED BY <1>1, <1>2, <1>3, <1>4, <1>5 DEF TailInv

\* The task takes over what the token stands for.
LEMMA ReadTokenKeeps ==
  ASSUME TailInv, NEW p \in Managers, ReadToken(p) PROVE TailInv'
<1>1. StreamTypeOK'
  BY ZenonT(30) DEF TailInv, ReadToken, Stage, StreamFault, NotTailing, StreamTypeOK, TailOf,
     TailStages
<1>2. token' <= inserted'
  BY DEF TailInv, ReadToken, Stage, StreamFault, StreamTypeOK, TailOf, SkipsNothing
<1>3. NothingSkipped'
  BY DEF TailInv, ReadToken, Stage, StreamFault, StreamTypeOK, TailOf, NothingSkipped,
     SkipsNothing,
     HandInv, IsDone
<1>4. SkipsNothing'
  BY DEF TailInv, ReadToken, Stage, StreamFault, NotTailing, StreamTypeOK, TailOf,
     NothingSkipped,
     SkipsNothing, HandInv, IsDone
<1>5. HandInv'
  BY DEF TailInv, ReadToken, Stage, StreamFault, NotTailing, StreamTypeOK, TailOf, HandInv
<1> QED BY <1>1, <1>2, <1>3, <1>4, <1>5 DEF TailInv

\* A stream without a token begins where the messages end.
LEMMA OpenStreamKeeps ==
  ASSUME TailInv, NEW p \in Managers, OpenStream(p) PROVE TailInv'
<1>1. StreamTypeOK /\ tail[p] \in TailOf /\ inserted \in Nat
  BY DEF TailInv, StreamTypeOK
<1>2. StreamTypeOK'
  <2>1. CASE tail[p].resumes = 0
    BY <1>1, <2>1 DEF OpenStream, StreamTypeOK, TailOf, TailStages
  <2>2. CASE tail[p].resumes # 0
    BY <1>1, <2>2 DEF OpenStream, StreamTypeOK, TailOf, TailStages
  <2> QED BY <2>1, <2>2
<1>3. token' <= inserted'
  BY DEF TailInv, OpenStream, Stage, StreamFault, StreamTypeOK, TailOf, SkipsNothing
<1>4. NothingSkipped'
  BY DEF TailInv, OpenStream, Stage, StreamFault, StreamTypeOK, TailOf, NothingSkipped,
     SkipsNothing,
     HandInv, IsDone
<1>5. SkipsNothing'
  BY DEF TailInv, OpenStream, Stage, StreamFault, NotTailing, StreamTypeOK, TailOf,
     NothingSkipped,
     SkipsNothing, HandInv, IsDone
<1>6. HandInv'
  BY DEF TailInv, OpenStream, Stage, StreamFault, NotTailing, StreamTypeOK, TailOf, HandInv
<1> QED BY <1>2, <1>3, <1>4, <1>5, <1>6 DEF TailInv

\* The task has one more message in its hands.
LEMMA ReadChangeKeeps ==
  ASSUME TailInv, NEW p \in Managers, ReadChange(p) PROVE TailInv'
<1>1. StreamTypeOK'
  BY DEF TailInv, ReadChange, Stage, StreamFault, NotTailing, StreamTypeOK, TailOf, TailStages
<1>2. token' <= inserted'
  BY DEF TailInv, ReadChange, Stage, StreamFault, StreamTypeOK, TailOf, SkipsNothing
<1>3. NothingSkipped'
  BY DEF TailInv, ReadChange, Stage, StreamFault, StreamTypeOK, TailOf, NothingSkipped,
     SkipsNothing,
     HandInv, IsDone
<1>4. SkipsNothing'
  BY DEF TailInv, ReadChange, Stage, StreamFault, NotTailing, StreamTypeOK, TailOf,
     NothingSkipped,
     SkipsNothing, HandInv, IsDone
<1>5. HandInv'
  BY DEF TailInv, ReadChange, Stage, StreamFault, NotTailing, StreamTypeOK, TailOf, HandInv
<1> QED BY <1>1, <1>2, <1>3, <1>4, <1>5 DEF TailInv

\* The message can be found.
LEMMA UpsertPointKeeps ==
  ASSUME TailInv, NEW p \in Managers, UpsertPoint(p) PROVE TailInv'
<1>1. StreamTypeOK'
  BY DEF TailInv, UpsertPoint, Stage, StreamFault, NotTailing, StreamTypeOK, TailOf, TailStages
<1>2. token' <= inserted'
  BY DEF TailInv, UpsertPoint, Stage, StreamFault, StreamTypeOK, TailOf, SkipsNothing
<1>3. NothingSkipped'
  BY DEF TailInv, UpsertPoint, Stage, StreamFault, StreamTypeOK, TailOf, NothingSkipped,
     SkipsNothing,
     HandInv, IsDone
<1>4. SkipsNothing'
  BY DEF TailInv, UpsertPoint, Stage, StreamFault, NotTailing, StreamTypeOK, TailOf,
     NothingSkipped,
     SkipsNothing, HandInv, IsDone
<1>5. HandInv'
  BY DEF TailInv, UpsertPoint, Stage, StreamFault, NotTailing, StreamTypeOK, TailOf, HandInv
<1> QED BY <1>1, <1>2, <1>3, <1>4, <1>5 DEF TailInv

\* The message is queued.
LEMMA EnqueueKeeps ==
  ASSUME TailInv, NEW p \in Managers, Enqueue(p) PROVE TailInv'
<1>1. StreamTypeOK'
  BY DEF TailInv, Enqueue, Stage, StreamFault, NotTailing, StreamTypeOK, TailOf, TailStages
<1>2. token' <= inserted'
  BY DEF TailInv, Enqueue, Stage, StreamFault, StreamTypeOK, TailOf, SkipsNothing
<1>3. NothingSkipped'
  BY DEF TailInv, Enqueue, Stage, StreamFault, StreamTypeOK, TailOf, NothingSkipped,
     SkipsNothing,
     HandInv, IsDone
<1>4. SkipsNothing'
  BY DEF TailInv, Enqueue, Stage, StreamFault, NotTailing, StreamTypeOK, TailOf, NothingSkipped,
     SkipsNothing, HandInv, IsDone
<1>5. HandInv'
  BY DEF TailInv, Enqueue, Stage, StreamFault, NotTailing, StreamTypeOK, TailOf, HandInv
<1> QED BY <1>1, <1>2, <1>3, <1>4, <1>5 DEF TailInv

\* The mark is the last of the three.
LEMMA MarkProcessedKeeps ==
  ASSUME TailInv, NEW p \in Managers, MarkProcessed(p) PROVE TailInv'
<1>1. StreamTypeOK'
  BY DEF TailInv, MarkProcessed, Stage, StreamFault, NotTailing, StreamTypeOK, TailOf,
     TailStages
<1>2. token' <= inserted'
  BY DEF TailInv, MarkProcessed, Stage, StreamFault, StreamTypeOK, TailOf, SkipsNothing
<1>3. NothingSkipped'
  BY DEF TailInv, MarkProcessed, Stage, StreamFault, StreamTypeOK, TailOf, NothingSkipped,
     SkipsNothing,
     HandInv, IsDone
<1>4. SkipsNothing'
  BY DEF TailInv, MarkProcessed, Stage, StreamFault, NotTailing, StreamTypeOK, TailOf,
     NothingSkipped,
     SkipsNothing, HandInv, IsDone
<1>5. HandInv'
  BY DEF TailInv, MarkProcessed, Stage, StreamFault, NotTailing, StreamTypeOK, TailOf, HandInv
<1> QED BY <1>1, <1>2, <1>3, <1>4, <1>5 DEF TailInv

\* The token covers the message only now.
LEMMA SaveTokenKeeps ==
  ASSUME TailInv, NEW p \in Managers, SaveToken(p) PROVE TailInv'
<1>1. StreamTypeOK'
  BY DEF TailInv, SaveToken, Stage, StreamFault, NotTailing, StreamTypeOK, TailOf, TailStages
<1>2. token' <= inserted'
  BY DEF TailInv, SaveToken, Stage, StreamFault, StreamTypeOK, TailOf, SkipsNothing
<1>3. NothingSkipped'
  BY DEF TailInv, SaveToken, Stage, StreamFault, StreamTypeOK, TailOf, NothingSkipped,
     SkipsNothing,
     HandInv, IsDone
<1>4. SkipsNothing'
  BY DEF TailInv, SaveToken, Stage, StreamFault, NotTailing, StreamTypeOK, TailOf,
     NothingSkipped,
     SkipsNothing, HandInv, IsDone
<1>5. HandInv'
  BY DEF TailInv, SaveToken, Stage, StreamFault, NotTailing, StreamTypeOK, TailOf, HandInv
<1> QED BY <1>1, <1>2, <1>3, <1>4, <1>5 DEF TailInv

\* A task that died is never resumed where it was.
LEMMA TaskFailsKeeps ==
  ASSUME TailInv, NEW p \in Managers, TaskFails(p) PROVE TailInv'
<1>1. StreamTypeOK'
  BY DEF TailInv, TaskFails, Stage, StreamFault, NotTailing, StreamTypeOK, TailOf, TailStages
<1>2. token' <= inserted'
  BY DEF TailInv, TaskFails, Stage, StreamFault, StreamTypeOK, TailOf, SkipsNothing
<1>3. NothingSkipped'
  BY DEF TailInv, TaskFails, Stage, StreamFault, StreamTypeOK, TailOf, NothingSkipped,
     SkipsNothing,
     HandInv, IsDone
<1>4. SkipsNothing'
  BY DEF TailInv, TaskFails, Stage, StreamFault, NotTailing, StreamTypeOK, TailOf,
     NothingSkipped,
     SkipsNothing, HandInv, IsDone
<1>5. HandInv'
  BY DEF TailInv, TaskFails, Stage, StreamFault, NotTailing, StreamTypeOK, TailOf, HandInv
<1> QED BY <1>1, <1>2, <1>3, <1>4, <1>5 DEF TailInv

\* A manager that is left forgets what it was delivered.
LEMMA StopManagerKeeps ==
  ASSUME TailInv, NEW p \in Managers, StopManager(p) PROVE TailInv'
<1>1. StreamTypeOK'
  BY DEF TailInv, StopManager, Stage, StreamFault, NotTailing, StreamTypeOK, TailOf, TailStages
<1>2. token' <= inserted'
  BY DEF TailInv, StopManager, Stage, StreamFault, StreamTypeOK, TailOf, SkipsNothing
<1>3. NothingSkipped'
  BY DEF TailInv, StopManager, Stage, StreamFault, StreamTypeOK, TailOf, NothingSkipped,
     SkipsNothing,
     HandInv, IsDone
<1>4. SkipsNothing'
  BY DEF TailInv, StopManager, Stage, StreamFault, NotTailing, StreamTypeOK, TailOf,
     NothingSkipped,
     SkipsNothing, HandInv, IsDone
<1>5. HandInv'
  BY DEF TailInv, StopManager, Stage, StreamFault, NotTailing, StreamTypeOK, TailOf, HandInv
<1> QED BY <1>1, <1>2, <1>3, <1>4, <1>5 DEF TailInv

\* A message is newer than all that were delivered.
LEMMA WriteMessageKeeps ==
  ASSUME TailInv, NEW p \in Managers, WriteMessage(p) PROVE TailInv'
<1>1. StreamTypeOK'
  BY DEF TailInv, WriteMessage, Stage, StreamFault, NotTailing, StreamTypeOK, TailOf, TailStages
<1>2. token' <= inserted'
  BY DEF TailInv, WriteMessage, Stage, StreamFault, StreamTypeOK, TailOf, SkipsNothing
<1>3. NothingSkipped'
  BY DEF TailInv, WriteMessage, Stage, StreamFault, StreamTypeOK, TailOf, NothingSkipped,
     SkipsNothing,
     HandInv, IsDone
<1>4. SkipsNothing'
  BY DEF TailInv, WriteMessage, Stage, StreamFault, NotTailing, StreamTypeOK, TailOf,
     NothingSkipped,
     SkipsNothing, HandInv, IsDone
<1>5. HandInv'
  BY DEF TailInv, WriteMessage, Stage, StreamFault, NotTailing, StreamTypeOK, TailOf, HandInv
<1> QED BY <1>1, <1>2, <1>3, <1>4, <1>5 DEF TailInv

\* Every step keeps the invariant.
LEMMA StreamStepKeeps == TailInv /\ [StreamNext]_tailVars => TailInv'
<1>1. ASSUME TailInv, UNCHANGED tailVars PROVE TailInv'
  BY <1>1 DEF tailVars, TailInv, StreamTypeOK, NothingSkipped, SkipsNothing, HandInv, IsDone
<1> QED
  BY <1>1, StartManagerKeeps, ReadTokenKeeps, OpenStreamKeeps, ReadChangeKeeps,
     UpsertPointKeeps, EnqueueKeeps, MarkProcessedKeeps, SaveTokenKeeps, TaskFailsKeeps,
     StopManagerKeeps, WriteMessageKeeps DEF StreamNext

\* So it always holds.
LEMMA TailInvariance == StreamSpec => []TailInv
BY StreamInitInv, StreamStepKeeps, PTL DEF StreamSpec

\* The types of the stores and the tasks.
THEOREM StreamTypeCorrect == StreamSpec => []StreamTypeOK
<1>1. TailInv => StreamTypeOK
  BY DEF TailInv
<1> QED BY <1>1, TailInvariance, PTL

\* The resume token passes over no message inserted after the last stream that opened without
\* one whose work is not done: NothingSkipped, of _run_outbox (memory/storage_manager.py).
THEOREM TokenSkipsNothing == StreamSpec => []NothingSkipped
<1>1. TailInv => NothingSkipped
  BY DEF TailInv
<1> QED BY <1>1, TailInvariance, PTL

-----------------------------------------------------------------------------
(* SessionStore: as long as writes and deletions do not overlap, one        *)
(* connection at most is at work, and how far it is says what the session  *)
(* and its turns are.                                                      *)

\* The turns are numbered as they were written, and by other numbers too.
TurnsKnown ==
    /\ IsFiniteSet(rows) /\ written \in Nat
    /\ \A r \in rows : r = <<r[1], r[2]>> /\ r[1] \in Nat /\ r[1] <= written
    /\ writer \in [Conns -> [at : StoreSteps, assistant : BOOLEAN, n : Nat]]
    /\ doc \in BOOLEAN /\ mixed \in BOOLEAN /\ deleting \subseteq Conns
    /\ \A c \in deleting : writer[c].at = "idle"

Numbered == SeqsOf = 0 .. (Cardinality(rows) - 1)
Counted == Numbered /\ (doc => turnCount = Cardinality(rows)) /\ (~doc => rows = {})

OneAtWork ==
    /\ \A c, d \in Conns : Busy(c) /\ Busy(d) => c = d
    /\ (\A c \in Conns : ~Busy(c)) => Counted
    /\ \A c \in Conns :
           /\ writer[c].at \in {"looking", "creating", "counting", "inserting"} => Counted
           /\ writer[c].at \in {"counting", "inserting", "recounting", "updating"} => doc /\ Numbered
           /\ writer[c].at = "creating" => ~doc
           /\ writer[c].at \in {"inserting", "updating"} => writer[c].n = Cardinality(rows)
           /\ c \in deleting => ~doc

SessionsInv == TurnsKnown /\ (~mixed => OneAtWork)

LEMMA SessionsInitInv == StoreInit => SessionsInv
<1> SUFFICES ASSUME StoreInit PROVE SessionsInv
  OBVIOUS
<1>1. rows = {} /\ Cardinality(rows) = 0 /\ IsFiniteSet(rows) /\ SeqsOf = {} /\ 0 .. (0 - 1) = {}
  BY FS_EmptySet DEF StoreInit, SeqsOf
<1>2. TurnsKnown
  BY <1>1 DEF StoreInit, TurnsKnown, NoWrite, StoreSteps
<1>3. Counted
  BY <1>1 DEF StoreInit, Counted, Numbered
<1>4. OneAtWork
  BY <1>3 DEF StoreInit, OneAtWork, Busy, NoWrite
<1> QED BY <1>2, <1>4 DEF SessionsInv

\* What is stored says as much after a step that leaves it as before.
LEMMA StoredSame ==
  ASSUME rows' = rows
  PROVE  /\ Numbered' <=> Numbered
         /\ doc' = doc /\ turnCount' = turnCount => (Counted' <=> Counted)
<1>1. SeqsOf' = SeqsOf
  BY DEF SeqsOf
<1>2. Numbered' <=> Numbered
  BY <1>1 DEF Numbered
<1> QED BY <1>2 DEF Counted

\* A connection that moves on while the others stay where they are.
LEMMA OthersStay ==
  ASSUME SessionsInv, NEW c \in Conns, NEW w \in [at : StoreSteps, assistant : BOOLEAN, n : Nat],
         writer' = [writer EXCEPT ![c] = w]
  PROVE  /\ writer'[c] = w /\ writer' \in [Conns -> [at : StoreSteps, assistant : BOOLEAN, n : Nat]]
         /\ \A d \in Conns : d # c => writer'[d] = writer[d]
BY DEF SessionsInv, TurnsKnown

\* One connection at work is kept by its going on, if what it comes to holds there.
LEMMA GoesOn ==
  ASSUME SessionsInv, NEW c \in Conns, NEW w \in [at : StoreSteps, assistant : BOOLEAN, n : Nat],
         writer' = [writer EXCEPT ![c] = w], writer[c].at # "idle", w.at # "idle", deleting' = deleting,
         mixed' = mixed,
         ~mixed =>
             /\ w.at \in {"looking", "creating", "counting", "inserting"} => Counted'
             /\ w.at \in {"counting", "inserting", "recounting", "updating"} => doc' /\ Numbered'
             /\ w.at = "creating" => ~doc'
             /\ w.at \in {"inserting", "updating"} => w.n = Cardinality(rows')
  PROVE  ~mixed' => OneAtWork'
<1> SUFFICES ASSUME ~mixed PROVE OneAtWork'
  OBVIOUS
<1>1. /\ writer'[c] = w /\ \A d \in Conns : d # c => writer'[d] = writer[d]
  BY OthersStay
<1>2. Busy(c) /\ \A d \in Conns : d # c => ~Busy(d)
  BY DEF SessionsInv, OneAtWork, Busy
<1>3. \A d \in Conns : d # c => writer'[d].at = "idle" /\ d \notin deleting
  BY <1>1, <1>2 DEF Busy
<1>4. c \notin deleting
  BY DEF SessionsInv, TurnsKnown
<1>5. Busy(c)' /\ \A d \in Conns : Busy(d)' => d = c
  BY <1>1, <1>3 DEF Busy
<1> QED BY <1>1, <1>3, <1>4, <1>5 DEF OneAtWork

\* A connection ends its write where the session is in order, and none is at work.
LEMMA WriteOver ==
  ASSUME SessionsInv, NEW c \in Conns, Stops(c), deleting' = deleting, writer[c].at # "idle",
         ~mixed' => ~mixed /\ Counted'
  PROVE  ~mixed' => OneAtWork'
<1> SUFFICES ASSUME ~mixed', ~mixed, Counted' PROVE OneAtWork'
  OBVIOUS
<1>1. writer'[c].at = "idle" /\ \A d \in Conns : d # c => writer'[d] = writer[d]
  BY DEF Stops, NoWrite, SessionsInv, TurnsKnown
<1>2. \A d \in Conns : d # c => ~Busy(d)
  BY DEF SessionsInv, OneAtWork, Busy
<1>3. \A d \in Conns : writer'[d].at = "idle" /\ d \notin deleting
  BY <1>1, <1>2 DEF Busy, SessionsInv, TurnsKnown
<1>4. \A d \in Conns : ~Busy(d)'
  BY <1>3 DEF Busy
<1> QED BY <1>3, <1>4 DEF OneAtWork

\* A connection begins a write or a deletion where none is at work.
LEMMA NoneAtWork ==
  ASSUME SessionsInv, NEW c \in Conns, ~Busy(c), ~mixed, ~\E d \in Conns : Busy(d)
  PROVE  /\ Counted /\ deleting = {}
         /\ \A d \in Conns : writer[d].at = "idle"
BY DEF SessionsInv, OneAtWork, Busy, TurnsKnown

LEMMA SessionsStep == SessionsInv /\ [StoreNext]_storeVars => SessionsInv'
<1> SUFFICES ASSUME SessionsInv, [StoreNext]_storeVars PROVE SessionsInv'
  OBVIOUS
<1> DEFINE Write == [at : StoreSteps, assistant : BOOLEAN, n : Nat]
<1>1. /\ Cardinality(rows) \in Nat /\ written \in Nat /\ doc \in BOOLEAN /\ mixed \in BOOLEAN
      /\ \A c \in Conns : writer[c] \in Write
      /\ writer \in [Conns -> Write]
  BY FS_CardinalityType DEF SessionsInv, TurnsKnown
<1>2. ASSUME NEW c \in Conns, SendTurn(c) PROVE SessionsInv'
  <2> DEFINE w == [NoWrite EXCEPT !.at = "looking"]
  <2>1. w \in Write /\ w.at = "looking"
    BY DEF NoWrite, StoreSteps
  <2>2. /\ writer' = [writer EXCEPT ![c] = w] /\ ~Busy(c)
        /\ mixed' = (mixed \/ \E d \in Conns : Busy(d))
        /\ UNCHANGED <<doc, turnCount, rows, written, deleting>>
    BY <1>2 DEF SendTurn, sessionVars, deleteVars
  <2> HIDE DEF w
  <2>3. /\ writer'[c] = w /\ writer' \in [Conns -> Write]
        /\ \A d \in Conns : d # c => writer'[d] = writer[d]
    BY <1>1, <2>1, <2>2
  <2>4. TurnsKnown'
    BY <2>2, <2>3 DEF SessionsInv, TurnsKnown, Busy
  <2>5. ASSUME ~mixed' PROVE OneAtWork'
    <3>1. Counted /\ deleting = {} /\ \A d \in Conns : writer[d].at = "idle"
      BY <2>2, <2>5, NoneAtWork
    <3>2. Counted'
      BY <2>2, <3>1, StoredSame
    <3>3. Busy(c)' /\ \A d \in Conns : Busy(d)' => d = c
      BY <2>1, <2>2, <2>3, <3>1 DEF Busy
    <3> QED BY <2>1, <2>2, <2>3, <3>1, <3>2, <3>3 DEF OneAtWork
  <2> QED BY <2>4, <2>5 DEF SessionsInv
<1>3. ASSUME NEW c \in Conns, StoreAnswer(c) PROVE SessionsInv'
  <2> DEFINE w == [NoWrite EXCEPT !.at = "counting", !.assistant = TRUE]
  <2>1. w \in Write /\ w.at = "counting"
    BY DEF NoWrite, StoreSteps
  <2>2. /\ writer' = [writer EXCEPT ![c] = w] /\ ~Busy(c)
        /\ mixed' = (mixed \/ (\E d \in Conns : Busy(d)) \/ ~doc)
        /\ UNCHANGED <<doc, turnCount, rows, written, deleting>>
    BY <1>3 DEF StoreAnswer, sessionVars, deleteVars
  <2> HIDE DEF w
  <2>3. /\ writer'[c] = w /\ writer' \in [Conns -> Write]
        /\ \A d \in Conns : d # c => writer'[d] = writer[d]
    BY <1>1, <2>1, <2>2
  <2>4. TurnsKnown'
    BY <2>2, <2>3 DEF SessionsInv, TurnsKnown, Busy
  <2>5. ASSUME ~mixed' PROVE OneAtWork'
    <3>1. Counted /\ deleting = {} /\ doc /\ \A d \in Conns : writer[d].at = "idle"
      BY <2>2, <2>5, NoneAtWork
    <3>2. Counted' /\ Numbered' /\ doc'
      BY <2>2, <3>1, StoredSame DEF Counted
    <3>3. Busy(c)' /\ \A d \in Conns : Busy(d)' => d = c
      BY <2>1, <2>2, <2>3, <3>1 DEF Busy
    <3> QED BY <2>1, <2>2, <2>3, <3>1, <3>2, <3>3 DEF OneAtWork
  <2> QED BY <2>4, <2>5 DEF SessionsInv
<1>4. ASSUME NEW c \in Conns, LookUp(c) PROVE SessionsInv'
  <2>1. PICK w \in Write : /\ writer' = [writer EXCEPT ![c] = w]
                           /\ w.at = IF doc THEN "counting" ELSE "creating"
    <3>1. [writer[c] EXCEPT !.at = IF doc THEN "counting" ELSE "creating"] \in Write
      BY <1>1 DEF StoreSteps
    <3> QED BY <1>1, <1>4, <3>1 DEF LookUp, Moves
  <2>2. UNCHANGED <<doc, turnCount, rows, written, deleting, mixed>> /\ writer[c].at = "looking"
    BY <1>4 DEF LookUp, sessionVars, deleteVars
  <2>3. ~mixed => Counted' /\ Numbered'
    BY <2>2, StoredSame DEF SessionsInv, OneAtWork, Counted
  <2>4. ~mixed' => OneAtWork'
    BY <2>1, <2>2, <2>3, GoesOn
  <2>5. TurnsKnown'
    BY <1>1, <2>1, <2>2 DEF SessionsInv, TurnsKnown
  <2> QED BY <2>4, <2>5 DEF SessionsInv
<1>5. ASSUME NEW c \in Conns, CreateSession(c) PROVE SessionsInv'
  <2>1. PICK w \in Write : writer' = [writer EXCEPT ![c] = w] /\ w.at = "counting"
    <3>1. [writer[c] EXCEPT !.at = "counting"] \in Write
      BY <1>1 DEF StoreSteps
    <3> QED BY <1>1, <1>5, <3>1 DEF CreateSession, Moves
  <2>2. /\ UNCHANGED <<rows, written, deleting, mixed>> /\ writer[c].at = "creating"
        /\ doc' = TRUE /\ turnCount' = IF doc THEN turnCount ELSE 0
    BY <1>5 DEF CreateSession, deleteVars
  <2>3. ~mixed => Counted' /\ Numbered'
    <3>1. ~mixed => ~doc /\ Counted
      BY <2>2 DEF SessionsInv, OneAtWork
    <3>2. ~mixed => rows = {} /\ Cardinality(rows) = 0 /\ turnCount' = 0 /\ Numbered
      BY <2>2, <3>1, FS_EmptySet DEF Counted
    <3> QED BY <2>2, <3>2, StoredSame DEF Counted
  <2>4. ~mixed' => OneAtWork'
    BY <2>1, <2>2, <2>3, GoesOn
  <2>5. TurnsKnown'
    BY <1>1, <2>1, <2>2 DEF SessionsInv, TurnsKnown
  <2> QED BY <2>4, <2>5 DEF SessionsInv
<1>6. ASSUME NEW c \in Conns, CountTurns(c) PROVE SessionsInv'
  <2>1. PICK w \in Write : /\ writer' = [writer EXCEPT ![c] = w] /\ w.at = "inserting"
                           /\ w.n = Cardinality(rows)
    <3>1. [writer[c] EXCEPT !.at = "inserting", !.n = Cardinality(rows)] \in Write
      BY <1>1 DEF StoreSteps
    <3> QED BY <1>1, <1>6, <3>1 DEF CountTurns
  <2>2. UNCHANGED <<doc, turnCount, rows, written, deleting, mixed>> /\ writer[c].at = "counting"
    BY <1>6 DEF CountTurns, sessionVars, deleteVars
  <2>3. ~mixed => Counted' /\ Numbered' /\ doc'
    BY <2>2, StoredSame DEF SessionsInv, OneAtWork, Counted
  <2>4. ~mixed' => OneAtWork'
    BY <2>1, <2>2, <2>3, GoesOn
  <2>5. TurnsKnown'
    BY <1>1, <2>1, <2>2 DEF SessionsInv, TurnsKnown
  <2> QED BY <2>4, <2>5 DEF SessionsInv
<1>7. ASSUME NEW c \in Conns, InsertTurn(c) PROVE SessionsInv'
  <2>1. PICK w \in Write : writer' = [writer EXCEPT ![c] = w] /\ w.at = "recounting"
    <3>1. [writer[c] EXCEPT !.at = "recounting"] \in Write
      BY <1>1 DEF StoreSteps
    <3> QED BY <1>1, <1>7, <3>1 DEF InsertTurn, Moves
  <2> DEFINE row == <<written + 1, writer[c].n>>
  <2>2. /\ UNCHANGED <<doc, turnCount, deleting, mixed>> /\ writer[c].at = "inserting"
        /\ rows' = rows \union {row} /\ written' = written + 1
    BY <1>7 DEF InsertTurn, deleteVars
  <2>3. row \notin rows /\ row = <<row[1], row[2]>> /\ row[1] = written + 1 /\ row[2] = writer[c].n
    BY <1>1 DEF SessionsInv, TurnsKnown
  <2> HIDE DEF row
  <2>4. IsFiniteSet(rows') /\ Cardinality(rows') = Cardinality(rows) + 1
    BY <2>2, <2>3, FS_AddElement DEF SessionsInv, TurnsKnown
  <2>5. \A r \in rows' : r = <<r[1], r[2]>> /\ r[1] \in Nat /\ r[1] <= written'
    BY <1>1, <2>2, <2>3 DEF SessionsInv, TurnsKnown
  <2>6. ~mixed => doc' /\ Numbered'
    <3>1. ~mixed => SeqsOf = 0 .. (Cardinality(rows) - 1) /\ doc /\ row[2] = Cardinality(rows)
      BY <2>2, <2>3 DEF SessionsInv, OneAtWork, Numbered
    <3>2. SeqsOf' = SeqsOf \union {row[2]}
      BY <2>2 DEF SeqsOf
    <3> QED BY <1>1, <2>2, <2>4, <3>1, <3>2 DEF Numbered
  <2>7. ~mixed' => OneAtWork'
    BY <2>1, <2>2, <2>6, GoesOn
  <2>8. TurnsKnown'
    BY <1>1, <2>1, <2>2, <2>4, <2>5 DEF SessionsInv, TurnsKnown
  <2> QED BY <2>7, <2>8 DEF SessionsInv
<1>8. ASSUME NEW c \in Conns, Recount(c) PROVE SessionsInv'
  <2>1. PICK w \in Write : /\ writer' = [writer EXCEPT ![c] = w] /\ w.at = "updating"
                           /\ w.n = Cardinality(rows)
    <3>1. [writer[c] EXCEPT !.at = "updating", !.n = Cardinality(rows)] \in Write
      BY <1>1 DEF StoreSteps
    <3> QED BY <1>1, <1>8, <3>1 DEF Recount
  <2>2. UNCHANGED <<doc, turnCount, rows, written, deleting, mixed>> /\ writer[c].at = "recounting"
    BY <1>8 DEF Recount, sessionVars, deleteVars
  <2>3. ~mixed => Numbered' /\ doc'
    BY <2>2, StoredSame DEF SessionsInv, OneAtWork
  <2>4. ~mixed' => OneAtWork'
    BY <2>1, <2>2, <2>3, GoesOn
  <2>5. TurnsKnown'
    BY <1>1, <2>1, <2>2 DEF SessionsInv, TurnsKnown
  <2> QED BY <2>4, <2>5 DEF SessionsInv
<1>9. ASSUME NEW c \in Conns, UpdateSession(c) PROVE SessionsInv'
  <2>1. /\ Stops(c) /\ UNCHANGED <<doc, rows, written, deleting, mixed>> /\ writer[c].at = "updating"
        /\ turnCount' = IF doc THEN writer[c].n ELSE turnCount
    BY <1>9 DEF UpdateSession, deleteVars
  <2>2. ~mixed => Numbered /\ doc /\ writer[c].n = Cardinality(rows)
    BY <2>1 DEF SessionsInv, OneAtWork
  <2>3. ~mixed' => ~mixed /\ Counted'
    BY <2>1, <2>2, StoredSame DEF Counted
  <2>4. ~mixed' => OneAtWork'
    BY <2>1, <2>3, WriteOver
  <2>5. TurnsKnown'
    BY <1>1, <2>1 DEF SessionsInv, TurnsKnown, Stops, NoWrite, StoreSteps
  <2> QED BY <2>4, <2>5 DEF SessionsInv
<1>10. ASSUME NEW c \in Conns, CountFails(c) PROVE SessionsInv'
  <2>1. mixed' = TRUE /\ UNCHANGED <<doc, turnCount, rows, written, deleting>>
        /\ writer' = [writer EXCEPT ![c].at = IF @ = "counting" THEN "inserting" ELSE "updating",
                                    ![c].n = 0]
        /\ writer[c].at # "idle"
    BY <1>10 DEF CountFails, sessionVars, deleteVars
  <2>2. writer' \in [Conns -> Write] /\ \A d \in Conns : d # c => writer'[d] = writer[d]
    BY ZenonT(30), <1>1, <2>1 DEF StoreSteps
  <2>3. TurnsKnown'
    BY <2>1, <2>2 DEF SessionsInv, TurnsKnown
  <2> QED BY <2>1, <2>3 DEF SessionsInv
<1>11. ASSUME NEW c \in Conns, WriteEnds(c) PROVE SessionsInv'
  <2>1. /\ UNCHANGED <<doc, turnCount, rows, written, deleting>> /\ writer[c].at # "idle"
        /\ mixed' = (mixed \/ writer[c].at \in {"creating", "recounting", "updating"})
        /\ IF writer[c].at = "creating" THEN Moves(c, "counting") ELSE Stops(c)
    BY <1>11 DEF WriteEnds, sessionVars, deleteVars
  <2>2. PICK w \in Write : writer' = [writer EXCEPT ![c] = w]
    <3>1. NoWrite \in Write /\ [writer[c] EXCEPT !.at = "counting"] \in Write
      BY <1>1 DEF StoreSteps, NoWrite
    <3>2. CASE writer[c].at = "creating"
      BY <1>1, <2>1, <3>1, <3>2 DEF Moves
    <3>3. CASE writer[c].at # "creating"
      BY <2>1, <3>1, <3>3 DEF Stops
    <3> QED BY <3>2, <3>3
  <2>3. TurnsKnown'
    BY <1>1, <2>1, <2>2 DEF SessionsInv, TurnsKnown
  <2>4. ASSUME ~mixed' PROVE OneAtWork'
    <3>1. ~mixed /\ Stops(c) /\ writer[c].at \in {"looking", "counting", "inserting"}
      BY <1>1, <2>1, <2>4 DEF StoreSteps
    <3>2. Counted'
      BY <2>1, <3>1, StoredSame DEF SessionsInv, OneAtWork
    <3> QED BY <2>1, <2>4, <3>1, <3>2, WriteOver
  <2> QED BY <2>3, <2>4 DEF SessionsInv
<1>12. ASSUME NEW c \in Conns, DeleteSession(c) PROVE SessionsInv'
  <2>1. /\ ~Busy(c) /\ deleting' = deleting \union {c} /\ doc' = FALSE /\ UNCHANGED <<rows, written, writer>>
        /\ mixed' = (mixed \/ \E d \in Conns : Busy(d))
    BY <1>12 DEF DeleteSession
  <2>2. TurnsKnown'
    BY <2>1 DEF SessionsInv, TurnsKnown, Busy
  <2>3. ASSUME ~mixed' PROVE OneAtWork'
    <3>1. deleting = {} /\ \A d \in Conns : writer[d].at = "idle"
      BY <2>1, <2>3, NoneAtWork
    <3>2. Busy(c)' /\ \A d \in Conns : Busy(d)' => d = c
      BY <2>1, <3>1 DEF Busy
    <3> QED BY <2>1, <3>1, <3>2 DEF OneAtWork
  <2> QED BY <2>2, <2>3 DEF SessionsInv
<1>13. ASSUME NEW c \in Conns, DeleteTurns(c) PROVE SessionsInv'
  <2>1. /\ c \in deleting /\ deleting' = deleting \ {c} /\ rows' = {}
        /\ UNCHANGED <<doc, turnCount, written, writer, mixed>>
    BY <1>13 DEF DeleteTurns
  <2>2. Cardinality(rows') = 0 /\ IsFiniteSet(rows') /\ SeqsOf' = {} /\ 0 .. (0 - 1) = {}
    BY <2>1, FS_EmptySet DEF SeqsOf
  <2>3. TurnsKnown'
    BY <2>1, <2>2 DEF SessionsInv, TurnsKnown
  <2>4. ASSUME ~mixed' PROVE OneAtWork'
    <3>1. ~doc /\ Busy(c) /\ \A d \in Conns : d # c => ~Busy(d)
      BY <2>1, <2>4 DEF SessionsInv, OneAtWork, Busy
    <3>2. writer[c].at = "idle"
      BY <2>1 DEF SessionsInv, TurnsKnown
    <3>3. \A d \in Conns : writer'[d].at = "idle" /\ d \notin deleting'
      BY <2>1, <3>1, <3>2 DEF Busy
    <3>4. Counted'
      BY <2>1, <2>2, <3>1 DEF Counted, Numbered
    <3> QED BY <3>3, <3>4 DEF OneAtWork, Busy
  <2> QED BY <2>3, <2>4 DEF SessionsInv
<1>14. ASSUME NEW c \in Conns, DeleteFails(c) PROVE SessionsInv'
  <2>1. mixed' = TRUE /\ deleting' \subseteq deleting /\ UNCHANGED <<doc, turnCount, rows, written, writer>>
    BY <1>14 DEF DeleteFails, sessionVars
  <2>2. TurnsKnown'
    BY <2>1 DEF SessionsInv, TurnsKnown
  <2> QED BY <2>1, <2>2 DEF SessionsInv
<1>15. ASSUME UNCHANGED storeVars PROVE SessionsInv'
  <2>1. TurnsKnown'
    BY <1>15 DEF storeVars, SessionsInv, TurnsKnown
  <2>2. ~mixed' => OneAtWork'
    BY <1>15, StoredSame DEF storeVars, SessionsInv, OneAtWork, Busy
  <2> QED BY <2>1, <2>2 DEF SessionsInv
<1> QED BY <1>2, <1>3, <1>4, <1>5, <1>6, <1>7, <1>8, <1>9, <1>10, <1>11, <1>12, <1>13, <1>14,
           <1>15
        DEF StoreNext

\* Between two writes the turns of a session are numbered and counted without gap or repeat, for
\* any connections and turns, unless writes overlapped or were cut off (mongo_session_store.py).
THEOREM SessionsHold == StoreSpec => []StoreConsistent
<1>1. ASSUME SessionsInv PROVE StoreConsistent
  <2>1. Cardinality(rows) \in Nat
    BY <1>1, FS_CardinalityType DEF SessionsInv, TurnsKnown
  <2>2. Numbered => Cardinality(SeqsOf) = Cardinality(rows)
    <3>1. Cardinality(rows) - 1 \in Int
      BY <2>1
    <3>2. Cardinality(0 .. (Cardinality(rows) - 1)) = Cardinality(rows)
      BY <2>1, <3>1, FS_Interval
    <3> QED BY <3>2 DEF Numbered
  <2> QED BY <1>1, <2>2 DEF SessionsInv, OneAtWork, Counted, Numbered, StoreConsistent
<1> QED BY <1>1, SessionsInitInv, SessionsStep, PTL DEF StoreSpec

-----------------------------------------------------------------------------
(* SkillRecords: a process that has loaded the counters and not saved them  *)
(* knows every dispatch, and a cycle is an interval after the last that    *)
(* drafted.                                                                *)

AreCounters(c) == c \in [uses : Nat, ok : Nat]

\* What a process is about to save, of the uses there were.
CopyInv ==
    /\ AreCounters(counters) /\ AreCounters(dispatches) /\ copy \in [Processes -> [uses : Nat, ok : Nat]]
    /\ counters.ok <= counters.uses /\ counters.uses <= dispatches.uses
    /\ \A p \in Processes : copy[p] # NoCopy =>
           copy[p].ok <= copy[p].uses /\ copy[p].uses <= dispatches.uses

CountedInv ==
    /\ uncounted \in BOOLEAN
    /\ ~uncounted =>
           /\ \A p, q \in Processes : copy[p] # NoCopy /\ copy[q] # NoCopy => p = q
           /\ \A p \in Processes : copy[p] # NoCopy => copy[p] = dispatches
           /\ (\A p \in Processes : copy[p] = NoCopy) => counters = dispatches

\* When the last cycle that drafted and is remembered woke, before the one there is.
CycleInv ==
    /\ {hours, sidecar, cycle.woke} \subseteq Nat
    /\ cycle \in [at : {"asleep", "drafting", "saving"}, woke : Nat, seq : {cycle.seq}]
    /\ draftRuns \in [before : Nat, last : Nat]
    /\ cycle.at \in {"asleep", "drafting"} => draftRuns.last <= sidecar
    /\ cycle.at = "drafting" => cycle.woke >= sidecar + CuratorInterval
    /\ cycle.at = "saving" => draftRuns.last <= cycle.woke

StagedInv == staged \in [Drafts -> [{"skill", "stub"} -> Nat]]
             /\ cycle.seq.goal \in Nat /\ captured.goal \in Nat /\ turnsEnded \in Nat

RecordsInv == CopyInv /\ CountedInv /\ CycleInv /\ StagedInv /\ RecordsKept

LEMMA RecordsInitInv == RecordsInit => RecordsInv
<1> SUFFICES ASSUME RecordsInit PROVE RecordsInv
  OBVIOUS
<1>1. CuratorInterval \in Nat
  BY RecordsAssumption
<1>2. CopyInv /\ CountedInv
  <2>1. AreCounters(counters) /\ AreCounters(dispatches) /\ counters = dispatches /\ counters = Zero
    BY DEF RecordsInit, AreCounters, Zero
  <2>2. copy \in [Processes -> [uses : Nat, ok : Nat]] /\ \A p \in Processes : copy[p] = NoCopy
    BY DEF RecordsInit, NoCopy
  <2>3. CopyInv
    BY <2>1, <2>2 DEF CopyInv, Zero
  <2> QED BY <2>1, <2>2, <2>3 DEF RecordsInit, CountedInv
<1>3. CycleInv
  BY <1>1 DEF RecordsInit, CycleInv, Resting
<1>4. StagedInv
  BY DEF RecordsInit, StagedInv, Resting, NoSequence
<1>5. RecordsKept
  BY DEF RecordsInit, RecordsKept, UsesCounted, DraftsWhole, RunsSpaced, Zero
<1> QED BY <1>2, <1>3, <1>4, <1>5 DEF RecordsInv

\* Counting one use more.
LEMMA OneMoreUse ==
  ASSUME NEW c, AreCounters(c), NEW ok \in BOOLEAN
  PROVE  /\ AreCounters(Bumped(c, ok)) /\ Bumped(c, ok).uses = c.uses + 1
         /\ Bumped(c, ok).ok \in {c.ok, c.ok + 1} /\ Bumped(c, ok) # NoCopy
<1>1. (IF ok THEN 1 ELSE 0) \in {0, 1}
  OBVIOUS
<1>2. Bumped(c, ok).uses = c.uses + 1 /\ Bumped(c, ok).ok \in {c.ok, c.ok + 1}
  BY <1>1 DEF Bumped, AreCounters
<1>3. AreCounters(Bumped(c, ok))
  BY <1>1 DEF Bumped, AreCounters
<1>4. c.uses + 1 # 0
  BY DEF AreCounters
<1> QED BY <1>2, <1>3, <1>4 DEF NoCopy

\* UsesCounted follows from what is known of the copies.
LEMMA CountsAgain == CopyInv' /\ CountedInv' => UsesCounted'
BY DEF CopyInv, CountedInv, UsesCounted

LEMMA RecordsSame ==
  /\ CopyInv /\ CountedInv /\ UNCHANGED telemetry => CopyInv' /\ CountedInv' /\ UsesCounted'
  /\ CycleInv /\ UNCHANGED <<hours, drafting>> => CycleInv'
  /\ StagedInv /\ UNCHANGED <<turnRecords, drafting>> => StagedInv'
  /\ RecordsKept /\ UNCHANGED drafting => DraftsWhole' /\ RunsSpaced'
<1>1. CopyInv /\ CountedInv /\ UNCHANGED telemetry => CopyInv' /\ CountedInv' /\ UsesCounted'
  BY DEF CopyInv, CountedInv, telemetry, UsesCounted
<1>2. CycleInv /\ UNCHANGED <<hours, drafting>> => CycleInv'
  BY DEF CycleInv, drafting
<1>3. StagedInv /\ UNCHANGED <<turnRecords, drafting>> => StagedInv'
  BY DEF StagedInv, turnRecords, drafting
<1>4. RecordsKept /\ UNCHANGED drafting => DraftsWhole' /\ RunsSpaced'
  BY DEF RecordsKept, DraftsWhole, RunsSpaced, drafting
<1> QED BY <1>1, <1>2, <1>3, <1>4

LEMMA RecordsStep == RecordsInv /\ [RecordsNext]_recordVars => RecordsInv'
<1> SUFFICES ASSUME RecordsInv, [RecordsNext]_recordVars PROVE RecordsInv'
  OBVIOUS
<1> USE DEF RecordsInv
<1>1. CuratorInterval \in Nat
  BY RecordsAssumption
<1>2. ASSUME NEW p \in Processes, LoadCounters(p) PROVE RecordsInv'
  <2>1. PICK ok \in BOOLEAN :
          /\ dispatches' = Bumped(dispatches, ok)
          /\ \/ /\ copy' = [copy EXCEPT ![p] = Bumped(counters, ok)]
                /\ uncounted' = (uncounted \/ \E q \in Processes : copy[q] # NoCopy)
             \/ copy' = [copy EXCEPT ![p] = Bumped(Zero, ok)] /\ uncounted' = TRUE
    BY <1>2 DEF LoadCounters
  <2>2. /\ counters' = counters /\ AreCounters(counters) /\ AreCounters(dispatches) /\ AreCounters(Zero)
        /\ copy \in [Processes -> [uses : Nat, ok : Nat]] /\ copy[p] = NoCopy
        /\ UNCHANGED <<hours, turnRecords, drafting>>
    BY <1>2 DEF LoadCounters, CopyInv, AreCounters, Zero
  <2>3. /\ AreCounters(dispatches') /\ dispatches'.uses = dispatches.uses + 1
        /\ AreCounters(Bumped(counters, ok)) /\ Bumped(counters, ok).uses = counters.uses + 1
        /\ Bumped(counters, ok).ok \in {counters.ok, counters.ok + 1} /\ Bumped(counters, ok) # NoCopy
        /\ AreCounters(Bumped(Zero, ok)) /\ Bumped(Zero, ok).uses = 1
        /\ Bumped(Zero, ok).ok \in {0, 1}
    BY <2>1, <2>2, OneMoreUse DEF Zero
  <2>4. CASE /\ copy' = [copy EXCEPT ![p] = Bumped(counters, ok)]
             /\ uncounted' = (uncounted \/ \E q \in Processes : copy[q] # NoCopy)
    <3>1. copy'[p] = Bumped(counters, ok) /\ \A q \in Processes : q # p => copy'[q] = copy[q]
      BY <2>2, <2>4
    <3>2. CopyInv'
      <4>1. copy' \in [Processes -> [uses : Nat, ok : Nat]]
        BY <2>2, <2>3, <2>4 DEF AreCounters
      <4>2. counters.ok <= counters.uses /\ counters.uses <= dispatches.uses
            /\ {counters.ok, counters.uses, dispatches.uses} \subseteq Nat
        BY DEF CopyInv, AreCounters
      <4>3. copy'[p].ok <= copy'[p].uses /\ copy'[p].uses <= dispatches'.uses
        BY <2>3, <3>1, <4>2
      <4>4. ASSUME NEW q \in Processes, q # p, copy'[q] # NoCopy
            PROVE  copy'[q].ok <= copy'[q].uses /\ copy'[q].uses <= dispatches'.uses
        <5>1. copy[q].ok <= copy[q].uses /\ copy[q].uses <= dispatches.uses /\ copy[q].uses \in Nat
          BY <2>2, <3>1, <4>4 DEF CopyInv
        <5> QED BY <2>3, <3>1, <4>2, <4>4, <5>1
      <4> QED BY <2>2, <2>3, <4>1, <4>2, <4>3, <4>4 DEF CopyInv
    <3>3. CountedInv'
      <4>1. uncounted' \in BOOLEAN
        BY <2>4 DEF CountedInv
      <4>2. ASSUME ~uncounted'
            PROVE  counters = dispatches /\ \A q \in Processes : q # p => copy'[q] = NoCopy
        BY <2>4, <3>1, <4>2 DEF CountedInv
      <4>3. ~uncounted' => copy'[p] = dispatches' /\ copy'[p] # NoCopy
        BY <2>1, <2>3, <3>1, <4>2
      <4> QED BY <4>1, <4>2, <4>3 DEF CountedInv
    <3> QED BY <2>2, <3>2, <3>3, RecordsSame, CountsAgain DEF RecordsKept
  <2>5. CASE copy' = [copy EXCEPT ![p] = Bumped(Zero, ok)] /\ uncounted' = TRUE
    <3>1. copy'[p] = Bumped(Zero, ok) /\ \A q \in Processes : q # p => copy'[q] = copy[q]
      BY <2>2, <2>5
    <3>2. CopyInv'
      <4>1. copy' \in [Processes -> [uses : Nat, ok : Nat]]
        BY <2>2, <2>3, <2>5 DEF AreCounters
      <4>2. counters.ok <= counters.uses /\ counters.uses <= dispatches.uses
            /\ {counters.ok, counters.uses, dispatches.uses} \subseteq Nat
        BY DEF CopyInv, AreCounters
      <4>3. copy'[p].ok <= copy'[p].uses /\ copy'[p].uses <= dispatches'.uses
        BY <2>3, <3>1, <4>2
      <4>4. ASSUME NEW q \in Processes, q # p, copy'[q] # NoCopy
            PROVE  copy'[q].ok <= copy'[q].uses /\ copy'[q].uses <= dispatches'.uses
        <5>1. copy[q].ok <= copy[q].uses /\ copy[q].uses <= dispatches.uses /\ copy[q].uses \in Nat
          BY <2>2, <3>1, <4>4 DEF CopyInv
        <5> QED BY <2>3, <3>1, <4>2, <4>4, <5>1
      <4> QED BY <2>2, <2>3, <4>1, <4>2, <4>3, <4>4 DEF CopyInv
    <3>3. CountedInv'
      BY <2>5 DEF CountedInv
    <3> QED BY <2>2, <3>2, <3>3, RecordsSame, CountsAgain DEF RecordsKept
  <2> QED BY <2>1, <2>4, <2>5
<1>3. ASSUME NEW p \in Processes, SaveCounters(p) PROVE RecordsInv'
  <2>1. /\ copy[p] # NoCopy /\ copy' = [copy EXCEPT ![p] = NoCopy] /\ dispatches' = dispatches
        /\ \/ counters' = copy[p] /\ uncounted' = uncounted
           \/ counters' = counters /\ uncounted' = TRUE
        /\ UNCHANGED <<hours, turnRecords, drafting>>
    BY <1>3 DEF SaveCounters
  <2>2. /\ copy'[p] = NoCopy /\ copy' \in [Processes -> [uses : Nat, ok : Nat]]
        /\ \A q \in Processes : q # p => copy'[q] = copy[q]
    BY <2>1 DEF CopyInv, NoCopy
  <2>3. CopyInv'
    BY <2>1, <2>2 DEF CopyInv, AreCounters
  <2>4. CountedInv'
    <3>1. CASE counters' = copy[p] /\ uncounted' = uncounted
      <4>1. ASSUME ~uncounted
            PROVE  copy[p] = dispatches /\ \A q \in Processes : copy'[q] = NoCopy
        BY <2>1, <2>2, <4>1 DEF CountedInv
      <4> QED BY <2>1, <3>1, <4>1 DEF CountedInv
    <3>2. CASE uncounted' = TRUE
      BY <3>2 DEF CountedInv
    <3> QED BY <2>1, <3>1, <3>2
  <2> QED BY <2>1, <2>3, <2>4, RecordsSame, CountsAgain DEF RecordsKept
<1>4. ASSUME Tick PROVE RecordsInv'
  <2>1. CycleInv'
    BY <1>4 DEF Tick, CycleInv, drafting
  <2> QED BY <1>4, <2>1, RecordsSame DEF Tick, RecordsKept
<1>5. ASSUME NEW ok \in BOOLEAN, NEW used \in BOOLEAN, EndTurn(ok, used) PROVE RecordsInv'
  <2>1. UNCHANGED <<telemetry, hours, drafting>> /\ turnsEnded' = turnsEnded + 1
        /\ captured' \in {captured, [goal |-> turnsEnded + 1, tools |-> stateTools']}
    BY <1>5 DEF EndTurn
  <2>2. StagedInv'
    BY <2>1 DEF StagedInv, drafting
  <2> QED BY <2>1, <2>2, RecordsSame DEF RecordsKept
<1>6. ASSUME Wake PROVE RecordsInv'
  <2>1. /\ cycle.at = "asleep" /\ hours - sidecar >= CuratorInterval
        /\ cycle' = [at |-> IF captured = NoSequence THEN "saving" ELSE "drafting",
                     woke |-> hours, seq |-> captured]
        /\ UNCHANGED <<telemetry, hours, turnRecords, sidecar, staged, struck, draftRuns>>
    BY <1>6 DEF Wake, MayRun
  <2>2. hours \in Nat /\ sidecar \in Nat /\ draftRuns.last \in Nat /\ draftRuns.last <= sidecar
    BY <2>1 DEF CycleInv
  <2>3. hours >= sidecar + CuratorInterval /\ draftRuns.last <= hours
    BY <1>1, <2>1, <2>2
  <2>4. CycleInv'
    BY <2>1, <2>2, <2>3 DEF CycleInv
  <2>5. StagedInv'
    BY <2>1 DEF StagedInv, turnRecords
  <2>6. DraftsWhole' /\ RunsSpaced'
    BY <2>1 DEF RecordsKept, DraftsWhole, RunsSpaced
  <2> QED BY <2>1, <2>4, <2>5, <2>6, RecordsSame DEF RecordsKept
<1>7. ASSUME NEW d \in Drafts, StageDraft(d) PROVE RecordsInv'
  <2>1. /\ cycle.at = "drafting" /\ cycle' = [cycle EXCEPT !.at = "saving"]
        /\ draftRuns' = [before |-> draftRuns.last, last |-> cycle.woke]
        /\ UNCHANGED <<telemetry, hours, turnRecords, sidecar>>
    BY <1>7 DEF StageDraft, Ran
  <2>2. \/ staged' = [staged EXCEPT ![d] = [skill |-> cycle.seq.goal, stub |-> cycle.seq.goal]]
           /\ struck' = struck
        \/ staged' = staged /\ struck' = struck
        \/ /\ struck' = struck \union {d}
           /\ \E kept \in SUBSET {"skill", "stub"} :
                 staged' = [staged EXCEPT ![d] = [f \in {"skill", "stub"} |->
                                                      IF f \in kept THEN @[f] ELSE 0]]
    BY <1>7 DEF StageDraft
  <2>3. cycle'.at = "saving" /\ cycle'.woke = cycle.woke /\ cycle'.seq = cycle.seq
        /\ cycle' \in [at : {"asleep", "drafting", "saving"}, woke : Nat, seq : {cycle'.seq}]
    BY <2>1 DEF CycleInv
  <2>4. /\ draftRuns.last \in Nat /\ sidecar \in Nat /\ cycle.woke \in Nat
        /\ draftRuns.last <= sidecar /\ cycle.woke >= sidecar + CuratorInterval
    BY <2>1 DEF CycleInv
  <2>5. CycleInv'
    BY <1>1, <2>1, <2>3, <2>4 DEF CycleInv
  <2>6. RunsSpaced'
    BY <1>1, <2>1, <2>4 DEF RunsSpaced
  <2>7. StagedInv' /\ DraftsWhole'
    <3>1. CASE staged' = [staged EXCEPT ![d] = [skill |-> cycle.seq.goal, stub |-> cycle.seq.goal]]
               /\ struck' = struck
      <4>1. [skill |-> cycle.seq.goal, stub |-> cycle.seq.goal] \in [{"skill", "stub"} -> Nat]
        BY DEF StagedInv
      <4> QED BY <2>1, <2>3, <3>1, <4>1 DEF StagedInv, turnRecords, RecordsKept, DraftsWhole
    <3>2. CASE staged' = staged /\ struck' = struck
      BY <2>1, <2>3, <3>2 DEF StagedInv, turnRecords, RecordsKept, DraftsWhole
    <3>3. ASSUME NEW kept \in SUBSET {"skill", "stub"}, struck' = struck \union {d},
                 staged' = [staged EXCEPT ![d] = [f \in {"skill", "stub"} |->
                                                      IF f \in kept THEN @[f] ELSE 0]]
          PROVE  StagedInv' /\ DraftsWhole'
      <4>1. [f \in {"skill", "stub"} |-> IF f \in kept THEN staged[d][f] ELSE 0]
               \in [{"skill", "stub"} -> Nat]
        BY DEF StagedInv
      <4>2. staged' \in [Drafts -> [{"skill", "stub"} -> Nat]]
        BY <3>3, <4>1 DEF StagedInv
      <4>3. \A e \in Drafts \ struck' : staged'[e] = staged[e] /\ e \in Drafts \ struck
        BY <3>3 DEF StagedInv
      <4> QED BY <2>1, <2>3, <4>2, <4>3 DEF StagedInv, turnRecords, RecordsKept, DraftsWhole
    <3> QED BY <2>2, <3>1, <3>2, <3>3
  <2> QED BY <2>1, <2>5, <2>6, <2>7, RecordsSame DEF RecordsKept
<1>8. ASSUME SaveState PROVE RecordsInv'
  <2>1. CycleInv' /\ StagedInv'
    BY <1>8 DEF SaveState, CycleInv, StagedInv, Resting, NoSequence, turnRecords
  <2>2. DraftsWhole' /\ RunsSpaced'
    BY <1>8 DEF SaveState, RecordsKept, DraftsWhole, RunsSpaced
  <2> QED BY <1>8, <2>1, <2>2, RecordsSame DEF SaveState, RecordsKept
<1>9. ASSUME CycleFails PROVE RecordsInv'
  <2>1. CycleInv' /\ StagedInv'
    BY <1>9 DEF CycleFails, CycleInv, StagedInv, Resting, NoSequence, turnRecords
  <2>2. DraftsWhole' /\ RunsSpaced'
    BY <1>9 DEF CycleFails, RecordsKept, DraftsWhole, RunsSpaced
  <2> QED BY <1>9, <2>1, <2>2, RecordsSame DEF CycleFails, RecordsKept
<1>10. ASSUME ProcessesStop PROVE RecordsInv'
  <2>1. /\ cycle' = Resting /\ captured' = NoSequence
        /\ draftRuns' = (IF cycle.at = "saving" THEN [before |-> 0, last |-> 0] ELSE draftRuns)
        /\ copy' = [q \in Processes |-> NoCopy] /\ uncounted' = (uncounted \/ copy' # copy)
        /\ UNCHANGED <<counters, dispatches, hours, turnsEnded, sidecar, staged, struck>>
    BY <1>10 DEF ProcessesStop
  <2>2. CopyInv'
    BY <2>1 DEF CopyInv, AreCounters, NoCopy
  <2>3. CountedInv'
    BY <2>1 DEF CountedInv, CopyInv
  <2>4. CycleInv' /\ StagedInv'
    BY <2>1 DEF CycleInv, StagedInv, Resting, NoSequence
  <2>5. DraftsWhole' /\ RunsSpaced'
    BY <2>1 DEF RecordsKept, DraftsWhole, RunsSpaced
  <2> QED BY <2>2, <2>3, <2>4, <2>5, CountsAgain DEF RecordsKept
<1>11. ASSUME UNCHANGED recordVars PROVE RecordsInv'
  BY <1>11, RecordsSame DEF recordVars, telemetry, turnRecords, drafting, RecordsKept
<1> QED BY <1>2, <1>3, <1>4, <1>5, <1>6, <1>7, <1>8, <1>9, <1>10, <1>11 DEF RecordsNext

\* The counters of skills miss no dispatch and count none twice, a draft is of one turn, and two
\* cycles that draft are an interval apart, unless processes overlapped, a call failed or the
\* first was not remembered (skill_telemetry.py, skill_curator.py).
THEOREM RecordsHold == RecordsSpec => []RecordsKept
<1>1. RecordsInv => RecordsKept
  BY DEF RecordsInv
<1> QED BY <1>1, RecordsInitInv, RecordsStep, PTL DEF RecordsSpec

-----------------------------------------------------------------------------
(* Accounts: a request that inserts has looked its email up, and found it   *)
(* taken since only if another creation of it overlapped.                  *)

AttemptsInv ==
    /\ time \in Nat /\ lastFailure \in [Spellings -> Nat]
    /\ failures \in [Spellings -> [count : Nat, until : Nat]]
    /\ request \in [Requests -> {NotAsking} \union Looking \union Inserting]

\* What two creations of an email at once are counted as.
CreationInv ==
    /\ \A r \in Requests : request[r].at = "insert" /\ Known(request[r].as)
                               => Lower[request[r].as] \in together
    /\ \A q, r \in Requests :
           /\ q # r /\ request[q].at \in {"create", "insert"} /\ request[r].at \in {"create", "insert"}
           /\ Lower[request[q].as] = Lower[request[r].as]
           => Lower[request[r].as] \in together

AccountsInv == AttemptsInv /\ CreationInv /\ AccountsKept

LEMMA AccountsInitInv == AccountsInit => AccountsInv
<1> SUFFICES ASSUME AccountsInit PROVE AccountsInv
  OBVIOUS
<1>1. AttemptsInv
  BY DEF AccountsInit, AttemptsInv, NoAttempts
<1>2. CreationInv
  BY DEF AccountsInit, CreationInv, NotAsking
<1>3. AccountsKept
  BY AccountsAssumption DEF AccountsInit, AccountsKept, NoAttempts
<1> QED BY <1>1, <1>2, <1>3 DEF AccountsInv

\* Requests of which none is started or inserts leave what is said of creations.
LEMMA CreationsFewer ==
  ASSUME CreationInv, accounts' = accounts, together' = together,
         \A r \in Requests : request'[r] = request[r] \/ request'[r].at \in {"none", "login"}
  PROVE  CreationInv'
<1>1. ASSUME NEW r \in Requests, request'[r].at \in {"create", "insert"}
      PROVE  request'[r] = request[r]
  BY <1>1
<1>2. \A s : Known(s)' <=> Known(s)
  BY DEF Known
<1>3. ASSUME NEW r \in Requests, request'[r].at = "insert", Known(request[r].as)'
      PROVE  Lower[request'[r].as] \in together
  BY <1>1, <1>2, <1>3 DEF CreationInv
<1>4. ASSUME NEW q \in Requests, NEW r \in Requests, q # r,
             request'[q].at \in {"create", "insert"}, request'[r].at \in {"create", "insert"},
             Lower[request'[q].as] = Lower[request'[r].as]
      PROVE  Lower[request'[r].as] \in together
  BY <1>1, <1>4 DEF CreationInv
<1> QED BY <1>3, <1>4 DEF CreationInv

LEMMA AccountsStep == AccountsInv /\ [AccountsNext]_accountVars => AccountsInv'
<1> SUFFICES ASSUME AccountsInv, [AccountsNext]_accountVars PROVE AccountsInv'
  OBVIOUS
<1> USE AccountsAssumption DEF AccountsInv
<1>1. ASSUME ClockTicks PROVE AccountsInv'
  <2>1. AttemptsInv' /\ AccountsKept'
    BY <1>1 DEF ClockTicks, AttemptsInv, AccountsKept
  <2>2. CreationInv'
    BY <1>1, CreationsFewer DEF ClockTicks
  <2> QED BY <2>1, <2>2
<1>2. ASSUME GatewayRestarts PROVE AccountsInv'
  <2>1. AttemptsInv' /\ AccountsKept'
    BY <1>2 DEF GatewayRestarts, AttemptsInv, AccountsKept, NoAttempts
  <2>2. CreationInv'
    BY <1>2, CreationsFewer DEF GatewayRestarts, NotAsking
  <2> QED BY <2>1, <2>2
<1>3. ASSUME NEW r \in Requests, NEW s \in Spellings, StartLogin(r, s) PROVE AccountsInv'
  <2>1. AttemptsInv' /\ AccountsKept'
    BY <1>3 DEF StartLogin, AttemptsInv, AccountsKept, Looking
  <2>2. CreationInv'
    BY <1>3, CreationsFewer DEF StartLogin, AttemptsInv
  <2> QED BY <2>1, <2>2
<1>4. ASSUME NEW r \in Requests, NEW s \in Spellings, StartCreate(r, s) PROVE AccountsInv'
  <2>1. AttemptsInv' /\ AccountsKept'
    BY <1>4 DEF StartCreate, AttemptsInv, AccountsKept, Looking
  <2>2. /\ request' = [request EXCEPT ![r] = [at |-> "create", as |-> s]]
        /\ accounts' = accounts /\ together \subseteq together'
        /\ Creating(s) # {} => Lower[s] \in together'
        /\ request[r] = NotAsking
    BY <1>4 DEF StartCreate
  <2>3. /\ request'[r] = [at |-> "create", as |-> s]
        /\ \A q \in Requests : q # r => request'[q] = request[q]
    BY <2>2 DEF AttemptsInv
  <2>4. \A x : Known(x)' <=> Known(x)
    BY <2>2 DEF Known
  <2>5. ASSUME NEW q \in Requests, request'[q].at = "insert", Known(request[q].as)'
        PROVE  Lower[request'[q].as] \in together'
    BY <2>2, <2>3, <2>4, <2>5 DEF CreationInv
  <2>6. ASSUME NEW p \in Requests, NEW q \in Requests, p # q,
               request'[p].at \in {"create", "insert"}, request'[q].at \in {"create", "insert"},
               Lower[request'[p].as] = Lower[request'[q].as]
        PROVE  Lower[request'[q].as] \in together'
    <3>1. CASE p = r
      <4>1. q \in Creating(s)
        BY <2>3, <2>6, <3>1 DEF Creating
      <4> QED BY <2>2, <2>3, <2>6, <3>1, <4>1
    <3>2. CASE q = r
      <4>1. p \in Creating(s)
        BY <2>3, <2>6, <3>2 DEF Creating
      <4> QED BY <2>2, <2>3, <2>6, <3>2, <4>1
    <3>3. CASE p # r /\ q # r
      BY <2>2, <2>3, <2>6, <3>3 DEF CreationInv
    <3> QED BY <3>1, <3>2, <3>3
  <2>7. CreationInv'
    BY <2>5, <2>6 DEF CreationInv
  <2> QED BY <2>1, <2>7
<1>5. ASSUME NEW r \in Requests, FailLogin(r) PROVE AccountsInv'
  <2>1. request[r] \in Looking /\ request[r].as \in Spellings
    BY <1>5 DEF FailLogin, AttemptsInv, NotAsking, Looking, Inserting
  <2> DEFINE s == request[r].as
  <2>2. /\ failures[s].count \in Nat
        /\ failures' = [failures EXCEPT
                          ![s].count = @ + 1,
                          ![s].until = IF failures[s].count + 1 >= MaxFailedLogins
                                       THEN time + LockoutTime ELSE @]
        /\ lastFailure' = [lastFailure EXCEPT ![s] = time]
        /\ request' = [request EXCEPT ![r] = NotAsking]
        /\ UNCHANGED <<accounts, time, together>>
    BY <1>5, <2>1 DEF FailLogin, RecordFailure, RequestReturns, AttemptsInv
  <2> HIDE DEF s
  <2>3. s \in Spellings
    BY <2>1 DEF s
  <2>4. /\ \A x \in Spellings : x # s => failures'[x] = failures[x] /\ lastFailure'[x] = lastFailure[x]
        /\ failures'[s].count = failures[s].count + 1 /\ lastFailure'[s] = time
        /\ failures'[s].until = IF failures[s].count + 1 >= MaxFailedLogins
                                THEN time + LockoutTime ELSE failures[s].until
    BY <2>2, <2>3 DEF AttemptsInv
  <2>5. AttemptsInv'
    <3>1. failures[s].count + 1 \in Nat /\ time + LockoutTime \in Nat
      BY <2>2 DEF AttemptsInv
    <3>2. failures' \in [Spellings -> [count : Nat, until : Nat]]
      <4>1. CASE failures[s].count + 1 >= MaxFailedLogins
        BY <2>2, <2>3, <3>1, <4>1 DEF AttemptsInv
      <4>2. CASE ~(failures[s].count + 1 >= MaxFailedLogins)
        BY <2>2, <2>3, <3>1, <4>2 DEF AttemptsInv
      <4> QED BY <4>1, <4>2
    <3> QED BY <2>2, <2>3, <3>2 DEF AttemptsInv
  <2>6. AccountsKept'
    BY <2>2, <2>3, <2>4 DEF AccountsKept
  <2>7. CreationInv'
    BY <2>2, CreationsFewer DEF NotAsking, AttemptsInv
  <2> QED BY <2>5, <2>6, <2>7
<1>6. ASSUME NEW r \in Requests, PassLogin(r) PROVE AccountsInv'
  <2>1. AttemptsInv'
    BY <1>6 DEF PassLogin, RequestReturns, AttemptsInv, NoAttempts
  <2>2. AccountsKept'
    BY <1>6 DEF PassLogin, AttemptsInv, AccountsKept, NoAttempts
  <2>3. CreationInv'
    BY <1>6, CreationsFewer DEF PassLogin, RequestReturns, NotAsking, AttemptsInv
  <2> QED BY <2>1, <2>2, <2>3
<1>7. ASSUME NEW r \in Requests, LookUpEmail(r) PROVE AccountsInv'
  <2>1. request[r] \in Looking /\ request[r].as \in Spellings
    BY <1>7 DEF LookUpEmail, AttemptsInv, NotAsking, Looking, Inserting
  <2>2. CASE Known(request[r].as)
    <3>1. AttemptsInv' /\ AccountsKept'
      BY <1>7, <2>2 DEF LookUpEmail, RequestReturns, AttemptsInv, AccountsKept
    <3>2. CreationInv'
      BY <1>7, <2>2, CreationsFewer DEF LookUpEmail, RequestReturns, NotAsking, AttemptsInv
    <3> QED BY <3>1, <3>2
  <2>3. CASE ~Known(request[r].as)
    <3>1. /\ request' = [request EXCEPT ![r] = [at |-> "insert", as |-> request[r].as]]
          /\ request[r].at = "create"
          /\ UNCHANGED <<accounts, failures, time, lastFailure, together>>
      BY <1>7, <2>3 DEF LookUpEmail
    <3>2. AttemptsInv' /\ AccountsKept'
      BY <2>1, <3>1 DEF AttemptsInv, AccountsKept, Inserting
    <3>3. /\ request'[r].at = "insert" /\ request'[r].as = request[r].as
          /\ \A q \in Requests : q # r => request'[q] = request[q]
          /\ \A q \in Requests : request'[q].as = request[q].as
      BY <3>1 DEF AttemptsInv
    <3>4. \A x : Known(x)' <=> Known(x)
      BY <3>1 DEF Known
    <3>5. ASSUME NEW q \in Requests, request'[q].at = "insert", Known(request[q].as)'
          PROVE  Lower[request'[q].as] \in together'
      BY <2>3, <3>1, <3>3, <3>4, <3>5 DEF CreationInv
    <3>6. ASSUME NEW p \in Requests, NEW q \in Requests, p # q,
                 request'[p].at \in {"create", "insert"}, request'[q].at \in {"create", "insert"},
                 Lower[request'[p].as] = Lower[request'[q].as]
          PROVE  Lower[request'[q].as] \in together'
      BY <3>1, <3>3, <3>6 DEF CreationInv
    <3>7. CreationInv'
      BY <3>5, <3>6 DEF CreationInv
    <3> QED BY <3>2, <3>7
  <2> QED BY <2>2, <2>3
<1>8. ASSUME NEW r \in Requests, InsertAccount(r) PROVE AccountsInv'
  <2>1. PICK new : new[2] = Lower[request[r].as] /\ accounts' = accounts \union {new}
    BY <1>8 DEF InsertAccount
  <2>2. /\ request' = [request EXCEPT ![r] = NotAsking] /\ request[r].at = "insert"
        /\ UNCHANGED <<failures, time, lastFailure, together>>
    BY <1>8 DEF InsertAccount, RequestReturns
  <2>3. AttemptsInv'
    BY <2>2 DEF AttemptsInv
  <2>4. /\ request'[r].at = "none"
        /\ \A q \in Requests : q # r => request'[q] = request[q]
    BY <2>2 DEF AttemptsInv, NotAsking
  <2>5. ASSUME NEW q \in Requests, request'[q].at = "insert", Known(request[q].as)'
        PROVE  Lower[request'[q].as] \in together
    <3>1. q # r /\ request'[q] = request[q]
      BY <2>4, <2>5
    <3>2. CASE Known(request[q].as)
      BY <2>5, <3>1, <3>2 DEF CreationInv
    <3>3. CASE Lower[request[q].as] = Lower[request[r].as]
      BY <2>2, <2>5, <3>1, <3>3 DEF CreationInv
    <3>4. Known(request[q].as) \/ Lower[request[q].as] = Lower[request[r].as]
      <4>1. PICK a \in accounts' : a[2] = Lower[request[q].as]
        BY <2>5, <3>1 DEF Known
      <4> QED BY <2>1, <4>1 DEF Known
    <3> QED BY <3>2, <3>3, <3>4
  <2>6. ASSUME NEW p \in Requests, NEW q \in Requests, p # q,
               request'[p].at \in {"create", "insert"}, request'[q].at \in {"create", "insert"},
               Lower[request'[p].as] = Lower[request'[q].as]
        PROVE  Lower[request'[q].as] \in together
    BY <2>4, <2>6 DEF CreationInv
  <2>7. CreationInv'
    BY <2>2, <2>5, <2>6 DEF CreationInv
  <2>8. ASSUME NEW a \in accounts', NEW b \in accounts', a[2] = b[2], a # b
        PROVE  a[2] \in together
    <3>1. CASE a = new
      <4>1. Known(request[r].as) /\ b[2] = Lower[request[r].as]
        BY <2>1, <2>8, <3>1 DEF Known
      <4> QED BY <2>2, <2>8, <4>1 DEF CreationInv
    <3>2. CASE b = new
      <4>1. Known(request[r].as) /\ a[2] = Lower[request[r].as]
        BY <2>1, <2>8, <3>2 DEF Known
      <4> QED BY <2>2, <4>1 DEF CreationInv
    <3>3. CASE a # new /\ b # new
      BY <2>1, <2>8, <3>3 DEF AccountsKept
    <3> QED BY <3>1, <3>2, <3>3
  <2>9. AccountsKept'
    BY <2>2, <2>8 DEF AccountsKept
  <2> QED BY <2>3, <2>7, <2>9
<1>9. ASSUME NEW r \in Requests, RequestRaises(r) PROVE AccountsInv'
  <2>1. AttemptsInv' /\ AccountsKept'
    BY <1>9 DEF RequestRaises, RequestReturns, AttemptsInv, AccountsKept
  <2>2. CreationInv'
    BY <1>9, CreationsFewer DEF RequestRaises, RequestReturns, NotAsking, AttemptsInv
  <2> QED BY <2>1, <2>2
<1>10. ASSUME UNCHANGED accountVars PROVE AccountsInv'
  BY <1>10 DEF accountVars, AttemptsInv, CreationInv, AccountsKept, Known
<1> QED BY <1>1, <1>2, <1>3, <1>4, <1>5, <1>6, <1>7, <1>8, <1>9, <1>10 DEF AccountsNext

\* A spelling that failed too often is locked after its last failure, and an email has two
\* accounts only if two creations of it overlapped, for any requests, spellings and restarts
\* (auth.py, user_store.py).
THEOREM AccountsHold == AccountsSpec => []AccountsKept
<1>1. AccountsInv => AccountsKept
  BY DEF AccountsInv
<1> QED BY <1>1, AccountsInitInv, AccountsStep, PTL DEF AccountsSpec

-----------------------------------------------------------------------------
(* CitedPaper: a draft cites keys of the references only, and what is said *)
(* of each reference is what its lookup found and its key made of it.      *)

Sources == [i \in References |-> verdicts[i].source]

VerdictsInv ==
    verdicts = <<>> \/
        /\ DOMAIN verdicts = References
        /\ \A i \in References :
               /\ verdicts[i].entry = DeduplicatedKey(Sources, i)
               /\ verdicts[i].source \in ValidateOne(i)

PaperInv ==
    /\ supplied \in Bibliographies
    /\ outlined = {} \/ PaperSections \subseteq outlined
    /\ \A s \in DOMAIN drafts : drafts[s] \subseteq KeysOf(References)
    /\ VerdictsInv
    /\ finished.done => PaperSections \subseteq DOMAIN drafts /\ finished.cites = Assembled
    /\ researched.cited \subseteq researched.given
    /\ abstractWords <= TargetWords

LEMMA PaperInitInv == PaperInit => PaperInv
BY PaperAssumption DEF PaperInit, PaperInv, VerdictsInv, Unwritten

\* What the caller came with stays, and so does what an index may say of it.
LEMMA SuppliedStays ==
  ASSUME supplied' = supplied, verdicts' = verdicts, PaperInv
  PROVE  References' = References /\ KeysOf(References)' = KeysOf(References) /\ VerdictsInv'
<1>1. References' = References /\ KeysOf(References)' = KeysOf(References) /\ Sources' = Sources
  BY DEF References, KeysOf, KeyOf, Sources
<1>2. ASSUME NEW i \in References
      PROVE  /\ DeduplicatedKey(Sources, i)' = DeduplicatedKey(Sources, i)
             /\ ValidateOne(i)' = ValidateOne(i)
  BY <1>1 DEF DeduplicatedKey, KeyOf, ValidateOne, IdentifiedBy, CheckDoi, CheckArxiv, Lookups,
              CheckSemanticScholar, Matches
<1> QED BY <1>1, <1>2 DEF PaperInv, VerdictsInv

LEMMA PaperStep == PaperInv /\ [PaperNext]_paperVars => PaperInv'
<1> SUFFICES ASSUME PaperInv, [PaperNext]_paperVars PROVE PaperInv'
  OBVIOUS
<1>1. CASE ResearchTopic
  <2>1. researched'.cited \subseteq researched'.given
    BY <1>1 DEF ResearchTopic, CitedRefs
  <2>2. UNCHANGED <<supplied, outlined, drafts, verdicts, abstractWords, finished>>
        /\ Assembled' = Assembled
    BY <1>1 DEF ResearchTopic, Assembled, Citable, References, KeysOf, KeyOf
  <2> QED BY <2>1, <2>2, SuppliedStays DEF PaperInv
<1>2. CASE MakeOutline
  <2>1. PaperSections \subseteq outlined'
    BY <1>2 DEF MakeOutline
  <2>2. UNCHANGED <<supplied, researched, drafts, verdicts, abstractWords, finished>>
        /\ Assembled' = Assembled
    BY <1>2 DEF MakeOutline, Assembled, Citable, References, KeysOf, KeyOf
  <2> QED BY <2>1, <2>2, SuppliedStays DEF PaperInv
<1>3. CASE DraftSection
  <2>1. UNCHANGED <<supplied, researched, outlined, verdicts, abstractWords, finished>> /\ ~finished.done
    BY <1>3 DEF DraftSection
  <2>2. PICK s \in PaperSections, offered \in SUBSET References, cites \in SUBSET Citable :
            /\ KeysAllowed(cites, offered)
            /\ drafts' = [t \in DOMAIN drafts \union {s} |-> IF t = s THEN cites ELSE drafts[t]]
    BY <1>3 DEF DraftSection
  <2>3. cites \subseteq KeysOf(References)
    BY <2>2 DEF KeysAllowed, KeysOf
  <2>4. \A t \in DOMAIN drafts' : drafts'[t] \subseteq KeysOf(References)
    BY <2>2, <2>3 DEF PaperInv
  <2> QED BY <2>1, <2>4, SuppliedStays DEF PaperInv
<1>4. CASE ValidateCitations
  <2>1. /\ UNCHANGED <<supplied, researched, outlined, drafts, abstractWords, finished>>
        /\ ~finished.done
    BY <1>4 DEF ValidateCitations
  <2>2. PICK source \in [References -> {"crossref", "arxiv", "semantic_scholar", "none"}] :
           /\ \A i \in References : source[i] \in ValidateOne(i)
           /\ verdicts' = [i \in References |-> [entry |-> DeduplicatedKey(source, i),
                                                 source |-> source[i]]]
    BY <1>4 DEF ValidateCitations
  <2>3. References' = References /\ KeysOf(References)' = KeysOf(References)
    BY <2>1 DEF References, KeysOf, KeyOf
  <2>4. /\ DOMAIN verdicts' = References
        /\ \A i \in References : /\ verdicts'[i].entry = DeduplicatedKey(source, i)
                                 /\ verdicts'[i].source = source[i]
    BY <2>2
  <2>5. Sources' = source
    BY <2>2, <2>3, <2>4 DEF Sources
  <2>6. ASSUME NEW i \in References
        PROVE  /\ DeduplicatedKey(Sources, i)' = DeduplicatedKey(source, i)
               /\ ValidateOne(i)' = ValidateOne(i)
    BY <2>1, <2>3, <2>5 DEF DeduplicatedKey, KeyOf, ValidateOne, IdentifiedBy, CheckDoi,
       CheckArxiv,
                            Lookups, CheckSemanticScholar, Matches
  <2>7. VerdictsInv'
    BY <2>2, <2>3, <2>4, <2>6 DEF VerdictsInv
  <2> QED BY <2>1, <2>3, <2>7 DEF PaperInv
<1>5. CASE ChainOfDensity
  <2>1. UNCHANGED <<supplied, researched, outlined, drafts, verdicts, finished>>
        /\ Assembled' = Assembled
    BY <1>5 DEF ChainOfDensity, Assembled, Citable, References, KeysOf, KeyOf
  <2>2. abstractWords' <= TargetWords
    BY <1>5, PaperAssumption DEF ChainOfDensity, EnforceWordCount
  <2> QED BY <2>1, <2>2, SuppliedStays DEF PaperInv
<1>6. CASE StyleTransfer
  <2>1. UNCHANGED <<supplied, researched, outlined, drafts, verdicts, abstractWords>>
        /\ Assembled' = Assembled
    BY <1>6 DEF StyleTransfer, Assembled, Citable, References, KeysOf, KeyOf
  <2>2. PaperSections \subseteq DOMAIN drafts
    BY <1>6 DEF StyleTransfer, PaperInv
  <2>3. PICK first, second \in Rewritings(Assembled) :
           \E out \in Transferred(Assembled, first, second) :
               finished' = [done |-> TRUE, cites |-> out]
    BY <1>6 DEF StyleTransfer
  <2>4. finished'.cites = Assembled
    BY <2>3 DEF Transferred
  <2> QED BY <2>1, <2>2, <2>4, SuppliedStays DEF PaperInv
<1>7. CASE UNCHANGED paperVars
  <2>1. Assembled' = Assembled
    BY <1>7 DEF paperVars, Assembled, Citable, References, KeysOf, KeyOf
  <2> QED BY <1>7, <2>1, SuppliedStays DEF PaperInv, paperVars
<1> QED BY <1>1, <1>2, <1>3, <1>4, <1>5, <1>6, <1>7 DEF PaperNext

\* A sequence with a letter added is another's with a letter added if both are the same.
LEMMA SameLetters ==
  ASSUME NEW s \in Seq(Nat), NEW t \in Seq(Nat), NEW m \in Nat, NEW n \in Nat,
         Append(s, m) = Append(t, n)
  PROVE  s = t /\ m = n
<1>1. Len(s) \in Nat /\ Len(t) \in Nat /\ Len(Append(s, m)) = Len(s) + 1
      /\ Len(Append(t, n)) = Len(t) + 1
  OBVIOUS
<1>2. Len(s) = Len(t)
  BY <1>1
<1>3. Append(s, m)[Len(s) + 1] = m /\ Append(t, n)[Len(t) + 1] = n
  BY <1>1
<1>4. \A k \in 1 .. Len(s) : Append(s, m)[k] = s[k] /\ Append(t, n)[k] = t[k]
  BY <1>1, <1>2
<1>5. s = [k \in 1 .. Len(s) |-> s[k]] /\ t = [k \in 1 .. Len(t) |-> t[k]]
  OBVIOUS
<1> QED BY <1>2, <1>3, <1>4, <1>5

Earlier(source, i) == {j \in 1 .. (i - 1) : source[j] # "none" /\ KeyOf(j) = KeyOf(i)}

\* A reference is identified in one of four ways, and has a key.
LEMMA ReferenceIs ==
  ASSUME PaperInv, NEW i \in References
  PROVE  /\ i \in 1 .. Len(supplied) /\ Len(supplied) \in Nat
         /\ KeyOf(i) \in Seq(Nat) /\ IdentifiedBy(i) \in {"doi", "arxiv", "title", "unreadable"}
<1> DEFINE R == [key : Seq(Nat), by : {"doi", "arxiv", "title", "unreadable"}, real : BOOLEAN]
<1>1. supplied \in Seq(R)
  BY PaperAssumption DEF PaperInv
<1>2. i \in 1 .. Len(supplied) /\ Len(supplied) \in Nat
  BY <1>1 DEF References
<1>3. supplied[i] \in R
  <2> HIDE DEF R
  <2> QED BY <1>1, <1>2
<1>4. supplied[i].key \in Seq(Nat)
  BY <1>3
<1>5. supplied[i].by \in {"doi", "arxiv", "title", "unreadable"}
  BY <1>3
<1> QED BY <1>2, <1>4, <1>5 DEF KeyOf, IdentifiedBy

\* A key that has no letter added is the first that is confirmed; the letter of one that has is
\* the number of those before it.
LEMMA KeyIs ==
  ASSUME PaperInv, NEW source, NEW i \in References, source[i] # "none"
  PROVE  /\ i \in Nat \ {0} /\ KeyOf(i) \in Seq(Nat)
         /\ IsFiniteSet(Earlier(source, i)) /\ Cardinality(Earlier(source, i)) \in 0 .. (i - 1)
         /\ Earlier(source, i) = {} => DeduplicatedKey(source, i) = KeyOf(i)
         /\ Earlier(source, i) # {} =>
                /\ Cardinality(Earlier(source, i)) # 0
                /\ DeduplicatedKey(source, i)
                       = Append(KeyOf(i), Cardinality(Earlier(source, i)))
<1>1. i \in 1 .. Len(supplied) /\ Len(supplied) \in Nat /\ KeyOf(i) \in Seq(Nat)
  BY ReferenceIs
<1>2. i \in Nat \ {0} /\ i - 1 \in Nat
  BY <1>1
<1>3. IsFiniteSet(1 .. (i - 1)) /\ Cardinality(1 .. (i - 1)) = i - 1
  BY <1>2, FS_Interval
<1>4. Earlier(source, i) \subseteq 1 .. (i - 1)
  BY DEF Earlier
<1>5. IsFiniteSet(Earlier(source, i)) /\ Cardinality(Earlier(source, i)) <= i - 1
  BY <1>3, <1>4, FS_Subset
<1>6. Cardinality(Earlier(source, i)) \in Nat
  BY <1>5, FS_CardinalityType
<1>7. Earlier(source, i) # {} => Cardinality(Earlier(source, i)) # 0
  BY <1>5, FS_EmptySet
<1>8. DeduplicatedKey(source, i) =
          IF Earlier(source, i) = {} THEN KeyOf(i)
          ELSE Append(KeyOf(i), Cardinality(Earlier(source, i)))
  BY DEF DeduplicatedKey, Earlier
<1>9. Cardinality(Earlier(source, i)) \in 0 .. (i - 1)
  BY <1>2, <1>5, <1>6
<1> QED BY <1>1, <1>2, <1>5, <1>7, <1>8, <1>9

\* Of two confirmed references the later has another key, if no key is made of another's.
LEMMA KeysDiffer ==
  ASSUME PaperInv, ~KeysCollide, NEW source, NEW i \in References, NEW j \in References,
         source[i] # "none", source[j] # "none", i < j,
         DeduplicatedKey(source, i) = DeduplicatedKey(source, j)
  PROVE  FALSE
<1> DEFINE a == Cardinality(Earlier(source, i))
           b == Cardinality(Earlier(source, j))
<1>1. /\ i \in Nat \ {0} /\ KeyOf(i) \in Seq(Nat) /\ a \in 0 .. (i - 1)
      /\ Earlier(source, i) = {} => DeduplicatedKey(source, i) = KeyOf(i)
      /\ Earlier(source, i) # {} =>
             a # 0 /\ DeduplicatedKey(source, i) = Append(KeyOf(i), a)
  BY KeyIs
<1>2. /\ j \in Nat \ {0} /\ KeyOf(j) \in Seq(Nat) /\ b \in 0 .. (j - 1)
      /\ IsFiniteSet(Earlier(source, j))
      /\ Earlier(source, j) = {} => DeduplicatedKey(source, j) = KeyOf(j)
      /\ Earlier(source, j) # {} =>
             b # 0 /\ DeduplicatedKey(source, j) = Append(KeyOf(j), b)
  BY KeyIs
<1>3. i \in 1 .. Len(supplied) /\ j \in 1 .. Len(supplied) /\ Len(supplied) \in Nat
  BY ReferenceIs
<1>4. \A n \in 1 .. Len(supplied) : KeyOf(j) # Append(KeyOf(i), n) /\ KeyOf(i) # Append(KeyOf(j), n)
  BY DEF KeysCollide
<1>5. KeyOf(i) = KeyOf(j) => i \in Earlier(source, j)
  BY <1>1, <1>2 DEF Earlier
<1>6. CASE Earlier(source, i) = {} /\ Earlier(source, j) = {}
  BY <1>1, <1>2, <1>5, <1>6
<1>7. CASE Earlier(source, i) = {} /\ Earlier(source, j) # {}
  <2>1. b \in 1 .. Len(supplied)
    BY <1>2, <1>3, <1>7
  <2>2. KeyOf(i) = Append(KeyOf(j), b)
    BY <1>1, <1>2, <1>7
  <2> QED BY <1>4, <2>1, <2>2
<1>8. CASE Earlier(source, i) # {} /\ Earlier(source, j) = {}
  <2>1. a \in 1 .. Len(supplied)
    BY <1>1, <1>3, <1>8
  <2>2. KeyOf(j) = Append(KeyOf(i), a)
    BY <1>1, <1>2, <1>8
  <2> QED BY <1>4, <2>1, <2>2
<1>9. CASE Earlier(source, i) # {} /\ Earlier(source, j) # {}
  <2>1. Append(KeyOf(i), a) = Append(KeyOf(j), b) /\ a \in Nat /\ b \in Nat
    BY <1>1, <1>2, <1>9
  <2> HIDE DEF a, b
  <2>2. KeyOf(i) = KeyOf(j) /\ a = b
    BY <1>1, <1>2, <2>1, SameLetters
  <2> USE DEF a, b
  <2>3. Earlier(source, i) \subseteq Earlier(source, j) /\ i \in Earlier(source, j)
        /\ i \notin Earlier(source, i)
    BY <1>1, <1>2, <2>2 DEF Earlier
  <2>4. Earlier(source, i) = Earlier(source, j)
    BY <1>2, <2>2, <2>3, FS_Subset
  <2> QED BY <2>3, <2>4
<1> QED BY <1>6, <1>7, <1>8, <1>9

\* An index confirms by its identifier a reference that exists.
LEMMA ConfirmedIsReal ==
  ASSUME PaperInv, NEW i \in References, NEW index \in ValidateOne(i),
         index \notin {"none", "semantic_scholar"}
  PROVE  supplied[i].real
<1>1. \A l \in Lookups(i) : Matches(l) => supplied[i].real
  BY DEF Lookups, Matches
<1>2. CASE IdentifiedBy(i) = "doi"
  BY <1>1, <1>2 DEF ValidateOne, CheckDoi, CheckSemanticScholar
<1>3. CASE IdentifiedBy(i) = "arxiv"
  BY <1>1, <1>3 DEF ValidateOne, CheckArxiv
<1>4. CASE IdentifiedBy(i) = "title"
  BY <1>4 DEF ValidateOne, CheckSemanticScholar
<1>5. CASE IdentifiedBy(i) = "unreadable"
  BY <1>5 DEF ValidateOne
<1> QED BY <1>2, <1>3, <1>4, <1>5, ReferenceIs

\* A paper the tools give out cites what its drafts did, keys of the caller's references only;
\* confirmed references have keys of their own, and exist or were found by a search
\* (validate_citations, draft_section, style_transfer).
THEOREM CitationsHold == PaperSpec => []CitesResolve
<1>1. ASSUME PaperInv PROVE CitesResolve
  <2>1. ASSUME finished.done, NEW k \in Citable, finished.cites[k] > 0
        PROVE  k \in KeysOf(References)
    <3>1. finished.cites[k] = Cardinality({s \in DOMAIN drafts : k \in drafts[s]})
      BY <1>1, <2>1 DEF PaperInv, Assembled
    <3>2. {s \in DOMAIN drafts : k \in drafts[s]} # {}
      BY <2>1, <3>1, FS_EmptySet
    <3> QED BY <1>1, <3>2 DEF PaperInv
  <2>2. \A i \in Confirmed :
            /\ i \in References /\ Sources[i] = verdicts[i].source /\ Sources[i] # "none"
            /\ verdicts[i].entry = DeduplicatedKey(Sources, i)
            /\ verdicts[i].source \in ValidateOne(i)
    BY <1>1 DEF PaperInv, VerdictsInv, Confirmed, Sources
  <2>3. ASSUME ~KeysCollide, NEW i \in Confirmed, NEW j \in Confirmed,
               verdicts[i].entry = verdicts[j].entry
        PROVE  i = j
    <3>1. i \in Nat /\ j \in Nat
      BY <1>1, <2>2, KeyIs
    <3>2. ~(i < j) /\ ~(j < i)
      BY <1>1, <2>2, <2>3, KeysDiffer
    <3> QED BY <3>1, <3>2
  <2>4. ASSUME NEW i \in Confirmed
        PROVE  supplied[i].real \/ verdicts[i].source = "semantic_scholar"
    BY <1>1, <2>2, ConfirmedIsReal DEF Confirmed
  <2> QED BY <1>1, <2>1, <2>3, <2>4 DEF PaperInv, CitesResolve
<1> QED BY <1>1, PaperInitInv, PaperStep, PTL DEF PaperSpec

-----------------------------------------------------------------------------
(* ContextWindow: what a compaction takes to be in the summary is in it,   *)
(* and in every summary another one could still put back or build upon.    *)

Jobs == [at : Stages, seen : 0 .. MaxStored, through : -1 .. (MaxStored - 1), anchor : SUBSET Seqs,
         old : SUBSET Seqs, blocks : SUBSET SUBSET Seqs, new : SUBSET Seqs]
AtTurns == {"watermark", "anchored", "summarising", "anchoring", "summarised", "merging", "advancing"}
Chosen(j) == (j.through + 1) .. (j.seen - 1 - Keep)
SomeChosen(j) == j.at \in AtTurns => j.through + 1 <= j.seen - 1 - Keep

Knows(j) ==
    /\ j.at = "summarising" => Chosen(j) \subseteq j.new \union UNION j.blocks
    /\ j.at \in {"anchoring", "summarised", "merging"} => Chosen(j) \subseteq j.new

\* The turns a job takes to be in the summary: those before the ones it compacts and, once
\* its own summary is stored, these as well.
Relies(j) == IF j.at = "advancing" THEN 0 .. (j.seen - 1 - Keep)
             ELSE IF j.at \in AtTurns THEN 0 .. j.through ELSE {}

\* What a task whose old summary is the stored one may put back.
InTime(c) ==
    /\ job[c].at \in {"merging", "advancing"}
    /\ job[c].at = "merging" => job[c].old = summary
    /\ 0 .. watermark \subseteq job[c].old
    /\ \A d \in Compactors \ {c} : Relies(job[d]) \subseteq job[c].old

HasRead ==
    view.at = "summary" => view.turns = turns /\ (~raced => 0 .. view.through \subseteq view.summary)

Views == [at : {"none", "summary", "done", "failed"}, turns : 0 .. MaxStored,
          summary : SUBSET Seqs, recent : SUBSET Seqs, through : -1 .. (MaxStored - 1),
          overtaken : BOOLEAN, trimmed : BOOLEAN]

CtxTyped == CtxTypeOK /\ \A c \in Compactors : SomeChosen(job[c])

CtxInv ==
    /\ CtxTyped /\ HiddenIsSummarised /\ OldestLeftOut /\ HasRead
    /\ \A c \in Compactors : Knows(job[c])
    /\ ~raced => /\ \A c \in Compactors : Relies(job[c]) \subseteq summary
                 /\ \A c \in fresh : InTime(c)

\* The blocks of an interval are all of it.
LEMMA QuotientsGrow ==
  ASSUME NEW a \in Nat, NEW b \in Nat, a <= b, NEW B \in Nat \ {0}
  PROVE  a \div B \in 0 .. (b \div B)
OBVIOUS

LEMMA BlocksCover ==
  ASSUME NEW lo \in Nat, NEW hi \in Nat, lo <= hi
  PROVE  lo .. hi \subseteq UNION Blocks(lo .. hi) /\ \A b \in Blocks(lo .. hi) : b \subseteq lo .. hi
<1> DEFINE S == lo .. hi
<1>1. Cardinality(S) = hi - lo + 1
  BY FS_Interval
<1>2. lo \in S /\ \A y \in S : lo <= y
  OBVIOUS
<1>3. Min(S) \in S /\ \A y \in S : Min(S) <= y
  <2> HIDE DEF S
  <2> QED BY <1>2 DEF Min
<1>4. Min(S) = lo
  BY <1>2, <1>3
<1> DEFINE top == (Cardinality(S) - 1) \div BlockSize
<1>5. BlockSize \in Nat \ {0} /\ Cardinality(S) - 1 = hi - lo /\ hi - lo \in Nat
  BY <1>1, CtxAssumption
<1>6. ASSUME NEW s \in S PROVE \E b \in Blocks(S) : s \in b
  <2>1. s - lo \in Nat /\ s - lo <= hi - lo
    OBVIOUS
  <2>2. (s - lo) \div BlockSize \in 0 .. ((hi - lo) \div BlockSize)
    BY <1>5, <2>1, QuotientsGrow
  <2> DEFINE i == (s - lo) \div BlockSize
             b == {t \in S : (t - Min(S)) \div BlockSize = i}
  <2>3. s \in b
    BY <1>4
  <2>4. i \in 0 .. ((Cardinality(S) - 1) \div BlockSize)
    BY <1>5, <2>2
  <2>5. b \in Blocks(S)
    <3> HIDE DEF i, S
    <3> QED BY <2>4 DEF Blocks
  <2> QED BY <2>3, <2>5
<1>7. \A b \in Blocks(S) : b \subseteq S
  BY DEF Blocks
<1> HIDE DEF S
<1>8. S \subseteq UNION Blocks(S)
  BY <1>6
<1> QED BY <1>7, <1>8 DEF S

\* The variables and their types.
LEMMA CtxTypes ==
  CtxTypeOK <=>
    /\ turns \in 0 .. MaxStored /\ inTurn \in BOOLEAN /\ idle \in BOOLEAN /\ raced \in BOOLEAN
    /\ watermark \in -1 .. (MaxStored - 1) /\ summary \subseteq Seqs /\ anchor \subseteq Seqs
    /\ job \in [Compactors -> Jobs] /\ view \in Views /\ ctxFaults \in 0 .. MaxCtxFaults
    /\ fresh \subseteq Compactors
BY DEF CtxTypeOK, Jobs, Views

LEMMA ChosenIs ==
  ASSUME CtxTyped, NEW c \in Compactors, job[c].at \in AtTurns
  PROVE  /\ ToCompact(c) = Chosen(job[c])
         /\ job[c].through + 1 \in Nat /\ job[c].seen - 1 - Keep \in 0 .. (MaxStored - 1)
         /\ job[c].through + 1 <= job[c].seen - 1 - Keep
         /\ Chosen(job[c]) \subseteq Seqs /\ Max(ToCompact(c)) = job[c].seen - 1 - Keep
<1> DEFINE lo == job[c].through + 1
           hi == job[c].seen - 1 - Keep
<1>1. job[c] \in Jobs /\ SomeChosen(job[c]) /\ Keep \in Nat /\ MaxStored \in Nat
  BY CtxAssumption, CtxTypes DEF CtxTyped
<1>2. job[c].seen \in 0 .. MaxStored /\ job[c].through \in -1 .. (MaxStored - 1)
  BY <1>1 DEF Jobs
<1>3. lo \in Nat /\ hi \in Int /\ lo <= hi
  BY <1>1, <1>2 DEF SomeChosen
<1>4. hi \in 0 .. (MaxStored - 1)
  BY <1>1, <1>2, <1>3
<1>5. ToCompact(c) = lo .. hi /\ Chosen(job[c]) = lo .. hi
  BY DEF ToCompact, Chosen
<1> HIDE DEF lo, hi
<1>6. hi \in lo .. hi /\ \A y \in lo .. hi : hi >= y
  BY <1>3
<1>7. Max(lo .. hi) \in lo .. hi /\ \A y \in lo .. hi : Max(lo .. hi) >= y
  <2> DEFINE S == lo .. hi
  <2>1. hi \in S /\ \A y \in S : hi >= y
    BY <1>6
  <2> HIDE DEF S
  <2>2. Max(S) \in S /\ \A y \in S : Max(S) >= y
    BY <2>1 DEF Max
  <2> QED BY <2>2 DEF S
<1>8. Max(lo .. hi) = hi
  BY <1>3, <1>6, <1>7
<1>9. lo .. hi \subseteq Seqs
  BY <1>1, <1>3, <1>4 DEF Seqs
<1> QED BY <1>3, <1>4, <1>5, <1>8, <1>9 DEF lo, hi


\* A step of one compaction: what it relies on from then on is in the summary, and in the old
\* summary of every other task that may still put it back.
LEMMA JobMoves ==
  ASSUME CtxInv, NEW c \in Compactors, NEW j \in Jobs, SomeChosen(j), Knows(j),
         job' = [job EXCEPT ![c] = j], UNCHANGED <<turns, inTurn, idle, view>>,
         ctxFaults' \in 0 .. MaxCtxFaults, raced' \in BOOLEAN, raced => raced',
         watermark' \in -1 .. (MaxStored - 1), summary' \subseteq Seqs, anchor' \subseteq Seqs,
         fresh' \subseteq Compactors,
         ~raced' => /\ 0 .. watermark' \subseteq summary' /\ Relies(j) \subseteq summary'
                    /\ \A d \in Compactors \ {c} : Relies(job[d]) \subseteq summary'
                    /\ \A d \in fresh' \ {c} :
                         /\ d \in fresh /\ Relies(j) \subseteq job[d].old
                         /\ 0 .. watermark' \subseteq job[d].old
                         /\ job[d].at = "merging" => summary' = summary
                    /\ c \in fresh' =>
                         /\ j.at \in {"merging", "advancing"} /\ (j.at = "merging" => j.old = summary')
                         /\ 0 .. watermark' \subseteq j.old
                         /\ \A d \in Compactors \ {c} : Relies(job[d]) \subseteq j.old
  PROVE  CtxInv'
<1>1. job \in [Compactors -> Jobs] /\ raced \in BOOLEAN
  BY CtxTypes DEF CtxInv, CtxTyped
<1>2. job'[c] = j /\ \A d \in Compactors : d # c => job'[d] = job[d]
  BY <1>1
<1>3. CtxTyped'
  <2>1. CtxTypeOK'
    BY <1>1, CtxTypes DEF CtxInv, CtxTyped, CtxTypeOK, Jobs
  <2> QED BY <1>2, <2>1 DEF CtxInv, CtxTyped
<1>4. HiddenIsSummarised'
  BY DEF HiddenIsSummarised
<1>5. OldestLeftOut' /\ HasRead'
  BY DEF CtxInv, OldestLeftOut, HasRead
<1>6. \A d \in Compactors : Knows(job'[d])
  BY <1>2 DEF CtxInv
<1>7. ASSUME ~raced'
      PROVE  /\ \A d \in Compactors : Relies(job'[d]) \subseteq summary'
             /\ \A d \in fresh' : InTime(d)'
  <2>1. \A d \in fresh : InTime(d)
    BY <1>1, <1>7 DEF CtxInv
  <2>2. \A d \in Compactors : Relies(job'[d]) \subseteq summary'
    BY <1>2, <1>7
  <2>3. ASSUME c \in fresh' PROVE InTime(c)'
    <3>1. \A d \in Compactors \ {c} : Relies(job'[d]) = Relies(job[d])
      BY <1>2
    <3> QED BY <1>2, <1>7, <2>3, <3>1 DEF InTime
  <2>4. ASSUME NEW d \in fresh' \ {c} PROVE InTime(d)'
    <3>1. d \in fresh /\ d \in Compactors /\ job'[d] = job[d] /\ InTime(d)
      BY <1>2, <1>7, <2>1
    <3>2. \A e \in Compactors \ {d} : Relies(job'[e]) \subseteq job[d].old
      BY <1>2, <1>7, <3>1 DEF InTime
    <3>3. 0 .. watermark' \subseteq job[d].old /\ (job[d].at = "merging" => summary' = summary)
      BY <1>7
    <3> QED BY <3>1, <3>2, <3>3 DEF InTime
  <2> QED BY <2>2, <2>3, <2>4
<1>8. Knows(job[c])' /\ \A d \in Compactors : Knows(job[d])'
  BY <1>6
<1> QED BY <1>3, <1>4, <1>5, <1>7, <1>8 DEF CtxInv

\* The same for a step that stores nothing.
LEMMA JobMovesOnly ==
  ASSUME CtxInv, NEW c \in Compactors, NEW j \in Jobs, SomeChosen(j), Knows(j),
         job' = [job EXCEPT ![c] = j],
         UNCHANGED <<turns, inTurn, idle, view, raced, watermark, summary>>, anchor' \subseteq Seqs,
         ctxFaults' \in 0 .. MaxCtxFaults, Relies(j) \subseteq Relies(job[c]) \union 0 .. watermark,
         \/ fresh' = fresh /\ job[c].at \notin {"merging", "advancing"}
         \/ fresh' = fresh \ {c}
  PROVE  CtxInv'
<1>1. /\ raced' \in BOOLEAN /\ watermark' \in -1 .. (MaxStored - 1) /\ summary' \subseteq Seqs
      /\ (~raced => 0 .. watermark \subseteq summary) /\ fresh' \subseteq Compactors
  BY CtxTypes DEF CtxInv, CtxTyped, HiddenIsSummarised
<1>2. ASSUME ~raced
      PROVE  /\ \A d \in Compactors : Relies(job[d]) \subseteq summary
             /\ \A d \in fresh : InTime(d)
  BY <1>2 DEF CtxInv
<1>3. ~raced => c \notin fresh'
  BY <1>2 DEF InTime
<1>4. ~raced => Relies(j) \subseteq summary
  BY <1>1, <1>2
<1>5. ASSUME ~raced, NEW d \in fresh' \ {c}
      PROVE  /\ d \in fresh /\ Relies(j) \subseteq job[d].old /\ 0 .. watermark \subseteq job[d].old
  <2>1. d \in fresh /\ InTime(d)
    BY <1>2, <1>5
  <2> QED BY <1>5, <2>1 DEF InTime
<1> QED BY <1>1, <1>2, <1>3, <1>4, <1>5, JobMoves

\* No job is a job.
LEMMA NoJobTyped ==
  NoJob \in Jobs /\ NoJob.at = "idle" /\ SomeChosen(NoJob) /\ Knows(NoJob) /\ Relies(NoJob) = {}
<1>1. 0 \in 0 .. MaxStored /\ -1 \in -1 .. (MaxStored - 1)
  BY CtxAssumption
<1> QED BY <1>1 DEF NoJob, Jobs, Stages, SomeChosen, AtTurns, Knows, Relies

\* A task that was idle begins.
LEMMA JobBegins ==
  ASSUME CtxInv, NEW c \in Compactors, job[c].at = "idle", Goes(c, "filled"),
         UNCHANGED <<turns, inTurn, idle, view, watermark, summary, anchor, ctxFaults, fresh, raced>>
  PROVE  CtxInv'
<1> DEFINE j == [job[c] EXCEPT !.at = "filled"]
<1>1. job \in [Compactors -> Jobs] /\ anchor \subseteq Seqs /\ ctxFaults \in 0 .. MaxCtxFaults
  BY CtxTypes DEF CtxInv, CtxTyped
<1>2. job[c] \in Jobs
  BY <1>1
<1>3. j \in Jobs /\ j.at = "filled"
  BY <1>2 DEF Jobs, Stages
<1>4. job' = [job EXCEPT ![c] = j]
  BY <1>1 DEF Goes
<1> HIDE DEF j
<1>5. SomeChosen(j) /\ Knows(j) /\ Relies(j) = {}
  BY <1>3 DEF SomeChosen, Knows, Relies, AtTurns
<1> QED BY <1>1, <1>3, <1>4, <1>5, JobMovesOnly

LEMMA CtxInitInv == CtxInit => CtxInv
<1> SUFFICES ASSUME CtxInit PROVE CtxInv
  OBVIOUS
<1>1. -1 \in -1 .. (MaxStored - 1) /\ 0 \in 0 .. MaxStored /\ 0 .. -1 = {}
  BY CtxAssumption
<1>2. CtxTyped
  <2>1. NoView \in Views /\ 0 \in 0 .. MaxCtxFaults
    BY <1>1, CtxAssumption DEF NoView, Views
  <2>2. CtxTypeOK
    BY <1>1, <2>1, NoJobTyped, CtxTypes DEF CtxInit
  <2> QED BY <2>2, NoJobTyped DEF CtxInit, CtxTyped
<1>3. HiddenIsSummarised /\ OldestLeftOut /\ HasRead
  BY <1>1 DEF CtxInit, HiddenIsSummarised, OldestLeftOut, HasRead, NoView
<1>4. /\ \A c \in Compactors : Knows(job[c]) /\ Relies(job[c]) \subseteq summary
      /\ \A c \in fresh : InTime(c)
  BY NoJobTyped DEF CtxInit
<1> QED BY <1>2, <1>3, <1>4 DEF CtxInv

\* The turn and its reader move, and no task does.
LEMMA ReaderMoves ==
  ASSUME CtxInv, UNCHANGED <<watermark, summary, anchor, job, fresh, raced>>, turns' \in 0 .. MaxStored,
         inTurn' \in BOOLEAN, idle' \in BOOLEAN, view' \in Views, ctxFaults' \in 0 .. MaxCtxFaults,
         OldestLeftOut', HasRead'
  PROVE  CtxInv'
<1>1. CtxTyped'
  <2>1. CtxTypeOK'
    BY CtxTypes DEF CtxInv, CtxTyped, CtxTypeOK, Jobs, Views
  <2> QED BY <2>1 DEF CtxInv, CtxTyped
<1>2. HiddenIsSummarised'
  BY DEF CtxInv, HiddenIsSummarised
<1>3. \A c \in Compactors : Knows(job[c])'
  BY DEF CtxInv
<1>4. ASSUME ~raced'
      PROVE  /\ \A c \in Compactors : Relies(job[c])' \subseteq summary'
             /\ \A c \in fresh' : InTime(c)'
  BY <1>4 DEF CtxInv, InTime
<1> QED BY <1>1, <1>2, <1>3, <1>4 DEF CtxInv

\* The turn begins and ends, its context is read, and time passes.
LEMMA ReaderStep ==
  ASSUME CtxInv,
         TurnStarts \/ ReadSummary \/ RecentTurns \/ ContextFails \/ TurnEnds \/ TimePasses
  PROVE  CtxInv'
<1>1. /\ turns \in 0 .. MaxStored /\ MaxStored \in Nat /\ Limit \in Nat
      /\ inTurn \in BOOLEAN /\ idle \in BOOLEAN /\ view \in Views /\ ctxFaults \in 0 .. MaxCtxFaults
      /\ MaxCtxFaults \in Nat /\ summary \subseteq Seqs /\ watermark \in -1 .. (MaxStored - 1)
  BY CtxAssumption, CtxTypes DEF CtxInv, CtxTyped
<1>2. CASE TurnStarts \/ TurnEnds
  <2>1. /\ UNCHANGED <<watermark, summary, anchor, job, fresh, raced, ctxFaults>> /\ view' = NoView
        /\ turns' = turns + 1 /\ turns < MaxStored /\ inTurn' \in BOOLEAN /\ idle' \in BOOLEAN
    BY <1>2 DEF TurnStarts, TurnEnds, persisted, ctxHistory
  <2>2. turns' \in 0 .. MaxStored
    BY <1>1, <2>1
  <2>3. view' \in Views /\ view'.at = "none"
    BY <1>1, <2>1 DEF NoView, Views
  <2>4. OldestLeftOut' /\ HasRead'
    BY <2>3 DEF OldestLeftOut, HasRead
  <2> QED BY <1>1, <2>1, <2>2, <2>3, <2>4, ReaderMoves
<1>3. CASE ReadSummary
  <2>1. /\ inTurn' = inTurn /\ turns' = turns
        /\ view' = [view EXCEPT !.at = "summary", !.turns = turns, !.summary = summary,
                                !.through = watermark]
        /\ UNCHANGED <<watermark, summary, anchor, job, idle, ctxFaults, fresh, raced>>
    BY <1>3 DEF ReadSummary, persisted, ctxHistory
  <2>2. view' \in Views /\ view'.at = "summary" /\ view'.summary = summary /\ view'.turns = turns
        /\ view'.through = watermark
    BY <1>1, <2>1 DEF Views
  <2>3. OldestLeftOut'
    BY <2>2 DEF OldestLeftOut
  <2>4. HasRead'
    BY <2>1, <2>2 DEF HasRead, CtxInv, HiddenIsSummarised
  <2> QED BY <1>1, <2>1, <2>2, <2>3, <2>4, ReaderMoves
<1>4. CASE RecentTurns
  <2> DEFINE window == {s \in 0 .. (turns - 1) : s > watermark /\ s >= turns - Limit}
  <2>1. PICK cut \in 0 .. turns : Shows(window, cut)
    BY <1>4 DEF RecentTurns
  <2> DEFINE kept == {s \in window : s >= cut}
             passed == watermark > view.through
             lost == \E s \in window : s < cut
  <2>2. /\ view.at = "summary"
        /\ view' = [view EXCEPT !.at = "done", !.recent = kept, !.trimmed = lost, !.overtaken = passed]
        /\ UNCHANGED <<watermark, summary, anchor, job, turns, inTurn, idle, ctxFaults, fresh, raced>>
    BY <2>1 DEF Shows, persisted, ctxHistory
  <2>3. kept \subseteq Seqs /\ lost \in BOOLEAN /\ passed \in BOOLEAN
    BY <1>1 DEF Seqs
  <2>4. /\ view' \in Views /\ view'.at = "done" /\ view'.recent = kept /\ view'.trimmed = lost
        /\ view'.overtaken = passed /\ view'.summary = view.summary /\ view'.turns = view.turns
    <3> HIDE DEF kept, passed, lost
    <3> QED BY <1>1, <2>2, <2>3 DEF Views
  <2>5. view.turns = turns /\ (~raced => 0 .. view.through \subseteq view.summary)
        /\ view.through \in -1 .. (MaxStored - 1)
    BY <1>1, <2>2 DEF CtxInv, HasRead, Views
  <2>6. ASSUME ~raced, ~passed, NEW s \in (0 .. (turns - 1)) \ (view.summary \union kept)
        PROVE  (lost \/ s < turns - Limit) /\ \A r \in kept : s < r
    <3>1. s > watermark /\ s \in 0 .. (turns - 1)
      BY <1>1, <2>5, <2>6
    <3>2. CASE s \in window
      BY <1>1, <2>6, <3>1, <3>2
    <3>3. CASE s \notin window
      BY <1>1, <3>1, <3>3
    <3> QED BY <3>2, <3>3
  <2>7. OldestLeftOut'
    <3> HIDE DEF kept, passed, lost
    <3> QED BY <2>2, <2>4, <2>5, <2>6 DEF OldestLeftOut
  <2>8. HasRead'
    BY <2>4 DEF HasRead
  <2> QED BY <1>1, <2>2, <2>4, <2>7, <2>8, ReaderMoves
<1>5. CASE ContextFails
  <2>1. /\ UNCHANGED <<watermark, summary, anchor, job, fresh, raced, turns, inTurn, idle>>
        /\ view' = [NoView EXCEPT !.at = "failed"]
        /\ ctxFaults < MaxCtxFaults /\ ctxFaults' = ctxFaults + 1
    BY <1>5 DEF ContextFails, persisted, ctxHistory
  <2>2. view' \in Views /\ view'.at = "failed"
    <3>1. 0 \in 0 .. MaxStored /\ -1 \in -1 .. (MaxStored - 1)
      BY <1>1
    <3>2. NoView \in Views
      BY <3>1 DEF NoView, Views
    <3> QED BY <2>1, <3>2 DEF Views
  <2>3. OldestLeftOut' /\ HasRead'
    BY <2>2 DEF OldestLeftOut, HasRead
  <2>4. ctxFaults' \in 0 .. MaxCtxFaults
    BY <1>1, <2>1
  <2> QED BY <1>1, <2>1, <2>2, <2>3, <2>4, ReaderMoves
<1>6. CASE TimePasses
  <2>1. UNCHANGED <<watermark, summary, anchor, job, fresh, raced, turns, inTurn, view, ctxFaults>>
        /\ idle' \in BOOLEAN
    BY <1>6 DEF TimePasses, persisted, ctxHistory
  <2>2. OldestLeftOut' /\ HasRead'
    BY <2>1 DEF CtxInv, OldestLeftOut, HasRead
  <2> QED BY <1>1, <2>1, <2>2, ReaderMoves
<1> QED BY <1>2, <1>3, <1>4, <1>5, <1>6

\* A step of a compaction that only moves on, with what it has read.
LEMMA CompactReads ==
  ASSUME CtxInv, NEW c \in Compactors, CompactStep(c) \/ CompactRaises(c) \/ (c = Sweep /\ SweepSkips),
         ~StoreAnchor(c), ~ReadOldSummary(c), ~StoreSummary(c), ~AdvanceWatermark(c)
  PROVE  CtxInv'
<1>1. /\ job \in [Compactors -> Jobs] /\ job[c] \in Jobs /\ SomeChosen(job[c])
      /\ turns \in 0 .. MaxStored /\ MaxStored \in Nat /\ Keep \in Nat
      /\ watermark \in -1 .. (MaxStored - 1) /\ summary \subseteq Seqs /\ anchor \subseteq Seqs
      /\ ctxFaults \in 0 .. MaxCtxFaults /\ MaxCtxFaults \in Nat
      /\ Knows(job[c])
  BY CtxAssumption, CtxTypes DEF CtxInv, CtxTyped
<1>2. ASSUME WorkEnds(c), ctxFaults' \in 0 .. MaxCtxFaults,
             \/ fresh' = fresh /\ job[c].at \notin {"merging", "advancing"}
             \/ fresh' = fresh \ {c},
             UNCHANGED <<turns, inTurn, idle, view, raced, watermark, summary, anchor>>
      PROVE  CtxInv'
  <2>1. job' = [job EXCEPT ![c] = NoJob]
    BY <1>2 DEF WorkEnds
  <2> QED BY <1>1, <1>2, <2>1, NoJobTyped, JobMovesOnly
<1>3. CASE ReadTurns(c)
  <2>1. /\ job[c].at = "filled" /\ jobUnchanged /\ UNCHANGED <<persisted, ctxFaults, ctxHistory>>
        /\ job' = [job EXCEPT ![c] = IF turns <= Keep THEN NoJob
                                     ELSE [@ EXCEPT !.at = "turns", !.seen = turns]]
    BY <1>3 DEF ReadTurns, At
  <2>2. UNCHANGED <<turns, inTurn, idle, view, fresh, raced, watermark, summary, anchor, ctxFaults>>
    BY <2>1 DEF jobUnchanged, persisted, ctxHistory
  <2>3. CASE turns <= Keep
    BY <1>1, <1>2, <2>1, <2>2, <2>3 DEF WorkEnds
  <2>4. CASE ~(turns <= Keep)
    <3> DEFINE j == [job[c] EXCEPT !.at = "turns", !.seen = turns]
    <3>1. j \in Jobs /\ j.at = "turns"
      BY <1>1 DEF Jobs, Stages
    <3>2. job' = [job EXCEPT ![c] = j]
      BY <1>1, <2>1, <2>4
    <3> HIDE DEF j
    <3>3. SomeChosen(j) /\ Knows(j) /\ Relies(j) = {}
      BY <3>1 DEF SomeChosen, Knows, Relies, AtTurns
    <3> QED BY <1>1, <2>1, <2>2, <3>1, <3>2, <3>3, JobMovesOnly
  <2> QED BY <2>3, <2>4
<1>4. CASE ReadWatermark(c)
  <2>1. /\ job[c].at = "turns" /\ jobUnchanged /\ UNCHANGED <<persisted, ctxFaults, ctxHistory>>
        /\ job' = [job EXCEPT ![c] = IF watermark + 1 > job[c].seen - 1 - Keep THEN NoJob
                                     ELSE [@ EXCEPT !.at = "watermark", !.through = watermark]]
    BY <1>4 DEF ReadWatermark, At
  <2>2. UNCHANGED <<turns, inTurn, idle, view, fresh, raced, watermark, summary, anchor, ctxFaults>>
    BY <2>1 DEF jobUnchanged, persisted, ctxHistory
  <2>3. CASE watermark + 1 > job[c].seen - 1 - Keep
    BY <1>1, <1>2, <2>1, <2>2, <2>3 DEF WorkEnds
  <2>4. CASE ~(watermark + 1 > job[c].seen - 1 - Keep)
    <3> DEFINE j == [job[c] EXCEPT !.at = "watermark", !.through = watermark]
    <3>1. j \in Jobs /\ j.at = "watermark" /\ j.through = watermark /\ j.seen = job[c].seen
      BY <1>1 DEF Jobs, Stages
    <3>2. job' = [job EXCEPT ![c] = j]
      BY <1>1, <2>1, <2>4
    <3>3. job[c].seen \in 0 .. MaxStored
      BY <1>1 DEF Jobs
    <3> HIDE DEF j
    <3>4. SomeChosen(j)
      BY <1>1, <2>4, <3>1, <3>3 DEF SomeChosen
    <3>5. Knows(j) /\ Relies(j) = 0 .. watermark
      BY <3>1 DEF Knows, Relies, AtTurns
    <3> QED BY <1>1, <2>1, <2>2, <3>1, <3>2, <3>4, <3>5, JobMovesOnly
  <2> QED BY <2>3, <2>4
<1>5. CASE ReadAnchor(c)
  <2>1. /\ job[c].at = "watermark" /\ jobUnchanged /\ UNCHANGED <<persisted, ctxFaults, ctxHistory>>
        /\ job' = [job EXCEPT ![c].at = "anchored", ![c].anchor = anchor]
    BY <1>5 DEF ReadAnchor, At
  <2>2. UNCHANGED <<turns, inTurn, idle, view, fresh, raced, watermark, summary, anchor, ctxFaults>>
    BY <2>1 DEF jobUnchanged, persisted, ctxHistory
  <2> DEFINE j == [job[c] EXCEPT !.at = "anchored", !.anchor = anchor]
  <2>3. j \in Jobs /\ j.at = "anchored" /\ j.through = job[c].through /\ j.seen = job[c].seen
    BY <1>1 DEF Jobs, Stages
  <2>4. job' = [job EXCEPT ![c] = j]
    BY <1>1, <2>1
  <2> HIDE DEF j
  <2>5. SomeChosen(j) /\ Knows(j) /\ Relies(j) \subseteq Relies(job[c])
    BY <1>1, <2>1, <2>3 DEF SomeChosen, Knows, Relies, AtTurns
  <2> QED BY <1>1, <2>1, <2>2, <2>3, <2>4, <2>5, JobMovesOnly
<1>6. CASE SplitBlocks(c)
  <2>1. /\ job[c].at = "anchored" /\ jobUnchanged /\ UNCHANGED <<persisted, ctxFaults, ctxHistory>>
        /\ job' = [job EXCEPT ![c].at = "summarising", ![c].blocks = Blocks(ToCompact(c))]
    BY <1>6 DEF SplitBlocks, At
  <2>2. UNCHANGED <<turns, inTurn, idle, view, fresh, raced, watermark, summary, anchor, ctxFaults>>
    BY <2>1 DEF jobUnchanged, persisted, ctxHistory
  <2>3. /\ ToCompact(c) = Chosen(job[c]) /\ Chosen(job[c]) \subseteq Seqs
        /\ Chosen(job[c]) \subseteq UNION Blocks(Chosen(job[c]))
        /\ \A b \in Blocks(Chosen(job[c])) : b \subseteq Chosen(job[c])
    <3>1. job[c].at \in AtTurns /\ CtxTyped
      BY <2>1 DEF AtTurns, CtxInv
    <3>2. job[c].through + 1 \in Nat /\ job[c].seen - 1 - Keep \in Nat
          /\ job[c].through + 1 <= job[c].seen - 1 - Keep
      BY <1>1, <3>1, ChosenIs
    <3> QED BY <3>1, <3>2, ChosenIs, BlocksCover DEF Chosen
  <2> DEFINE j == [job[c] EXCEPT !.at = "summarising", !.blocks = Blocks(ToCompact(c))]
  <2>4. Blocks(ToCompact(c)) \in SUBSET SUBSET Seqs
    BY <2>3
  <2>5. j \in Jobs /\ j.at = "summarising" /\ j.blocks = Blocks(ToCompact(c))
        /\ j.through = job[c].through /\ j.seen = job[c].seen
    BY <1>1, <2>4 DEF Jobs, Stages
  <2>6. job' = [job EXCEPT ![c] = j]
    BY <1>1, <2>1
  <2> HIDE DEF j
  <2>7. Chosen(j) = Chosen(job[c])
    BY <2>5 DEF Chosen
  <2>8. SomeChosen(j) /\ Knows(j) /\ Relies(j) \subseteq Relies(job[c])
    BY <1>1, <2>1, <2>3, <2>5, <2>7 DEF SomeChosen, Knows, Relies, AtTurns
  <2> QED BY <1>1, <2>1, <2>2, <2>5, <2>6, <2>8, JobMovesOnly
<1>7. ASSUME NEW block \in job[c].blocks, SummariseBlock(c, block) PROVE CtxInv'
  <2>1. /\ job[c].at = "summarising" /\ jobUnchanged /\ UNCHANGED <<persisted, ctxFaults, ctxHistory>>
        /\ job' = [job EXCEPT ![c].blocks = @ \ {block}, ![c].new = @ \union block]
    BY <1>7 DEF SummariseBlock, At
  <2>2. UNCHANGED <<turns, inTurn, idle, view, fresh, raced, watermark, summary, anchor, ctxFaults>>
    BY <2>1 DEF jobUnchanged, persisted, ctxHistory
  <2> DEFINE j == [job[c] EXCEPT !.blocks = @ \ {block}, !.new = @ \union block]
  <2>3. j \in Jobs /\ j.at = job[c].at /\ j.through = job[c].through /\ j.seen = job[c].seen
        /\ j.blocks = job[c].blocks \ {block} /\ j.new = job[c].new \union block
    BY <1>1 DEF Jobs
  <2>4. job' = [job EXCEPT ![c] = j]
    BY <1>1, <2>1
  <2> HIDE DEF j
  <2>5. Chosen(j) = Chosen(job[c])
    BY <2>3 DEF Chosen
  <2>6. j.new \union UNION j.blocks = job[c].new \union UNION job[c].blocks
    BY <2>3
  <2>7. SomeChosen(j) /\ Knows(j) /\ Relies(j) \subseteq Relies(job[c])
    BY <1>1, <2>1, <2>3, <2>5, <2>6 DEF SomeChosen, Knows, Relies, AtTurns
  <2> QED BY <1>1, <2>1, <2>2, <2>3, <2>4, <2>7, JobMovesOnly
<1>8. CASE MergeBlocks(c)
  <2>1. /\ job[c].at = "summarising" /\ job[c].blocks = {} /\ jobUnchanged
        /\ UNCHANGED <<persisted, ctxFaults, ctxHistory>> /\ Goes(c, "anchoring")
    BY <1>8 DEF MergeBlocks, At
  <2>2. UNCHANGED <<turns, inTurn, idle, view, fresh, raced, watermark, summary, anchor, ctxFaults>>
    BY <2>1 DEF jobUnchanged, persisted, ctxHistory
  <2> DEFINE j == [job[c] EXCEPT !.at = "anchoring"]
  <2>3. j \in Jobs /\ j.at = "anchoring" /\ j.through = job[c].through /\ j.seen = job[c].seen
        /\ j.new = job[c].new
    BY <1>1 DEF Jobs, Stages
  <2>4. job' = [job EXCEPT ![c] = j]
    BY <1>1, <2>1 DEF Goes
  <2> HIDE DEF j
  <2>5. Chosen(j) = Chosen(job[c])
    BY <2>3 DEF Chosen
  <2>6. Chosen(job[c]) \subseteq job[c].new
    BY <1>1, <2>1 DEF Knows
  <2>7. SomeChosen(j) /\ Knows(j) /\ Relies(j) \subseteq Relies(job[c])
    BY <1>1, <2>1, <2>3, <2>5, <2>6 DEF SomeChosen, Knows, Relies, AtTurns
  <2> QED BY <1>1, <2>1, <2>2, <2>3, <2>4, <2>7, JobMovesOnly
<1>9. CASE ExtractReflections(c)
  <2>1. /\ job[c].at = "reflecting" /\ WorkEnds(c)
        /\ UNCHANGED <<turns, inTurn, idle, view, fresh, raced, watermark, summary, anchor, ctxFaults>>
    BY <1>9 DEF ExtractReflections, At, jobUnchanged, persisted, ctxHistory
  <2> QED BY <1>1, <1>2, <2>1
<1>10. CASE CompactRaises(c)
  <2>1. /\ job[c].at # "idle" /\ WorkEnds(c) /\ ctxFaults < MaxCtxFaults /\ ctxFaults' = ctxFaults + 1
        /\ UNCHANGED <<turns, inTurn, idle, view, raced, watermark, summary, anchor>>
        /\ fresh' = fresh \ {c}
    BY <1>10 DEF CompactRaises, Leaves, jobUnchanged, persisted
  <2>2. ctxFaults' \in 0 .. MaxCtxFaults
    BY <1>1, <2>1
  <2> QED BY <1>2, <2>1, <2>2
<1>11. CASE c = Sweep /\ SweepSkips
  <2>1. /\ job[c].at = "filled" /\ WorkEnds(c)
        /\ UNCHANGED <<turns, inTurn, idle, view, fresh, raced, watermark, summary, anchor, ctxFaults>>
    BY <1>11 DEF SweepSkips, At, jobUnchanged, persisted, ctxHistory
  <2> QED BY <1>1, <1>2, <2>1
<1> QED BY <1>3, <1>4, <1>5, <1>6, <1>7, <1>8, <1>9, <1>10, <1>11 DEF CompactStep

\* A step of a compaction that reads or stores the summary or what goes with it, or fails to.
LEMMA CompactStores ==
  ASSUME CtxInv, NEW c \in Compactors,
         \/ StoreAnchor(c) \/ ReadOldSummary(c) \/ StoreSummary(c) \/ AdvanceWatermark(c)
         \/ \E done, putBack \in BOOLEAN :
                StoreSummaryRaises(c, done, putBack) \/ AdvanceRaises(c, done, putBack)
  PROVE  CtxInv'
<1>1. /\ job \in [Compactors -> Jobs] /\ job[c] \in Jobs /\ SomeChosen(job[c]) /\ CtxTyped
      /\ MaxStored \in Nat /\ Keep \in Nat /\ raced \in BOOLEAN /\ Knows(job[c])
      /\ watermark \in -1 .. (MaxStored - 1) /\ summary \subseteq Seqs /\ anchor \subseteq Seqs
      /\ ctxFaults \in 0 .. MaxCtxFaults /\ MaxCtxFaults \in Nat /\ fresh \subseteq Compactors
  BY CtxAssumption, CtxTypes DEF CtxInv, CtxTyped
<1>2. job[c].new \subseteq Seqs /\ job[c].old \subseteq Seqs
  BY <1>1 DEF Jobs
<1>3. ASSUME ~raced
      PROVE  /\ 0 .. watermark \subseteq summary
             /\ \A d \in Compactors : Relies(job[d]) \subseteq summary
             /\ \A d \in fresh : InTime(d)
  BY <1>3 DEF CtxInv, HiddenIsSummarised
<1>4. ASSUME ~raced, NEW d \in fresh \ {c}
      PROVE  Relies(job[c]) \subseteq job[d].old /\ 0 .. watermark \subseteq job[d].old
  BY <1>3, <1>4 DEF InTime
<1>5. ASSUME ~raced, c \in fresh
      PROVE  /\ job[c].at = "merging" => job[c].old = summary
             /\ 0 .. watermark \subseteq job[c].old
             /\ \A d \in Compactors \ {c} : Relies(job[d]) \subseteq job[c].old
  BY <1>3, <1>5 DEF InTime
<1>6. ASSUME job[c].at = "advancing"
      PROVE  /\ Max(ToCompact(c)) \in -1 .. (MaxStored - 1)
             /\ Relies(job[c]) = 0 .. Max(ToCompact(c))
  <2>1. job[c].at \in AtTurns
    BY <1>6 DEF AtTurns
  <2> QED BY <1>1, <1>6, <2>1, ChosenIs DEF Relies
<1>7. CASE StoreAnchor(c)
  <2>1. /\ job[c].at = "anchoring" /\ Goes(c, "summarised")
        /\ anchor' = IF job[c].anchor = {} THEN job[c].new ELSE anchor
        /\ UNCHANGED <<turns, inTurn, idle, view, watermark, summary, ctxFaults, fresh, raced>>
    BY <1>7 DEF StoreAnchor, At, jobUnchanged, ctxHistory
  <2> DEFINE j == [job[c] EXCEPT !.at = "summarised"]
  <2>2. j \in Jobs /\ j.at = "summarised" /\ j.through = job[c].through /\ j.seen = job[c].seen
        /\ j.new = job[c].new
    BY <1>1 DEF Jobs, Stages
  <2>3. job' = [job EXCEPT ![c] = j]
    BY <1>1, <2>1 DEF Goes
  <2> HIDE DEF j
  <2>4. Chosen(j) = Chosen(job[c]) /\ anchor' \subseteq Seqs
    BY <1>1, <1>2, <2>1, <2>2 DEF Chosen
  <2>5. SomeChosen(j) /\ Knows(j) /\ Relies(j) \subseteq Relies(job[c])
    BY <1>1, <2>1, <2>2, <2>4 DEF SomeChosen, Knows, Relies, AtTurns
  <2> QED BY <1>1, <2>1, <2>2, <2>3, <2>4, <2>5, JobMovesOnly
<1>8. CASE ReadOldSummary(c)
  <2>1. /\ job[c].at = "summarised" /\ fresh' = fresh \union {c}
        /\ job' = [job EXCEPT ![c].at = "merging", ![c].old = summary]
        /\ UNCHANGED <<turns, inTurn, idle, view, watermark, summary, anchor, ctxFaults, raced>>
    BY <1>8 DEF ReadOldSummary, At, jobUnchanged, persisted
  <2> DEFINE j == [job[c] EXCEPT !.at = "merging", !.old = summary]
  <2>2. j \in Jobs /\ j.at = "merging" /\ j.through = job[c].through /\ j.seen = job[c].seen
        /\ j.new = job[c].new /\ j.old = summary
    BY <1>1 DEF Jobs, Stages
  <2>3. job' = [job EXCEPT ![c] = j]
    BY <1>1, <2>1
  <2> HIDE DEF j
  <2>4. Chosen(j) = Chosen(job[c])
    BY <2>2 DEF Chosen
  <2>5. SomeChosen(j) /\ Knows(j) /\ Relies(j) = Relies(job[c])
    BY <1>1, <2>1, <2>2, <2>4 DEF SomeChosen, Knows, Relies, AtTurns
  <2>6. ASSUME ~raced'
        PROVE  /\ 0 .. watermark' \subseteq summary' /\ Relies(j) \subseteq summary'
               /\ \A d \in Compactors \ {c} : Relies(job[d]) \subseteq summary'
    BY <1>3, <2>1, <2>5, <2>6
  <2>7. ASSUME ~raced', NEW d \in fresh' \ {c}
        PROVE  /\ d \in fresh /\ Relies(j) \subseteq job[d].old /\ 0 .. watermark' \subseteq job[d].old
               /\ job[d].at = "merging" => summary' = summary
    BY <1>4, <2>1, <2>5, <2>7
  <2>8. ASSUME ~raced'
        PROVE  /\ j.at = "merging" /\ j.old = summary' /\ 0 .. watermark' \subseteq j.old
               /\ \A d \in Compactors \ {c} : Relies(job[d]) \subseteq j.old
    BY <2>1, <2>2, <2>6, <2>8
  <2> QED BY <1>1, <2>1, <2>2, <2>3, <2>5, <2>6, <2>7, <2>8, JobMoves, ZenonT(40)
<1>9. CASE StoreSummary(c)
  <2>1. /\ job[c].at = "merging" /\ Goes(c, "advancing") /\ summary' = job[c].old \union job[c].new
        /\ fresh' = fresh \intersect {c} /\ raced' = (raced \/ c \notin fresh)
        /\ UNCHANGED <<turns, inTurn, idle, view, watermark, anchor, ctxFaults>>
    BY <1>9 DEF StoreSummary, At, jobUnchanged
  <2> DEFINE j == [job[c] EXCEPT !.at = "advancing"]
  <2>2. j \in Jobs /\ j.at = "advancing" /\ j.through = job[c].through /\ j.seen = job[c].seen
        /\ j.new = job[c].new /\ j.old = job[c].old
    BY <1>1 DEF Jobs, Stages
  <2>3. job' = [job EXCEPT ![c] = j]
    BY <1>1, <2>1 DEF Goes
  <2> HIDE DEF j
  <2>4. summary' \subseteq Seqs /\ SomeChosen(j) /\ Knows(j)
    BY <1>1, <1>2, <2>1, <2>2 DEF SomeChosen, Knows, AtTurns
  <2>5. Relies(j) \subseteq Relies(job[c]) \union job[c].new
    <3>1. job[c].at \in AtTurns /\ Chosen(job[c]) \subseteq job[c].new
      BY <1>1, <2>1 DEF Knows, AtTurns
    <3>2. Relies(job[c]) = 0 .. job[c].through /\ Relies(j) = 0 .. (job[c].seen - 1 - Keep)
      BY <2>1, <2>2, <3>1 DEF Relies
    <3>3. job[c].through \in -1 .. (MaxStored - 1) /\ job[c].seen \in 0 .. MaxStored
      BY <1>1 DEF Jobs
    <3>4. 0 .. (job[c].seen - 1 - Keep) \subseteq (0 .. job[c].through) \union Chosen(job[c])
      BY <1>1, <3>3 DEF Chosen
    <3> QED BY <3>1, <3>2, <3>4
  <2>6. ASSUME ~raced'
        PROVE  /\ 0 .. watermark' \subseteq summary' /\ Relies(j) \subseteq summary'
               /\ \A d \in Compactors \ {c} : Relies(job[d]) \subseteq summary'
               /\ 0 .. watermark' \subseteq j.old
               /\ \A d \in Compactors \ {c} : Relies(job[d]) \subseteq j.old
    <3>1. ~raced /\ c \in fresh
      BY <2>1, <2>6
    <3>2. job[c].old = summary /\ j.old = summary
      BY <1>5, <2>1, <2>2, <3>1
    <3> QED BY <1>3, <2>1, <2>5, <3>1, <3>2
  <2>7. fresh' \ {c} = {} /\ fresh' \subseteq Compactors /\ raced' \in BOOLEAN
    BY <1>1, <2>1
  <2> QED BY <1>1, <2>1, <2>2, <2>3, <2>4, <2>6, <2>7, JobMoves
<1>10. CASE AdvanceWatermark(c)
  <2>1. /\ job[c].at = "advancing" /\ Goes(c, "reflecting") /\ watermark' = Max(ToCompact(c))
        /\ fresh' = fresh \ {c}
        /\ UNCHANGED <<turns, inTurn, idle, view, summary, anchor, ctxFaults, raced>>
    BY <1>10 DEF AdvanceWatermark, At, jobUnchanged, Leaves
  <2> DEFINE j == [job[c] EXCEPT !.at = "reflecting"]
  <2>2. j \in Jobs /\ j.at = "reflecting"
    BY <1>1 DEF Jobs, Stages
  <2>3. job' = [job EXCEPT ![c] = j]
    BY <1>1, <2>1 DEF Goes
  <2> HIDE DEF j
  <2>4. SomeChosen(j) /\ Knows(j) /\ Relies(j) = {}
    BY <2>2 DEF SomeChosen, Knows, Relies, AtTurns
  <2>5. watermark' \in -1 .. (MaxStored - 1) /\ Relies(job[c]) = 0 .. watermark'
    BY <1>6, <2>1
  <2>6. ASSUME ~raced'
        PROVE  /\ 0 .. watermark' \subseteq summary'
               /\ \A d \in Compactors \ {c} : Relies(job[d]) \subseteq summary'
    BY <1>3, <2>1, <2>5, <2>6
  <2>7. ASSUME ~raced', NEW d \in fresh' \ {c}
        PROVE  d \in fresh /\ 0 .. watermark' \subseteq job[d].old /\ summary' = summary
    BY <1>4, <2>1, <2>5, <2>7
  <2>8. c \notin fresh' /\ fresh' \subseteq Compactors
    BY <1>1, <2>1
  <2> QED BY <1>1, <2>1, <2>2, <2>3, <2>4, <2>5, <2>6, <2>7, <2>8, JobMoves, ZenonT(40)
<1>11. ASSUME NEW done \in BOOLEAN, NEW putBack \in BOOLEAN, StoreSummaryRaises(c, done, putBack)
       PROVE  CtxInv'
  <2>1. /\ job[c].at = "merging" /\ ctxFaults < MaxCtxFaults /\ ctxFaults' = ctxFaults + 1
        /\ job' = [job EXCEPT ![c] = NoJob]
        /\ summary' = IF putBack THEN job[c].old
                      ELSE IF done THEN job[c].old \union job[c].new ELSE summary
        /\ fresh' = IF done \/ putBack THEN {} ELSE fresh \ {c}
        /\ raced' = (raced \/ (c \notin fresh /\ (done \/ putBack)))
        /\ UNCHANGED <<turns, inTurn, idle, view, watermark, anchor>>
    BY <1>11 DEF StoreSummaryRaises, At, jobUnchanged, WorkEnds, Leaves
  <2>2. ctxFaults' \in 0 .. MaxCtxFaults /\ raced' \in BOOLEAN /\ summary' \subseteq Seqs
        /\ fresh' \subseteq Compactors /\ c \notin fresh'
    BY <1>1, <1>2, <2>1
  <2>3. ASSUME ~raced' PROVE ~raced /\ summary \subseteq summary'
    <3>1. CASE done \/ putBack
      <4>1. ~raced /\ c \in fresh
        BY <2>1, <2>3, <3>1
      <4> QED BY <1>5, <2>1, <4>1
    <3>2. CASE ~(done \/ putBack)
      BY <2>1, <2>3, <3>2
    <3> QED BY <3>1, <3>2
  <2>4. ASSUME ~raced'
        PROVE  /\ 0 .. watermark' \subseteq summary'
               /\ \A d \in Compactors \ {c} : Relies(job[d]) \subseteq summary'
    BY <1>3, <2>1, <2>3, <2>4
  <2>5. ASSUME ~raced', NEW d \in fresh' \ {c}
        PROVE  d \in fresh /\ 0 .. watermark' \subseteq job[d].old /\ summary' = summary
    <3>1. ~(done \/ putBack)
      BY <2>1, <2>5
    <3> QED BY <1>4, <2>1, <2>3, <2>5, <3>1
  <2> QED BY <1>1, <2>1, <2>2, <2>4, <2>5, NoJobTyped, JobMoves
<1>12. ASSUME NEW done \in BOOLEAN, NEW putBack \in BOOLEAN, AdvanceRaises(c, done, putBack)
       PROVE  CtxInv'
  <2>1. /\ job[c].at = "advancing" /\ ctxFaults < MaxCtxFaults /\ ctxFaults' = ctxFaults + 1
        /\ job' = [job EXCEPT ![c] = NoJob]
        /\ watermark' = IF done THEN Max(ToCompact(c)) ELSE watermark
        /\ summary' = IF putBack THEN job[c].old ELSE summary
        /\ fresh' = IF putBack THEN {} ELSE fresh \ {c}
        /\ raced' = (raced \/ (putBack /\ (done \/ c \notin fresh)))
        /\ UNCHANGED <<turns, inTurn, idle, view, anchor>>
    BY <1>12 DEF AdvanceRaises, At, jobUnchanged, WorkEnds, Leaves
  <2>2. ctxFaults' \in 0 .. MaxCtxFaults /\ raced' \in BOOLEAN /\ summary' \subseteq Seqs
        /\ fresh' \subseteq Compactors /\ c \notin fresh' /\ watermark' \in -1 .. (MaxStored - 1)
    BY <1>1, <1>2, <1>6, <2>1
  <2>3. CASE putBack
    <3>1. ASSUME ~raced'
          PROVE  /\ 0 .. watermark' \subseteq summary'
                 /\ \A d \in Compactors \ {c} : Relies(job[d]) \subseteq summary'
      <4>1. ~raced /\ c \in fresh /\ ~done
        BY <2>1, <2>3, <3>1
      <4>2. watermark' = watermark /\ summary' = job[c].old
        BY <2>1, <2>3, <4>1
      <4> QED BY <1>5, <4>1, <4>2
    <3>2. fresh' \ {c} = {}
      BY <2>1, <2>3
    <3> QED BY <1>1, <2>1, <2>2, <3>1, <3>2, NoJobTyped, JobMoves
  <2>4. CASE ~putBack
    <3>1. (raced' <=> raced) /\ summary' = summary /\ fresh' = fresh \ {c}
      BY <2>1, <2>4
    <3>2. 0 .. watermark' \subseteq (0 .. watermark) \union Relies(job[c])
      BY <1>6, <2>1
    <3>3. ASSUME ~raced'
          PROVE  /\ 0 .. watermark' \subseteq summary'
                 /\ \A d \in Compactors \ {c} : Relies(job[d]) \subseteq summary'
      BY <1>3, <3>1, <3>2, <3>3
    <3>4. ASSUME ~raced', NEW d \in fresh' \ {c}
          PROVE  d \in fresh /\ 0 .. watermark' \subseteq job[d].old /\ summary' = summary
      BY <1>4, <3>1, <3>2, <3>4
    <3> QED BY <1>1, <2>1, <2>2, <3>1, <3>3, <3>4, NoJobTyped, JobMoves
  <2> QED BY <2>3, <2>4
<1> QED BY <1>7, <1>8, <1>9, <1>10, <1>11, <1>12

LEMMA CtxStep == CtxInv /\ [CtxNext]_ctxVars => CtxInv'
<1> SUFFICES ASSUME CtxInv, [CtxNext]_ctxVars PROVE CtxInv'
  OBVIOUS
<1>1. /\ MaxStored \in Nat /\ raced \in BOOLEAN /\ turns \in 0 .. MaxStored /\ idle \in BOOLEAN
      /\ watermark \in -1 .. (MaxStored - 1) /\ summary \subseteq Seqs /\ anchor \subseteq Seqs
      /\ ctxFaults \in 0 .. MaxCtxFaults /\ MaxCtxFaults \in Nat /\ job \in [Compactors -> Jobs]
      /\ view \in Views /\ inTurn \in BOOLEAN
  BY CtxAssumption, CtxTypes DEF CtxInv, CtxTyped
<1>2. CASE TurnStarts \/ ReadSummary \/ RecentTurns \/ ContextFails \/ TurnEnds \/ TimePasses
  BY <1>2, ReaderStep
<1>3. CASE GoalLoopCompacts
  BY <1>3, JobBegins DEF GoalLoopCompacts, At, jobUnchanged, persisted, ctxHistory, Compactors
<1>4. CASE SweepChecks
  BY <1>4, JobBegins DEF SweepChecks, At, jobUnchanged, persisted, ctxHistory, Compactors
<1>5. CASE SweepSkips
  <2>1. Sweep \in Compactors
    BY DEF Compactors
  <2>2. ~StoreAnchor(Sweep) /\ ~ReadOldSummary(Sweep) /\ ~StoreSummary(Sweep) /\ ~AdvanceWatermark(Sweep)
    BY <1>5 DEF SweepSkips, At, StoreAnchor, ReadOldSummary, StoreSummary, AdvanceWatermark
  <2> QED BY <1>5, <2>1, <2>2, CompactReads
<1>6. ASSUME NEW c \in Compactors, CompactStep(c) \/ CompactFails(c) PROVE CtxInv'
  <2>1. CASE \/ StoreAnchor(c) \/ ReadOldSummary(c) \/ StoreSummary(c) \/ AdvanceWatermark(c)
             \/ \E done, putBack \in BOOLEAN :
                    StoreSummaryRaises(c, done, putBack) \/ AdvanceRaises(c, done, putBack)
    BY <2>1, CompactStores
  <2>2. CASE /\ CompactStep(c) \/ CompactRaises(c)
             /\ ~StoreAnchor(c) /\ ~ReadOldSummary(c) /\ ~StoreSummary(c) /\ ~AdvanceWatermark(c)
    BY <2>2, CompactReads
  <2> QED BY <1>6, <2>1, <2>2 DEF CompactFails
<1>7. CASE CtxCrash
  <2>1. /\ ctxFaults < MaxCtxFaults /\ ctxFaults' = ctxFaults + 1 /\ job' = [c \in Compactors |-> NoJob]
        /\ view' = NoView /\ inTurn' = FALSE /\ fresh' = {}
        /\ UNCHANGED <<turns, idle, watermark, summary, anchor, raced>>
    BY <1>7 DEF CtxCrash, persisted
  <2>2. ctxFaults' \in 0 .. MaxCtxFaults
    BY <1>1, <2>1
  <2>3. view' \in Views /\ view'.at = "none"
    BY <1>1, <2>1 DEF NoView, Views
  <2>4. job' \in [Compactors -> Jobs] /\ \A c \in Compactors : job'[c] = NoJob
    BY <2>1, NoJobTyped
  <2>5. CtxTyped'
    <3>1. CtxTypeOK'
      BY <1>1, <2>1, <2>2, <2>3, <2>4 DEF CtxTypeOK, Jobs, Views
    <3> QED BY <2>4, <3>1, NoJobTyped DEF CtxTyped
  <2>6. HiddenIsSummarised' /\ OldestLeftOut' /\ HasRead'
    BY <2>1, <2>3 DEF CtxInv, HiddenIsSummarised, OldestLeftOut, HasRead
  <2>7. /\ \A c \in Compactors : Knows(job[c])' /\ Relies(job[c])' = {}
        /\ \A c \in fresh' : InTime(c)'
    BY <2>1, <2>4, NoJobTyped
  <2> QED BY <2>5, <2>6, <2>7 DEF CtxInv
<1>8. CASE UNCHANGED ctxVars
  <2>1. UNCHANGED <<turns, inTurn, idle, watermark, summary, anchor, job, view, ctxFaults, fresh, raced>>
    BY <1>8 DEF ctxVars
  <2>2. OldestLeftOut' /\ HasRead'
    BY <2>1 DEF CtxInv, OldestLeftOut, HasRead
  <2> QED BY <1>1, <2>1, <2>2, ReaderMoves
<1> QED BY <1>2, <1>3, <1>4, <1>5, <1>6, <1>7, <1>8 DEF CtxNext

\* No turn of a conversation is skipped by compaction or by what the model is shown, for any
\* lengths, blocks, overlaps and failures, until a task stores over a summary it had not read
\* or rolls back behind a watermark that had moved; a view whose reads a compaction comes
\* between is excepted (full_compact, conversation_context).
THEOREM ContextKept == CtxSpec => [](CtxTypeOK /\ NoTurnSkipped)
<1>1. CtxInv => CtxTypeOK /\ NoTurnSkipped
  BY DEF CtxInv, CtxTyped, NoTurnSkipped
<1> QED BY <1>1, CtxInitInv, CtxStep, PTL DEF CtxSpec

-----------------------------------------------------------------------------
(* Consolidation: an update whose old fact is closed is the one in hand    *)
(* until the new fact is stored, and is remembered where the loop ended.   *)

FactList == Seq([open : BOOLEAN, supersedes : {0} \union Facts])

ConsumerInv ==
    /\ facts \in FactList
    /\ entries + given <= episodes + repeats
    /\ consumer \notin {"reading", "dead"} => given > 0
    /\ consumer = "storing" => edits.update # <<>>
    /\ torn # {} => consumer = "dead"

ConsolInv == ConsolTypeOK /\ ConsumerInv /\ ReplacedNotLost

\* Two numbers are below what their sum is below.
LEMMA PartsBelow ==
  ASSUME NEW M \in Nat, NEW N \in Nat, NEW a \in Nat, NEW b \in Nat, NEW m \in 0 .. M,
         NEW n \in 0 .. N, a + b <= m + n
  PROVE  a \in 0 .. (M + N) /\ b \in 0 .. (M + N)
OBVIOUS

\* The lists of the model's reply are sequences of no more than MaxEdits facts.
LEMMA NamedIs ==
  ASSUME NEW S
  PROVE  Named(S) = {s \in Seq(S) : Len(s) <= MaxEdits}
<1>1. MaxEdits \in Nat
  BY ConsolidationAssumption
<1>2. ASSUME NEW s \in Named(S) PROVE s \in Seq(S) /\ Len(s) <= MaxEdits
  <2>1. PICK n \in 0 .. MaxEdits : s \in [1 .. n -> S]
    BY DEF Named
  <2>2. n \in Nat /\ n <= MaxEdits
    BY <1>1
  <2>3. s \in Seq(S) /\ Len(s) = n
    BY <2>1, <2>2
  <2> QED BY <2>2, <2>3
<1>3. ASSUME NEW s \in Seq(S), Len(s) <= MaxEdits PROVE s \in Named(S)
  <2>1. Len(s) \in 0 .. MaxEdits
    BY <1>1, <1>3
  <2>2. s \in [1 .. Len(s) -> S]
    OBVIOUS
  <2> QED BY <2>1, <2>2 DEF Named
<1> QED BY <1>2, <1>3

\* The first of a list is a fact, and the rest a list.
LEMMA NamedTail ==
  ASSUME NEW S, NEW s \in Named(S), s # <<>>
  PROVE  Head(s) \in S /\ Tail(s) \in Named(S)
<1>1. s \in Seq(S) /\ Len(s) <= MaxEdits /\ MaxEdits \in Nat
  BY NamedIs, ConsolidationAssumption
<1>2. Head(s) \in S /\ Tail(s) \in Seq(S) /\ Len(Tail(s)) = Len(s) - 1 /\ Len(s) \in Nat
  BY <1>1
<1>3. Len(Tail(s)) <= MaxEdits
  BY <1>1, <1>2
<1> QED BY <1>2, <1>3, NamedIs

\* Facts that are shown are facts.
LEMMA NamedOf ==
  ASSUME NEW S, NEW T, S \subseteq T
  PROVE  Named(S) \subseteq Named(T)
BY DEF Named

\* The facts of a list are facts, each with what it supersedes.
LEMMA FactsTyped ==
  ASSUME NEW list \in FactList
  PROVE  \A m \in DOMAIN list : list[m] \in [open : BOOLEAN, supersedes : {0} \union Facts]
<1> DEFINE R == [open : BOOLEAN, supersedes : {0} \union Facts]
<1>1. list \in Seq(R)
  BY DEF FactList
<1> HIDE DEF R
<1>2. \A m \in DOMAIN list : list[m] \in R
  BY <1>1
<1> QED BY <1>2 DEF R

\* A fact that is closed keeps its place and what it supersedes.
LEMMA ClosedIs ==
  ASSUME NEW m \in Facts, facts \in FactList, NEW after, after = Closed(m)
  PROVE  /\ after \in FactList /\ Len(after) = Len(facts) /\ DOMAIN after = DOMAIN facts
         /\ \A n \in DOMAIN facts : after[n].supersedes = facts[n].supersedes
<1> DEFINE R == [open : BOOLEAN, supersedes : {0} \union Facts]
<1>1. DOMAIN facts = 1 .. Len(facts) /\ Len(facts) \in Nat /\ \A n \in DOMAIN facts : facts[n] \in R
  <2>1. facts \in Seq(R)
    BY DEF FactList
  <2>2. \A n \in DOMAIN facts : facts[n] \in R
    BY FactsTyped
  <2> HIDE DEF R
  <2> QED BY <2>1, <2>2
<1>2. after = [n \in DOMAIN facts |-> IF n = m THEN [facts[n] EXCEPT !.open = FALSE] ELSE facts[n]]
  BY DEF Closed
<1>3. \A n \in DOMAIN facts : after[n] \in R /\ after[n].supersedes = facts[n].supersedes
  BY <1>1, <1>2
<1>4. after \in [1 .. Len(facts) -> R]
  <2> HIDE DEF R
  <2> QED BY <1>1, <1>2, <1>3
<1>5. after \in Seq(R) /\ Len(after) = Len(facts)
  <2> HIDE DEF R
  <2> QED BY <1>1, <1>4
<1> QED BY <1>1, <1>2, <1>3, <1>5 DEF FactList

\* A fact that is stored comes last, and those before it stay as they are.
LEMMA StoredIs ==
  ASSUME NEW old \in {0} \union Facts, facts \in FactList, Len(facts) <= MaxFacts, StoreFact(old)
  PROVE  /\ facts' \in FactList /\ Len(facts') <= MaxFacts /\ DOMAIN facts \subseteq DOMAIN facts'
         /\ \A n \in DOMAIN facts : facts'[n] = facts[n]
         /\ \E n \in DOMAIN facts' : facts'[n].supersedes = old
<1> DEFINE R == [open : BOOLEAN, supersedes : {0} \union Facts]
           fact == [open |-> TRUE, supersedes |-> old]
<1>1. fact \in R /\ fact.supersedes = old
  OBVIOUS
<1>2. facts \in Seq(R) /\ Len(facts) \in Nat /\ Len(facts) < MaxFacts /\ MaxFacts \in Nat
  BY ConsolidationAssumption DEF FactList, StoreFact
<1>3. facts' = Append(facts, fact)
  BY DEF StoreFact
<1> HIDE DEF R, fact
<1>4. facts' \in Seq(R) /\ Len(facts') = Len(facts) + 1 /\ DOMAIN facts' = 1 .. (Len(facts) + 1)
      /\ DOMAIN facts = 1 .. Len(facts)
  BY <1>1, <1>2, <1>3
<1>5. facts'[Len(facts) + 1] = fact /\ \A n \in 1 .. Len(facts) : facts'[n] = facts[n]
  BY <1>1, <1>2, <1>3
<1>6. Len(facts) + 1 \in DOMAIN facts' /\ DOMAIN facts \subseteq DOMAIN facts' /\ Len(facts') <= MaxFacts
  BY <1>2, <1>4
<1>7. facts'[Len(facts) + 1].supersedes = old
  BY <1>1, <1>5
<1> QED BY <1>4, <1>5, <1>6, <1>7 DEF FactList, R

\* What is replaced stays so where no list of updates and no fact changes.
LEMMA StillReplaced ==
  ASSUME ReplacedNotLost, replaced' = replaced, torn \subseteq torn',
         \A n \in DOMAIN facts : n \in DOMAIN facts' /\ facts'[n].supersedes = facts[n].supersedes,
         consumer = "storing" => consumer' = "storing" /\ edits' = edits
  PROVE  ReplacedNotLost'
BY DEF ReplacedNotLost

\* An entry is acknowledged.
LEMMA AckedIs ==
  ASSUME ConsolTypeOK, ConsumerInv, Acked, consumer \notin {"reading", "dead"}
  PROVE  /\ given' \in 0 .. (MaxEpisodes + MaxRepeats) /\ given' = given - 1
         /\ consumer' \in {"reading", "counting"} /\ (consumer' = "counting" => given' > 0)
         /\ shown' = {} /\ edits' = NoEdits
<1>1. given \in 0 .. (MaxEpisodes + MaxRepeats) /\ given > 0 /\ MaxEpisodes \in Nat /\ MaxRepeats \in Nat
  BY ConsolidationAssumption DEF ConsolTypeOK, ConsumerInv
<1> QED BY <1>1 DEF Acked

\* The reply that says nothing is one.
LEMMA NoEditsTyped ==
  NoEdits \in [add : 0 .. MaxEdits, update : Named(Facts), delete : Named(Facts)]
<1>1. <<>> \in Seq(Facts) /\ Len(<<>>) = 0 /\ MaxEdits \in Nat
  BY ConsolidationAssumption
<1>2. 0 \in 0 .. MaxEdits
  BY <1>1
<1>3. <<>> \in {s \in Seq(Facts) : Len(s) <= MaxEdits}
  BY <1>1
<1>4. <<>> \in Named(Facts)
  BY <1>3, NamedIs
<1> QED BY <1>2, <1>4 DEF NoEdits

LEMMA ConsolInitInv == ConsolInit => ConsolInv
<1> SUFFICES ASSUME ConsolInit PROVE ConsolInv
  OBVIOUS
<1>1. <<>> \in FactList /\ Len(<<>>) = 0 /\ DOMAIN <<>> = {}
  BY DEF FactList
<1>2. ConsumerInv
  BY <1>1 DEF ConsolInit, ConsumerInv
<1>3. ConsolTypeOK
  BY <1>1, NoEditsTyped, ConsolidationAssumption DEF ConsolInit, ConsolTypeOK, ConsumerSteps
<1> QED BY <1>2, <1>3 DEF ConsolInit, ConsolInv, ReplacedNotLost

LEMMA ConsolStep == ConsolInv /\ [ConsolNext]_consolVars => ConsolInv'
<1> SUFFICES ASSUME ConsolInv, [ConsolNext]_consolVars PROVE ConsolInv'
  OBVIOUS
<1> DEFINE E == [add : 0 .. MaxEdits, update : Named(Facts), delete : Named(Facts)]
<1>1. /\ ConsolTypeOK /\ ConsumerInv /\ ReplacedNotLost /\ facts \in FactList /\ Len(facts) <= MaxFacts
      /\ {MaxEpisodes, MaxFacts, MaxRepeats, MaxEdits} \subseteq Nat
      /\ episodes \in 0 .. MaxEpisodes /\ repeats \in 0 .. MaxRepeats
      /\ entries \in Nat /\ given \in Nat /\ consumer \in ConsumerSteps /\ edits \in E
      /\ entries + given <= episodes + repeats
      /\ shown \subseteq Facts /\ found \subseteq Facts /\ replaced \subseteq Facts
      /\ torn \subseteq Facts /\ (torn # {} => consumer = "dead")
  BY ConsolidationAssumption DEF ConsolInv, ConsolTypeOK, ConsumerInv
<1>2. ASSUME episodes' \in 0 .. MaxEpisodes, repeats' \in 0 .. MaxRepeats,
             entries' \in Nat, given' \in Nat, entries' + given' <= episodes' + repeats',
             consumer' \in ConsumerSteps, shown' \subseteq Facts, found' \subseteq Facts,
             replaced' \subseteq Facts, torn' \subseteq Facts, edits' \in E,
             facts' \in FactList, Len(facts') <= MaxFacts
      PROVE  ConsolTypeOK'
  <2>1. {entries', given'} \subseteq 0 .. (MaxEpisodes + MaxRepeats)
    <3>1. MaxEpisodes \in Nat /\ MaxRepeats \in Nat
      BY <1>1
    <3>2. /\ episodes' \in 0 .. MaxEpisodes /\ repeats' \in 0 .. MaxRepeats
          /\ entries' \in Nat /\ given' \in Nat /\ entries' + given' <= episodes' + repeats'
      BY <1>2
    <3>3. entries' \in 0 .. (MaxEpisodes + MaxRepeats) /\ given' \in 0 .. (MaxEpisodes + MaxRepeats)
      BY <3>1, <3>2, PartsBelow
    <3> QED BY <3>3
  <2>2. \A m \in DOMAIN facts' : facts'[m] \in [open : BOOLEAN, supersedes : {0} \union Facts]
    BY <1>2, FactsTyped
  <2> QED BY <1>2, <2>1, <2>2 DEF ConsolTypeOK
<1>3. CASE AddEpisode
  <2>1. /\ episodes' = episodes + 1 /\ entries' = entries + 1 /\ episodes < MaxEpisodes
        /\ UNCHANGED <<repeats, given, consumer, shown, edits, facts, found, replaced, torn>>
    BY <1>3 DEF AddEpisode, consolHistory
  <2>2. ConsolTypeOK'
    BY <1>1, <1>2, <2>1
  <2>3. ConsumerInv'
    BY <1>1, <2>1 DEF ConsumerInv
  <2> QED BY <1>1, <2>1, <2>2, <2>3, StillReplaced DEF ConsolInv
<1>4. CASE RepeatEntry
  <2>1. /\ repeats' = repeats + 1 /\ entries' = entries + 1 /\ repeats < MaxRepeats
        /\ UNCHANGED <<episodes, given, consumer, shown, edits, facts, found, replaced, torn>>
    BY <1>4 DEF RepeatEntry, consolHistory
  <2>2. ConsolTypeOK'
    BY <1>1, <1>2, <2>1
  <2>3. ConsumerInv'
    BY <1>1, <2>1 DEF ConsumerInv
  <2> QED BY <1>1, <2>1, <2>2, <2>3, StillReplaced DEF ConsolInv
<1>5. CASE StoreReflection
  <2>1. /\ StoreFact(0)
        /\ UNCHANGED <<episodes, entries, given, repeats, consumer, shown, edits, found, replaced, torn>>
    BY <1>5 DEF StoreReflection, reading, consolHistory
  <2>2. /\ facts' \in FactList /\ Len(facts') <= MaxFacts /\ DOMAIN facts \subseteq DOMAIN facts'
        /\ \A n \in DOMAIN facts : facts'[n] = facts[n]
    BY <1>1, <2>1, StoredIs
  <2>3. ConsolTypeOK'
    BY <1>1, <1>2, <2>1, <2>2
  <2>4. ConsumerInv'
    BY <1>1, <2>1, <2>2 DEF ConsumerInv
  <2> QED BY <1>1, <2>1, <2>2, <2>3, <2>4, StillReplaced DEF ConsolInv
<1>6. ASSUME NEW m \in Facts, ProjectFact(m) PROVE ConsolInv'
  <2>1. /\ UNCHANGED <<episodes, entries, given, repeats, consumer, shown, edits, facts, replaced, torn>>
        /\ found' \subseteq Facts
    BY <1>1, <1>6 DEF ProjectFact, reading, consolHistory
  <2>2. ConsolTypeOK'
    BY <1>1, <1>2, <2>1
  <2>3. ConsumerInv'
    BY <1>1, <2>1 DEF ConsumerInv
  <2> QED BY <1>1, <2>1, <2>2, <2>3, StillReplaced DEF ConsolInv
<1>7. CASE ReadEntries
  <2>1. /\ given = 0 /\ entries > 0 /\ given' = entries /\ entries' = 0 /\ consumer' = "counting"
        /\ consumer = "reading"
        /\ UNCHANGED <<episodes, repeats, shown, edits, facts, found, replaced, torn>>
    BY <1>7 DEF ReadEntries, consolHistory
  <2>2. ConsolTypeOK'
    BY <1>1, <1>2, <2>1 DEF ConsumerSteps
  <2>3. ConsumerInv'
    BY <1>1, <2>1 DEF ConsumerInv
  <2> QED BY <1>1, <2>1, <2>2, <2>3, StillReplaced DEF ConsolInv
<1>8. ASSUME Acked, consumer \notin {"reading", "dead", "storing"},
             UNCHANGED <<episodes, entries, repeats, facts, found, replaced, torn>>
      PROVE  ConsolInv'
  <2>1. /\ given' \in Nat /\ given' = given - 1 /\ consumer' \in {"reading", "counting"}
        /\ (consumer' = "counting" => given' > 0) /\ shown' = {} /\ edits' \in E
    BY <1>1, <1>8, AckedIs, NoEditsTyped
  <2>2. ConsolTypeOK'
    BY <1>1, <1>8, <1>2, <2>1 DEF ConsumerSteps
  <2>3. ConsumerInv'
    BY <1>1, <1>8, <2>1 DEF ConsumerInv
  <2> QED BY <1>1, <1>8, <2>2, <2>3, StillReplaced DEF ConsolInv
<1>9. ASSUME consumer \in {"counting", "extracting", "searching", "editing", "judging"},
             consumer' \in {"extracting", "searching", "editing", "judging", "applying"},
             shown' \subseteq Facts, edits' \in E,
             UNCHANGED <<episodes, entries, repeats, given, facts, found, replaced, torn>>
      PROVE  ConsolInv'
  <2>1. ConsolTypeOK'
    BY <1>1, <1>9, <1>2 DEF ConsumerSteps
  <2>2. ConsumerInv'
    BY <1>1, <1>9 DEF ConsumerInv
  <2> QED BY <1>1, <1>9, <2>1, <2>2, StillReplaced DEF ConsolInv
<1>10. CASE CountEpisodes
  <2>1. consumer = "counting" /\ UNCHANGED <<episodes, entries, repeats, facts, found, replaced, torn>>
    BY <1>10 DEF CountEpisodes, consolHistory
  <2>2. CASE Acked
    BY <1>8, <2>1, <2>2
  <2>3. CASE consumer' = "extracting" /\ UNCHANGED <<given, shown, edits>>
    BY <1>1, <1>9, <2>1, <2>3
  <2> QED BY <1>10, <2>2, <2>3 DEF CountEpisodes
<1>11. CASE Extract
  <2>1. consumer = "extracting" /\ UNCHANGED <<episodes, entries, repeats, facts, found, replaced, torn>>
    BY <1>11 DEF Extract, consolHistory
  <2>2. CASE Acked
    BY <1>8, <2>1, <2>2
  <2>3. CASE consumer' = "searching" /\ UNCHANGED <<given, shown, edits>>
    BY <1>1, <1>9, <2>1, <2>3
  <2> QED BY <1>11, <2>2, <2>3 DEF Extract
<1>12. CASE GatherNeighbors
  <2>1. /\ consumer = "searching" /\ consumer' = "editing" /\ shown' \subseteq Facts
        /\ UNCHANGED <<episodes, entries, given, repeats, edits, facts, found, replaced, torn>>
    BY <1>1, <1>12 DEF GatherNeighbors, reading, consolHistory
  <2> QED BY <1>1, <1>9, <2>1
<1>13. CASE SelfEdit
  <2>1. /\ consumer = "editing" /\ consumer' = "judging"
        /\ edits' \in [add : 0 .. MaxEdits, update : Named(shown), delete : Named(shown)]
        /\ UNCHANGED <<episodes, entries, given, repeats, shown, facts, found, replaced, torn>>
    BY <1>13 DEF SelfEdit, reading, consolHistory
  <2>2. edits' \in E
    BY <1>1, <2>1, NamedOf
  <2> QED BY <1>1, <1>9, <2>1, <2>2
<1>14. CASE FilterEdits
  <2>1. /\ consumer = "judging" /\ consumer' = "applying"
        /\ UNCHANGED <<episodes, entries, given, repeats, shown, facts, found, replaced, torn>>
    BY <1>14 DEF FilterEdits, reading, consolHistory
  <2>2. edits' \in E
    <3>1. CASE edits' = edits
      BY <1>1, <3>1
    <3>2. CASE \E n \in 0 .. edits.add, u \in PartsOf(edits.update) :
                   edits' = [edits EXCEPT !.add = n, !.update = u]
      <4>1. PICK n \in 0 .. edits.add, u \in PartsOf(edits.update) :
                edits' = [edits EXCEPT !.add = n, !.update = u]
        BY <3>2
      <4>2. edits.add \in 0 .. MaxEdits
        BY <1>1
      <4>3. n \in 0 .. MaxEdits
        BY <1>1, <4>2
      <4>4. u \in Named(Facts)
        BY DEF PartsOf
      <4> QED BY <1>1, <4>1, <4>3, <4>4
    <3> QED BY <1>14, <3>1, <3>2 DEF FilterEdits
  <2> QED BY <1>1, <1>9, <2>1, <2>2
<1>15. CASE ApplyAdd
  <2>1. /\ consumer = "applying" /\ edits.add > 0 /\ StoreFact(0) /\ edits' = [edits EXCEPT !.add = @ - 1]
        /\ UNCHANGED <<episodes, entries, given, repeats, consumer, shown, found, replaced, torn>>
    BY <1>15 DEF ApplyAdd, reading, consolHistory
  <2>2. /\ facts' \in FactList /\ Len(facts') <= MaxFacts /\ DOMAIN facts \subseteq DOMAIN facts'
        /\ \A n \in DOMAIN facts : facts'[n] = facts[n]
    BY <1>1, <2>1, StoredIs
  <2>3. edits' \in E
    <3>1. edits.add \in 0 .. MaxEdits
      BY <1>1
    <3>2. edits.add - 1 \in 0 .. MaxEdits
      BY <1>1, <2>1, <3>1
    <3> QED BY <1>1, <2>1, <3>2
  <2>4. ConsolTypeOK'
    BY <1>1, <1>2, <2>1, <2>2, <2>3
  <2>5. ConsumerInv'
    BY <1>1, <2>1, <2>2 DEF ConsumerInv
  <2> QED BY <1>1, <2>1, <2>2, <2>4, <2>5, StillReplaced DEF ConsolInv
<1>16. CASE CloseOld
  <2> DEFINE m == Head(edits.update)
  <2>1. /\ consumer = "applying" /\ edits.update # <<>> /\ facts' = Closed(m)
        /\ consumer' = "storing" /\ replaced' = replaced \union {m}
        /\ UNCHANGED <<episodes, entries, given, repeats, shown, edits, found, torn>>
    BY <1>16 DEF CloseOld, reading
  <2>2. m \in Facts
    BY <1>1, <2>1, NamedTail
  <2>3. /\ facts' \in FactList /\ Len(facts') = Len(facts) /\ DOMAIN facts' = DOMAIN facts
        /\ \A n \in DOMAIN facts : facts'[n].supersedes = facts[n].supersedes
    BY <1>1, <2>1, <2>2, ClosedIs
  <2>4. m' = m
    BY <2>1
  <2> HIDE DEF m
  <2>5. ConsolTypeOK'
    BY <1>1, <1>2, <2>1, <2>2, <2>3 DEF ConsumerSteps
  <2>6. ConsumerInv'
    BY <1>1, <2>1, <2>3 DEF ConsumerInv
  <2>7. ReplacedNotLost'
    BY <1>1, <2>1, <2>3, <2>4 DEF ReplacedNotLost, m
  <2> QED BY <2>5, <2>6, <2>7 DEF ConsolInv
<1>17. CASE StoreNew
  <2> DEFINE m == Head(edits.update)
  <2>1. /\ consumer = "storing" /\ consumer' = "applying" /\ StoreFact(m)
        /\ edits' = [edits EXCEPT !.update = Tail(@)]
        /\ UNCHANGED <<episodes, entries, given, repeats, shown, found, replaced, torn>>
    BY <1>17 DEF StoreNew, reading, consolHistory
  <2>2. m \in Facts /\ Tail(edits.update) \in Named(Facts)
    <3>1. edits.update \in Named(Facts) /\ edits.update # <<>>
      BY <1>1, <2>1 DEF ConsumerInv
    <3> QED BY <3>1, NamedTail
  <2> HIDE DEF m
  <2>3. /\ facts' \in FactList /\ Len(facts') <= MaxFacts /\ DOMAIN facts \subseteq DOMAIN facts'
        /\ \A n \in DOMAIN facts : facts'[n] = facts[n]
        /\ \E n \in DOMAIN facts' : facts'[n].supersedes = m
    BY <1>1, <2>1, <2>2, StoredIs
  <2>4. edits' \in E
    BY <1>1, <2>1, <2>2
  <2>5. ConsolTypeOK'
    BY <1>1, <1>2, <2>1, <2>3, <2>4 DEF ConsumerSteps
  <2>6. ConsumerInv'
    BY <1>1, <2>1, <2>3 DEF ConsumerInv
  <2>7. ReplacedNotLost'
    BY <1>1, <2>1, <2>3 DEF ReplacedNotLost, m
  <2> QED BY <2>5, <2>6, <2>7 DEF ConsolInv
<1>18. CASE ApplyDelete
  <2> DEFINE m == Head(edits.delete)
  <2>1. /\ consumer = "applying" /\ edits.delete # <<>> /\ facts' = Closed(m)
        /\ edits' = [edits EXCEPT !.delete = Tail(@)]
        /\ UNCHANGED <<episodes, entries, given, repeats, consumer, shown, found, replaced, torn>>
    BY <1>18 DEF ApplyDelete, reading, consolHistory
  <2>2. m \in Facts /\ Tail(edits.delete) \in Named(Facts)
    <3>1. edits.delete \in Named(Facts)
      BY <1>1
    <3> QED BY <2>1, <3>1, NamedTail
  <2> HIDE DEF m
  <2>3. /\ facts' \in FactList /\ Len(facts') = Len(facts) /\ DOMAIN facts' = DOMAIN facts
        /\ \A n \in DOMAIN facts : facts'[n].supersedes = facts[n].supersedes
    BY <1>1, <2>1, <2>2, ClosedIs
  <2>4. edits' \in E
    BY <1>1, <2>1, <2>2
  <2>5. ConsolTypeOK'
    BY <1>1, <1>2, <2>1, <2>3, <2>4
  <2>6. ConsumerInv'
    BY <1>1, <2>1, <2>3 DEF ConsumerInv
  <2> QED BY <1>1, <2>1, <2>3, <2>5, <2>6, StillReplaced DEF ConsolInv
<1>19. CASE Applied
  BY <1>19, <1>8 DEF Applied, consolHistory
<1>20. CASE ConsumerRaises
  <2>1. /\ consumer \notin {"reading", "dead"} /\ consumer' = "dead"
        /\ torn' = (IF consumer = "storing" THEN {Head(edits.update)} ELSE {})
        /\ UNCHANGED <<episodes, entries, given, repeats, shown, edits, facts, found, replaced>>
    BY <1>20 DEF ConsumerRaises, reading
  <2>2. torn' \subseteq Facts
    <3>1. CASE consumer = "storing"
      <4>1. edits.update \in Named(Facts) /\ edits.update # <<>>
        BY <1>1, <3>1 DEF ConsumerInv
      <4> QED BY <2>1, <3>1, <4>1, NamedTail
    <3>2. CASE consumer # "storing"
      BY <2>1, <3>2
    <3> QED BY <3>1, <3>2
  <2>3. ConsolTypeOK'
    BY <1>1, <1>2, <2>1, <2>2 DEF ConsumerSteps
  <2>4. ConsumerInv'
    BY <1>1, <2>1 DEF ConsumerInv
  <2>5. torn = {}
    BY <1>1, <2>1
  <2>6. ReplacedNotLost'
    BY <1>1, <2>1, <2>5 DEF ReplacedNotLost
  <2> QED BY <2>3, <2>4, <2>6 DEF ConsolInv
<1>21. CASE UNCHANGED consolVars
  <2>1. /\ UNCHANGED <<episodes, entries, repeats, given, consumer, shown, edits, facts, found, replaced,
                       torn>>
    BY <1>21 DEF consolVars
  <2>2. ConsolTypeOK'
    BY <1>1, <1>2, <2>1
  <2>3. ConsumerInv'
    BY <1>1, <2>1 DEF ConsumerInv
  <2> QED BY <1>1, <2>1, <2>2, <2>3, StillReplaced DEF ConsolInv
<1> QED BY <1>3, <1>4, <1>5, <1>6, <1>7, <1>10, <1>11, <1>12, <1>13, <1>14, <1>15, <1>16, <1>17,
           <1>18, <1>19, <1>20, <1>21 DEF ConsolNext, ConsumerNext

\* A fact closed for an update has the one that supersedes it, for any facts, edits and failures,
\* but for the one update a raise interrupts between its close and its store (supersede,
\* _apply_edits, memory_consolidator.py).
THEOREM FactsReplaced == ConsolSpec => [](ConsolTypeOK /\ ReplacedNotLost)
<1>1. ConsolInv => ConsolTypeOK /\ ReplacedNotLost
  BY DEF ConsolInv
<1> QED BY <1>1, ConsolInitInv, ConsolStep, PTL DEF ConsolSpec

-----------------------------------------------------------------------------
(* DiscordTasks: what the record says is settled on the way to the end of   *)
(* the worker, task by task.                                                *)

Statuses == {"none", "running", "completed", "cancelled", "failed", "truncated"}
Places == {"none", "opening", "finishing", "notifying", "over"} \union StreamStates
Announcements == {"no", "in time", "late"}
AtWork(at) == at \in StreamStates \union {"opening"}

\* A running worker has a running task, and one that is being unwound a cancelled one.
CancelledInv(t) ==
    /\ workerAt[t] = "none" => ~wasTold[t]
    /\ workerAt[t] = "none" <=> recordStatus[t] = "none"
    /\ AtWork(workerAt[t]) =>
          /\ wasTold[t] <=> unwinding[t]
          /\ recordStatus[t] = IF unwinding[t] THEN "cancelled" ELSE "running"
    /\ unwinding[t] => AtWork(workerAt[t])
    /\ wasTold[t] /\ "close" \notin taskFaults[t] => recordStatus[t] = "cancelled"

\* No piece is there before the goal was posted, and what is shown is what was shown so far.
PiecesInv(t) ==
    /\ workerAt[t] \in {"none", "opening", "subscribing", "posting"} => gotPieces[t] = 0
    /\ workerAt[t] \in {"showing", "splitting", "flushing"} => gotPieces[t] # 0
    /\ workerAt[t] = "splitting" =>
          /\ gotPieces[t] # 1 /\ shownPieces[t] <= 1
          /\ "edit" \notin taskFaults[t] => shownPieces[t] = 1
    /\ AtWork(workerAt[t]) /\ workerAt[t] \notin {"splitting", "flushing"} => shownPieces[t] = 0
    /\ workerAt[t] = "flushing" /\ "edit" \notin taskFaults[t] =>
          gotPieces[t] = 1 \/ shownPieces[t] = gotPieces[t]
    /\ /\ \/ workerAt[t] = "finishing" /\ recordStatus[t] = "running"
          \/ recordStatus[t] = "completed"
       /\ "edit" \notin taskFaults[t]
       => shownPieces[t] = gotPieces[t] /\ gotPieces[t] # 0
    /\ workerAt[t] = "none" => shownPieces[t] = 0

\* Who waits hears of the result, so the window ends before it is announced or not at all.
WindowInv(t) ==
    /\ announced[t] # "no" => gotPieces[t] # 0
    /\ workerAt[t] \in {"posting", "polling", "waiting"} => listening[t]
    /\ workerAt[t] = "waiting" /\ announced[t] # "no" => notices[t] = 1
    /\ windowOver[t] => announced[t] # "in time"
    /\ workerAt[t] = "cutting" \/ recordStatus[t] = "truncated" => windowOver[t]

\* Only what is raised before the stream leaves a record running.
EndedInv(t) ==
    workerAt[t] \in {"notifying", "over"} /\ recordStatus[t] = "running"
        => workerAt[t] = "over" /\ "stray" \in taskFaults[t]

TaskInv(t) == CancelledInv(t) /\ PiecesInv(t) /\ WindowInv(t) /\ EndedInv(t)

DiscordInv == DiscordTypeOK /\ \A t \in DiscordTaskIds : TaskInv(t)

\* A function is changed at t alone.
OnlyAt(t, f, g) == \A u \in DiscordTaskIds : u # t => g[u] = f[u]

\* A task whose variables keep their values keeps its invariant.
LEMMA TaskStays ==
  ASSUME NEW u, TaskInv(u), recordStatus'[u] = recordStatus[u], workerAt'[u] = workerAt[u],
         wasTold'[u] = wasTold[u], unwinding'[u] = unwinding[u], windowOver'[u] = windowOver[u],
         gotPieces'[u] = gotPieces[u], listening'[u] = listening[u], notices'[u] = notices[u],
         shownPieces'[u] = shownPieces[u], announced'[u] = announced[u],
         taskFaults'[u] = taskFaults[u]
  PROVE  TaskInv(u)'
<1>1. CancelledInv(u)'
  BY DEF TaskInv, CancelledInv
<1>2. PiecesInv(u)'
  BY DEF TaskInv, PiecesInv
<1>3. WindowInv(u)'
  BY DEF TaskInv, WindowInv
<1>4. EndedInv(u)'
  BY DEF TaskInv, EndedInv
<1> QED BY <1>1, <1>2, <1>3, <1>4 DEF TaskInv

\* The orchestrator stores a result.
LEMMA StoreDiscordResultKeeps ==
  ASSUME DiscordInv, NEW t \in DiscordTaskIds, StoreDiscordResult(t) PROVE DiscordInv'
<1>1. DiscordTypeOK /\ TaskInv(t)
  BY DEF DiscordInv
<1>2. gotPieces[t] = 0 /\ workerAt[t] \notin {"none", "opening", "subscribing", "posting"}
  BY DEF StoreDiscordResult, WorkerAt, WorkerGoes, SetsStatus, NothingFails, redisSide,
     cancelSide, DiscordFails, SpoilsTask, EditMessage, Unsubscribes
<1>3. recordStatus' = recordStatus /\ workerAt' = workerAt /\ wasTold' = wasTold /\ unwinding' = unwinding /\ windowOver' = windowOver /\ listening' = listening /\ notices' = notices /\ shownPieces' = shownPieces /\ announced' = announced
  BY DEF StoreDiscordResult, WorkerAt, WorkerGoes, SetsStatus, NothingFails, redisSide,
     cancelSide, DiscordFails, SpoilsTask, EditMessage, Unsubscribes
<1>4. recordStatus'[t] = recordStatus[t] /\ workerAt'[t] = workerAt[t] /\ wasTold'[t] = wasTold[t] /\ unwinding'[t] = unwinding[t] /\ windowOver'[t] = windowOver[t] /\ listening'[t] = listening[t] /\ notices'[t] = notices[t] /\ shownPieces'[t] = shownPieces[t] /\ announced'[t] = announced[t]
  BY <1>3
<1>5. taskFaults \in [DiscordTaskIds -> SUBSET DiscordFaults]
  BY <1>1 DEF DiscordTypeOK
<1>6. taskFaults' \in [DiscordTaskIds -> SUBSET DiscordFaults] /\ OnlyAt(t, taskFaults, taskFaults')
  BY <1>5 DEF StoreDiscordResult, WorkerAt, WorkerGoes, SetsStatus, NothingFails, redisSide,
     cancelSide, DiscordFails, SpoilsTask, EditMessage, Unsubscribes, OnlyAt, DiscordFaults
<1>7. taskFaults'[t] = taskFaults[t] \/ taskFaults'[t] = taskFaults[t] \union {"goal"}
  BY <1>5, <1>6 DEF StoreDiscordResult, WorkerAt, WorkerGoes, SetsStatus, NothingFails,
     redisSide, cancelSide, DiscordFails, SpoilsTask, EditMessage, Unsubscribes
<1>8. gotPieces \in [DiscordTaskIds -> 0..3]
  BY <1>1 DEF DiscordTypeOK
<1>9. gotPieces' \in [DiscordTaskIds -> 0..3] /\ OnlyAt(t, gotPieces, gotPieces')
  BY <1>8 DEF StoreDiscordResult, WorkerAt, WorkerGoes, SetsStatus, NothingFails, redisSide,
     cancelSide, DiscordFails, SpoilsTask, EditMessage, Unsubscribes, OnlyAt
<1>10. gotPieces'[t] \in 1..3
  BY <1>8, <1>9 DEF StoreDiscordResult, WorkerAt, WorkerGoes, SetsStatus, NothingFails,
     redisSide, cancelSide, DiscordFails, SpoilsTask, EditMessage, Unsubscribes
<1>11. discordFaults' = discordFaults
  BY DEF StoreDiscordResult, WorkerAt, WorkerGoes, SetsStatus, NothingFails, redisSide,
     cancelSide, DiscordFails, SpoilsTask, EditMessage, Unsubscribes
<1>12. DiscordTypeOK'
  BY <1>1, <1>3, <1>6, <1>9, <1>11 DEF DiscordTypeOK, Statuses, Places, Announcements
<1>13. TaskInv(t)'
  <2>1. CancelledInv(t)'
    BY <1>1, <1>2, <1>4, <1>7, <1>10 DEF TaskInv, CancelledInv, AtWork, StreamStates
  <2>2. PiecesInv(t)'
    BY <1>1, <1>2, <1>4, <1>7, <1>10 DEF TaskInv, CancelledInv, PiecesInv, AtWork, StreamStates
  <2>3. WindowInv(t)'
    BY <1>1, <1>2, <1>4, <1>7, <1>10 DEF TaskInv, CancelledInv, PiecesInv, WindowInv, AtWork,
       StreamStates
  <2>4. EndedInv(t)'
    BY <1>1, <1>2, <1>4, <1>7, <1>10 DEF TaskInv, CancelledInv, PiecesInv, EndedInv, AtWork,
       StreamStates
  <2> QED BY <2>1, <2>2, <2>3, <2>4 DEF TaskInv
<1>14. \A u \in DiscordTaskIds : u # t => TaskInv(u)'
  BY <1>3, <1>6, <1>9, TaskStays DEF DiscordInv, OnlyAt
<1> QED BY <1>12, <1>13, <1>14 DEF DiscordInv

\* It announces it.
LEMMA AnnounceResultKeeps ==
  ASSUME DiscordInv, NEW t \in DiscordTaskIds, AnnounceResult(t) PROVE DiscordInv'
<1>1. DiscordTypeOK /\ TaskInv(t)
  BY DEF DiscordInv
<1>2. gotPieces[t] # 0 /\ announced[t] = "no"
  BY DEF AnnounceResult, WorkerAt, WorkerGoes, SetsStatus, NothingFails, redisSide, cancelSide,
     DiscordFails, SpoilsTask, EditMessage, Unsubscribes
<1>3. recordStatus' = recordStatus /\ workerAt' = workerAt /\ wasTold' = wasTold /\ unwinding' = unwinding /\ windowOver' = windowOver /\ gotPieces' = gotPieces /\ listening' = listening /\ shownPieces' = shownPieces
  BY DEF AnnounceResult, WorkerAt, WorkerGoes, SetsStatus, NothingFails, redisSide, cancelSide,
     DiscordFails, SpoilsTask, EditMessage, Unsubscribes
<1>4. recordStatus'[t] = recordStatus[t] /\ workerAt'[t] = workerAt[t] /\ wasTold'[t] = wasTold[t] /\ unwinding'[t] = unwinding[t] /\ windowOver'[t] = windowOver[t] /\ gotPieces'[t] = gotPieces[t] /\ listening'[t] = listening[t] /\ shownPieces'[t] = shownPieces[t]
  BY <1>3
<1>5. taskFaults \in [DiscordTaskIds -> SUBSET DiscordFaults]
  BY <1>1 DEF DiscordTypeOK
<1>6. taskFaults' \in [DiscordTaskIds -> SUBSET DiscordFaults] /\ OnlyAt(t, taskFaults, taskFaults')
  BY <1>5 DEF AnnounceResult, WorkerAt, WorkerGoes, SetsStatus, NothingFails, redisSide,
     cancelSide, DiscordFails, SpoilsTask, EditMessage, Unsubscribes, OnlyAt, DiscordFaults
<1>7. taskFaults'[t] = taskFaults[t] \/ taskFaults'[t] = taskFaults[t] \union {"notice"}
  BY <1>5, <1>6 DEF AnnounceResult, WorkerAt, WorkerGoes, SetsStatus, NothingFails, redisSide,
     cancelSide, DiscordFails, SpoilsTask, EditMessage, Unsubscribes
<1>8. announced \in [DiscordTaskIds -> Announcements]
  BY <1>1 DEF DiscordTypeOK, Announcements
<1>9. announced' \in [DiscordTaskIds -> Announcements] /\ OnlyAt(t, announced, announced')
  BY <1>8 DEF AnnounceResult, WorkerAt, WorkerGoes, SetsStatus, NothingFails, redisSide,
     cancelSide, DiscordFails, SpoilsTask, EditMessage, Unsubscribes, OnlyAt, Announcements
<1>10. announced'[t] = announced[t] \/ announced'[t] = IF windowOver[t] THEN "late" ELSE "in time"
  BY <1>8, <1>9 DEF AnnounceResult, WorkerAt, WorkerGoes, SetsStatus, NothingFails, redisSide,
     cancelSide, DiscordFails, SpoilsTask, EditMessage, Unsubscribes
<1>11. notices \in [DiscordTaskIds -> 0..1]
  BY <1>1 DEF DiscordTypeOK
<1>12. notices' \in [DiscordTaskIds -> 0..1] /\ OnlyAt(t, notices, notices')
  <2> DEFINE heard == IF listening[t] THEN 1 ELSE 0
  <2>1. heard \in 0..1
    OBVIOUS
  <2>2. notices' = [notices EXCEPT ![t] = heard] \/ (notices' = notices /\ announced' = announced)
    BY DEF AnnounceResult
  <2> HIDE DEF heard
  <2> QED BY <1>11, <2>1, <2>2 DEF OnlyAt
<1>13. notices'[t] = (IF listening[t] THEN 1 ELSE 0) \/ (notices'[t] = notices[t] /\ announced'[t] = announced[t])
  <2> DEFINE heard == IF listening[t] THEN 1 ELSE 0
  <2>1. heard \in 0..1
    OBVIOUS
  <2>2. notices' = [notices EXCEPT ![t] = heard] \/ (notices' = notices /\ announced' = announced)
    BY DEF AnnounceResult
  <2> HIDE DEF heard
  <2>3. notices'[t] = heard \/ (notices' = notices /\ announced' = announced)
    BY <1>11, <2>1, <2>2
  <2> QED BY <2>3 DEF heard
<1>14. discordFaults \in 0..MaxDiscordFaults
  BY <1>1 DEF DiscordTypeOK
<1>15. (discordFaults < MaxDiscordFaults /\ discordFaults' = discordFaults + 1) \/ discordFaults' = discordFaults
  BY DEF AnnounceResult, WorkerAt, WorkerGoes, SetsStatus, NothingFails, redisSide, cancelSide,
     DiscordFails, SpoilsTask, EditMessage, Unsubscribes
<1>16. discordFaults' \in 0..MaxDiscordFaults
  BY <1>14, <1>15, DiscordAssumption
<1>17. DiscordTypeOK'
  BY <1>1, <1>3, <1>6, <1>9, <1>12, <1>16 DEF DiscordTypeOK, Statuses, Places, Announcements
<1>18. TaskInv(t)'
  <2>1. CancelledInv(t)'
    BY <1>1, <1>2, <1>4, <1>7, <1>10, <1>13 DEF TaskInv, CancelledInv, AtWork, StreamStates
  <2>2. PiecesInv(t)'
    BY <1>1, <1>2, <1>4, <1>7, <1>10, <1>13 DEF TaskInv, CancelledInv, PiecesInv, AtWork,
       StreamStates
  <2>3. WindowInv(t)'
    BY <1>1, <1>2, <1>4, <1>7, <1>10, <1>13 DEF TaskInv, CancelledInv, PiecesInv, WindowInv,
       AtWork, StreamStates
  <2>4. EndedInv(t)'
    BY <1>1, <1>2, <1>4, <1>7, <1>10, <1>13 DEF TaskInv, CancelledInv, PiecesInv, EndedInv,
       AtWork, StreamStates
  <2> QED BY <2>1, <2>2, <2>3, <2>4 DEF TaskInv
<1>19. \A u \in DiscordTaskIds : u # t => TaskInv(u)'
  BY <1>3, <1>6, <1>9, <1>12, TaskStays DEF DiscordInv, OnlyAt
<1> QED BY <1>17, <1>18, <1>19 DEF DiscordInv

\* The window ends.
LEMMA WindowEndsKeeps ==
  ASSUME DiscordInv, NEW t \in DiscordTaskIds, WindowEnds(t) PROVE DiscordInv'
<1>1. DiscordTypeOK /\ TaskInv(t)
  BY DEF DiscordInv
<1>2. workerAt[t] \in {"subscribing", "posting", "waiting"} /\ notices[t] = 0
  BY DEF WindowEnds, WorkerAt, WorkerGoes, SetsStatus, NothingFails, redisSide, cancelSide,
     DiscordFails, SpoilsTask, EditMessage, Unsubscribes
<1>3. recordStatus' = recordStatus /\ workerAt' = workerAt /\ wasTold' = wasTold /\ unwinding' = unwinding /\ gotPieces' = gotPieces /\ listening' = listening /\ notices' = notices /\ shownPieces' = shownPieces /\ announced' = announced /\ taskFaults' = taskFaults
  BY DEF WindowEnds, WorkerAt, WorkerGoes, SetsStatus, NothingFails, redisSide, cancelSide,
     DiscordFails, SpoilsTask, EditMessage, Unsubscribes
<1>4. recordStatus'[t] = recordStatus[t] /\ workerAt'[t] = workerAt[t] /\ wasTold'[t] = wasTold[t] /\ unwinding'[t] = unwinding[t] /\ gotPieces'[t] = gotPieces[t] /\ listening'[t] = listening[t] /\ notices'[t] = notices[t] /\ shownPieces'[t] = shownPieces[t] /\ announced'[t] = announced[t] /\ taskFaults'[t] = taskFaults[t]
  BY <1>3
<1>5. windowOver \in [DiscordTaskIds -> BOOLEAN]
  BY <1>1 DEF DiscordTypeOK
<1>6. windowOver' \in [DiscordTaskIds -> BOOLEAN] /\ OnlyAt(t, windowOver, windowOver')
  BY <1>5 DEF WindowEnds, WorkerAt, WorkerGoes, SetsStatus, NothingFails, redisSide, cancelSide,
     DiscordFails, SpoilsTask, EditMessage, Unsubscribes, OnlyAt
<1>7. windowOver'[t] = TRUE
  BY <1>5, <1>6 DEF WindowEnds, WorkerAt, WorkerGoes, SetsStatus, NothingFails, redisSide,
     cancelSide, DiscordFails, SpoilsTask, EditMessage, Unsubscribes
<1>8. discordFaults' = discordFaults
  BY DEF WindowEnds, WorkerAt, WorkerGoes, SetsStatus, NothingFails, redisSide, cancelSide,
     DiscordFails, SpoilsTask, EditMessage, Unsubscribes
<1>9. DiscordTypeOK'
  BY <1>1, <1>3, <1>6, <1>8 DEF DiscordTypeOK, Statuses, Places, Announcements
<1>10. TaskInv(t)'
  <2>1. announced[t] = "no"
    <3>1. CASE workerAt[t] = "waiting"
      <4>1. announced[t] # "no" => notices[t] = 1
        BY <1>1, <3>1 DEF TaskInv, WindowInv
      <4>2. notices[t] = 0
        BY <1>2
      <4> QED BY <4>1, <4>2
    <3>2. CASE workerAt[t] # "waiting"
      <4>1. gotPieces[t] = 0
        BY <1>1, <1>2, <3>2 DEF TaskInv, PiecesInv
      <4> QED BY <1>1, <4>1 DEF TaskInv, WindowInv
    <3> QED BY <3>1, <3>2
  <2>2. CancelledInv(t)'
    BY <1>1, <1>2, <1>4, <1>7 DEF TaskInv, CancelledInv, AtWork, StreamStates
  <2>3. PiecesInv(t)'
    BY <1>1, <1>2, <1>4, <1>7 DEF TaskInv, CancelledInv, PiecesInv, AtWork, StreamStates
  <2>4. WindowInv(t)'
    BY <1>1, <1>2, <1>4, <1>7, <2>1 DEF TaskInv, WindowInv
  <2>5. EndedInv(t)'
    BY <1>1, <1>2, <1>4, <1>7 DEF TaskInv, CancelledInv, PiecesInv, EndedInv, AtWork,
       StreamStates
  <2> QED BY <2>2, <2>3, <2>4, <2>5 DEF TaskInv
<1>11. \A u \in DiscordTaskIds : u # t => TaskInv(u)'
  BY <1>3, <1>6, TaskStays DEF DiscordInv, OnlyAt
<1> QED BY <1>9, <1>10, <1>11 DEF DiscordInv

\* A task is asked for.
LEMMA StartDiscordTaskKeeps ==
  ASSUME DiscordInv, NEW t \in DiscordTaskIds, StartDiscordTask(t) PROVE DiscordInv'
<1>1. DiscordTypeOK /\ TaskInv(t)
  BY DEF DiscordInv
<1>2. recordStatus[t] = "none"
  BY DEF StartDiscordTask, WorkerAt, WorkerGoes, SetsStatus, NothingFails, redisSide,
     cancelSide, DiscordFails, SpoilsTask, EditMessage, Unsubscribes
<1>3. wasTold' = wasTold /\ unwinding' = unwinding /\ windowOver' = windowOver /\ gotPieces' = gotPieces /\ listening' = listening /\ notices' = notices /\ shownPieces' = shownPieces /\ announced' = announced /\ taskFaults' = taskFaults
  BY DEF StartDiscordTask, WorkerAt, WorkerGoes, SetsStatus, NothingFails, redisSide,
     cancelSide, DiscordFails, SpoilsTask, EditMessage, Unsubscribes
<1>4. wasTold'[t] = wasTold[t] /\ unwinding'[t] = unwinding[t] /\ windowOver'[t] = windowOver[t] /\ gotPieces'[t] = gotPieces[t] /\ listening'[t] = listening[t] /\ notices'[t] = notices[t] /\ shownPieces'[t] = shownPieces[t] /\ announced'[t] = announced[t] /\ taskFaults'[t] = taskFaults[t]
  BY <1>3
<1>5. recordStatus \in [DiscordTaskIds -> Statuses]
  BY <1>1 DEF DiscordTypeOK, Statuses
<1>6. recordStatus' \in [DiscordTaskIds -> Statuses] /\ OnlyAt(t, recordStatus, recordStatus')
  BY <1>5 DEF StartDiscordTask, WorkerAt, WorkerGoes, SetsStatus, NothingFails, redisSide,
     cancelSide, DiscordFails, SpoilsTask, EditMessage, Unsubscribes, OnlyAt, Statuses
<1>7. recordStatus'[t] = "running"
  BY <1>5, <1>6 DEF StartDiscordTask, WorkerAt, WorkerGoes, SetsStatus, NothingFails, redisSide,
     cancelSide, DiscordFails, SpoilsTask, EditMessage, Unsubscribes
<1>8. workerAt \in [DiscordTaskIds -> Places]
  BY <1>1 DEF DiscordTypeOK, Places
<1>9. workerAt' \in [DiscordTaskIds -> Places] /\ OnlyAt(t, workerAt, workerAt')
  BY <1>8 DEF StartDiscordTask, WorkerAt, WorkerGoes, SetsStatus, NothingFails, redisSide,
     cancelSide, DiscordFails, SpoilsTask, EditMessage, Unsubscribes, OnlyAt, Places,
     StreamStates
<1>10. workerAt'[t] = "opening"
  BY <1>8, <1>9 DEF StartDiscordTask, WorkerAt, WorkerGoes, SetsStatus, NothingFails, redisSide,
     cancelSide, DiscordFails, SpoilsTask, EditMessage, Unsubscribes
<1>11. discordFaults' = discordFaults
  BY DEF StartDiscordTask, WorkerAt, WorkerGoes, SetsStatus, NothingFails, redisSide,
     cancelSide, DiscordFails, SpoilsTask, EditMessage, Unsubscribes
<1>12. DiscordTypeOK'
  BY <1>1, <1>3, <1>6, <1>9, <1>11 DEF DiscordTypeOK, Statuses, Places, Announcements
<1>13. TaskInv(t)'
  <2>1. CancelledInv(t)'
    BY <1>1, <1>2, <1>4, <1>7, <1>10 DEF TaskInv, CancelledInv, AtWork, StreamStates
  <2>2. PiecesInv(t)'
    BY <1>1, <1>2, <1>4, <1>7, <1>10 DEF TaskInv, CancelledInv, PiecesInv, AtWork, StreamStates
  <2>3. WindowInv(t)'
    BY <1>1, <1>2, <1>4, <1>7, <1>10 DEF TaskInv, CancelledInv, PiecesInv, WindowInv, AtWork,
       StreamStates
  <2>4. EndedInv(t)'
    BY <1>1, <1>2, <1>4, <1>7, <1>10 DEF TaskInv, CancelledInv, PiecesInv, EndedInv, AtWork,
       StreamStates
  <2> QED BY <2>1, <2>2, <2>3, <2>4 DEF TaskInv
<1>14. \A u \in DiscordTaskIds : u # t => TaskInv(u)'
  BY <1>3, <1>6, <1>9, TaskStays DEF DiscordInv, OnlyAt
<1> QED BY <1>12, <1>13, <1>14 DEF DiscordInv

\* Its message is there.
LEMMA OpenMessageKeeps ==
  ASSUME DiscordInv, NEW t \in DiscordTaskIds, OpenMessage(t) PROVE DiscordInv'
<1>1. DiscordTypeOK /\ TaskInv(t)
  BY DEF DiscordInv
<1>2. workerAt[t] = "opening" /\ ~unwinding[t]
  BY DEF OpenMessage, WorkerAt, WorkerGoes, SetsStatus, NothingFails, redisSide, cancelSide,
     DiscordFails, SpoilsTask, EditMessage, Unsubscribes
<1>3. recordStatus' = recordStatus /\ wasTold' = wasTold /\ unwinding' = unwinding /\ windowOver' = windowOver /\ gotPieces' = gotPieces /\ listening' = listening /\ notices' = notices /\ shownPieces' = shownPieces /\ announced' = announced /\ taskFaults' = taskFaults
  BY DEF OpenMessage, WorkerAt, WorkerGoes, SetsStatus, NothingFails, redisSide, cancelSide,
     DiscordFails, SpoilsTask, EditMessage, Unsubscribes
<1>4. recordStatus'[t] = recordStatus[t] /\ wasTold'[t] = wasTold[t] /\ unwinding'[t] = unwinding[t] /\ windowOver'[t] = windowOver[t] /\ gotPieces'[t] = gotPieces[t] /\ listening'[t] = listening[t] /\ notices'[t] = notices[t] /\ shownPieces'[t] = shownPieces[t] /\ announced'[t] = announced[t] /\ taskFaults'[t] = taskFaults[t]
  BY <1>3
<1>5. workerAt \in [DiscordTaskIds -> Places]
  BY <1>1 DEF DiscordTypeOK, Places
<1>6. workerAt' \in [DiscordTaskIds -> Places] /\ OnlyAt(t, workerAt, workerAt')
  BY <1>5 DEF OpenMessage, WorkerAt, WorkerGoes, SetsStatus, NothingFails, redisSide,
     cancelSide, DiscordFails, SpoilsTask, EditMessage, Unsubscribes, OnlyAt, Places,
     StreamStates
<1>7. workerAt'[t] = "subscribing"
  BY <1>5, <1>6 DEF OpenMessage, WorkerAt, WorkerGoes, SetsStatus, NothingFails, redisSide,
     cancelSide, DiscordFails, SpoilsTask, EditMessage, Unsubscribes
<1>8. discordFaults' = discordFaults
  BY DEF OpenMessage, WorkerAt, WorkerGoes, SetsStatus, NothingFails, redisSide, cancelSide,
     DiscordFails, SpoilsTask, EditMessage, Unsubscribes
<1>9. DiscordTypeOK'
  BY <1>1, <1>3, <1>6, <1>8 DEF DiscordTypeOK, Statuses, Places, Announcements
<1>10. TaskInv(t)'
  <2>1. CancelledInv(t)'
    BY <1>1, <1>2, <1>4, <1>7 DEF TaskInv, CancelledInv, AtWork, StreamStates
  <2>2. PiecesInv(t)'
    BY <1>1, <1>2, <1>4, <1>7 DEF TaskInv, CancelledInv, PiecesInv, AtWork, StreamStates
  <2>3. WindowInv(t)'
    BY <1>1, <1>2, <1>4, <1>7 DEF TaskInv, CancelledInv, PiecesInv, WindowInv, AtWork,
       StreamStates
  <2>4. EndedInv(t)'
    BY <1>1, <1>2, <1>4, <1>7 DEF TaskInv, CancelledInv, PiecesInv, EndedInv, AtWork,
       StreamStates
  <2> QED BY <2>1, <2>2, <2>3, <2>4 DEF TaskInv
<1>11. \A u \in DiscordTaskIds : u # t => TaskInv(u)'
  BY <1>3, <1>6, TaskStays DEF DiscordInv, OnlyAt
<1> QED BY <1>9, <1>10, <1>11 DEF DiscordInv

\* Or it is not.
LEMMA OpeningFailsKeeps ==
  ASSUME DiscordInv, NEW t \in DiscordTaskIds, OpeningFails(t) PROVE DiscordInv'
<1>1. DiscordTypeOK /\ TaskInv(t)
  BY DEF DiscordInv
<1>2. workerAt[t] = "opening" /\ ~unwinding[t]
  BY DEF OpeningFails, WorkerAt, WorkerGoes, SetsStatus, NothingFails, redisSide, cancelSide,
     DiscordFails, SpoilsTask, EditMessage, Unsubscribes
<1>3. wasTold' = wasTold /\ unwinding' = unwinding /\ windowOver' = windowOver /\ gotPieces' = gotPieces /\ listening' = listening /\ notices' = notices /\ shownPieces' = shownPieces /\ announced' = announced
  BY DEF OpeningFails, WorkerAt, WorkerGoes, SetsStatus, NothingFails, redisSide, cancelSide,
     DiscordFails, SpoilsTask, EditMessage, Unsubscribes
<1>4. wasTold'[t] = wasTold[t] /\ unwinding'[t] = unwinding[t] /\ windowOver'[t] = windowOver[t] /\ gotPieces'[t] = gotPieces[t] /\ listening'[t] = listening[t] /\ notices'[t] = notices[t] /\ shownPieces'[t] = shownPieces[t] /\ announced'[t] = announced[t]
  BY <1>3
<1>5. taskFaults \in [DiscordTaskIds -> SUBSET DiscordFaults]
  BY <1>1 DEF DiscordTypeOK
<1>6. taskFaults' \in [DiscordTaskIds -> SUBSET DiscordFaults] /\ OnlyAt(t, taskFaults, taskFaults')
  BY <1>5 DEF OpeningFails, WorkerAt, WorkerGoes, SetsStatus, NothingFails, redisSide,
     cancelSide, DiscordFails, SpoilsTask, EditMessage, Unsubscribes, OnlyAt, DiscordFaults
<1>7. taskFaults'[t] = taskFaults[t] \/ taskFaults'[t] = taskFaults[t] \union {"stray"}
  BY <1>5, <1>6 DEF OpeningFails, WorkerAt, WorkerGoes, SetsStatus, NothingFails, redisSide,
     cancelSide, DiscordFails, SpoilsTask, EditMessage, Unsubscribes
<1>8. workerAt \in [DiscordTaskIds -> Places]
  BY <1>1 DEF DiscordTypeOK, Places
<1>9. workerAt' \in [DiscordTaskIds -> Places] /\ OnlyAt(t, workerAt, workerAt')
  BY <1>8 DEF OpeningFails, WorkerAt, WorkerGoes, SetsStatus, NothingFails, redisSide,
     cancelSide, DiscordFails, SpoilsTask, EditMessage, Unsubscribes, OnlyAt, Places,
     StreamStates
<1>10. workerAt'[t] = "over"
  BY <1>8, <1>9 DEF OpeningFails, WorkerAt, WorkerGoes, SetsStatus, NothingFails, redisSide,
     cancelSide, DiscordFails, SpoilsTask, EditMessage, Unsubscribes
<1>11. recordStatus \in [DiscordTaskIds -> Statuses]
  BY <1>1 DEF DiscordTypeOK, Statuses
<1>12. recordStatus' \in [DiscordTaskIds -> Statuses] /\ OnlyAt(t, recordStatus, recordStatus')
  BY <1>11 DEF OpeningFails, WorkerAt, WorkerGoes, SetsStatus, NothingFails, redisSide,
     cancelSide, DiscordFails, SpoilsTask, EditMessage, Unsubscribes, OnlyAt, Statuses
<1>13. recordStatus'[t] = "failed" \/ (recordStatus'[t] = recordStatus[t] /\ "stray" \in taskFaults'[t])
  <2>1. CASE recordStatus' = [recordStatus EXCEPT ![t] = "failed"]
    <3>1. recordStatus'[t] = "failed"
      BY <1>11, <2>1
    <3> QED BY <3>1
  <2>2. CASE recordStatus' = recordStatus /\ taskFaults' = [taskFaults EXCEPT ![t] = @ \union {"stray"}]
    <3>1. recordStatus'[t] = recordStatus[t]
      BY <1>11, <2>2
    <3>2. "stray" \in taskFaults'[t]
      BY <1>5, <2>2
    <3> QED BY <3>1, <3>2
  <2> QED BY <2>1, <2>2 DEF OpeningFails, WorkerAt, WorkerGoes, SetsStatus, NothingFails,
             redisSide, cancelSide, DiscordFails, SpoilsTask, EditMessage, Unsubscribes
<1>14. discordFaults \in 0..MaxDiscordFaults
  BY <1>1 DEF DiscordTypeOK
<1>15. (discordFaults < MaxDiscordFaults /\ discordFaults' = discordFaults + 1) \/ discordFaults' = discordFaults
  BY DEF OpeningFails, WorkerAt, WorkerGoes, SetsStatus, NothingFails, redisSide, cancelSide,
     DiscordFails, SpoilsTask, EditMessage, Unsubscribes
<1>16. discordFaults' \in 0..MaxDiscordFaults
  BY <1>14, <1>15, DiscordAssumption
<1>17. DiscordTypeOK'
  BY <1>1, <1>3, <1>6, <1>9, <1>12, <1>16 DEF DiscordTypeOK, Statuses, Places, Announcements
<1>18. TaskInv(t)'
  <2>1. CancelledInv(t)'
    BY <1>1, <1>2, <1>4, <1>7, <1>10, <1>13 DEF TaskInv, CancelledInv, AtWork, StreamStates
  <2>2. PiecesInv(t)'
    BY <1>1, <1>2, <1>4, <1>7, <1>10, <1>13 DEF TaskInv, CancelledInv, PiecesInv, AtWork,
       StreamStates
  <2>3. WindowInv(t)'
    BY <1>1, <1>2, <1>4, <1>7, <1>10, <1>13 DEF TaskInv, CancelledInv, PiecesInv, WindowInv,
       AtWork, StreamStates
  <2>4. EndedInv(t)'
    BY <1>1, <1>2, <1>4, <1>7, <1>10, <1>13 DEF TaskInv, CancelledInv, PiecesInv, EndedInv,
       AtWork, StreamStates
  <2> QED BY <2>1, <2>2, <2>3, <2>4 DEF TaskInv
<1>19. \A u \in DiscordTaskIds : u # t => TaskInv(u)'
  BY <1>3, <1>6, <1>9, <1>12, TaskStays DEF DiscordInv, OnlyAt
<1> QED BY <1>17, <1>18, <1>19 DEF DiscordInv

\* The worker subscribes, and then posts.
LEMMA SubscribeAndPostKeeps ==
  ASSUME DiscordInv, NEW t \in DiscordTaskIds, SubscribeAndPost(t) PROVE DiscordInv'
<1>1. DiscordTypeOK /\ TaskInv(t)
  BY DEF DiscordInv
<1>2. ~unwinding[t]
  BY DEF SubscribeAndPost, WorkerAt, WorkerGoes, SetsStatus, NothingFails, redisSide,
     cancelSide, DiscordFails, SpoilsTask, EditMessage, Unsubscribes
<1>3. recordStatus' = recordStatus /\ wasTold' = wasTold /\ unwinding' = unwinding /\ windowOver' = windowOver /\ gotPieces' = gotPieces /\ notices' = notices /\ shownPieces' = shownPieces /\ announced' = announced /\ taskFaults' = taskFaults
  BY DEF SubscribeAndPost, WorkerAt, WorkerGoes, SetsStatus, NothingFails, redisSide,
     cancelSide, DiscordFails, SpoilsTask, EditMessage, Unsubscribes
<1>4. recordStatus'[t] = recordStatus[t] /\ wasTold'[t] = wasTold[t] /\ unwinding'[t] = unwinding[t] /\ windowOver'[t] = windowOver[t] /\ gotPieces'[t] = gotPieces[t] /\ notices'[t] = notices[t] /\ shownPieces'[t] = shownPieces[t] /\ announced'[t] = announced[t] /\ taskFaults'[t] = taskFaults[t]
  BY <1>3
<1>5. workerAt \in [DiscordTaskIds -> Places]
  BY <1>1 DEF DiscordTypeOK, Places
<1>6. workerAt' \in [DiscordTaskIds -> Places] /\ OnlyAt(t, workerAt, workerAt')
  BY <1>5 DEF SubscribeAndPost, WorkerAt, WorkerGoes, SetsStatus, NothingFails, redisSide,
     cancelSide, DiscordFails, SpoilsTask, EditMessage, Unsubscribes, OnlyAt, Places,
     StreamStates
<1>7. (workerAt[t] = "subscribing" /\ workerAt'[t] = "posting") \/ (workerAt[t] = "posting" /\ workerAt'[t] = "polling")
  <2>1. CASE workerAt[t] = "subscribing" /\ workerAt' = [workerAt EXCEPT ![t] = "posting"]
    <3>1. workerAt[t] = "subscribing"
      BY <2>1
    <3>2. workerAt'[t] = "posting"
      BY <1>5, <2>1
    <3> QED BY <3>1, <3>2
  <2>2. CASE workerAt[t] = "posting" /\ workerAt' = [workerAt EXCEPT ![t] = "polling"]
    <3>1. workerAt[t] = "posting"
      BY <2>2
    <3>2. workerAt'[t] = "polling"
      BY <1>5, <2>2
    <3> QED BY <3>1, <3>2
  <2> QED BY <2>1, <2>2 DEF SubscribeAndPost, WorkerAt, WorkerGoes, SetsStatus, NothingFails,
             redisSide, cancelSide, DiscordFails, SpoilsTask, EditMessage, Unsubscribes
<1>8. listening \in [DiscordTaskIds -> BOOLEAN]
  BY <1>1 DEF DiscordTypeOK
<1>9. listening' \in [DiscordTaskIds -> BOOLEAN] /\ OnlyAt(t, listening, listening')
  BY <1>8 DEF SubscribeAndPost, WorkerAt, WorkerGoes, SetsStatus, NothingFails, redisSide,
     cancelSide, DiscordFails, SpoilsTask, EditMessage, Unsubscribes, OnlyAt
<1>10. listening'[t] = TRUE \/ (workerAt[t] = "posting" /\ listening'[t] = listening[t])
  <2>1. CASE listening' = [listening EXCEPT ![t] = TRUE]
    <3>1. listening'[t] = TRUE
      BY <1>8, <2>1
    <3> QED BY <3>1
  <2>2. CASE workerAt[t] = "posting" /\ listening' = listening
    <3>1. workerAt[t] = "posting"
      BY <2>2
    <3>2. listening'[t] = listening[t]
      BY <1>8, <2>2
    <3> QED BY <3>1, <3>2
  <2> QED BY <2>1, <2>2 DEF SubscribeAndPost, WorkerAt, WorkerGoes, SetsStatus, NothingFails,
             redisSide, cancelSide, DiscordFails, SpoilsTask, EditMessage, Unsubscribes
<1>11. discordFaults' = discordFaults
  BY DEF SubscribeAndPost, WorkerAt, WorkerGoes, SetsStatus, NothingFails, redisSide,
     cancelSide, DiscordFails, SpoilsTask, EditMessage, Unsubscribes
<1>12. DiscordTypeOK'
  BY <1>1, <1>3, <1>6, <1>9, <1>11 DEF DiscordTypeOK, Statuses, Places, Announcements
<1>13. TaskInv(t)'
  <2>1. CancelledInv(t)'
    BY <1>1, <1>2, <1>4, <1>7, <1>10 DEF TaskInv, CancelledInv, AtWork, StreamStates
  <2>2. PiecesInv(t)'
    BY <1>1, <1>2, <1>4, <1>7, <1>10 DEF TaskInv, CancelledInv, PiecesInv, AtWork, StreamStates
  <2>3. WindowInv(t)'
    BY <1>1, <1>2, <1>4, <1>7, <1>10 DEF TaskInv, CancelledInv, PiecesInv, WindowInv, AtWork,
       StreamStates
  <2>4. EndedInv(t)'
    BY <1>1, <1>2, <1>4, <1>7, <1>10 DEF TaskInv, CancelledInv, PiecesInv, EndedInv, AtWork,
       StreamStates
  <2> QED BY <2>1, <2>2, <2>3, <2>4 DEF TaskInv
<1>14. \A u \in DiscordTaskIds : u # t => TaskInv(u)'
  BY <1>3, <1>6, <1>9, TaskStays DEF DiscordInv, OnlyAt
<1> QED BY <1>12, <1>13, <1>14 DEF DiscordInv

\* It looks at the key.
LEMMA PollResultKeeps ==
  ASSUME DiscordInv, NEW t \in DiscordTaskIds, PollResult(t) PROVE DiscordInv'
<1>1. DiscordTypeOK /\ TaskInv(t)
  BY DEF DiscordInv
<1>2. workerAt[t] \in {"polling", "waiting"} /\ ~unwinding[t]
  BY DEF PollResult, WorkerAt, WorkerGoes, SetsStatus, NothingFails, redisSide, cancelSide,
     DiscordFails, SpoilsTask, EditMessage, Unsubscribes
<1>3. recordStatus' = recordStatus /\ wasTold' = wasTold /\ unwinding' = unwinding /\ windowOver' = windowOver /\ gotPieces' = gotPieces /\ shownPieces' = shownPieces /\ announced' = announced /\ taskFaults' = taskFaults
  BY DEF PollResult, WorkerAt, WorkerGoes, SetsStatus, NothingFails, redisSide, cancelSide,
     DiscordFails, SpoilsTask, EditMessage, Unsubscribes
<1>4. recordStatus'[t] = recordStatus[t] /\ wasTold'[t] = wasTold[t] /\ unwinding'[t] = unwinding[t] /\ windowOver'[t] = windowOver[t] /\ gotPieces'[t] = gotPieces[t] /\ shownPieces'[t] = shownPieces[t] /\ announced'[t] = announced[t] /\ taskFaults'[t] = taskFaults[t]
  BY <1>3
<1>5. workerAt \in [DiscordTaskIds -> Places]
  BY <1>1 DEF DiscordTypeOK, Places
<1>6. workerAt' \in [DiscordTaskIds -> Places] /\ OnlyAt(t, workerAt, workerAt')
  BY <1>5 DEF PollResult, WorkerAt, WorkerGoes, SetsStatus, NothingFails, redisSide, cancelSide,
     DiscordFails, SpoilsTask, EditMessage, Unsubscribes, OnlyAt, Places, StreamStates
<1>7. workerAt'[t] = IF gotPieces[t] # 0 THEN IF windowOver[t] THEN "cutting" ELSE "showing" ELSE "waiting"
  BY <1>5, <1>6 DEF PollResult, WorkerAt, WorkerGoes, SetsStatus, NothingFails, redisSide,
     cancelSide, DiscordFails, SpoilsTask, EditMessage, Unsubscribes
<1>8. listening \in [DiscordTaskIds -> BOOLEAN]
  BY <1>1 DEF DiscordTypeOK
<1>9. listening' \in [DiscordTaskIds -> BOOLEAN] /\ OnlyAt(t, listening, listening')
  BY <1>8 DEF PollResult, WorkerAt, WorkerGoes, SetsStatus, NothingFails, redisSide, cancelSide,
     DiscordFails, SpoilsTask, EditMessage, Unsubscribes, OnlyAt
<1>10. gotPieces[t] # 0 \/ listening'[t] = listening[t]
  BY <1>8, <1>9 DEF PollResult, WorkerAt, WorkerGoes, SetsStatus, NothingFails, redisSide,
     cancelSide, DiscordFails, SpoilsTask, EditMessage, Unsubscribes
<1>11. notices \in [DiscordTaskIds -> 0..1]
  BY <1>1 DEF DiscordTypeOK
<1>12. notices' \in [DiscordTaskIds -> 0..1] /\ OnlyAt(t, notices, notices')
  BY <1>11, 0 \in 0..1, 1 \in 0..1 DEF PollResult, WorkerAt, WorkerGoes, SetsStatus,
     NothingFails, redisSide, cancelSide, DiscordFails, SpoilsTask, EditMessage, Unsubscribes,
     OnlyAt
<1>13. gotPieces[t] # 0 \/ notices'[t] = notices[t]
  BY <1>11, <1>12 DEF PollResult, WorkerAt, WorkerGoes, SetsStatus, NothingFails, redisSide,
     cancelSide, DiscordFails, SpoilsTask, EditMessage, Unsubscribes
<1>14. discordFaults' = discordFaults
  BY DEF PollResult, WorkerAt, WorkerGoes, SetsStatus, NothingFails, redisSide, cancelSide,
     DiscordFails, SpoilsTask, EditMessage, Unsubscribes
<1>15. DiscordTypeOK'
  BY <1>1, <1>3, <1>6, <1>9, <1>12, <1>14 DEF DiscordTypeOK, Statuses, Places, Announcements
<1>16. TaskInv(t)'
  <2>1. CancelledInv(t)'
    BY <1>1, <1>2, <1>4, <1>7, <1>10, <1>13 DEF TaskInv, CancelledInv, AtWork, StreamStates
  <2>2. PiecesInv(t)'
    BY <1>1, <1>2, <1>4, <1>7, <1>10, <1>13 DEF TaskInv, CancelledInv, PiecesInv, AtWork,
       StreamStates
  <2>3. WindowInv(t)'
    BY <1>1, <1>2, <1>4, <1>7, <1>10, <1>13 DEF TaskInv, CancelledInv, PiecesInv, WindowInv,
       AtWork, StreamStates
  <2>4. EndedInv(t)'
    BY <1>1, <1>2, <1>4, <1>7, <1>10, <1>13 DEF TaskInv, CancelledInv, PiecesInv, EndedInv,
       AtWork, StreamStates
  <2> QED BY <2>1, <2>2, <2>3, <2>4 DEF TaskInv
<1>17. \A u \in DiscordTaskIds : u # t => TaskInv(u)'
  BY <1>3, <1>6, <1>9, <1>12, TaskStays DEF DiscordInv, OnlyAt
<1> QED BY <1>15, <1>16, <1>17 DEF DiscordInv

\* It has waited too long.
LEMMA WaitRunsOutKeeps ==
  ASSUME DiscordInv, NEW t \in DiscordTaskIds, WaitRunsOut(t) PROVE DiscordInv'
<1>1. DiscordTypeOK /\ TaskInv(t)
  BY DEF DiscordInv
<1>2. workerAt[t] = "waiting" /\ ~unwinding[t] /\ windowOver[t]
  BY DEF WaitRunsOut, WorkerAt, WorkerGoes, SetsStatus, NothingFails, redisSide, cancelSide,
     DiscordFails, SpoilsTask, EditMessage, Unsubscribes
<1>3. recordStatus' = recordStatus /\ wasTold' = wasTold /\ unwinding' = unwinding /\ windowOver' = windowOver /\ gotPieces' = gotPieces /\ shownPieces' = shownPieces /\ announced' = announced /\ taskFaults' = taskFaults
  BY DEF WaitRunsOut, WorkerAt, WorkerGoes, SetsStatus, NothingFails, redisSide, cancelSide,
     DiscordFails, SpoilsTask, EditMessage, Unsubscribes
<1>4. recordStatus'[t] = recordStatus[t] /\ wasTold'[t] = wasTold[t] /\ unwinding'[t] = unwinding[t] /\ windowOver'[t] = windowOver[t] /\ gotPieces'[t] = gotPieces[t] /\ shownPieces'[t] = shownPieces[t] /\ announced'[t] = announced[t] /\ taskFaults'[t] = taskFaults[t]
  BY <1>3
<1>5. workerAt \in [DiscordTaskIds -> Places]
  BY <1>1 DEF DiscordTypeOK, Places
<1>6. workerAt' \in [DiscordTaskIds -> Places] /\ OnlyAt(t, workerAt, workerAt')
  BY <1>5 DEF WaitRunsOut, WorkerAt, WorkerGoes, SetsStatus, NothingFails, redisSide,
     cancelSide, DiscordFails, SpoilsTask, EditMessage, Unsubscribes, OnlyAt, Places,
     StreamStates
<1>7. workerAt'[t] = "cutting"
  BY <1>5, <1>6 DEF WaitRunsOut, WorkerAt, WorkerGoes, SetsStatus, NothingFails, redisSide,
     cancelSide, DiscordFails, SpoilsTask, EditMessage, Unsubscribes
<1>8. listening \in [DiscordTaskIds -> BOOLEAN]
  BY <1>1 DEF DiscordTypeOK
<1>9. listening' \in [DiscordTaskIds -> BOOLEAN] /\ OnlyAt(t, listening, listening')
  BY <1>8 DEF WaitRunsOut, WorkerAt, WorkerGoes, SetsStatus, NothingFails, redisSide,
     cancelSide, DiscordFails, SpoilsTask, EditMessage, Unsubscribes, OnlyAt
<1>10. listening'[t] = FALSE
  BY <1>8, <1>9 DEF WaitRunsOut, WorkerAt, WorkerGoes, SetsStatus, NothingFails, redisSide,
     cancelSide, DiscordFails, SpoilsTask, EditMessage, Unsubscribes
<1>11. notices \in [DiscordTaskIds -> 0..1]
  BY <1>1 DEF DiscordTypeOK
<1>12. notices' \in [DiscordTaskIds -> 0..1] /\ OnlyAt(t, notices, notices')
  BY <1>11, 0 \in 0..1, 1 \in 0..1 DEF WaitRunsOut, WorkerAt, WorkerGoes, SetsStatus,
     NothingFails, redisSide, cancelSide, DiscordFails, SpoilsTask, EditMessage, Unsubscribes,
     OnlyAt
<1>13. notices'[t] = 0
  BY <1>11, <1>12 DEF WaitRunsOut, WorkerAt, WorkerGoes, SetsStatus, NothingFails, redisSide,
     cancelSide, DiscordFails, SpoilsTask, EditMessage, Unsubscribes
<1>14. discordFaults' = discordFaults
  BY DEF WaitRunsOut, WorkerAt, WorkerGoes, SetsStatus, NothingFails, redisSide, cancelSide,
     DiscordFails, SpoilsTask, EditMessage, Unsubscribes
<1>15. DiscordTypeOK'
  BY <1>1, <1>3, <1>6, <1>9, <1>12, <1>14 DEF DiscordTypeOK, Statuses, Places, Announcements
<1>16. TaskInv(t)'
  <2>1. CancelledInv(t)'
    BY <1>1, <1>2, <1>4, <1>7, <1>10, <1>13 DEF TaskInv, CancelledInv, AtWork, StreamStates
  <2>2. PiecesInv(t)'
    BY <1>1, <1>2, <1>4, <1>7, <1>10, <1>13 DEF TaskInv, CancelledInv, PiecesInv, AtWork,
       StreamStates
  <2>3. WindowInv(t)'
    BY <1>1, <1>2, <1>4, <1>7, <1>10, <1>13 DEF TaskInv, CancelledInv, PiecesInv, WindowInv,
       AtWork, StreamStates
  <2>4. EndedInv(t)'
    BY <1>1, <1>2, <1>4, <1>7, <1>10, <1>13 DEF TaskInv, CancelledInv, PiecesInv, EndedInv,
       AtWork, StreamStates
  <2> QED BY <2>1, <2>2, <2>3, <2>4 DEF TaskInv
<1>17. \A u \in DiscordTaskIds : u # t => TaskInv(u)'
  BY <1>3, <1>6, <1>9, <1>12, TaskStays DEF DiscordInv, OnlyAt
<1> QED BY <1>15, <1>16, <1>17 DEF DiscordInv

\* It shows that.
LEMMA CutOffKeeps ==
  ASSUME DiscordInv, NEW t \in DiscordTaskIds, CutOff(t) PROVE DiscordInv'
<1>1. DiscordTypeOK /\ TaskInv(t)
  BY DEF DiscordInv
<1>2. workerAt[t] = "cutting" /\ ~unwinding[t]
  BY DEF CutOff, WorkerAt, WorkerGoes, SetsStatus, NothingFails, redisSide, cancelSide,
     DiscordFails, SpoilsTask, EditMessage, Unsubscribes
<1>3. wasTold' = wasTold /\ unwinding' = unwinding /\ windowOver' = windowOver /\ gotPieces' = gotPieces /\ listening' = listening /\ notices' = notices /\ announced' = announced
  BY DEF CutOff, WorkerAt, WorkerGoes, SetsStatus, NothingFails, redisSide, cancelSide,
     DiscordFails, SpoilsTask, EditMessage, Unsubscribes
<1>4. wasTold'[t] = wasTold[t] /\ unwinding'[t] = unwinding[t] /\ windowOver'[t] = windowOver[t] /\ gotPieces'[t] = gotPieces[t] /\ listening'[t] = listening[t] /\ notices'[t] = notices[t] /\ announced'[t] = announced[t]
  BY <1>3
<1>5. taskFaults \in [DiscordTaskIds -> SUBSET DiscordFaults]
  BY <1>1 DEF DiscordTypeOK
<1>6. taskFaults' \in [DiscordTaskIds -> SUBSET DiscordFaults] /\ OnlyAt(t, taskFaults, taskFaults')
  BY <1>5 DEF CutOff, WorkerAt, WorkerGoes, SetsStatus, NothingFails, redisSide, cancelSide,
     DiscordFails, SpoilsTask, EditMessage, Unsubscribes, OnlyAt, DiscordFaults
<1>7. taskFaults'[t] = taskFaults[t] \/ taskFaults'[t] = taskFaults[t] \union {"edit"}
  BY <1>5, <1>6 DEF CutOff, WorkerAt, WorkerGoes, SetsStatus, NothingFails, redisSide,
     cancelSide, DiscordFails, SpoilsTask, EditMessage, Unsubscribes
<1>8. workerAt \in [DiscordTaskIds -> Places]
  BY <1>1 DEF DiscordTypeOK, Places
<1>9. workerAt' \in [DiscordTaskIds -> Places] /\ OnlyAt(t, workerAt, workerAt')
  BY <1>8 DEF CutOff, WorkerAt, WorkerGoes, SetsStatus, NothingFails, redisSide, cancelSide,
     DiscordFails, SpoilsTask, EditMessage, Unsubscribes, OnlyAt, Places, StreamStates
<1>10. workerAt'[t] = "finishing"
  BY <1>8, <1>9 DEF CutOff, WorkerAt, WorkerGoes, SetsStatus, NothingFails, redisSide,
     cancelSide, DiscordFails, SpoilsTask, EditMessage, Unsubscribes
<1>11. recordStatus \in [DiscordTaskIds -> Statuses]
  BY <1>1 DEF DiscordTypeOK, Statuses
<1>12. recordStatus' \in [DiscordTaskIds -> Statuses] /\ OnlyAt(t, recordStatus, recordStatus')
  BY <1>11 DEF CutOff, WorkerAt, WorkerGoes, SetsStatus, NothingFails, redisSide, cancelSide,
     DiscordFails, SpoilsTask, EditMessage, Unsubscribes, OnlyAt, Statuses
<1>13. recordStatus'[t] = "truncated"
  BY <1>11, <1>12 DEF CutOff, WorkerAt, WorkerGoes, SetsStatus, NothingFails, redisSide,
     cancelSide, DiscordFails, SpoilsTask, EditMessage, Unsubscribes
<1>14. shownPieces \in [DiscordTaskIds -> 0..3]
  BY <1>1 DEF DiscordTypeOK
<1>15. shownPieces' \in [DiscordTaskIds -> 0..3] /\ OnlyAt(t, shownPieces, shownPieces')
  BY <1>14 DEF CutOff, WorkerAt, WorkerGoes, SetsStatus, NothingFails, redisSide, cancelSide,
     DiscordFails, SpoilsTask, EditMessage, Unsubscribes, OnlyAt
<1>16. shownPieces'[t] = 0 \/ (shownPieces'[t] = shownPieces[t] /\ "edit" \in taskFaults'[t])
  <2>1. CASE shownPieces' = [shownPieces EXCEPT ![t] = 0]
    <3>1. shownPieces'[t] = 0
      BY <1>14, <2>1
    <3> QED BY <3>1
  <2>2. CASE shownPieces' = shownPieces /\ taskFaults' = [taskFaults EXCEPT ![t] = @ \union {"edit"}]
    <3>1. shownPieces'[t] = shownPieces[t]
      BY <1>14, <2>2
    <3>2. "edit" \in taskFaults'[t]
      BY <1>5, <2>2
    <3> QED BY <3>1, <3>2
  <2> QED BY <2>1, <2>2 DEF CutOff, WorkerAt, WorkerGoes, SetsStatus, NothingFails, redisSide,
             cancelSide, DiscordFails, SpoilsTask, EditMessage, Unsubscribes
<1>17. discordFaults \in 0..MaxDiscordFaults
  BY <1>1 DEF DiscordTypeOK
<1>18. (discordFaults < MaxDiscordFaults /\ discordFaults' = discordFaults + 1) \/ discordFaults' = discordFaults
  BY DEF CutOff, WorkerAt, WorkerGoes, SetsStatus, NothingFails, redisSide, cancelSide,
     DiscordFails, SpoilsTask, EditMessage, Unsubscribes
<1>19. discordFaults' \in 0..MaxDiscordFaults
  BY <1>17, <1>18, DiscordAssumption
<1>20. DiscordTypeOK'
  BY <1>1, <1>3, <1>6, <1>9, <1>12, <1>15, <1>19 DEF DiscordTypeOK, Statuses, Places,
     Announcements
<1>21. TaskInv(t)'
  <2>1. CancelledInv(t)'
    BY <1>1, <1>2, <1>4, <1>7, <1>10, <1>13, <1>16 DEF TaskInv, CancelledInv, AtWork,
       StreamStates
  <2>2. PiecesInv(t)'
    BY <1>1, <1>2, <1>4, <1>7, <1>10, <1>13, <1>16 DEF TaskInv, CancelledInv, PiecesInv, AtWork,
       StreamStates
  <2>3. WindowInv(t)'
    BY <1>1, <1>2, <1>4, <1>7, <1>10, <1>13, <1>16 DEF TaskInv, CancelledInv, PiecesInv,
       WindowInv, AtWork, StreamStates
  <2>4. EndedInv(t)'
    BY <1>1, <1>2, <1>4, <1>7, <1>10, <1>13, <1>16 DEF TaskInv, CancelledInv, PiecesInv,
       EndedInv, AtWork, StreamStates
  <2> QED BY <2>1, <2>2, <2>3, <2>4 DEF TaskInv
<1>22. \A u \in DiscordTaskIds : u # t => TaskInv(u)'
  BY <1>3, <1>6, <1>9, <1>12, <1>15, TaskStays DEF DiscordInv, OnlyAt
<1> QED BY <1>20, <1>21, <1>22 DEF DiscordInv

\* It shows what came.
LEMMA ShowResultKeeps ==
  ASSUME DiscordInv, NEW t \in DiscordTaskIds, ShowResult(t) PROVE DiscordInv'
<1>1. DiscordTypeOK /\ TaskInv(t)
  BY DEF DiscordInv
<1>2. workerAt[t] = "showing" /\ ~unwinding[t]
  BY DEF ShowResult, WorkerAt, WorkerGoes, SetsStatus, NothingFails, redisSide, cancelSide,
     DiscordFails, SpoilsTask, EditMessage, Unsubscribes
<1>3. recordStatus' = recordStatus /\ wasTold' = wasTold /\ unwinding' = unwinding /\ windowOver' = windowOver /\ gotPieces' = gotPieces /\ listening' = listening /\ notices' = notices /\ announced' = announced
  BY DEF ShowResult, WorkerAt, WorkerGoes, SetsStatus, NothingFails, redisSide, cancelSide,
     DiscordFails, SpoilsTask, EditMessage, Unsubscribes
<1>4. recordStatus'[t] = recordStatus[t] /\ wasTold'[t] = wasTold[t] /\ unwinding'[t] = unwinding[t] /\ windowOver'[t] = windowOver[t] /\ gotPieces'[t] = gotPieces[t] /\ listening'[t] = listening[t] /\ notices'[t] = notices[t] /\ announced'[t] = announced[t]
  BY <1>3
<1>5. taskFaults \in [DiscordTaskIds -> SUBSET DiscordFaults]
  BY <1>1 DEF DiscordTypeOK
<1>6. taskFaults' \in [DiscordTaskIds -> SUBSET DiscordFaults] /\ OnlyAt(t, taskFaults, taskFaults')
  BY <1>5 DEF ShowResult, WorkerAt, WorkerGoes, SetsStatus, NothingFails, redisSide, cancelSide,
     DiscordFails, SpoilsTask, EditMessage, Unsubscribes, OnlyAt, DiscordFaults
<1>7. taskFaults'[t] = taskFaults[t] \/ taskFaults'[t] = taskFaults[t] \union {"edit"}
  BY <1>5, <1>6 DEF ShowResult, WorkerAt, WorkerGoes, SetsStatus, NothingFails, redisSide,
     cancelSide, DiscordFails, SpoilsTask, EditMessage, Unsubscribes
<1>8. workerAt \in [DiscordTaskIds -> Places]
  BY <1>1 DEF DiscordTypeOK, Places
<1>9. workerAt' \in [DiscordTaskIds -> Places] /\ OnlyAt(t, workerAt, workerAt')
  BY <1>8 DEF ShowResult, WorkerAt, WorkerGoes, SetsStatus, NothingFails, redisSide, cancelSide,
     DiscordFails, SpoilsTask, EditMessage, Unsubscribes, OnlyAt, Places, StreamStates
<1>10. workerAt'[t] = IF gotPieces[t] = 1 THEN "flushing" ELSE "splitting"
  BY <1>8, <1>9 DEF ShowResult, WorkerAt, WorkerGoes, SetsStatus, NothingFails, redisSide,
     cancelSide, DiscordFails, SpoilsTask, EditMessage, Unsubscribes
<1>11. shownPieces \in [DiscordTaskIds -> 0..3]
  BY <1>1 DEF DiscordTypeOK
<1>12. shownPieces' \in [DiscordTaskIds -> 0..3] /\ OnlyAt(t, shownPieces, shownPieces')
  BY <1>11 DEF ShowResult, WorkerAt, WorkerGoes, SetsStatus, NothingFails, redisSide,
     cancelSide, DiscordFails, SpoilsTask, EditMessage, Unsubscribes, OnlyAt
<1>13. (gotPieces[t] = 1 /\ shownPieces'[t] = shownPieces[t]) \/ shownPieces'[t] = 1 \/ (shownPieces'[t] = shownPieces[t] /\ "edit" \in taskFaults'[t])
  <2>1. CASE gotPieces[t] = 1 /\ shownPieces' = shownPieces
    <3>1. gotPieces[t] = 1
      BY <2>1
    <3>2. shownPieces'[t] = shownPieces[t]
      BY <1>11, <2>1
    <3> QED BY <3>1, <3>2
  <2>2. CASE gotPieces[t] # 1 /\ shownPieces' = [shownPieces EXCEPT ![t] = 1]
    <3>1. gotPieces[t] # 1
      BY <2>2
    <3>2. shownPieces'[t] = 1
      BY <1>11, <2>2
    <3> QED BY <3>1, <3>2
  <2>3. CASE gotPieces[t] # 1 /\ shownPieces' = shownPieces /\ taskFaults' = [taskFaults EXCEPT ![t] = @ \union {"edit"}]
    <3>1. gotPieces[t] # 1
      BY <2>3
    <3>2. shownPieces'[t] = shownPieces[t]
      BY <1>11, <2>3
    <3>3. "edit" \in taskFaults'[t]
      BY <1>5, <2>3
    <3> QED BY <3>1, <3>2, <3>3
  <2> QED BY <2>1, <2>2, <2>3 DEF ShowResult, WorkerAt, WorkerGoes, SetsStatus, NothingFails,
             redisSide, cancelSide, DiscordFails, SpoilsTask, EditMessage, Unsubscribes
<1>14. discordFaults \in 0..MaxDiscordFaults
  BY <1>1 DEF DiscordTypeOK
<1>15. (discordFaults < MaxDiscordFaults /\ discordFaults' = discordFaults + 1) \/ discordFaults' = discordFaults
  BY DEF ShowResult, WorkerAt, WorkerGoes, SetsStatus, NothingFails, redisSide, cancelSide,
     DiscordFails, SpoilsTask, EditMessage, Unsubscribes
<1>16. discordFaults' \in 0..MaxDiscordFaults
  BY <1>14, <1>15, DiscordAssumption
<1>17. DiscordTypeOK'
  BY <1>1, <1>3, <1>6, <1>9, <1>12, <1>16 DEF DiscordTypeOK, Statuses, Places, Announcements
<1>18. TaskInv(t)'
  <2>1. CancelledInv(t)'
    BY <1>1, <1>2, <1>4, <1>7, <1>10, <1>13 DEF TaskInv, CancelledInv, AtWork, StreamStates
  <2>2. PiecesInv(t)'
    BY <1>1, <1>2, <1>4, <1>7, <1>10, <1>13 DEF TaskInv, CancelledInv, PiecesInv, AtWork,
       StreamStates
  <2>3. WindowInv(t)'
    BY <1>1, <1>2, <1>4, <1>7, <1>10, <1>13 DEF TaskInv, CancelledInv, PiecesInv, WindowInv,
       AtWork, StreamStates
  <2>4. EndedInv(t)'
    BY <1>1, <1>2, <1>4, <1>7, <1>10, <1>13 DEF TaskInv, CancelledInv, PiecesInv, EndedInv,
       AtWork, StreamStates
  <2> QED BY <2>1, <2>2, <2>3, <2>4 DEF TaskInv
<1>19. \A u \in DiscordTaskIds : u # t => TaskInv(u)'
  BY <1>3, <1>6, <1>9, <1>12, TaskStays DEF DiscordInv, OnlyAt
<1> QED BY <1>17, <1>18, <1>19 DEF DiscordInv

\* It shows the rest.
LEMMA SplitMessageKeeps ==
  ASSUME DiscordInv, NEW t \in DiscordTaskIds, SplitMessage(t) PROVE DiscordInv'
<1>1. DiscordTypeOK /\ TaskInv(t)
  BY DEF DiscordInv
<1>2. workerAt[t] = "splitting" /\ ~unwinding[t]
  BY DEF SplitMessage, WorkerAt, WorkerGoes, SetsStatus, NothingFails, redisSide, cancelSide,
     DiscordFails, SpoilsTask, EditMessage, Unsubscribes
<1>3. wasTold' = wasTold /\ unwinding' = unwinding /\ windowOver' = windowOver /\ gotPieces' = gotPieces /\ listening' = listening /\ notices' = notices /\ announced' = announced /\ taskFaults' = taskFaults
  BY DEF SplitMessage, WorkerAt, WorkerGoes, SetsStatus, NothingFails, redisSide, cancelSide,
     DiscordFails, SpoilsTask, EditMessage, Unsubscribes
<1>4. wasTold'[t] = wasTold[t] /\ unwinding'[t] = unwinding[t] /\ windowOver'[t] = windowOver[t] /\ gotPieces'[t] = gotPieces[t] /\ listening'[t] = listening[t] /\ notices'[t] = notices[t] /\ announced'[t] = announced[t] /\ taskFaults'[t] = taskFaults[t]
  BY <1>3
<1>5. workerAt \in [DiscordTaskIds -> Places]
  BY <1>1 DEF DiscordTypeOK, Places
<1>6. workerAt' \in [DiscordTaskIds -> Places] /\ OnlyAt(t, workerAt, workerAt')
  BY <1>5 DEF SplitMessage, WorkerAt, WorkerGoes, SetsStatus, NothingFails, redisSide,
     cancelSide, DiscordFails, SpoilsTask, EditMessage, Unsubscribes, OnlyAt, Places,
     StreamStates
<1>7. workerAt'[t] = IF gotPieces[t] = 2 THEN "flushing" ELSE "finishing"
  BY <1>5, <1>6 DEF SplitMessage, WorkerAt, WorkerGoes, SetsStatus, NothingFails, redisSide,
     cancelSide, DiscordFails, SpoilsTask, EditMessage, Unsubscribes
<1>8. recordStatus \in [DiscordTaskIds -> Statuses]
  BY <1>1 DEF DiscordTypeOK, Statuses
<1>9. recordStatus' \in [DiscordTaskIds -> Statuses] /\ OnlyAt(t, recordStatus, recordStatus')
  BY <1>8 DEF SplitMessage, WorkerAt, WorkerGoes, SetsStatus, NothingFails, redisSide,
     cancelSide, DiscordFails, SpoilsTask, EditMessage, Unsubscribes, OnlyAt, Statuses
<1>10. recordStatus'[t] = IF gotPieces[t] = 2 THEN recordStatus[t] ELSE "failed"
  BY <1>8, <1>9 DEF SplitMessage, WorkerAt, WorkerGoes, SetsStatus, NothingFails, redisSide,
     cancelSide, DiscordFails, SpoilsTask, EditMessage, Unsubscribes
<1>11. shownPieces \in [DiscordTaskIds -> 0..3]
  BY <1>1 DEF DiscordTypeOK
<1>12. shownPieces' \in [DiscordTaskIds -> 0..3] /\ OnlyAt(t, shownPieces, shownPieces')
  BY <1>11, <1>1, <1>2 DEF SplitMessage, WorkerAt, WorkerGoes, SetsStatus, NothingFails,
     redisSide, cancelSide, DiscordFails, SpoilsTask, EditMessage, Unsubscribes, OnlyAt,
     TaskInv, PiecesInv
<1>13. shownPieces'[t] = IF gotPieces[t] = 2 THEN shownPieces[t] + 1 ELSE shownPieces[t]
  BY <1>11, <1>12 DEF SplitMessage, WorkerAt, WorkerGoes, SetsStatus, NothingFails, redisSide,
     cancelSide, DiscordFails, SpoilsTask, EditMessage, Unsubscribes
<1>14. discordFaults' = discordFaults
  BY DEF SplitMessage, WorkerAt, WorkerGoes, SetsStatus, NothingFails, redisSide, cancelSide,
     DiscordFails, SpoilsTask, EditMessage, Unsubscribes
<1>15. DiscordTypeOK'
  BY <1>1, <1>3, <1>6, <1>9, <1>12, <1>14 DEF DiscordTypeOK, Statuses, Places, Announcements
<1>16. TaskInv(t)'
  <2>1. CancelledInv(t)'
    BY <1>1, <1>2, <1>4, <1>7, <1>10, <1>13 DEF TaskInv, CancelledInv, AtWork, StreamStates
  <2>2. PiecesInv(t)'
    BY <1>1, <1>2, <1>4, <1>7, <1>10, <1>13 DEF TaskInv, CancelledInv, PiecesInv, AtWork,
       StreamStates
  <2>3. WindowInv(t)'
    BY <1>1, <1>2, <1>4, <1>7, <1>10, <1>13 DEF TaskInv, CancelledInv, PiecesInv, WindowInv,
       AtWork, StreamStates
  <2>4. EndedInv(t)'
    BY <1>1, <1>2, <1>4, <1>7, <1>10, <1>13 DEF TaskInv, CancelledInv, PiecesInv, EndedInv,
       AtWork, StreamStates
  <2> QED BY <2>1, <2>2, <2>3, <2>4 DEF TaskInv
<1>17. \A u \in DiscordTaskIds : u # t => TaskInv(u)'
  BY <1>3, <1>6, <1>9, <1>12, TaskStays DEF DiscordInv, OnlyAt
<1> QED BY <1>15, <1>16, <1>17 DEF DiscordInv

\* It is done with it.
LEMMA FlushMessageKeeps ==
  ASSUME DiscordInv, NEW t \in DiscordTaskIds, FlushMessage(t) PROVE DiscordInv'
<1>1. DiscordTypeOK /\ TaskInv(t)
  BY DEF DiscordInv
<1>2. workerAt[t] = "flushing" /\ ~unwinding[t]
  BY DEF FlushMessage, WorkerAt, WorkerGoes, SetsStatus, NothingFails, redisSide, cancelSide,
     DiscordFails, SpoilsTask, EditMessage, Unsubscribes
<1>3. recordStatus' = recordStatus /\ wasTold' = wasTold /\ unwinding' = unwinding /\ windowOver' = windowOver /\ gotPieces' = gotPieces /\ listening' = listening /\ notices' = notices /\ announced' = announced
  BY DEF FlushMessage, WorkerAt, WorkerGoes, SetsStatus, NothingFails, redisSide, cancelSide,
     DiscordFails, SpoilsTask, EditMessage, Unsubscribes
<1>4. recordStatus'[t] = recordStatus[t] /\ wasTold'[t] = wasTold[t] /\ unwinding'[t] = unwinding[t] /\ windowOver'[t] = windowOver[t] /\ gotPieces'[t] = gotPieces[t] /\ listening'[t] = listening[t] /\ notices'[t] = notices[t] /\ announced'[t] = announced[t]
  BY <1>3
<1>5. taskFaults \in [DiscordTaskIds -> SUBSET DiscordFaults]
  BY <1>1 DEF DiscordTypeOK
<1>6. taskFaults' \in [DiscordTaskIds -> SUBSET DiscordFaults] /\ OnlyAt(t, taskFaults, taskFaults')
  BY <1>5 DEF FlushMessage, WorkerAt, WorkerGoes, SetsStatus, NothingFails, redisSide,
     cancelSide, DiscordFails, SpoilsTask, EditMessage, Unsubscribes, OnlyAt, DiscordFaults
<1>7. taskFaults'[t] = taskFaults[t] \/ taskFaults'[t] = taskFaults[t] \union {"edit"}
  BY <1>5, <1>6 DEF FlushMessage, WorkerAt, WorkerGoes, SetsStatus, NothingFails, redisSide,
     cancelSide, DiscordFails, SpoilsTask, EditMessage, Unsubscribes
<1>8. workerAt \in [DiscordTaskIds -> Places]
  BY <1>1 DEF DiscordTypeOK, Places
<1>9. workerAt' \in [DiscordTaskIds -> Places] /\ OnlyAt(t, workerAt, workerAt')
  BY <1>8 DEF FlushMessage, WorkerAt, WorkerGoes, SetsStatus, NothingFails, redisSide,
     cancelSide, DiscordFails, SpoilsTask, EditMessage, Unsubscribes, OnlyAt, Places,
     StreamStates
<1>10. workerAt'[t] = "finishing"
  BY <1>8, <1>9 DEF FlushMessage, WorkerAt, WorkerGoes, SetsStatus, NothingFails, redisSide,
     cancelSide, DiscordFails, SpoilsTask, EditMessage, Unsubscribes
<1>11. shownPieces \in [DiscordTaskIds -> 0..3]
  BY <1>1 DEF DiscordTypeOK
<1>12. shownPieces' \in [DiscordTaskIds -> 0..3] /\ OnlyAt(t, shownPieces, shownPieces')
  BY <1>11 DEF FlushMessage, WorkerAt, WorkerGoes, SetsStatus, NothingFails, redisSide,
     cancelSide, DiscordFails, SpoilsTask, EditMessage, Unsubscribes, OnlyAt
<1>13. (gotPieces[t] # 1 /\ shownPieces'[t] = shownPieces[t]) \/ (gotPieces[t] = 1 /\ (shownPieces'[t] = 1 \/ (shownPieces'[t] = shownPieces[t] /\ "edit" \in taskFaults'[t])))
  <2>1. CASE gotPieces[t] # 1 /\ shownPieces' = shownPieces
    <3>1. gotPieces[t] # 1
      BY <2>1
    <3>2. shownPieces'[t] = shownPieces[t]
      BY <1>11, <2>1
    <3> QED BY <3>1, <3>2
  <2>2. CASE gotPieces[t] = 1 /\ shownPieces' = [shownPieces EXCEPT ![t] = 1]
    <3>1. gotPieces[t] = 1
      BY <2>2
    <3>2. shownPieces'[t] = 1
      BY <1>11, <2>2
    <3> QED BY <3>1, <3>2
  <2>3. CASE gotPieces[t] = 1 /\ shownPieces' = shownPieces /\ taskFaults' = [taskFaults EXCEPT ![t] = @ \union {"edit"}]
    <3>1. gotPieces[t] = 1
      BY <2>3
    <3>2. shownPieces'[t] = shownPieces[t]
      BY <1>11, <2>3
    <3>3. "edit" \in taskFaults'[t]
      BY <1>5, <2>3
    <3> QED BY <3>1, <3>2, <3>3
  <2> QED BY <2>1, <2>2, <2>3 DEF FlushMessage, WorkerAt, WorkerGoes, SetsStatus, NothingFails,
             redisSide, cancelSide, DiscordFails, SpoilsTask, EditMessage, Unsubscribes
<1>14. discordFaults \in 0..MaxDiscordFaults
  BY <1>1 DEF DiscordTypeOK
<1>15. (discordFaults < MaxDiscordFaults /\ discordFaults' = discordFaults + 1) \/ discordFaults' = discordFaults
  BY DEF FlushMessage, WorkerAt, WorkerGoes, SetsStatus, NothingFails, redisSide, cancelSide,
     DiscordFails, SpoilsTask, EditMessage, Unsubscribes
<1>16. discordFaults' \in 0..MaxDiscordFaults
  BY <1>14, <1>15, DiscordAssumption
<1>17. DiscordTypeOK'
  BY <1>1, <1>3, <1>6, <1>9, <1>12, <1>16 DEF DiscordTypeOK, Statuses, Places, Announcements
<1>18. TaskInv(t)'
  <2>1. CancelledInv(t)'
    BY <1>1, <1>2, <1>4, <1>7, <1>10, <1>13 DEF TaskInv, CancelledInv, AtWork, StreamStates
  <2>2. PiecesInv(t)'
    BY <1>1, <1>2, <1>4, <1>7, <1>10, <1>13 DEF TaskInv, CancelledInv, PiecesInv, AtWork,
       StreamStates
  <2>3. WindowInv(t)'
    BY <1>1, <1>2, <1>4, <1>7, <1>10, <1>13 DEF TaskInv, CancelledInv, PiecesInv, WindowInv,
       AtWork, StreamStates
  <2>4. EndedInv(t)'
    BY <1>1, <1>2, <1>4, <1>7, <1>10, <1>13 DEF TaskInv, CancelledInv, PiecesInv, EndedInv,
       AtWork, StreamStates
  <2> QED BY <2>1, <2>2, <2>3, <2>4 DEF TaskInv
<1>19. \A u \in DiscordTaskIds : u # t => TaskInv(u)'
  BY <1>3, <1>6, <1>9, <1>12, TaskStays DEF DiscordInv, OnlyAt
<1> QED BY <1>17, <1>18, <1>19 DEF DiscordInv

\* A call fails.
LEMMA StreamRaisesKeeps ==
  ASSUME DiscordInv, NEW t \in DiscordTaskIds, StreamRaises(t) PROVE DiscordInv'
<1>1. DiscordTypeOK /\ TaskInv(t)
  BY DEF DiscordInv
<1>2. AtWork(workerAt[t]) /\ ~unwinding[t]
  BY DEF StreamRaises, WorkerAt, WorkerGoes, SetsStatus, NothingFails, redisSide, cancelSide,
     DiscordFails, SpoilsTask, EditMessage, Unsubscribes, AtWork, StreamStates
<1>3. wasTold' = wasTold /\ unwinding' = unwinding /\ windowOver' = windowOver /\ gotPieces' = gotPieces /\ shownPieces' = shownPieces /\ announced' = announced /\ taskFaults' = taskFaults
  BY DEF StreamRaises, WorkerAt, WorkerGoes, SetsStatus, NothingFails, redisSide, cancelSide,
     DiscordFails, SpoilsTask, EditMessage, Unsubscribes
<1>4. wasTold'[t] = wasTold[t] /\ unwinding'[t] = unwinding[t] /\ windowOver'[t] = windowOver[t] /\ gotPieces'[t] = gotPieces[t] /\ shownPieces'[t] = shownPieces[t] /\ announced'[t] = announced[t] /\ taskFaults'[t] = taskFaults[t]
  BY <1>3
<1>5. workerAt \in [DiscordTaskIds -> Places]
  BY <1>1 DEF DiscordTypeOK, Places
<1>6. workerAt' \in [DiscordTaskIds -> Places] /\ OnlyAt(t, workerAt, workerAt')
  BY <1>5 DEF StreamRaises, WorkerAt, WorkerGoes, SetsStatus, NothingFails, redisSide,
     cancelSide, DiscordFails, SpoilsTask, EditMessage, Unsubscribes, OnlyAt, Places,
     StreamStates
<1>7. workerAt'[t] = "finishing"
  BY <1>5, <1>6 DEF StreamRaises, WorkerAt, WorkerGoes, SetsStatus, NothingFails, redisSide,
     cancelSide, DiscordFails, SpoilsTask, EditMessage, Unsubscribes
<1>8. recordStatus \in [DiscordTaskIds -> Statuses]
  BY <1>1 DEF DiscordTypeOK, Statuses
<1>9. recordStatus' \in [DiscordTaskIds -> Statuses] /\ OnlyAt(t, recordStatus, recordStatus')
  BY <1>8 DEF StreamRaises, WorkerAt, WorkerGoes, SetsStatus, NothingFails, redisSide,
     cancelSide, DiscordFails, SpoilsTask, EditMessage, Unsubscribes, OnlyAt, Statuses
<1>10. recordStatus'[t] = "failed"
  BY <1>8, <1>9 DEF StreamRaises, WorkerAt, WorkerGoes, SetsStatus, NothingFails, redisSide,
     cancelSide, DiscordFails, SpoilsTask, EditMessage, Unsubscribes
<1>11. listening \in [DiscordTaskIds -> BOOLEAN]
  BY <1>1 DEF DiscordTypeOK
<1>12. listening' \in [DiscordTaskIds -> BOOLEAN] /\ OnlyAt(t, listening, listening')
  BY <1>11 DEF StreamRaises, WorkerAt, WorkerGoes, SetsStatus, NothingFails, redisSide,
     cancelSide, DiscordFails, SpoilsTask, EditMessage, Unsubscribes, OnlyAt
<1>13. listening'[t] = FALSE
  BY <1>11, <1>12 DEF StreamRaises, WorkerAt, WorkerGoes, SetsStatus, NothingFails, redisSide,
     cancelSide, DiscordFails, SpoilsTask, EditMessage, Unsubscribes
<1>14. notices \in [DiscordTaskIds -> 0..1]
  BY <1>1 DEF DiscordTypeOK
<1>15. notices' \in [DiscordTaskIds -> 0..1] /\ OnlyAt(t, notices, notices')
  BY <1>14, 0 \in 0..1, 1 \in 0..1 DEF StreamRaises, WorkerAt, WorkerGoes, SetsStatus,
     NothingFails, redisSide, cancelSide, DiscordFails, SpoilsTask, EditMessage, Unsubscribes,
     OnlyAt
<1>16. notices'[t] = 0
  BY <1>14, <1>15 DEF StreamRaises, WorkerAt, WorkerGoes, SetsStatus, NothingFails, redisSide,
     cancelSide, DiscordFails, SpoilsTask, EditMessage, Unsubscribes
<1>17. discordFaults \in 0..MaxDiscordFaults
  BY <1>1 DEF DiscordTypeOK
<1>18. (discordFaults < MaxDiscordFaults /\ discordFaults' = discordFaults + 1) \/ discordFaults' = discordFaults
  BY DEF StreamRaises, WorkerAt, WorkerGoes, SetsStatus, NothingFails, redisSide, cancelSide,
     DiscordFails, SpoilsTask, EditMessage, Unsubscribes
<1>19. discordFaults' \in 0..MaxDiscordFaults
  BY <1>17, <1>18, DiscordAssumption
<1>20. DiscordTypeOK'
  BY <1>1, <1>3, <1>6, <1>9, <1>12, <1>15, <1>19 DEF DiscordTypeOK, Statuses, Places,
     Announcements
<1>21. TaskInv(t)'
  <2>1. CancelledInv(t)'
    BY <1>1, <1>2, <1>4, <1>7, <1>10, <1>13, <1>16 DEF TaskInv, CancelledInv, AtWork,
       StreamStates
  <2>2. PiecesInv(t)'
    BY <1>1, <1>2, <1>4, <1>7, <1>10, <1>13, <1>16 DEF TaskInv, CancelledInv, PiecesInv, AtWork,
       StreamStates
  <2>3. WindowInv(t)'
    BY <1>1, <1>2, <1>4, <1>7, <1>10, <1>13, <1>16 DEF TaskInv, CancelledInv, PiecesInv,
       WindowInv, AtWork, StreamStates
  <2>4. EndedInv(t)'
    BY <1>1, <1>2, <1>4, <1>7, <1>10, <1>13, <1>16 DEF TaskInv, CancelledInv, PiecesInv,
       EndedInv, AtWork, StreamStates
  <2> QED BY <2>1, <2>2, <2>3, <2>4 DEF TaskInv
<1>22. \A u \in DiscordTaskIds : u # t => TaskInv(u)'
  BY <1>3, <1>6, <1>9, <1>12, <1>15, TaskStays DEF DiscordInv, OnlyAt
<1> QED BY <1>20, <1>21, <1>22 DEF DiscordInv

\* The record ends.
LEMMA FinishTaskKeeps ==
  ASSUME DiscordInv, NEW t \in DiscordTaskIds, FinishTask(t) PROVE DiscordInv'
<1>1. DiscordTypeOK /\ TaskInv(t)
  BY DEF DiscordInv
<1>2. workerAt[t] = "finishing" /\ ~unwinding[t]
  BY DEF FinishTask, WorkerAt, WorkerGoes, SetsStatus, NothingFails, redisSide, cancelSide,
     DiscordFails, SpoilsTask, EditMessage, Unsubscribes
<1>3. wasTold' = wasTold /\ unwinding' = unwinding /\ windowOver' = windowOver /\ gotPieces' = gotPieces /\ listening' = listening /\ notices' = notices /\ shownPieces' = shownPieces /\ announced' = announced /\ taskFaults' = taskFaults
  BY DEF FinishTask, WorkerAt, WorkerGoes, SetsStatus, NothingFails, redisSide, cancelSide,
     DiscordFails, SpoilsTask, EditMessage, Unsubscribes
<1>4. wasTold'[t] = wasTold[t] /\ unwinding'[t] = unwinding[t] /\ windowOver'[t] = windowOver[t] /\ gotPieces'[t] = gotPieces[t] /\ listening'[t] = listening[t] /\ notices'[t] = notices[t] /\ shownPieces'[t] = shownPieces[t] /\ announced'[t] = announced[t] /\ taskFaults'[t] = taskFaults[t]
  BY <1>3
<1>5. workerAt \in [DiscordTaskIds -> Places]
  BY <1>1 DEF DiscordTypeOK, Places
<1>6. workerAt' \in [DiscordTaskIds -> Places] /\ OnlyAt(t, workerAt, workerAt')
  BY <1>5 DEF FinishTask, WorkerAt, WorkerGoes, SetsStatus, NothingFails, redisSide, cancelSide,
     DiscordFails, SpoilsTask, EditMessage, Unsubscribes, OnlyAt, Places, StreamStates
<1>7. workerAt'[t] = "notifying"
  BY <1>5, <1>6 DEF FinishTask, WorkerAt, WorkerGoes, SetsStatus, NothingFails, redisSide,
     cancelSide, DiscordFails, SpoilsTask, EditMessage, Unsubscribes
<1>8. recordStatus \in [DiscordTaskIds -> Statuses]
  BY <1>1 DEF DiscordTypeOK, Statuses
<1>9. recordStatus' \in [DiscordTaskIds -> Statuses] /\ OnlyAt(t, recordStatus, recordStatus')
  BY <1>8 DEF FinishTask, WorkerAt, WorkerGoes, SetsStatus, NothingFails, redisSide, cancelSide,
     DiscordFails, SpoilsTask, EditMessage, Unsubscribes, OnlyAt, Statuses
<1>10. recordStatus'[t] = IF recordStatus[t] = "running" THEN "completed" ELSE recordStatus[t]
  BY <1>8, <1>9 DEF FinishTask, WorkerAt, WorkerGoes, SetsStatus, NothingFails, redisSide,
     cancelSide, DiscordFails, SpoilsTask, EditMessage, Unsubscribes
<1>11. discordFaults' = discordFaults
  BY DEF FinishTask, WorkerAt, WorkerGoes, SetsStatus, NothingFails, redisSide, cancelSide,
     DiscordFails, SpoilsTask, EditMessage, Unsubscribes
<1>12. DiscordTypeOK'
  BY <1>1, <1>3, <1>6, <1>9, <1>11 DEF DiscordTypeOK, Statuses, Places, Announcements
<1>13. TaskInv(t)'
  <2>1. CancelledInv(t)'
    BY <1>1, <1>2, <1>4, <1>7, <1>10 DEF TaskInv, CancelledInv, AtWork, StreamStates
  <2>2. PiecesInv(t)'
    BY <1>1, <1>2, <1>4, <1>7, <1>10 DEF TaskInv, CancelledInv, PiecesInv, AtWork, StreamStates
  <2>3. WindowInv(t)'
    BY <1>1, <1>2, <1>4, <1>7, <1>10 DEF TaskInv, CancelledInv, PiecesInv, WindowInv, AtWork,
       StreamStates
  <2>4. EndedInv(t)'
    BY <1>1, <1>2, <1>4, <1>7, <1>10 DEF TaskInv, CancelledInv, PiecesInv, EndedInv, AtWork,
       StreamStates
  <2> QED BY <2>1, <2>2, <2>3, <2>4 DEF TaskInv
<1>14. \A u \in DiscordTaskIds : u # t => TaskInv(u)'
  BY <1>3, <1>6, <1>9, TaskStays DEF DiscordInv, OnlyAt
<1> QED BY <1>12, <1>13, <1>14 DEF DiscordInv

\* The worker ends.
LEMMA NotifyCompletionKeeps ==
  ASSUME DiscordInv, NEW t \in DiscordTaskIds, NotifyCompletion(t) PROVE DiscordInv'
<1>1. DiscordTypeOK /\ TaskInv(t)
  BY DEF DiscordInv
<1>2. workerAt[t] = "notifying" /\ ~unwinding[t]
  BY DEF NotifyCompletion, WorkerAt, WorkerGoes, SetsStatus, NothingFails, redisSide,
     cancelSide, DiscordFails, SpoilsTask, EditMessage, Unsubscribes
<1>3. recordStatus' = recordStatus /\ wasTold' = wasTold /\ unwinding' = unwinding /\ windowOver' = windowOver /\ gotPieces' = gotPieces /\ listening' = listening /\ notices' = notices /\ shownPieces' = shownPieces /\ announced' = announced /\ taskFaults' = taskFaults
  BY DEF NotifyCompletion, WorkerAt, WorkerGoes, SetsStatus, NothingFails, redisSide,
     cancelSide, DiscordFails, SpoilsTask, EditMessage, Unsubscribes
<1>4. recordStatus'[t] = recordStatus[t] /\ wasTold'[t] = wasTold[t] /\ unwinding'[t] = unwinding[t] /\ windowOver'[t] = windowOver[t] /\ gotPieces'[t] = gotPieces[t] /\ listening'[t] = listening[t] /\ notices'[t] = notices[t] /\ shownPieces'[t] = shownPieces[t] /\ announced'[t] = announced[t] /\ taskFaults'[t] = taskFaults[t]
  BY <1>3
<1>5. workerAt \in [DiscordTaskIds -> Places]
  BY <1>1 DEF DiscordTypeOK, Places
<1>6. workerAt' \in [DiscordTaskIds -> Places] /\ OnlyAt(t, workerAt, workerAt')
  BY <1>5 DEF NotifyCompletion, WorkerAt, WorkerGoes, SetsStatus, NothingFails, redisSide,
     cancelSide, DiscordFails, SpoilsTask, EditMessage, Unsubscribes, OnlyAt, Places,
     StreamStates
<1>7. workerAt'[t] = "over"
  BY <1>5, <1>6 DEF NotifyCompletion, WorkerAt, WorkerGoes, SetsStatus, NothingFails, redisSide,
     cancelSide, DiscordFails, SpoilsTask, EditMessage, Unsubscribes
<1>8. discordFaults' = discordFaults
  BY DEF NotifyCompletion, WorkerAt, WorkerGoes, SetsStatus, NothingFails, redisSide,
     cancelSide, DiscordFails, SpoilsTask, EditMessage, Unsubscribes
<1>9. DiscordTypeOK'
  BY <1>1, <1>3, <1>6, <1>8 DEF DiscordTypeOK, Statuses, Places, Announcements
<1>10. TaskInv(t)'
  <2>1. CancelledInv(t)'
    BY <1>1, <1>2, <1>4, <1>7 DEF TaskInv, CancelledInv, AtWork, StreamStates
  <2>2. PiecesInv(t)'
    BY <1>1, <1>2, <1>4, <1>7 DEF TaskInv, CancelledInv, PiecesInv, AtWork, StreamStates
  <2>3. WindowInv(t)'
    BY <1>1, <1>2, <1>4, <1>7 DEF TaskInv, CancelledInv, PiecesInv, WindowInv, AtWork,
       StreamStates
  <2>4. EndedInv(t)'
    BY <1>1, <1>2, <1>4, <1>7 DEF TaskInv, CancelledInv, PiecesInv, EndedInv, AtWork,
       StreamStates
  <2> QED BY <2>1, <2>2, <2>3, <2>4 DEF TaskInv
<1>11. \A u \in DiscordTaskIds : u # t => TaskInv(u)'
  BY <1>3, <1>6, TaskStays DEF DiscordInv, OnlyAt
<1> QED BY <1>9, <1>10, <1>11 DEF DiscordInv

\* The user cancels the task.
LEMMA CancelDiscordTaskKeeps ==
  ASSUME DiscordInv, NEW t \in DiscordTaskIds, CancelDiscordTask(t) PROVE DiscordInv'
<1>1. DiscordTypeOK /\ TaskInv(t)
  BY DEF DiscordInv
<1>2. recordStatus[t] = "running" /\ workerAt[t] \notin {"finishing", "over"}
  BY DEF CancelDiscordTask, WorkerAt, WorkerGoes, SetsStatus, NothingFails, redisSide,
     cancelSide, DiscordFails, SpoilsTask, EditMessage, Unsubscribes
<1>3. workerAt' = workerAt /\ windowOver' = windowOver /\ gotPieces' = gotPieces /\ listening' = listening /\ notices' = notices /\ shownPieces' = shownPieces /\ announced' = announced /\ taskFaults' = taskFaults
  BY DEF CancelDiscordTask, WorkerAt, WorkerGoes, SetsStatus, NothingFails, redisSide,
     cancelSide, DiscordFails, SpoilsTask, EditMessage, Unsubscribes
<1>4. workerAt'[t] = workerAt[t] /\ windowOver'[t] = windowOver[t] /\ gotPieces'[t] = gotPieces[t] /\ listening'[t] = listening[t] /\ notices'[t] = notices[t] /\ shownPieces'[t] = shownPieces[t] /\ announced'[t] = announced[t] /\ taskFaults'[t] = taskFaults[t]
  BY <1>3
<1>5. recordStatus \in [DiscordTaskIds -> Statuses]
  BY <1>1 DEF DiscordTypeOK, Statuses
<1>6. recordStatus' \in [DiscordTaskIds -> Statuses] /\ OnlyAt(t, recordStatus, recordStatus')
  BY <1>5 DEF CancelDiscordTask, WorkerAt, WorkerGoes, SetsStatus, NothingFails, redisSide,
     cancelSide, DiscordFails, SpoilsTask, EditMessage, Unsubscribes, OnlyAt, Statuses
<1>7. recordStatus'[t] = "cancelled"
  BY <1>5, <1>6 DEF CancelDiscordTask, WorkerAt, WorkerGoes, SetsStatus, NothingFails,
     redisSide, cancelSide, DiscordFails, SpoilsTask, EditMessage, Unsubscribes
<1>8. wasTold \in [DiscordTaskIds -> BOOLEAN]
  BY <1>1 DEF DiscordTypeOK
<1>9. wasTold' \in [DiscordTaskIds -> BOOLEAN] /\ OnlyAt(t, wasTold, wasTold')
  BY <1>8 DEF CancelDiscordTask, WorkerAt, WorkerGoes, SetsStatus, NothingFails, redisSide,
     cancelSide, DiscordFails, SpoilsTask, EditMessage, Unsubscribes, OnlyAt
<1>10. wasTold'[t] = TRUE
  BY <1>8, <1>9 DEF CancelDiscordTask, WorkerAt, WorkerGoes, SetsStatus, NothingFails,
     redisSide, cancelSide, DiscordFails, SpoilsTask, EditMessage, Unsubscribes
<1>11. unwinding \in [DiscordTaskIds -> BOOLEAN]
  BY <1>1 DEF DiscordTypeOK
<1>12. unwinding' \in [DiscordTaskIds -> BOOLEAN] /\ OnlyAt(t, unwinding, unwinding')
  BY <1>11 DEF CancelDiscordTask, WorkerAt, WorkerGoes, SetsStatus, NothingFails, redisSide,
     cancelSide, DiscordFails, SpoilsTask, EditMessage, Unsubscribes, OnlyAt
<1>13. unwinding'[t] = TRUE
  BY <1>11, <1>12 DEF CancelDiscordTask, WorkerAt, WorkerGoes, SetsStatus, NothingFails,
     redisSide, cancelSide, DiscordFails, SpoilsTask, EditMessage, Unsubscribes
<1>14. discordFaults' = discordFaults
  BY DEF CancelDiscordTask, WorkerAt, WorkerGoes, SetsStatus, NothingFails, redisSide,
     cancelSide, DiscordFails, SpoilsTask, EditMessage, Unsubscribes
<1>15. DiscordTypeOK'
  BY <1>1, <1>3, <1>6, <1>9, <1>12, <1>14 DEF DiscordTypeOK, Statuses, Places, Announcements
<1>16. TaskInv(t)'
  <2>1. AtWork(workerAt[t])
    <3>1. workerAt \in [DiscordTaskIds -> Places]
      BY <1>1 DEF DiscordTypeOK, Places
    <3> QED BY <1>1, <1>2, <3>1 DEF TaskInv, CancelledInv, EndedInv, AtWork, Places
  <2>2. CancelledInv(t)'
    BY <1>1, <1>2, <1>4, <1>7, <1>10, <1>13, <2>1 DEF TaskInv, CancelledInv, AtWork,
       StreamStates, EndedInv
  <2>3. PiecesInv(t)'
    BY <1>1, <1>2, <1>4, <1>7, <1>10, <1>13, <2>1 DEF TaskInv, CancelledInv, PiecesInv, AtWork,
       StreamStates
  <2>4. WindowInv(t)'
    BY <1>1, <1>2, <1>4, <1>7, <1>10, <1>13, <2>1 DEF TaskInv, CancelledInv, PiecesInv,
       WindowInv, AtWork, StreamStates
  <2>5. EndedInv(t)'
    BY <1>1, <1>2, <1>4, <1>7, <1>10, <1>13, <2>1 DEF TaskInv, CancelledInv, PiecesInv,
       EndedInv, AtWork, StreamStates
  <2> QED BY <2>2, <2>3, <2>4, <2>5 DEF TaskInv
<1>17. \A u \in DiscordTaskIds : u # t => TaskInv(u)'
  BY <1>3, <1>6, <1>9, <1>12, TaskStays DEF DiscordInv, OnlyAt
<1> QED BY <1>15, <1>16, <1>17 DEF DiscordInv

\* The cancellation arrives.
LEMMA UnwindWorkerKeeps ==
  ASSUME DiscordInv, NEW t \in DiscordTaskIds, UnwindWorker(t) PROVE DiscordInv'
<1>1. DiscordTypeOK /\ TaskInv(t)
  BY DEF DiscordInv
<1>2. unwinding[t]
  BY DEF UnwindWorker, WorkerAt, WorkerGoes, SetsStatus, NothingFails, redisSide, cancelSide,
     DiscordFails, SpoilsTask, EditMessage, Unsubscribes
<1>3. wasTold' = wasTold /\ windowOver' = windowOver /\ gotPieces' = gotPieces /\ shownPieces' = shownPieces /\ announced' = announced
  BY DEF UnwindWorker, WorkerAt, WorkerGoes, SetsStatus, NothingFails, redisSide, cancelSide,
     DiscordFails, SpoilsTask, EditMessage, Unsubscribes
<1>4. wasTold'[t] = wasTold[t] /\ windowOver'[t] = windowOver[t] /\ gotPieces'[t] = gotPieces[t] /\ shownPieces'[t] = shownPieces[t] /\ announced'[t] = announced[t]
  BY <1>3
<1>5. taskFaults \in [DiscordTaskIds -> SUBSET DiscordFaults]
  BY <1>1 DEF DiscordTypeOK
<1>6. taskFaults' \in [DiscordTaskIds -> SUBSET DiscordFaults] /\ OnlyAt(t, taskFaults, taskFaults')
  BY <1>5 DEF UnwindWorker, WorkerAt, WorkerGoes, SetsStatus, NothingFails, redisSide,
     cancelSide, DiscordFails, SpoilsTask, EditMessage, Unsubscribes, OnlyAt, DiscordFaults
<1>7. taskFaults'[t] = taskFaults[t] \/ taskFaults'[t] = taskFaults[t] \union {"close"}
  BY <1>5, <1>6 DEF UnwindWorker, WorkerAt, WorkerGoes, SetsStatus, NothingFails, redisSide,
     cancelSide, DiscordFails, SpoilsTask, EditMessage, Unsubscribes
<1>8. unwinding \in [DiscordTaskIds -> BOOLEAN]
  BY <1>1 DEF DiscordTypeOK
<1>9. unwinding' \in [DiscordTaskIds -> BOOLEAN] /\ OnlyAt(t, unwinding, unwinding')
  BY <1>8 DEF UnwindWorker, WorkerAt, WorkerGoes, SetsStatus, NothingFails, redisSide,
     cancelSide, DiscordFails, SpoilsTask, EditMessage, Unsubscribes, OnlyAt
<1>10. unwinding'[t] = FALSE
  BY <1>8, <1>9 DEF UnwindWorker, WorkerAt, WorkerGoes, SetsStatus, NothingFails, redisSide,
     cancelSide, DiscordFails, SpoilsTask, EditMessage, Unsubscribes
<1>11. workerAt \in [DiscordTaskIds -> Places]
  BY <1>1 DEF DiscordTypeOK, Places
<1>12. workerAt' \in [DiscordTaskIds -> Places] /\ OnlyAt(t, workerAt, workerAt')
  BY <1>11 DEF UnwindWorker, WorkerAt, WorkerGoes, SetsStatus, NothingFails, redisSide,
     cancelSide, DiscordFails, SpoilsTask, EditMessage, Unsubscribes, OnlyAt, Places,
     StreamStates
<1>13. workerAt'[t] = IF workerAt[t] = "opening" THEN "over" ELSE "finishing"
  BY <1>11, <1>12 DEF UnwindWorker, WorkerAt, WorkerGoes, SetsStatus, NothingFails, redisSide,
     cancelSide, DiscordFails, SpoilsTask, EditMessage, Unsubscribes
<1>14. listening \in [DiscordTaskIds -> BOOLEAN]
  BY <1>1 DEF DiscordTypeOK
<1>15. listening' \in [DiscordTaskIds -> BOOLEAN] /\ OnlyAt(t, listening, listening')
  BY <1>14 DEF UnwindWorker, WorkerAt, WorkerGoes, SetsStatus, NothingFails, redisSide,
     cancelSide, DiscordFails, SpoilsTask, EditMessage, Unsubscribes, OnlyAt
<1>16. listening'[t] = FALSE
  BY <1>14, <1>15 DEF UnwindWorker, WorkerAt, WorkerGoes, SetsStatus, NothingFails, redisSide,
     cancelSide, DiscordFails, SpoilsTask, EditMessage, Unsubscribes
<1>17. notices \in [DiscordTaskIds -> 0..1]
  BY <1>1 DEF DiscordTypeOK
<1>18. notices' \in [DiscordTaskIds -> 0..1] /\ OnlyAt(t, notices, notices')
  BY <1>17, 0 \in 0..1, 1 \in 0..1 DEF UnwindWorker, WorkerAt, WorkerGoes, SetsStatus,
     NothingFails, redisSide, cancelSide, DiscordFails, SpoilsTask, EditMessage, Unsubscribes,
     OnlyAt
<1>19. notices'[t] = 0
  BY <1>17, <1>18 DEF UnwindWorker, WorkerAt, WorkerGoes, SetsStatus, NothingFails, redisSide,
     cancelSide, DiscordFails, SpoilsTask, EditMessage, Unsubscribes
<1>20. recordStatus \in [DiscordTaskIds -> Statuses]
  BY <1>1 DEF DiscordTypeOK, Statuses
<1>21. recordStatus' \in [DiscordTaskIds -> Statuses] /\ OnlyAt(t, recordStatus, recordStatus')
  BY <1>20 DEF UnwindWorker, WorkerAt, WorkerGoes, SetsStatus, NothingFails, redisSide,
     cancelSide, DiscordFails, SpoilsTask, EditMessage, Unsubscribes, OnlyAt, Statuses
<1>22. recordStatus'[t] = "cancelled" \/ (recordStatus'[t] = "failed" /\ "close" \in taskFaults'[t])
  <2>1. CASE recordStatus' = [recordStatus EXCEPT ![t] = "cancelled"]
    <3>1. recordStatus'[t] = "cancelled"
      BY <1>20, <2>1
    <3> QED BY <3>1
  <2>2. CASE recordStatus' = [recordStatus EXCEPT ![t] = "failed"] /\ taskFaults' = [taskFaults EXCEPT ![t] = @ \union {"close"}]
    <3>1. recordStatus'[t] = "failed"
      BY <1>20, <2>2
    <3>2. "close" \in taskFaults'[t]
      BY <1>5, <2>2
    <3> QED BY <3>1, <3>2
  <2> QED BY <2>1, <2>2 DEF UnwindWorker, WorkerAt, WorkerGoes, SetsStatus, NothingFails,
             redisSide, cancelSide, DiscordFails, SpoilsTask, EditMessage, Unsubscribes
<1>23. discordFaults \in 0..MaxDiscordFaults
  BY <1>1 DEF DiscordTypeOK
<1>24. (discordFaults < MaxDiscordFaults /\ discordFaults' = discordFaults + 1) \/ discordFaults' = discordFaults
  BY DEF UnwindWorker, WorkerAt, WorkerGoes, SetsStatus, NothingFails, redisSide, cancelSide,
     DiscordFails, SpoilsTask, EditMessage, Unsubscribes
<1>25. discordFaults' \in 0..MaxDiscordFaults
  BY <1>23, <1>24, DiscordAssumption
<1>26. DiscordTypeOK'
  BY <1>1, <1>3, <1>6, <1>9, <1>12, <1>15, <1>18, <1>21, <1>25 DEF DiscordTypeOK, Statuses,
     Places, Announcements
<1>27. TaskInv(t)'
  <2>1. CancelledInv(t)'
    BY <1>1, <1>2, <1>4, <1>7, <1>10, <1>13, <1>16, <1>19, <1>22 DEF TaskInv, CancelledInv,
       AtWork, StreamStates
  <2>2. PiecesInv(t)'
    BY <1>1, <1>2, <1>4, <1>7, <1>10, <1>13, <1>16, <1>19, <1>22 DEF TaskInv, CancelledInv,
       PiecesInv, AtWork, StreamStates
  <2>3. WindowInv(t)'
    BY <1>1, <1>2, <1>4, <1>7, <1>10, <1>13, <1>16, <1>19, <1>22 DEF TaskInv, CancelledInv,
       PiecesInv, WindowInv, AtWork, StreamStates
  <2>4. EndedInv(t)'
    BY <1>1, <1>2, <1>4, <1>7, <1>10, <1>13, <1>16, <1>19, <1>22 DEF TaskInv, CancelledInv,
       PiecesInv, EndedInv, AtWork, StreamStates
  <2> QED BY <2>1, <2>2, <2>3, <2>4 DEF TaskInv
<1>28. \A u \in DiscordTaskIds : u # t => TaskInv(u)'
  BY <1>3, <1>6, <1>9, <1>12, <1>15, <1>18, <1>21, TaskStays DEF DiscordInv, OnlyAt
<1> QED BY <1>26, <1>27, <1>28 DEF DiscordInv

\* A worker that has ended left a record that fits what its user was shown of the task, for any
\* tasks, goals that fail and failing calls; whether the goal failed the record does not say
\* (discord_connector.py).
THEOREM RecordsFitThreads == DiscordSpec => [](DiscordTypeOK /\ RecordFitsThread)
<1>1. DiscordInv => DiscordTypeOK /\ RecordFitsThread
  BY DEF DiscordInv, TaskInv, CancelledInv, PiecesInv, WindowInv, EndedInv, RecordFitsThread
<1>2. DiscordInit => DiscordInv
  BY DiscordAssumption DEF DiscordInit, EveryTask, DiscordInv, DiscordTypeOK, TaskInv,
     CancelledInv, PiecesInv, WindowInv,
     EndedInv, AtWork, StreamStates, DiscordFaults
<1>3. DiscordInv /\ [DiscordNext]_discordVars => DiscordInv'
  <2> SUFFICES ASSUME DiscordInv, [DiscordNext]_discordVars PROVE DiscordInv'
    OBVIOUS
  <2>1. CASE DiscordNext
    <3>1. PICK t \in DiscordTaskIds :
              \/ StoreDiscordResult(t) \/ AnnounceResult(t) \/ WindowEnds(t)
              \/ StartDiscordTask(t) \/ OpenMessage(t) \/ OpeningFails(t) \/ SubscribeAndPost(t)
              \/ PollResult(t) \/ WaitRunsOut(t) \/ CutOff(t) \/ ShowResult(t)
              \/ SplitMessage(t) \/ FlushMessage(t) \/ StreamRaises(t) \/ FinishTask(t)
              \/ NotifyCompletion(t) \/ CancelDiscordTask(t) \/ UnwindWorker(t)
      BY <2>1 DEF DiscordNext
    <3> QED BY <3>1, StoreDiscordResultKeeps, AnnounceResultKeeps, WindowEndsKeeps,
               StartDiscordTaskKeeps, OpenMessageKeeps, OpeningFailsKeeps,
               SubscribeAndPostKeeps, PollResultKeeps, WaitRunsOutKeeps, CutOffKeeps,
               ShowResultKeeps, SplitMessageKeeps, FlushMessageKeeps, StreamRaisesKeeps,
               FinishTaskKeeps, NotifyCompletionKeeps, CancelDiscordTaskKeeps, UnwindWorkerKeeps
  <2>2. CASE UNCHANGED discordVars
    BY <2>2, ZenonT(40) DEF discordVars, DiscordInv, DiscordTypeOK, CancelledInv, PiecesInv,
       WindowInv,
       EndedInv, AtWork, TaskInv
  <2> QED BY <2>1, <2>2
<1> QED BY <1>1, <1>2, <1>3, PTL DEF DiscordSpec

-----------------------------------------------------------------------------
(* CliSession: a token that is not on file yet is known to one client, and   *)
(* what a client has read of the files was written to them.                  *)

Shells == [at : {"off", "login", "keep", "choose", "empty", "write", "connect", "refused",
                 "prompt"},
           token : 0..MaxTokens, seen : SUBSET Spaces, space : Spaces, resumed : 0..MaxSessions]
Opened == {"connect", "refused", "prompt"}
Saving == {"empty", "write"}

\* The token of who has logged in; until it is saved nobody else has it.
TokenOK(c) ==
    /\ shell[c].token <= issued
    /\ shell[c].at \in {"keep", "choose", "refused", "connect"} \union Saving => shell[c].token # 0
    /\ shell[c].at = "keep" =>
          /\ shell[c].token \notin discarded /\ shell[c].token # tokenFile
          /\ \A d \in Clis : d # c => shell[d].token # shell[c].token

\* The workspaces a client has read, and its own; a save that is alone has read them all.
SpaceOK(c) ==
    /\ shell[c].seen \subseteq saved
    /\ shell[c].at \in Opened => shell[c].space \in saved
    /\ ~overlapped /\ shell[c].at \in Saving =>
          saved \subseteq shell[c].seen /\ \A d \in Clis : d # c => shell[d].at \notin Saving

ResumedOK(c) ==
    shell[c].resumed # 0 =>
        /\ shell[c].at \in Opened /\ shell[c].resumed \in DOMAIN sessionFile
        /\ shell[c].space = sessionFile[shell[c].resumed]

FilesOK ==
    /\ tokenFile <= issued /\ tokenFile \notin discarded /\ \A t \in discarded : t <= issued
    /\ spaceFile.ids \subseteq saved
    /\ overlapped \/ ~spaceFile.whole \/ saved \subseteq spaceFile.ids
    /\ \A i \in DOMAIN sessionFile : sessionFile[i] \in saved

ClientOK(c) == TokenOK(c) /\ SpaceOK(c) /\ ResumedOK(c)
HomeInv == CliSessionTypeOK /\ FilesOK /\ \A c \in Clis : ClientOK(c)

\* What a client was is one of its kind.
LEMMA ShellTyped == CliSessionTypeOK => shell \in [Clis -> Shells]
  BY DEF CliSessionTypeOK, Shells

\* One client moves, and no other.
LEMMA ShellSet ==
  ASSUME shell \in [Clis -> Shells], NEW c \in Clis, NEW s \in Shells,
         shell' = [shell EXCEPT ![c] = s]
  PROVE  /\ shell' \in [Clis -> Shells] /\ shell'[c] = s
         /\ \A d \in Clis : d # c => shell'[d] = shell[d]
  OBVIOUS

\* A client ends.
LEMMA CliLeavesSafely ==
  ASSUME HomeInv, NEW c \in Clis, NEW s, s = Off,
         shell' = [shell EXCEPT ![c] = s],
         UNCHANGED <<tokenFile, issued, refusing, spaceFile, sessionFile, discarded, saved, overlapped>>
  PROVE  HomeInv'
<1>1. CliSessionTypeOK /\ FilesOK /\ ClientOK(c) /\ shell \in [Clis -> Shells]
  BY ShellTyped DEF HomeInv
<1>2. shell[c] \in Shells
  BY <1>1
<1>3. s = [at |-> "off", token |-> 0, seen |-> {}, space |-> DefaultSpace, resumed |-> 0]
  BY DEF Off
<1>4. "off" \in {"off", "login", "keep", "choose", "empty", "write", "connect", "refused", "prompt"}
  BY <1>1, <1>2, CliSessionAssumption DEF Shells
<1>5. 0 \in 0..MaxTokens
  BY <1>1, <1>2, CliSessionAssumption DEF Shells, CliSessionTypeOK
<1>6. {} \in SUBSET Spaces
  BY <1>1, <1>2, CliSessionAssumption DEF Shells, CliSessionTypeOK, ReadableSpaces
<1>7. DefaultSpace \in Spaces
  BY <1>1, <1>2, CliSessionAssumption DEF Shells, Spaces, CliSessionTypeOK
<1>8. 0 \in 0..MaxSessions
  BY <1>1, <1>2, CliSessionAssumption DEF Shells, CliSessionTypeOK
<1>9. s \in Shells
  BY <1>3, <1>4, <1>5, <1>6, <1>7, <1>8 DEF Shells
<1>10. s.at = "off" /\ s.token = 0 /\ s.seen = {} /\ s.space = DefaultSpace /\ s.resumed = 0
  BY <1>3 DEF Off
<1>11. /\ shell' \in [Clis -> Shells] /\ shell'[c] = s
      /\ \A d \in Clis : d # c => shell'[d] = shell[d]
  BY <1>1, <1>9, ShellSet
<1>12. CliSessionTypeOK'
  <2>1. shell' \in [Clis -> Shells]
    BY <1>11
  <2> QED BY <1>1, <2>1 DEF CliSessionTypeOK, Shells
<1>13. FilesOK'
  BY <1>1, <1>2 DEF CliSessionTypeOK, FilesOK, ClientOK, TokenOK, SpaceOK, Shells
<1>14. TokenOK(c)'
  BY <1>1, <1>2, <1>10, <1>11 DEF CliSessionTypeOK, FilesOK, ClientOK, TokenOK, Saving, Shells
<1>15. SpaceOK(c)'
  BY <1>1, <1>2, <1>10, <1>11 DEF FilesOK, ClientOK, SpaceOK, Opened, Saving, ReadableSpaces
<1>16. ResumedOK(c)'
  BY <1>1, <1>2, <1>10, <1>11 DEF ClientOK, ResumedOK, Opened
<1>17. \A d \in Clis : d # c => ClientOK(d)'
  <2> SUFFICES ASSUME NEW d \in Clis, d # c PROVE ClientOK(d)'
    OBVIOUS
  <2>1. shell'[d] = shell[d] /\ ClientOK(d) /\ shell[d] \in Shells
    BY <1>1, <1>11 DEF HomeInv
  <2>2. TokenOK(d)'
    BY <1>1, <1>2, <1>10, <1>11, <2>1 DEF CliSessionTypeOK, FilesOK, ClientOK, TokenOK, Saving,
       Shells
  <2>3. SpaceOK(d)'
    BY <1>1, <1>2, <1>10, <1>11, <2>1 DEF ClientOK, SpaceOK, Opened, Saving, ReadableSpaces
  <2>4. ResumedOK(d)'
    BY <1>1, <1>11, <2>1 DEF ClientOK, ResumedOK, Opened
  <2> QED BY <2>2, <2>3, <2>4 DEF ClientOK
<1> QED BY <1>12, <1>13, <1>14, <1>15, <1>16, <1>17 DEF HomeInv, ClientOK

\* It starts with what it reads.
LEMMA CliReadsSafely ==
  ASSUME HomeInv, NEW c \in Clis, NEW at \in {"login", "choose"}, NEW tk,
         at = "login" => tk = 0, at = "choose" => tk = tokenFile /\ tk # 0, NEW s, s = [Off EXCEPT !.at = at, !.seen = ReadableSpaces, !.token = tk],
         shell' = [shell EXCEPT ![c] = s],
         UNCHANGED <<tokenFile, issued, refusing, spaceFile, sessionFile, discarded, saved, overlapped>>
  PROVE  HomeInv'
<1>1. CliSessionTypeOK /\ FilesOK /\ ClientOK(c) /\ shell \in [Clis -> Shells]
  BY ShellTyped DEF HomeInv
<1>2. shell[c] \in Shells
  BY <1>1
<1>3. s = [at |-> at, token |-> tk, seen |-> ReadableSpaces, space |-> DefaultSpace, resumed |-> 0]
  BY DEF Off
<1>4. at \in {"off", "login", "keep", "choose", "empty", "write", "connect", "refused", "prompt"}
  BY <1>1, <1>2, CliSessionAssumption DEF Shells
<1>5. tk \in 0..MaxTokens
  BY <1>1, <1>2, CliSessionAssumption DEF Shells, CliSessionTypeOK
<1>6. ReadableSpaces \in SUBSET Spaces
  BY <1>1, <1>2, CliSessionAssumption DEF Shells, CliSessionTypeOK, ReadableSpaces
<1>7. DefaultSpace \in Spaces
  BY <1>1, <1>2, CliSessionAssumption DEF Shells, Spaces, CliSessionTypeOK
<1>8. 0 \in 0..MaxSessions
  BY <1>1, <1>2, CliSessionAssumption DEF Shells, CliSessionTypeOK
<1>9. s \in Shells
  BY <1>3, <1>4, <1>5, <1>6, <1>7, <1>8 DEF Shells
<1>10. s.at = at /\ s.token = tk /\ s.seen = ReadableSpaces /\ s.space = DefaultSpace /\ s.resumed = 0
  BY <1>3 DEF Off
<1>11. /\ shell' \in [Clis -> Shells] /\ shell'[c] = s
      /\ \A d \in Clis : d # c => shell'[d] = shell[d]
  BY <1>1, <1>9, ShellSet
<1>12. CliSessionTypeOK'
  <2>1. shell' \in [Clis -> Shells]
    BY <1>11
  <2> QED BY <1>1, <2>1 DEF CliSessionTypeOK, Shells
<1>13. FilesOK'
  BY <1>1, <1>2 DEF CliSessionTypeOK, FilesOK, ClientOK, TokenOK, SpaceOK, Shells
<1>14. TokenOK(c)'
  BY <1>1, <1>2, <1>10, <1>11 DEF CliSessionTypeOK, FilesOK, ClientOK, TokenOK, Saving, Shells
<1>15. SpaceOK(c)'
  BY <1>1, <1>2, <1>10, <1>11 DEF FilesOK, ClientOK, SpaceOK, Opened, Saving, ReadableSpaces
<1>16. ResumedOK(c)'
  BY <1>1, <1>2, <1>10, <1>11 DEF ClientOK, ResumedOK, Opened
<1>17. \A d \in Clis : d # c => ClientOK(d)'
  <2> SUFFICES ASSUME NEW d \in Clis, d # c PROVE ClientOK(d)'
    OBVIOUS
  <2>1. shell'[d] = shell[d] /\ ClientOK(d) /\ shell[d] \in Shells
    BY <1>1, <1>11 DEF HomeInv
  <2>2. TokenOK(d)'
    BY <1>1, <1>2, <1>10, <1>11, <2>1 DEF CliSessionTypeOK, FilesOK, ClientOK, TokenOK, Saving,
       Shells
  <2>3. SpaceOK(d)'
    BY <1>1, <1>2, <1>10, <1>11, <2>1 DEF ClientOK, SpaceOK, Opened, Saving, ReadableSpaces
  <2>4. ResumedOK(d)'
    BY <1>1, <1>11, <2>1 DEF ClientOK, ResumedOK, Opened
  <2> QED BY <2>2, <2>3, <2>4 DEF ClientOK
<1> QED BY <1>12, <1>13, <1>14, <1>15, <1>16, <1>17 DEF HomeInv, ClientOK

\* It logs in.
LEMMA CliLogsInSafely ==
  ASSUME HomeInv, NEW c \in Clis, shell[c].at = "login" /\ issued < MaxTokens, NEW s, s = [shell[c] EXCEPT !.at = "keep", !.token = issued + 1],
         shell' = [shell EXCEPT ![c] = s],
         issued' = issued + 1,
         UNCHANGED <<tokenFile, refusing, spaceFile, sessionFile, discarded, saved, overlapped>>
  PROVE  HomeInv'
<1>1. CliSessionTypeOK /\ FilesOK /\ ClientOK(c) /\ shell \in [Clis -> Shells]
  BY ShellTyped DEF HomeInv
<1>2. shell[c] \in Shells
  BY <1>1
<1>3. s = [at |-> "keep", token |-> issued + 1, seen |-> shell[c].seen, space |-> shell[c].space, resumed |-> shell[c].resumed]
  BY <1>2 DEF Shells
<1>4. "keep" \in {"off", "login", "keep", "choose", "empty", "write", "connect", "refused", "prompt"}
  BY <1>1, <1>2, CliSessionAssumption DEF Shells
<1>5. (issued + 1) \in 0..MaxTokens
  BY <1>1, <1>2, CliSessionAssumption DEF Shells, CliSessionTypeOK
<1>6. shell[c].seen \in SUBSET Spaces
  BY <1>1, <1>2, CliSessionAssumption DEF Shells, CliSessionTypeOK, ReadableSpaces
<1>7. shell[c].space \in Spaces
  BY <1>1, <1>2, CliSessionAssumption DEF Shells, Spaces, CliSessionTypeOK
<1>8. shell[c].resumed \in 0..MaxSessions
  BY <1>1, <1>2, CliSessionAssumption DEF Shells, CliSessionTypeOK
<1>9. s \in Shells
  BY <1>3, <1>4, <1>5, <1>6, <1>7, <1>8 DEF Shells
<1>10. s.at = "keep" /\ s.token = issued + 1 /\ s.seen = shell[c].seen /\ s.space = shell[c].space /\ s.resumed = shell[c].resumed
  BY <1>3
<1>11. /\ shell' \in [Clis -> Shells] /\ shell'[c] = s
      /\ \A d \in Clis : d # c => shell'[d] = shell[d]
  BY <1>1, <1>9, ShellSet
<1>12. \A d \in Clis : shell[d].token \in Nat /\ shell[d].token <= issued
  BY <1>1 DEF HomeInv, ClientOK, TokenOK, Shells
<1>13. issued \in Nat /\ tokenFile \in Nat /\ \A t \in discarded : t \in Nat /\ t <= issued
  BY <1>1, CliSessionAssumption DEF CliSessionTypeOK, FilesOK, Tokens
<1>14. CliSessionTypeOK'
  <2>1. shell' \in [Clis -> Shells]
    BY <1>11
  <2>2. issued' \in 0..MaxTokens
    BY <1>12, <1>13, <1>1, <1>2, CliSessionAssumption DEF CliSessionTypeOK, Tokens
  <2> QED BY <1>1, <2>1, <2>2 DEF CliSessionTypeOK, Shells
<1>15. FilesOK'
  BY <1>12, <1>13, <1>1, <1>2 DEF CliSessionTypeOK, FilesOK
<1>16. TokenOK(c)'
  BY <1>12, <1>13, <1>1, <1>2, <1>10, <1>11 DEF CliSessionTypeOK, FilesOK, ClientOK, TokenOK,
     Saving, Shells
<1>17. SpaceOK(c)'
  BY <1>12, <1>13, <1>1, <1>2, <1>10, <1>11 DEF FilesOK, ClientOK, SpaceOK, Opened, Saving,
     ReadableSpaces
<1>18. ResumedOK(c)'
  BY <1>12, <1>13, <1>1, <1>2, <1>10, <1>11 DEF ClientOK, ResumedOK, Opened
<1>19. \A d \in Clis : d # c => ClientOK(d)'
  <2> SUFFICES ASSUME NEW d \in Clis, d # c PROVE ClientOK(d)'
    OBVIOUS
  <2>1. shell'[d] = shell[d] /\ ClientOK(d) /\ shell[d] \in Shells
    BY <1>1, <1>11 DEF HomeInv
  <2>2. TokenOK(d)'
    BY <1>12, <1>13, <1>1, <1>2, <1>10, <1>11, <2>1 DEF CliSessionTypeOK, FilesOK, ClientOK,
       TokenOK, Saving, Shells
  <2>3. SpaceOK(d)'
    BY <1>12, <1>13, <1>1, <1>2, <1>10, <1>11, <2>1 DEF ClientOK, SpaceOK, Opened, Saving,
       ReadableSpaces
  <2>4. ResumedOK(d)'
    BY <1>1, <1>11, <2>1 DEF ClientOK, ResumedOK, Opened
  <2> QED BY <2>2, <2>3, <2>4 DEF ClientOK
<1> QED BY <1>14, <1>15, <1>16, <1>17, <1>18, <1>19 DEF HomeInv, ClientOK

\* It keeps its token on file.
LEMMA CliKeepsSafely ==
  ASSUME HomeInv, NEW c \in Clis, shell[c].at = "keep", NEW s, s = [shell[c] EXCEPT !.at = "choose"],
         shell' = [shell EXCEPT ![c] = s],
         tokenFile' = shell[c].token,
         UNCHANGED <<issued, refusing, spaceFile, sessionFile, discarded, saved, overlapped>>
  PROVE  HomeInv'
<1>1. CliSessionTypeOK /\ FilesOK /\ ClientOK(c) /\ shell \in [Clis -> Shells]
  BY ShellTyped DEF HomeInv
<1>2. shell[c] \in Shells
  BY <1>1
<1>3. s = [at |-> "choose", token |-> shell[c].token, seen |-> shell[c].seen, space |-> shell[c].space, resumed |-> shell[c].resumed]
  BY <1>2 DEF Shells
<1>4. "choose" \in {"off", "login", "keep", "choose", "empty", "write", "connect", "refused", "prompt"}
  BY <1>1, <1>2, CliSessionAssumption DEF Shells
<1>5. shell[c].token \in 0..MaxTokens
  BY <1>1, <1>2, CliSessionAssumption DEF Shells, CliSessionTypeOK
<1>6. shell[c].seen \in SUBSET Spaces
  BY <1>1, <1>2, CliSessionAssumption DEF Shells, CliSessionTypeOK, ReadableSpaces
<1>7. shell[c].space \in Spaces
  BY <1>1, <1>2, CliSessionAssumption DEF Shells, Spaces, CliSessionTypeOK
<1>8. shell[c].resumed \in 0..MaxSessions
  BY <1>1, <1>2, CliSessionAssumption DEF Shells, CliSessionTypeOK
<1>9. s \in Shells
  BY <1>3, <1>4, <1>5, <1>6, <1>7, <1>8 DEF Shells
<1>10. s.at = "choose" /\ s.token = shell[c].token /\ s.seen = shell[c].seen /\ s.space = shell[c].space /\ s.resumed = shell[c].resumed
  BY <1>3
<1>11. /\ shell' \in [Clis -> Shells] /\ shell'[c] = s
      /\ \A d \in Clis : d # c => shell'[d] = shell[d]
  BY <1>1, <1>9, ShellSet
<1>12. CliSessionTypeOK'
  <2>1. shell' \in [Clis -> Shells]
    BY <1>11
  <2>2. tokenFile' \in 0..MaxTokens
    BY <1>1, <1>2, CliSessionAssumption DEF CliSessionTypeOK, Tokens, Shells, ClientOK, TokenOK
  <2> QED BY <1>1, <2>1, <2>2 DEF CliSessionTypeOK, Shells
<1>13. FilesOK'
  BY <1>1, <1>2 DEF CliSessionTypeOK, FilesOK, ClientOK, TokenOK, SpaceOK, Shells
<1>14. TokenOK(c)'
  BY <1>1, <1>2, <1>10, <1>11 DEF CliSessionTypeOK, FilesOK, ClientOK, TokenOK, Saving, Shells
<1>15. SpaceOK(c)'
  BY <1>1, <1>2, <1>10, <1>11 DEF FilesOK, ClientOK, SpaceOK, Opened, Saving, ReadableSpaces
<1>16. ResumedOK(c)'
  BY <1>1, <1>2, <1>10, <1>11 DEF ClientOK, ResumedOK, Opened
<1>17. \A d \in Clis : d # c => ClientOK(d)'
  <2> SUFFICES ASSUME NEW d \in Clis, d # c PROVE ClientOK(d)'
    OBVIOUS
  <2>1. shell'[d] = shell[d] /\ ClientOK(d) /\ shell[d] \in Shells
    BY <1>1, <1>11 DEF HomeInv
  <2>2. TokenOK(d)'
    BY <1>1, <1>2, <1>10, <1>11, <2>1 DEF CliSessionTypeOK, FilesOK, ClientOK, TokenOK, Saving,
       Shells
  <2>3. SpaceOK(d)'
    BY <1>1, <1>2, <1>10, <1>11, <2>1 DEF ClientOK, SpaceOK, Opened, Saving, ReadableSpaces
  <2>4. ResumedOK(d)'
    BY <1>1, <1>11, <2>1 DEF ClientOK, ResumedOK, Opened
  <2> QED BY <2>2, <2>3, <2>4 DEF ClientOK
<1> QED BY <1>12, <1>13, <1>14, <1>15, <1>16, <1>17 DEF HomeInv, ClientOK

\* It goes on where a session was.
LEMMA CliResumesSafely ==
  ASSUME HomeInv, NEW c \in Clis, NEW i \in DOMAIN sessionFile, sessionFile[i] \in shell[c].seen, shell[c].at = "choose", NEW s, s = [shell[c] EXCEPT !.at = "connect", !.space = sessionFile[i], !.seen = {}, !.resumed = i],
         shell' = [shell EXCEPT ![c] = s],
         UNCHANGED <<tokenFile, issued, refusing, spaceFile, sessionFile, discarded, saved, overlapped>>
  PROVE  HomeInv'
<1>1. CliSessionTypeOK /\ FilesOK /\ ClientOK(c) /\ shell \in [Clis -> Shells]
  BY ShellTyped DEF HomeInv
<1>2. shell[c] \in Shells
  BY <1>1
<1>3. s = [at |-> "connect", token |-> shell[c].token, seen |-> {}, space |-> sessionFile[i], resumed |-> i]
  BY <1>2 DEF Shells
<1>4. "connect" \in {"off", "login", "keep", "choose", "empty", "write", "connect", "refused", "prompt"}
  BY <1>1, <1>2, CliSessionAssumption DEF Shells
<1>5. shell[c].token \in 0..MaxTokens
  BY <1>1, <1>2, CliSessionAssumption DEF Shells, CliSessionTypeOK
<1>6. {} \in SUBSET Spaces
  BY <1>1, <1>2, CliSessionAssumption DEF Shells, CliSessionTypeOK, ReadableSpaces
<1>7. sessionFile[i] \in Spaces
  BY <1>1, <1>2, CliSessionAssumption DEF Shells, Spaces, CliSessionTypeOK
<1>8. i \in 0..MaxSessions
  BY <1>1, <1>2, CliSessionAssumption DEF Shells, CliSessionTypeOK
<1>9. s \in Shells
  BY <1>3, <1>4, <1>5, <1>6, <1>7, <1>8 DEF Shells
<1>10. s.at = "connect" /\ s.token = shell[c].token /\ s.seen = {} /\ s.space = sessionFile[i] /\ s.resumed = i
  BY <1>3
<1>11. /\ shell' \in [Clis -> Shells] /\ shell'[c] = s
      /\ \A d \in Clis : d # c => shell'[d] = shell[d]
  BY <1>1, <1>9, ShellSet
<1>12. CliSessionTypeOK'
  <2>1. shell' \in [Clis -> Shells]
    BY <1>11
  <2> QED BY <1>1, <2>1 DEF CliSessionTypeOK, Shells
<1>13. FilesOK'
  BY <1>1, <1>2 DEF CliSessionTypeOK, FilesOK, ClientOK, TokenOK, SpaceOK, Shells
<1>14. TokenOK(c)'
  BY <1>1, <1>2, <1>10, <1>11 DEF CliSessionTypeOK, FilesOK, ClientOK, TokenOK, Saving, Shells
<1>15. SpaceOK(c)'
  BY <1>1, <1>2, <1>10, <1>11 DEF FilesOK, ClientOK, SpaceOK, Opened, Saving, ReadableSpaces
<1>16. ResumedOK(c)'
  BY <1>1, <1>2, <1>10, <1>11 DEF ClientOK, ResumedOK, Opened
<1>17. \A d \in Clis : d # c => ClientOK(d)'
  <2> SUFFICES ASSUME NEW d \in Clis, d # c PROVE ClientOK(d)'
    OBVIOUS
  <2>1. shell'[d] = shell[d] /\ ClientOK(d) /\ shell[d] \in Shells
    BY <1>1, <1>11 DEF HomeInv
  <2>2. TokenOK(d)'
    BY <1>1, <1>2, <1>10, <1>11, <2>1 DEF CliSessionTypeOK, FilesOK, ClientOK, TokenOK, Saving,
       Shells
  <2>3. SpaceOK(d)'
    BY <1>1, <1>2, <1>10, <1>11, <2>1 DEF ClientOK, SpaceOK, Opened, Saving, ReadableSpaces
  <2>4. ResumedOK(d)'
    BY <1>1, <1>11, <2>1 DEF ClientOK, ResumedOK, Opened
  <2> QED BY <2>2, <2>3, <2>4 DEF ClientOK
<1> QED BY <1>12, <1>13, <1>14, <1>15, <1>16, <1>17 DEF HomeInv, ClientOK

\* It works in a workspace that it has read.
LEMMA CliGoesOnSafely ==
  ASSUME HomeInv, NEW c \in Clis, NEW w \in shell[c].seen, shell[c].at = "choose", NEW s, s = [shell[c] EXCEPT !.at = "connect", !.space = w, !.seen = {}],
         shell' = [shell EXCEPT ![c] = s],
         UNCHANGED <<tokenFile, issued, refusing, spaceFile, sessionFile, discarded, saved, overlapped>>
  PROVE  HomeInv'
<1>1. CliSessionTypeOK /\ FilesOK /\ ClientOK(c) /\ shell \in [Clis -> Shells]
  BY ShellTyped DEF HomeInv
<1>2. shell[c] \in Shells
  BY <1>1
<1>3. s = [at |-> "connect", token |-> shell[c].token, seen |-> {}, space |-> w, resumed |-> shell[c].resumed]
  BY <1>2 DEF Shells
<1>4. "connect" \in {"off", "login", "keep", "choose", "empty", "write", "connect", "refused", "prompt"}
  BY <1>1, <1>2, CliSessionAssumption DEF Shells
<1>5. shell[c].token \in 0..MaxTokens
  BY <1>1, <1>2, CliSessionAssumption DEF Shells, CliSessionTypeOK
<1>6. {} \in SUBSET Spaces
  BY <1>1, <1>2, CliSessionAssumption DEF Shells, CliSessionTypeOK, ReadableSpaces
<1>7. w \in Spaces
  BY <1>1, <1>2, CliSessionAssumption DEF Shells, Spaces, CliSessionTypeOK
<1>8. shell[c].resumed \in 0..MaxSessions
  BY <1>1, <1>2, CliSessionAssumption DEF Shells, CliSessionTypeOK
<1>9. s \in Shells
  BY <1>3, <1>4, <1>5, <1>6, <1>7, <1>8 DEF Shells
<1>10. s.at = "connect" /\ s.token = shell[c].token /\ s.seen = {} /\ s.space = w /\ s.resumed = shell[c].resumed
  BY <1>3
<1>11. /\ shell' \in [Clis -> Shells] /\ shell'[c] = s
      /\ \A d \in Clis : d # c => shell'[d] = shell[d]
  BY <1>1, <1>9, ShellSet
<1>12. CliSessionTypeOK'
  <2>1. shell' \in [Clis -> Shells]
    BY <1>11
  <2> QED BY <1>1, <2>1 DEF CliSessionTypeOK, Shells
<1>13. FilesOK'
  BY <1>1, <1>2 DEF CliSessionTypeOK, FilesOK, ClientOK, TokenOK, SpaceOK, Shells
<1>14. TokenOK(c)'
  BY <1>1, <1>2, <1>10, <1>11 DEF CliSessionTypeOK, FilesOK, ClientOK, TokenOK, Saving, Shells
<1>15. SpaceOK(c)'
  BY <1>1, <1>2, <1>10, <1>11 DEF FilesOK, ClientOK, SpaceOK, Opened, Saving, ReadableSpaces
<1>16. ResumedOK(c)'
  BY <1>1, <1>2, <1>10, <1>11 DEF ClientOK, ResumedOK, Opened
<1>17. \A d \in Clis : d # c => ClientOK(d)'
  <2> SUFFICES ASSUME NEW d \in Clis, d # c PROVE ClientOK(d)'
    OBVIOUS
  <2>1. shell'[d] = shell[d] /\ ClientOK(d) /\ shell[d] \in Shells
    BY <1>1, <1>11 DEF HomeInv
  <2>2. TokenOK(d)'
    BY <1>1, <1>2, <1>10, <1>11, <2>1 DEF CliSessionTypeOK, FilesOK, ClientOK, TokenOK, Saving,
       Shells
  <2>3. SpaceOK(d)'
    BY <1>1, <1>2, <1>10, <1>11, <2>1 DEF ClientOK, SpaceOK, Opened, Saving, ReadableSpaces
  <2>4. ResumedOK(d)'
    BY <1>1, <1>11, <2>1 DEF ClientOK, ResumedOK, Opened
  <2> QED BY <2>2, <2>3, <2>4 DEF ClientOK
<1> QED BY <1>12, <1>13, <1>14, <1>15, <1>16, <1>17 DEF HomeInv, ClientOK

\* Or it starts to save one.
LEMMA CliSavesSafely ==
  ASSUME HomeInv, NEW c \in Clis, NEW w \in Spaces, shell[c].at = "choose", NEW s, s = [shell[c] EXCEPT !.at = "empty", !.space = w, !.seen = ReadableSpaces],
         shell' = [shell EXCEPT ![c] = s],
         overlapped' = (overlapped \/ ~spaceFile.whole \/ \E d \in Clis \ {c} : shell[d].at \in {"empty", "write"}),
         UNCHANGED <<tokenFile, issued, refusing, spaceFile, sessionFile, discarded, saved>>
  PROVE  HomeInv'
<1>1. CliSessionTypeOK /\ FilesOK /\ ClientOK(c) /\ shell \in [Clis -> Shells]
  BY ShellTyped DEF HomeInv
<1>2. shell[c] \in Shells
  BY <1>1
<1>3. s = [at |-> "empty", token |-> shell[c].token, seen |-> ReadableSpaces, space |-> w, resumed |-> shell[c].resumed]
  BY <1>2 DEF Shells
<1>4. "empty" \in {"off", "login", "keep", "choose", "empty", "write", "connect", "refused", "prompt"}
  BY <1>1, <1>2, CliSessionAssumption DEF Shells
<1>5. shell[c].token \in 0..MaxTokens
  BY <1>1, <1>2, CliSessionAssumption DEF Shells, CliSessionTypeOK
<1>6. ReadableSpaces \in SUBSET Spaces
  BY <1>1, <1>2, CliSessionAssumption DEF Shells, CliSessionTypeOK, ReadableSpaces
<1>7. w \in Spaces
  BY <1>1, <1>2, CliSessionAssumption DEF Shells, Spaces, CliSessionTypeOK
<1>8. shell[c].resumed \in 0..MaxSessions
  BY <1>1, <1>2, CliSessionAssumption DEF Shells, CliSessionTypeOK
<1>9. s \in Shells
  BY <1>3, <1>4, <1>5, <1>6, <1>7, <1>8 DEF Shells
<1>10. s.at = "empty" /\ s.token = shell[c].token /\ s.seen = ReadableSpaces /\ s.space = w /\ s.resumed = shell[c].resumed
  BY <1>3
<1>11. /\ shell' \in [Clis -> Shells] /\ shell'[c] = s
      /\ \A d \in Clis : d # c => shell'[d] = shell[d]
  BY <1>1, <1>9, ShellSet
<1>12. ~overlapped' => ~overlapped /\ spaceFile.whole /\ \A d \in Clis : d # c => shell[d].at \notin Saving
  BY DEF Saving
<1>13. ~overlapped' => saved \subseteq ReadableSpaces
  BY <1>1, <1>12 DEF FilesOK, ReadableSpaces
<1>14. ReadableSpaces \subseteq saved
  BY <1>1 DEF FilesOK, ReadableSpaces
<1>15. CliSessionTypeOK'
  <2>1. shell' \in [Clis -> Shells]
    BY <1>11
  <2>2. overlapped' \in BOOLEAN
    BY <1>12, <1>13, <1>14, <1>1, <1>2, CliSessionAssumption DEF CliSessionTypeOK, Tokens
  <2> QED BY <1>1, <2>1, <2>2 DEF CliSessionTypeOK, Shells
<1>16. FilesOK'
  BY <1>12, <1>13, <1>14, <1>1, <1>2 DEF CliSessionTypeOK, FilesOK
<1>17. TokenOK(c)'
  BY <1>12, <1>13, <1>14, <1>1, <1>2, <1>10, <1>11 DEF CliSessionTypeOK, FilesOK, ClientOK,
     TokenOK, Saving, Shells
<1>18. SpaceOK(c)'
  BY <1>12, <1>13, <1>14, <1>1, <1>2, <1>10, <1>11 DEF FilesOK, ClientOK, SpaceOK, Opened,
     Saving, ReadableSpaces
<1>19. ResumedOK(c)'
  BY <1>12, <1>13, <1>14, <1>1, <1>2, <1>10, <1>11 DEF ClientOK, ResumedOK, Opened
<1>20. \A d \in Clis : d # c => ClientOK(d)'
  <2> SUFFICES ASSUME NEW d \in Clis, d # c PROVE ClientOK(d)'
    OBVIOUS
  <2>1. shell'[d] = shell[d] /\ ClientOK(d) /\ shell[d] \in Shells
    BY <1>1, <1>11 DEF HomeInv
  <2>2. TokenOK(d)'
    BY <1>12, <1>13, <1>14, <1>1, <1>2, <1>10, <1>11, <2>1 DEF CliSessionTypeOK, FilesOK,
       ClientOK, TokenOK, Saving, Shells
  <2>3. SpaceOK(d)'
    BY <1>12, <1>13, <1>14, <1>1, <1>2, <1>10, <1>11, <2>1 DEF ClientOK, SpaceOK, Opened,
       Saving, ReadableSpaces
  <2>4. ResumedOK(d)'
    BY <1>1, <1>11, <2>1 DEF ClientOK, ResumedOK, Opened
  <2> QED BY <2>2, <2>3, <2>4 DEF ClientOK
<1> QED BY <1>15, <1>16, <1>17, <1>18, <1>19, <1>20 DEF HomeInv, ClientOK

\* The file is empty, first.
LEMMA CliEmptiesSafely ==
  ASSUME HomeInv, NEW c \in Clis, shell[c].at = "empty", NEW s, s = [shell[c] EXCEPT !.at = "write"],
         shell' = [shell EXCEPT ![c] = s],
         spaceFile' = [whole |-> FALSE, ids |-> {}],
         UNCHANGED <<tokenFile, issued, refusing, sessionFile, discarded, saved, overlapped>>
  PROVE  HomeInv'
<1>1. CliSessionTypeOK /\ FilesOK /\ ClientOK(c) /\ shell \in [Clis -> Shells]
  BY ShellTyped DEF HomeInv
<1>2. shell[c] \in Shells
  BY <1>1
<1>3. s = [at |-> "write", token |-> shell[c].token, seen |-> shell[c].seen, space |-> shell[c].space, resumed |-> shell[c].resumed]
  BY <1>2 DEF Shells
<1>4. "write" \in {"off", "login", "keep", "choose", "empty", "write", "connect", "refused", "prompt"}
  BY <1>1, <1>2, CliSessionAssumption DEF Shells
<1>5. shell[c].token \in 0..MaxTokens
  BY <1>1, <1>2, CliSessionAssumption DEF Shells, CliSessionTypeOK
<1>6. shell[c].seen \in SUBSET Spaces
  BY <1>1, <1>2, CliSessionAssumption DEF Shells, CliSessionTypeOK, ReadableSpaces
<1>7. shell[c].space \in Spaces
  BY <1>1, <1>2, CliSessionAssumption DEF Shells, Spaces, CliSessionTypeOK
<1>8. shell[c].resumed \in 0..MaxSessions
  BY <1>1, <1>2, CliSessionAssumption DEF Shells, CliSessionTypeOK
<1>9. s \in Shells
  BY <1>3, <1>4, <1>5, <1>6, <1>7, <1>8 DEF Shells
<1>10. s.at = "write" /\ s.token = shell[c].token /\ s.seen = shell[c].seen /\ s.space = shell[c].space /\ s.resumed = shell[c].resumed
  BY <1>3
<1>11. /\ shell' \in [Clis -> Shells] /\ shell'[c] = s
      /\ \A d \in Clis : d # c => shell'[d] = shell[d]
  BY <1>1, <1>9, ShellSet
<1>12. CliSessionTypeOK'
  <2>1. shell' \in [Clis -> Shells]
    BY <1>11
  <2>2. spaceFile' \in [whole : BOOLEAN, ids : SUBSET Spaces]
    BY <1>1, <1>2, CliSessionAssumption DEF CliSessionTypeOK, Tokens, Shells, ClientOK, TokenOK
  <2> QED BY <1>1, <2>1, <2>2 DEF CliSessionTypeOK, Shells
<1>13. FilesOK'
  BY <1>1, <1>2 DEF CliSessionTypeOK, FilesOK, ClientOK, TokenOK, SpaceOK, Shells
<1>14. TokenOK(c)'
  BY <1>1, <1>2, <1>10, <1>11 DEF CliSessionTypeOK, FilesOK, ClientOK, TokenOK, Saving, Shells
<1>15. SpaceOK(c)'
  BY <1>1, <1>2, <1>10, <1>11 DEF FilesOK, ClientOK, SpaceOK, Opened, Saving, ReadableSpaces
<1>16. ResumedOK(c)'
  BY <1>1, <1>2, <1>10, <1>11 DEF ClientOK, ResumedOK, Opened
<1>17. \A d \in Clis : d # c => ClientOK(d)'
  <2> SUFFICES ASSUME NEW d \in Clis, d # c PROVE ClientOK(d)'
    OBVIOUS
  <2>1. shell'[d] = shell[d] /\ ClientOK(d) /\ shell[d] \in Shells
    BY <1>1, <1>11 DEF HomeInv
  <2>2. TokenOK(d)'
    BY <1>1, <1>2, <1>10, <1>11, <2>1 DEF CliSessionTypeOK, FilesOK, ClientOK, TokenOK, Saving,
       Shells
  <2>3. SpaceOK(d)'
    BY <1>1, <1>2, <1>10, <1>11, <2>1 DEF ClientOK, SpaceOK, Opened, Saving, ReadableSpaces
  <2>4. ResumedOK(d)'
    BY <1>1, <1>11, <2>1 DEF ClientOK, ResumedOK, Opened
  <2> QED BY <2>2, <2>3, <2>4 DEF ClientOK
<1> QED BY <1>12, <1>13, <1>14, <1>15, <1>16, <1>17 DEF HomeInv, ClientOK

\* Then it is written.
LEMMA CliWritesSafely ==
  ASSUME HomeInv, NEW c \in Clis, shell[c].at = "write", NEW s, s = [shell[c] EXCEPT !.at = "connect", !.seen = {}],
         shell' = [shell EXCEPT ![c] = s],
         spaceFile' = [whole |-> TRUE, ids |-> shell[c].seen \union {shell[c].space}],
         saved' = saved \union {shell[c].space},
         UNCHANGED <<tokenFile, issued, refusing, sessionFile, discarded, overlapped>>
  PROVE  HomeInv'
<1>1. CliSessionTypeOK /\ FilesOK /\ ClientOK(c) /\ shell \in [Clis -> Shells]
  BY ShellTyped DEF HomeInv
<1>2. shell[c] \in Shells
  BY <1>1
<1>3. s = [at |-> "connect", token |-> shell[c].token, seen |-> {}, space |-> shell[c].space, resumed |-> shell[c].resumed]
  BY <1>2 DEF Shells
<1>4. "connect" \in {"off", "login", "keep", "choose", "empty", "write", "connect", "refused", "prompt"}
  BY <1>1, <1>2, CliSessionAssumption DEF Shells
<1>5. shell[c].token \in 0..MaxTokens
  BY <1>1, <1>2, CliSessionAssumption DEF Shells, CliSessionTypeOK
<1>6. {} \in SUBSET Spaces
  BY <1>1, <1>2, CliSessionAssumption DEF Shells, CliSessionTypeOK, ReadableSpaces
<1>7. shell[c].space \in Spaces
  BY <1>1, <1>2, CliSessionAssumption DEF Shells, Spaces, CliSessionTypeOK
<1>8. shell[c].resumed \in 0..MaxSessions
  BY <1>1, <1>2, CliSessionAssumption DEF Shells, CliSessionTypeOK
<1>9. s \in Shells
  BY <1>3, <1>4, <1>5, <1>6, <1>7, <1>8 DEF Shells
<1>10. s.at = "connect" /\ s.token = shell[c].token /\ s.seen = {} /\ s.space = shell[c].space /\ s.resumed = shell[c].resumed
  BY <1>3
<1>11. /\ shell' \in [Clis -> Shells] /\ shell'[c] = s
      /\ \A d \in Clis : d # c => shell'[d] = shell[d]
  BY <1>1, <1>9, ShellSet
<1>12. shell[c].seen \subseteq saved /\ (~overlapped => saved \subseteq shell[c].seen)
  BY <1>1 DEF ClientOK, SpaceOK, Saving
<1>13. spaceFile'.whole /\ spaceFile'.ids = shell[c].seen \union {shell[c].space}
  OBVIOUS
<1>14. CliSessionTypeOK'
  <2>1. shell' \in [Clis -> Shells]
    BY <1>11
  <2>2. spaceFile' \in [whole : BOOLEAN, ids : SUBSET Spaces]
    BY <1>12, <1>13, <1>1, <1>2, CliSessionAssumption DEF CliSessionTypeOK, Tokens
  <2>3. saved' \subseteq Spaces
    BY <1>12, <1>13, <1>1, <1>2, CliSessionAssumption DEF CliSessionTypeOK, Tokens
  <2> QED BY <1>1, <2>1, <2>2, <2>3 DEF CliSessionTypeOK, Shells
<1>15. FilesOK'
  BY <1>12, <1>13, <1>1, <1>2 DEF CliSessionTypeOK, FilesOK
<1>16. TokenOK(c)'
  BY <1>12, <1>13, <1>1, <1>2, <1>10, <1>11 DEF CliSessionTypeOK, FilesOK, ClientOK, TokenOK,
     Saving, Shells
<1>17. SpaceOK(c)'
  BY <1>12, <1>13, <1>1, <1>2, <1>10, <1>11 DEF FilesOK, ClientOK, SpaceOK, Opened, Saving,
     ReadableSpaces
<1>18. ResumedOK(c)'
  BY <1>12, <1>13, <1>1, <1>2, <1>10, <1>11 DEF ClientOK, ResumedOK, Opened
<1>19. \A d \in Clis : d # c => ClientOK(d)'
  <2> SUFFICES ASSUME NEW d \in Clis, d # c PROVE ClientOK(d)'
    OBVIOUS
  <2>1. shell'[d] = shell[d] /\ ClientOK(d) /\ shell[d] \in Shells
    BY <1>1, <1>11 DEF HomeInv
  <2>2. TokenOK(d)'
    BY <1>12, <1>13, <1>1, <1>2, <1>10, <1>11, <2>1 DEF CliSessionTypeOK, FilesOK, ClientOK,
       TokenOK, Saving, Shells
  <2>3. SpaceOK(d)'
    BY <1>12, <1>13, <1>1, <1>2, <1>10, <1>11, <2>1 DEF ClientOK, SpaceOK, Opened, Saving,
       ReadableSpaces
  <2>4. ResumedOK(d)'
    BY <1>1, <1>11, <2>1 DEF ClientOK, ResumedOK, Opened
  <2> QED BY <2>2, <2>3, <2>4 DEF ClientOK
<1> QED BY <1>14, <1>15, <1>16, <1>17, <1>18, <1>19 DEF HomeInv, ClientOK

\* Its token is refused.
LEMMA CliRefusedSafely ==
  ASSUME HomeInv, NEW c \in Clis, shell[c].at = "connect", NEW s, s = [shell[c] EXCEPT !.at = "refused"],
         shell' = [shell EXCEPT ![c] = s],
         UNCHANGED <<tokenFile, issued, refusing, spaceFile, sessionFile, discarded, saved, overlapped>>
  PROVE  HomeInv'
<1>1. CliSessionTypeOK /\ FilesOK /\ ClientOK(c) /\ shell \in [Clis -> Shells]
  BY ShellTyped DEF HomeInv
<1>2. shell[c] \in Shells
  BY <1>1
<1>3. s = [at |-> "refused", token |-> shell[c].token, seen |-> shell[c].seen, space |-> shell[c].space, resumed |-> shell[c].resumed]
  BY <1>2 DEF Shells
<1>4. "refused" \in {"off", "login", "keep", "choose", "empty", "write", "connect", "refused", "prompt"}
  BY <1>1, <1>2, CliSessionAssumption DEF Shells
<1>5. shell[c].token \in 0..MaxTokens
  BY <1>1, <1>2, CliSessionAssumption DEF Shells, CliSessionTypeOK
<1>6. shell[c].seen \in SUBSET Spaces
  BY <1>1, <1>2, CliSessionAssumption DEF Shells, CliSessionTypeOK, ReadableSpaces
<1>7. shell[c].space \in Spaces
  BY <1>1, <1>2, CliSessionAssumption DEF Shells, Spaces, CliSessionTypeOK
<1>8. shell[c].resumed \in 0..MaxSessions
  BY <1>1, <1>2, CliSessionAssumption DEF Shells, CliSessionTypeOK
<1>9. s \in Shells
  BY <1>3, <1>4, <1>5, <1>6, <1>7, <1>8 DEF Shells
<1>10. s.at = "refused" /\ s.token = shell[c].token /\ s.seen = shell[c].seen /\ s.space = shell[c].space /\ s.resumed = shell[c].resumed
  BY <1>3
<1>11. /\ shell' \in [Clis -> Shells] /\ shell'[c] = s
      /\ \A d \in Clis : d # c => shell'[d] = shell[d]
  BY <1>1, <1>9, ShellSet
<1>12. CliSessionTypeOK'
  <2>1. shell' \in [Clis -> Shells]
    BY <1>11
  <2> QED BY <1>1, <2>1 DEF CliSessionTypeOK, Shells
<1>13. FilesOK'
  BY <1>1, <1>2 DEF CliSessionTypeOK, FilesOK, ClientOK, TokenOK, SpaceOK, Shells
<1>14. TokenOK(c)'
  BY <1>1, <1>2, <1>10, <1>11 DEF CliSessionTypeOK, FilesOK, ClientOK, TokenOK, Saving, Shells
<1>15. SpaceOK(c)'
  BY <1>1, <1>2, <1>10, <1>11 DEF FilesOK, ClientOK, SpaceOK, Opened, Saving, ReadableSpaces
<1>16. ResumedOK(c)'
  BY <1>1, <1>2, <1>10, <1>11 DEF ClientOK, ResumedOK, Opened
<1>17. \A d \in Clis : d # c => ClientOK(d)'
  <2> SUFFICES ASSUME NEW d \in Clis, d # c PROVE ClientOK(d)'
    OBVIOUS
  <2>1. shell'[d] = shell[d] /\ ClientOK(d) /\ shell[d] \in Shells
    BY <1>1, <1>11 DEF HomeInv
  <2>2. TokenOK(d)'
    BY <1>1, <1>2, <1>10, <1>11, <2>1 DEF CliSessionTypeOK, FilesOK, ClientOK, TokenOK, Saving,
       Shells
  <2>3. SpaceOK(d)'
    BY <1>1, <1>2, <1>10, <1>11, <2>1 DEF ClientOK, SpaceOK, Opened, Saving, ReadableSpaces
  <2>4. ResumedOK(d)'
    BY <1>1, <1>11, <2>1 DEF ClientOK, ResumedOK, Opened
  <2> QED BY <2>2, <2>3, <2>4 DEF ClientOK
<1> QED BY <1>12, <1>13, <1>14, <1>15, <1>16, <1>17 DEF HomeInv, ClientOK

\* Or it is taken.
LEMMA CliConnectsSafely ==
  ASSUME HomeInv, NEW c \in Clis, shell[c].at = "connect", NEW s, s = [shell[c] EXCEPT !.at = "prompt", !.token = 0],
         shell' = [shell EXCEPT ![c] = s],
         UNCHANGED <<tokenFile, issued, refusing, spaceFile, sessionFile, discarded, saved, overlapped>>
  PROVE  HomeInv'
<1>1. CliSessionTypeOK /\ FilesOK /\ ClientOK(c) /\ shell \in [Clis -> Shells]
  BY ShellTyped DEF HomeInv
<1>2. shell[c] \in Shells
  BY <1>1
<1>3. s = [at |-> "prompt", token |-> 0, seen |-> shell[c].seen, space |-> shell[c].space, resumed |-> shell[c].resumed]
  BY <1>2 DEF Shells
<1>4. "prompt" \in {"off", "login", "keep", "choose", "empty", "write", "connect", "refused", "prompt"}
  BY <1>1, <1>2, CliSessionAssumption DEF Shells
<1>5. 0 \in 0..MaxTokens
  BY <1>1, <1>2, CliSessionAssumption DEF Shells, CliSessionTypeOK
<1>6. shell[c].seen \in SUBSET Spaces
  BY <1>1, <1>2, CliSessionAssumption DEF Shells, CliSessionTypeOK, ReadableSpaces
<1>7. shell[c].space \in Spaces
  BY <1>1, <1>2, CliSessionAssumption DEF Shells, Spaces, CliSessionTypeOK
<1>8. shell[c].resumed \in 0..MaxSessions
  BY <1>1, <1>2, CliSessionAssumption DEF Shells, CliSessionTypeOK
<1>9. s \in Shells
  BY <1>3, <1>4, <1>5, <1>6, <1>7, <1>8 DEF Shells
<1>10. s.at = "prompt" /\ s.token = 0 /\ s.seen = shell[c].seen /\ s.space = shell[c].space /\ s.resumed = shell[c].resumed
  BY <1>3
<1>11. /\ shell' \in [Clis -> Shells] /\ shell'[c] = s
      /\ \A d \in Clis : d # c => shell'[d] = shell[d]
  BY <1>1, <1>9, ShellSet
<1>12. CliSessionTypeOK'
  <2>1. shell' \in [Clis -> Shells]
    BY <1>11
  <2> QED BY <1>1, <2>1 DEF CliSessionTypeOK, Shells
<1>13. FilesOK'
  BY <1>1, <1>2 DEF CliSessionTypeOK, FilesOK, ClientOK, TokenOK, SpaceOK, Shells
<1>14. TokenOK(c)'
  BY <1>1, <1>2, <1>10, <1>11 DEF CliSessionTypeOK, FilesOK, ClientOK, TokenOK, Saving, Shells
<1>15. SpaceOK(c)'
  BY <1>1, <1>2, <1>10, <1>11 DEF FilesOK, ClientOK, SpaceOK, Opened, Saving, ReadableSpaces
<1>16. ResumedOK(c)'
  BY <1>1, <1>2, <1>10, <1>11 DEF ClientOK, ResumedOK, Opened
<1>17. \A d \in Clis : d # c => ClientOK(d)'
  <2> SUFFICES ASSUME NEW d \in Clis, d # c PROVE ClientOK(d)'
    OBVIOUS
  <2>1. shell'[d] = shell[d] /\ ClientOK(d) /\ shell[d] \in Shells
    BY <1>1, <1>11 DEF HomeInv
  <2>2. TokenOK(d)'
    BY <1>1, <1>2, <1>10, <1>11, <2>1 DEF CliSessionTypeOK, FilesOK, ClientOK, TokenOK, Saving,
       Shells
  <2>3. SpaceOK(d)'
    BY <1>1, <1>2, <1>10, <1>11, <2>1 DEF ClientOK, SpaceOK, Opened, Saving, ReadableSpaces
  <2>4. ResumedOK(d)'
    BY <1>1, <1>11, <2>1 DEF ClientOK, ResumedOK, Opened
  <2> QED BY <2>2, <2>3, <2>4 DEF ClientOK
<1> QED BY <1>12, <1>13, <1>14, <1>15, <1>16, <1>17 DEF HomeInv, ClientOK

\* A refused token is removed.
LEMMA CliClearsSafely ==
  ASSUME HomeInv, NEW c \in Clis, shell[c].at = "refused", NEW s, s = Off,
         shell' = [shell EXCEPT ![c] = s],
         tokenFile' = 0,
         discarded' = discarded \union {shell[c].token},
         UNCHANGED <<issued, refusing, spaceFile, sessionFile, saved, overlapped>>
  PROVE  HomeInv'
<1>1. CliSessionTypeOK /\ FilesOK /\ ClientOK(c) /\ shell \in [Clis -> Shells]
  BY ShellTyped DEF HomeInv
<1>2. shell[c] \in Shells
  BY <1>1
<1>3. s = [at |-> "off", token |-> 0, seen |-> {}, space |-> DefaultSpace, resumed |-> 0]
  BY DEF Off
<1>4. "off" \in {"off", "login", "keep", "choose", "empty", "write", "connect", "refused", "prompt"}
  BY <1>1, <1>2, CliSessionAssumption DEF Shells
<1>5. 0 \in 0..MaxTokens
  BY <1>1, <1>2, CliSessionAssumption DEF Shells, CliSessionTypeOK
<1>6. {} \in SUBSET Spaces
  BY <1>1, <1>2, CliSessionAssumption DEF Shells, CliSessionTypeOK, ReadableSpaces
<1>7. DefaultSpace \in Spaces
  BY <1>1, <1>2, CliSessionAssumption DEF Shells, Spaces, CliSessionTypeOK
<1>8. 0 \in 0..MaxSessions
  BY <1>1, <1>2, CliSessionAssumption DEF Shells, CliSessionTypeOK
<1>9. s \in Shells
  BY <1>3, <1>4, <1>5, <1>6, <1>7, <1>8 DEF Shells
<1>10. s.at = "off" /\ s.token = 0 /\ s.seen = {} /\ s.space = DefaultSpace /\ s.resumed = 0
  BY <1>3 DEF Off
<1>11. /\ shell' \in [Clis -> Shells] /\ shell'[c] = s
      /\ \A d \in Clis : d # c => shell'[d] = shell[d]
  BY <1>1, <1>9, ShellSet
<1>12. shell[c].token \in 1..MaxTokens /\ shell[c].token <= issued
  BY <1>1, <1>2, CliSessionAssumption DEF ClientOK, TokenOK, Shells
<1>13. 0 \notin discarded
  BY <1>1 DEF CliSessionTypeOK, Tokens
<1>14. issued \in Nat
  BY <1>1, CliSessionAssumption DEF CliSessionTypeOK
<1>15. CliSessionTypeOK'
  <2>1. shell' \in [Clis -> Shells]
    BY <1>11
  <2>2. tokenFile' \in 0..MaxTokens
    BY <1>12, <1>13, <1>14, <1>1, <1>2, CliSessionAssumption DEF CliSessionTypeOK, Tokens
  <2>3. discarded' \subseteq Tokens
    BY <1>12, <1>13, <1>14, <1>1, <1>2, CliSessionAssumption DEF CliSessionTypeOK, Tokens
  <2> QED BY <1>1, <2>1, <2>2, <2>3 DEF CliSessionTypeOK, Shells
<1>16. FilesOK'
  BY <1>12, <1>13, <1>14, <1>1, <1>2 DEF CliSessionTypeOK, FilesOK
<1>17. TokenOK(c)'
  BY <1>12, <1>13, <1>14, <1>1, <1>2, <1>10, <1>11 DEF CliSessionTypeOK, FilesOK, ClientOK,
     TokenOK, Saving, Shells
<1>18. SpaceOK(c)'
  BY <1>12, <1>13, <1>14, <1>1, <1>2, <1>10, <1>11 DEF FilesOK, ClientOK, SpaceOK, Opened,
     Saving, ReadableSpaces
<1>19. ResumedOK(c)'
  BY <1>12, <1>13, <1>14, <1>1, <1>2, <1>10, <1>11 DEF ClientOK, ResumedOK, Opened
<1>20. \A d \in Clis : d # c => ClientOK(d)'
  <2> SUFFICES ASSUME NEW d \in Clis, d # c PROVE ClientOK(d)'
    OBVIOUS
  <2>1. shell'[d] = shell[d] /\ ClientOK(d) /\ shell[d] \in Shells
    BY <1>1, <1>11 DEF HomeInv
  <2>2. TokenOK(d)'
    BY <1>12, <1>13, <1>14, <1>1, <1>2, <1>10, <1>11, <2>1 DEF CliSessionTypeOK, FilesOK,
       ClientOK, TokenOK, Saving, Shells
  <2>3. SpaceOK(d)'
    BY <1>12, <1>13, <1>14, <1>1, <1>2, <1>10, <1>11, <2>1 DEF ClientOK, SpaceOK, Opened,
       Saving, ReadableSpaces
  <2>4. ResumedOK(d)'
    BY <1>1, <1>11, <2>1 DEF ClientOK, ResumedOK, Opened
  <2> QED BY <2>2, <2>3, <2>4 DEF ClientOK
<1> QED BY <1>15, <1>16, <1>17, <1>18, <1>19, <1>20 DEF HomeInv, ClientOK

\* What the clients of a user leave on file is what they had, for any clients, workspaces and
\* sessions, wherever one is killed (cli/main.py, token_store.py, session_store.py).
THEOREM HomeIsKept == CliSessionSpec => [](CliSessionTypeOK /\ HomeKept)
<1>1. HomeInv => CliSessionTypeOK /\ HomeKept
  BY DEF HomeInv, FilesOK, ClientOK, ResumedOK, HomeKept
<1>2. CliSessionInit => HomeInv
  <2> SUFFICES ASSUME CliSessionInit PROVE HomeInv
    OBVIOUS
  <2>1. Off \in Shells /\ Off.at = "off" /\ Off.token = 0 /\ Off.seen = {} /\ Off.resumed = 0
    BY CliSessionAssumption DEF Off, Shells, Spaces
  <2>2. CliSessionTypeOK
    <3>1. shell \in [Clis -> Shells]
      BY <2>1 DEF CliSessionInit
    <3>2. sessionFile \in Seq(Spaces) /\ Len(sessionFile) <= MaxSessions
      <4>1. MaxSessions \in Nat /\ sessionFile = <<>>
        BY CliSessionAssumption DEF CliSessionInit
      <4>2. Len(sessionFile) = 0
        BY <4>1
      <4>3. sessionFile \in Seq(Spaces)
        BY <4>1
      <4>4. 0 <= MaxSessions
        BY <4>1
      <4> QED BY <4>2, <4>3, <4>4
    <3>3. 0 \in 0..MaxTokens
      BY CliSessionAssumption
    <3>4. spaceFile \in [whole : BOOLEAN, ids : SUBSET Spaces]
      BY DEF CliSessionInit
    <3>5. tokenFile = 0 /\ issued = 0 /\ refusing = 0 /\ discarded = {} /\ saved = {}
          /\ overlapped = FALSE
      BY DEF CliSessionInit
    <3> QED BY <3>1, <3>2, <3>3, <3>4, <3>5 DEF CliSessionTypeOK, Shells
  <2>3. FilesOK
    BY DEF CliSessionInit, FilesOK
  <2>4. ASSUME NEW c \in Clis PROVE ClientOK(c)
    <3>1. shell[c] = Off /\ issued = 0
      BY DEF CliSessionInit
    <3>2. TokenOK(c)
      BY <2>1, <3>1 DEF TokenOK, Saving
    <3>3. SpaceOK(c)
      BY <2>1, <3>1 DEF SpaceOK, Opened, Saving
    <3> QED BY <2>1, <3>1, <3>2, <3>3 DEF ClientOK, ResumedOK
  <2> QED BY <2>2, <2>3, <2>4 DEF HomeInv
<1>3. HomeInv /\ [CliSessionNext]_homeVars => HomeInv'
  <2> SUFFICES ASSUME HomeInv, [CliSessionNext]_homeVars PROVE HomeInv'
    OBVIOUS
  <2> USE DEF homeFiles, homeGateway, homeHistory
  <2>1. ASSUME NEW c \in Clis, StartCli(c) PROVE HomeInv'
    <3>1. PICK at \in {"login", "choose"} :
              /\ at = "choose" => tokenFile # 0
              /\ shell' = [shell EXCEPT ![c] = [Off EXCEPT !.at = at, !.seen = ReadableSpaces,
                                !.token = IF at = "choose" THEN tokenFile ELSE 0]]
      BY <2>1 DEF StartCli
    <3> DEFINE tk == IF at = "choose" THEN tokenFile ELSE 0
    <3>2. (at = "login" => tk = 0) /\ (at = "choose" => tk = tokenFile /\ tk # 0)
      BY <3>1
    <3>3. shell' = [shell EXCEPT ![c] = [Off EXCEPT !.at = at, !.seen = ReadableSpaces,
                                                    !.token = tk]]
      BY <3>1
    <3> HIDE DEF tk
    <3> QED BY <2>1, <3>2, <3>3, CliReadsSafely DEF StartCli
  <2>2. ASSUME NEW c \in Clis, LogInCli(c) PROVE HomeInv'
    <3>1. CASE shell' = [shell EXCEPT ![c] = Off] /\ UNCHANGED issued
      BY <2>2, <3>1, CliLeavesSafely DEF LogInCli
    <3>2. CASE issued < MaxTokens /\ issued' = issued + 1
               /\ shell' = [shell EXCEPT ![c].at = "keep", ![c].token = issued + 1]
      <4>1. shell' = [shell EXCEPT ![c] = [shell[c] EXCEPT !.at = "keep", !.token = issued + 1]]
        BY <3>2, ShellTyped DEF HomeInv, Shells
      <4> QED BY <2>2, <3>2, <4>1, CliLogsInSafely DEF LogInCli
    <3> QED BY <2>2, <3>1, <3>2 DEF LogInCli
  <2>3. ASSUME NEW c \in Clis, SaveCliToken(c) PROVE HomeInv'
    <3>1. shell' = [shell EXCEPT ![c] = [shell[c] EXCEPT !.at = "choose"]]
      BY <2>3, ShellTyped DEF HomeInv, Shells, SaveCliToken, ShellGoes
    <3> QED BY <2>3, <3>1, CliKeepsSafely DEF SaveCliToken
  <2>4. ASSUME NEW c \in Clis, ResumeSession(c) PROVE HomeInv'
    <3>1. PICK i \in Listed : \E w \in Resumable(c, i) :
              shell' = [shell EXCEPT ![c].at = "connect", ![c].space = w, ![c].seen = {},
                                     ![c].resumed = i]
      BY <2>4 DEF ResumeSession
    <3>2. i \in DOMAIN sessionFile /\ sessionFile[i] \in shell[c].seen
          /\ shell' = [shell EXCEPT ![c].at = "connect", ![c].space = sessionFile[i],
                                    ![c].seen = {}, ![c].resumed = i]
      BY <3>1 DEF Listed, Resumable
    <3>3. shell' = [shell EXCEPT ![c] = [shell[c] EXCEPT !.at = "connect",
                        !.space = sessionFile[i], !.seen = {}, !.resumed = i]]
      BY <3>2, ShellTyped DEF HomeInv, Shells
    <3> QED BY <2>4, <3>2, <3>3, CliResumesSafely DEF ResumeSession
  <2>5. ASSUME NEW c \in Clis, FlagKnownSpace(c) PROVE HomeInv'
    <3>1. PICK w \in shell[c].seen :
              shell' = [shell EXCEPT ![c].at = "connect", ![c].space = w, ![c].seen = {}]
      BY <2>5 DEF FlagKnownSpace
    <3>2. shell' = [shell EXCEPT ![c] = [shell[c] EXCEPT !.at = "connect", !.space = w,
                                                         !.seen = {}]]
      BY <3>1, ShellTyped DEF HomeInv, Shells
    <3> QED BY <2>5, <3>1, <3>2, CliGoesOnSafely DEF FlagKnownSpace
  <2>6. ASSUME NEW c \in Clis, NEW w \in Spaces, shell[c].at = "choose", SaveStarts(c, w),
               UNCHANGED <<homeFiles, homeGateway, discarded, saved>>
        PROVE  HomeInv'
    <3>1. shell' = [shell EXCEPT ![c] = [shell[c] EXCEPT !.at = "empty", !.space = w,
                                                         !.seen = ReadableSpaces]]
      BY <2>6, ShellTyped DEF HomeInv, Shells, SaveStarts, SaveBase
    <3> QED BY <2>6, <3>1, CliSavesSafely DEF SaveStarts
  <2>7. ASSUME NEW c \in Clis, SeedSpace(c) PROVE HomeInv'
    <3>1. PICK w \in (Spaces \ shell[c].seen) \union {DefaultSpace} : SaveStarts(c, w)
      BY <2>7 DEF SeedSpace
    <3>2. w \in Spaces
      BY <3>1 DEF Spaces
    <3> QED BY <2>6, <2>7, <3>1, <3>2 DEF SeedSpace
  <2>8. ASSUME NEW c \in Clis, PickSpace(c) PROVE HomeInv'
    <3>1. PICK w \in shell[c].seen \union OtherSpaces : SaveStarts(c, w)
      BY <2>8 DEF PickSpace
    <3>2. w \in Spaces
      BY <2>8, <3>1, ShellTyped DEF HomeInv, Shells, Spaces
    <3> QED BY <2>6, <2>8, <3>1, <3>2 DEF PickSpace
  <2>9. ASSUME NEW c \in Clis, SaveEmpties(c) PROVE HomeInv'
    <3>1. shell' = [shell EXCEPT ![c] = [shell[c] EXCEPT !.at = "write"]]
      BY <2>9, ShellTyped DEF HomeInv, Shells, SaveEmpties, ShellGoes
    <3> QED BY <2>9, <3>1, CliEmptiesSafely DEF SaveEmpties
  <2>10. ASSUME NEW c \in Clis, SaveWrites(c) PROVE HomeInv'
    <3>1. shell' = [shell EXCEPT ![c] = [shell[c] EXCEPT !.at = "connect", !.seen = {}]]
      BY <2>10, ShellTyped DEF HomeInv, Shells, SaveWrites
    <3> QED BY <2>10, <3>1, CliWritesSafely DEF SaveWrites
  <2>11. ASSUME NEW c \in Clis, ConnectCli(c) PROVE HomeInv'
    <3>1. CASE ShellGoes(c, "refused")
      <4>1. shell' = [shell EXCEPT ![c] = [shell[c] EXCEPT !.at = "refused"]]
        BY <3>1, ShellTyped DEF HomeInv, Shells, ShellGoes
      <4> QED BY <2>11, <4>1, CliRefusedSafely DEF ConnectCli
    <3>2. CASE shell' = [shell EXCEPT ![c].at = "prompt", ![c].token = 0]
      <4>1. shell' = [shell EXCEPT ![c] = [shell[c] EXCEPT !.at = "prompt", !.token = 0]]
        BY <3>2, ShellTyped DEF HomeInv, Shells
      <4> QED BY <2>11, <4>1, CliConnectsSafely DEF ConnectCli
    <3>3. CASE shell' = [shell EXCEPT ![c] = Off]
      BY <2>11, <3>3, CliLeavesSafely DEF ConnectCli
    <3> QED BY <2>11, <3>1, <3>2, <3>3 DEF ConnectCli
  <2>12. ASSUME NEW c \in Clis, ClearToken(c) PROVE HomeInv'
    BY <2>12, CliClearsSafely DEF ClearToken, ClearTokenFile
  <2>13. ASSUME NEW c \in Clis, SendCliTask(c) PROVE HomeInv'
    <3>1. CliSessionTypeOK /\ FilesOK /\ ClientOK(c) /\ shell[c].at = "prompt"
      BY <2>13 DEF HomeInv, SendCliTask
    <3>2. shell[c].space \in saved /\ shell[c].space \in Spaces
      BY <3>1, ShellTyped DEF ClientOK, SpaceOK, Opened, Shells
    <3>3. sessionFile \in Seq(Spaces) /\ Len(sessionFile) < MaxSessions
          /\ sessionFile' = Append(sessionFile, shell[c].space)
      BY <2>13, <3>1 DEF CliSessionTypeOK, SendCliTask
    <3>4. /\ sessionFile' \in Seq(Spaces) /\ Len(sessionFile') <= MaxSessions
          /\ DOMAIN sessionFile' = DOMAIN sessionFile \union {Len(sessionFile) + 1}
          /\ \A i \in DOMAIN sessionFile : sessionFile'[i] = sessionFile[i]
          /\ sessionFile'[Len(sessionFile) + 1] = shell[c].space
      BY <3>2, <3>3, CliSessionAssumption
    <3>5. CliSessionTypeOK'
      BY <2>13, <3>1, <3>4 DEF CliSessionTypeOK, SendCliTask
    <3>6. FilesOK'
      BY <2>13, <3>1, <3>2, <3>4 DEF FilesOK, SendCliTask
    <3>7. ASSUME NEW d \in Clis PROVE ClientOK(d)'
      <4>1. ClientOK(d) /\ shell' = shell /\ UNCHANGED <<tokenFile, issued, discarded, saved,
                                                         overlapped>>
        BY <2>13 DEF HomeInv, SendCliTask
      <4>2. TokenOK(d)'
        BY <4>1 DEF ClientOK, TokenOK
      <4>3. SpaceOK(d)'
        BY <4>1 DEF ClientOK, SpaceOK
      <4>4. ResumedOK(d)'
        BY <3>4, <4>1 DEF ClientOK, ResumedOK
      <4> QED BY <4>2, <4>3, <4>4 DEF ClientOK
    <3> QED BY <3>5, <3>6, <3>7 DEF HomeInv
  <2>14. ASSUME NEW c \in Clis, QuitCli(c) PROVE HomeInv'
    BY <2>14, CliLeavesSafely DEF QuitCli
  <2>15. ASSUME NEW c \in Clis, KillCli(c) PROVE HomeInv'
    BY <2>15, CliLeavesSafely DEF KillCli
  <2>16. CASE RefuseTokens
    <3>1. UNCHANGED <<shell, tokenFile, issued, spaceFile, sessionFile, discarded, saved,
                      overlapped>> /\ CliSessionTypeOK
      BY <2>16 DEF RefuseTokens, HomeInv
    <3>2. refusing' \in 0..MaxTokens
      BY <2>16, <3>1, CliSessionAssumption DEF RefuseTokens, CliSessionTypeOK
    <3>3. CliSessionTypeOK'
      BY <3>1, <3>2 DEF CliSessionTypeOK
    <3> QED BY <3>1, <3>3 DEF HomeInv, FilesOK, ClientOK, TokenOK, SpaceOK, ResumedOK
  <2>17. CASE UNCHANGED homeVars
    <3>1. UNCHANGED <<shell, tokenFile, issued, refusing, spaceFile, sessionFile, discarded, saved,
                      overlapped>> /\ CliSessionTypeOK
      BY <2>17 DEF homeVars, HomeInv
    <3>2. CliSessionTypeOK'
      BY <3>1 DEF CliSessionTypeOK
    <3> QED BY <3>1, <3>2 DEF HomeInv, FilesOK, ClientOK, TokenOK, SpaceOK, ResumedOK
  <2> QED BY <2>1, <2>2, <2>3, <2>4, <2>5, <2>7, <2>8, <2>9, <2>10, <2>11, <2>12, <2>13, <2>14,
             <2>15, <2>16, <2>17
         DEF CliSessionNext
<1> QED BY <1>1, <1>2, <1>3, PTL DEF CliSessionSpec
=============================================================================
