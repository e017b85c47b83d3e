---------------------------- MODULE SQLiteStore ----------------------------
(***************************************************************************)
(* The database of the artifact ledger and the processes that share it:    *)
(* the node, whose store saves block after block (node/store); command     *)
(* line queries, which open the same store and so write to it, if only to  *)
(* look for its tables (entrypoints/cli.py); and the inspector, which      *)
(* reads without writing (inspector/sqlite_ledger_reader.py).              *)
(*                                                                         *)
(* SQLite, as these processes use it, keeps the pages a commit replaces in *)
(* a rollback journal.  Its locks are held by processes in the middle of a *)
(* transaction and vanish with them; a journal its writer left is hot, and *)
(* the next process that may write plays it back.  synchronous = FULL      *)
(* syncs the files but not the deletion of the journal, so that a power    *)
(* loss may bring the last one back.  An entry is its position.            *)
(***************************************************************************)
EXTENDS Integers, Sequences, FiniteSets, SequencesExt

CONSTANTS
  NodeProcess,       \* the node's process
  Queries,           \* processes of the command line
  Watchers,          \* requests of the inspector
  BlockIndexes,      \* the indexes of the valid transactions of each block
  Base,              \* the values of a byte
  MaxStoreKills,     \* bound: processes killed
  MaxStoreLosses     \* bound: power losses

ASSUME StoreConstants ==
  /\ NodeProcess \notin Queries \cup Watchers
  /\ Queries \cap Watchers = {}
  /\ Base \in Nat \ {0}
  /\ BlockIndexes \in Seq(Seq(0 .. Base * Base - 1))
  /\ \A h \in DOMAIN BlockIndexes : \A i, j \in DOMAIN BlockIndexes[h] :
       i < j => BlockIndexes[h][i] < BlockIndexes[h][j]
  /\ MaxStoreKills \in Nat /\ MaxStoreLosses \in Nat

VARIABLES
  file,        \* the database file
  journal,     \* the rollback journal beside it
  deleted,     \* the journal deleted last
  session,     \* the connection of each process
  memory,      \* what the node's ledger holds
  saved,       \* greatest height save returned for
  storeKills, storeLosses  \* counters

storeVars == <<file, journal, deleted, session, memory, saved, storeKills, storeLosses>>

Process == {NodeProcess} \cup Queries \cup Watchers

-----------------------------------------------------------------------------
(* Rows.                                                                   *)

NoHeight == -1

Database == [state  : {"whole", "torn", "absent"}, schema : BOOLEAN,
             height : {NoHeight} \cup 1 .. Len(BlockIndexes), rows : SUBSET (Nat \X Seq(Nat))]

NewFile    == [state |-> "whole", schema |-> FALSE, height |-> NoHeight, rows |-> {}]
TornFile   == [NewFile EXCEPT !.state = "torn"]
NoDatabase == [NewFile EXCEPT !.state = "absent"]
NoJournal  == NoDatabase

\* Mutant: the byte order of the machine.
LittleEndian(index) == <<index % Base, index \div Base>>

\* to_bytes: the most significant byte first.
Encoded(index) == <<index \div Base, index % Base>>

\* BLOBs are compared byte by byte.
BytesBefore(b, c) == b[1] < c[1] \/ (b[1] = c[1] /\ b[2] < c[2])

RowBefore(r, s) == r[1] < s[1] \/ (r[1] = s[1] /\ BytesBefore(r[2], s[2]))

IndexOf(bytes) == CHOOSE i \in 0 .. Base * Base - 1 : Encoded(i) = bytes

\* select_entries_after, and select_entries with height 0: ORDER BY height, index.
Entries(database, height) ==
  LET later == {r \in database.rows : r[1] > height}
      Rank(r) == Cardinality({q \in later : RowBefore(q, r)})
      Row(i) == CHOOSE r \in later : Rank(r) = i - 1
  IN  [i \in 1 .. Cardinality(later) |-> [height |-> Row(i)[1], index |-> IndexOf(Row(i)[2])]]

\* The entries of a block, in the order of its transactions.
Decided(height) ==
  [i \in DOMAIN BlockIndexes[height] |-> [height |-> height, index |-> BlockIndexes[height][i]]]

NewRows(entries) == {<<e.height, Encoded(e.index)>> : e \in Range(entries)}

-----------------------------------------------------------------------------
(* Snapshots.                                                              *)

EmptyLedger == [height |-> 0, entries |-> <<>>]
Down == [height |-> NoHeight, entries |-> <<>>]

\* A height that was never committed reads as zero.
Height(height) == IF height = NoHeight THEN 0 ELSE height

\* _new_entries takes the snapshot as an extension of what is persisted.
ExtendsPersisted(persisted, snapshot) ==
  /\ snapshot.height >= persisted.height
  /\ IsPrefix(persisted.entries, snapshot.entries)
  /\ \A i \in Len(persisted.entries) + 1 .. Len(snapshot.entries) :
       snapshot.entries[i].height > persisted.height

\* _read_snapshot inside a transaction.
Persisted(database) ==
  [height |-> Height(database.height), entries |-> Entries(database, 0)]

\* Mutant: a block that adds no entry leaves the height alone.
WrittenIfEntries(database, snapshot) ==
  LET old == Len(Persisted(database).entries)
      new == SubSeq(snapshot.entries, old + 1, Len(snapshot.entries))
  IN  [database EXCEPT !.rows = @ \cup NewRows(new),
                       !.height = IF new = <<>> THEN @ ELSE snapshot.height]

\* insert_entries and upsert_committed_height.
Written(database, snapshot) ==
  LET old == Len(Persisted(database).entries)
      new == SubSeq(snapshot.entries, old + 1, Len(snapshot.entries))
  IN  [database EXCEPT !.rows = @ \cup NewRows(new), !.height = snapshot.height]

-----------------------------------------------------------------------------
(* Sessions and SQLite's locks.                                            *)

Closed == [at |-> "closed", task |-> "none", after |-> 0, pages |-> NewFile, got |-> EmptyLedger]

Writing == {"reserved", "pending", "flushing"}

\* Mutant: without BEGIN a reader's lock goes with each statement.
SharingByStatement == Writing \cup {"rows"}

\* Holders of a SHARED lock, and of a lock that goes with it.
Sharing == Writing \cup {"height", "rows"}

Others(p, states) == \E q \in Process \ {p} : session[q].at \in states

Hot == journal # NoJournal /\ \A p \in Process : session[p].at # "flushing"

\* The database as a process that could read it would find it.
Committed == IF journal = NoJournal THEN file ELSE journal

StoreInit ==
  /\ file = NoDatabase /\ journal = NoJournal /\ deleted = NoJournal
  /\ session = [p \in Process |-> Closed]
  /\ memory = Down /\ saved = 0
  /\ storeKills = 0 /\ storeLosses = 0

counters == <<storeKills, storeLosses>>

Proceed(p, at) == session' = [session EXCEPT ![p].at = at]

Close(p) == session' = [session EXCEPT ![p] = Closed]

Open(p, at, task) == session' = [session EXCEPT ![p] = [Closed EXCEPT !.at = at, !.task = task]]

-----------------------------------------------------------------------------
(* What the processes ask for.                                             *)

\* The node's process starts: connecting creates the file.
StartNode ==
  /\ memory = Down /\ session[NodeProcess] = Closed
  /\ file' = IF file = NoDatabase THEN NewFile ELSE file
  /\ Open(NodeProcess, "begin", "schema")
  /\ UNCHANGED <<journal, deleted, memory, saved, counters>>

\* Commit saves the ledger with the next block; a save that failed comes again.
SaveBlock ==
  /\ memory # Down /\ session[NodeProcess] = Closed
  /\ memory.height < Len(BlockIndexes)
  /\ session' = [session EXCEPT ![NodeProcess] =
       [Closed EXCEPT !.at = "begin", !.task = "save",
                      !.got = [height |-> memory.height + 1,
                               entries |-> memory.entries \o Decided(memory.height + 1)]]]
  /\ UNCHANGED <<file, journal, deleted, memory, saved, counters>>

\* A query opens the store, which looks for its tables first.
Query(p) ==
  /\ file # NoDatabase /\ session[p] = Closed
  /\ Open(p, "begin", "schema")
  /\ UNCHANGED <<file, journal, deleted, memory, saved, counters>>

\* The inspector asks for what follows the height it knows.
Watch(p) ==
  /\ file # NoDatabase /\ session[p] = Closed
  /\ \E height \in 0 .. saved :
       session' = [session EXCEPT ![p] = [Closed EXCEPT !.at = "unlocked", !.after = height]]
  /\ UNCHANGED <<file, journal, deleted, memory, saved, counters>>

-----------------------------------------------------------------------------
(* Transactions that write.                                                *)

\* BEGIN IMMEDIATE, then the statements, on pages of its own.
BeginImmediate(p) ==
  /\ session[p].at = "begin"
  /\ ~Hot /\ ~Others(p, Writing)
  /\ session' = [session EXCEPT
       ![p].at = "reserved",
       ![p].pages = IF session[p].task = "schema" THEN [file EXCEPT !.schema = TRUE]
                    ELSE Written(file, session[p].got)]
  /\ UNCHANGED <<file, journal, deleted, memory, saved, counters>>

\* What follows a commit: a store that was opened is loaded; a save returns.
AfterCommit(p) ==
  IF session[p].task = "schema"
    THEN Open(p, "unlocked", "load") /\ UNCHANGED <<memory, saved>>
    ELSE Close(p) /\ memory' = session[p].got /\ saved' = session[p].got.height

\* COMMIT writes nothing where nothing changed, and waits for readers elsewhere.
Commit(p) ==
  /\ session[p].at = "reserved"
  /\ IF session[p].pages = file THEN AfterCommit(p)
                                ELSE Proceed(p, "pending") /\ UNCHANGED <<memory, saved>>
  /\ UNCHANGED <<file, journal, deleted, counters>>

\* Without readers: the journal is on disk before the first page is replaced ...
Flush(p) ==
  /\ session[p].at = "pending" /\ ~Others(p, Sharing)
  /\ journal' = file /\ deleted' = NoJournal
  /\ file' = TornFile
  /\ Proceed(p, "flushing")
  /\ UNCHANGED <<memory, saved, counters>>

\* ... and deleted after the last one.
EndCommit(p) ==
  /\ session[p].at = "flushing"
  /\ file' = session[p].pages
  /\ journal' = NoJournal /\ deleted' = journal
  /\ AfterCommit(p)
  /\ UNCHANGED counters

\* A hot journal is played back by whoever may write and comes first.
RollBack(p) ==
  /\ session[p].at \in {"begin", "unlocked"} /\ p \notin Watchers
  /\ Hot /\ ~Others(p, Sharing)
  /\ file' = journal /\ journal' = NoJournal
  /\ UNCHANGED <<deleted, session, memory, saved, counters>>

-----------------------------------------------------------------------------
(* Transactions that read.                                                 *)

\* The first SELECT takes the SHARED lock that the transaction keeps.
ReadHeight(p) ==
  /\ session[p].at = "unlocked"
  /\ ~Hot /\ ~Others(p, {"pending", "flushing"}) /\ file.schema
  /\ session' = [session EXCEPT ![p].at = "height", ![p].got.height = Height(file.height)]
  /\ UNCHANGED <<file, journal, deleted, memory, saved, counters>>

ReadRows(p) ==
  /\ session[p].at = "height" /\ ~Hot /\ ~Others(p, {"flushing"})
  /\ session' = [session EXCEPT ![p].at = "rows",
                                ![p].got.entries = Entries(file, session[p].after)]
  /\ UNCHANGED <<file, journal, deleted, memory, saved, counters>>

\* The node rebuilds its ledger from what it loaded.
EndRead(p) ==
  /\ session[p].at = "rows"
  /\ Close(p)
  /\ memory' = IF p = NodeProcess THEN session[p].got ELSE memory
  /\ UNCHANGED <<file, journal, deleted, saved, counters>>

-----------------------------------------------------------------------------
(* Failures.                                                               *)

\* Another process kept a lock for the five seconds of the busy time-out.
Blocked(p) ==
  \/ (session[p].at = "begin" /\ Others(p, Writing))
  \/ (session[p].at = "pending" /\ Others(p, Sharing))
  \/ (session[p].at = "unlocked" /\ Others(p, {"pending", "flushing"}))

\* A reader that may not write cannot play a journal back, nor read tables
\* that are not there.
Unreadable(p) ==
  p \in Watchers /\ session[p].at = "unlocked" /\ (Hot \/ (file # TornFile /\ ~file.schema))

\* The exception ends a start or a query; a node that failed to save stays.
Fail(p) ==
  /\ Blocked(p) \/ Unreadable(p)
  /\ Close(p)
  /\ UNCHANGED <<file, journal, deleted, memory, saved, counters>>

KillProcess(p) ==
  /\ session[p] # Closed \/ (p = NodeProcess /\ memory # Down)
  /\ storeKills < MaxStoreKills
  /\ storeKills' = storeKills + 1
  /\ Close(p)
  /\ memory' = IF p = NodeProcess THEN Down ELSE memory
  /\ UNCHANGED <<file, journal, deleted, saved, storeLosses>>

LosePower ==
  /\ storeLosses < MaxStoreLosses
  /\ storeLosses' = storeLosses + 1
  /\ session' = [p \in Process |-> Closed]
  /\ memory' = Down
  /\ journal' \in IF journal = NoJournal THEN {NoJournal, deleted} ELSE {journal}
  /\ UNCHANGED <<file, deleted, saved, storeKills>>

StoreNext ==
  \/ StartNode \/ SaveBlock \/ LosePower
  \/ \E p \in Queries : Query(p)
  \/ \E p \in Watchers : Watch(p)
  \/ \E p \in Process :
       \/ BeginImmediate(p) \/ Commit(p) \/ Flush(p) \/ EndCommit(p) \/ RollBack(p)
       \/ ReadHeight(p) \/ ReadRows(p) \/ EndRead(p)
       \/ Fail(p) \/ KillProcess(p)

StoreSpec == StoreInit /\ [][StoreNext]_storeVars

-----------------------------------------------------------------------------
\* Consensus orders entries by height, then by index.
InConsensusOrder(entries) ==
  \A i, j \in DOMAIN entries :
    i < j => \/ entries[i].height < entries[j].height
             \/ entries[i].height = entries[j].height /\ entries[i].index < entries[j].index

\* What a process read is one committed state: the height and exactly the
\* entries of the blocks up to it that were asked for, in consensus order.
ReadsAreCommitted ==
  \A p \in Process :
    session[p].at = "rows" =>
      /\ session[p].got.height = Height(Committed.height)
      /\ Range(session[p].got.entries) =
           UNION {Range(Decided(h)) : h \in session[p].after + 1 .. session[p].got.height}
      /\ InConsensusOrder(session[p].got.entries)

\* The database always stands for a whole number of blocks, which the next
\* snapshot extends.  A height save returned for survives every kill; power
\* losses take back one save at most, which CometBFT still holds.
SavesAreKept ==
  /\ file # NoDatabase =>
       /\ Committed.rows = UNION {NewRows(Decided(h)) : h \in 1 .. Height(Committed.height)}
       /\ Height(Committed.height) \in saved - (IF storeLosses = 0 THEN 0 ELSE 1) .. saved
  /\ session[NodeProcess].task = "save" /\ ~Hot /\ session[NodeProcess].at = "begin" =>
       ExtendsPersisted(Persisted(Committed), session[NodeProcess].got)

StoreIsConsistent == ReadsAreCommitted /\ SavesAreKept

-----------------------------------------------------------------------------
(* What the store implements.                                              *)

\* The database with the first blocks.
WithBlocks(n) ==
  [NewFile EXCEPT !.height = IF n < 1 THEN NoHeight ELSE n,
                  !.rows = UNION {NewRows(Decided(h)) : h \in 1 .. n}]

NothingRead == [after |-> 0, height |-> NoHeight, entries |-> <<>>]

AnswerOf(s) ==
  IF s.at = "rows" THEN [after |-> s.after, height |-> s.got.height, entries |-> s.got.entries]
                   ELSE NothingRead

DecidedBlocks == [h \in 1 .. Len(BlockIndexes) |-> Decided(h)]
StoredLedger == Persisted(Committed)
LedgerBefore == Persisted(WithBlocks(saved - 1))
Answers == [p \in Process |-> AnswerOf(session[p])]

Register == INSTANCE LedgerRegister WITH
  Owner <- NodeProcess, Client <- Process, Stopped <- Down, NoAnswer <- NothingRead,
  Blocks <- DecidedBlocks,
  ledger <- StoredLedger, previous <- LedgerBefore, answer <- Answers

\* The store is one atomic register of ledgers to all its processes, whoever
\* reads while another writes, is killed in the middle of a commit or loses
\* power: what is read is of one instant, what save was given replaces what the
\* node held, and nothing but the last save can be lost, to a power loss.
StoreIsAtomic == Register!RegisterSpec
=============================================================================
