-------------------------------- MODULE InitDb --------------------------------
(***************************************************************************)
(* Opening the database file (storage/db.py): schema and trigger upgrades, *)
(* the full-text index, the integrity check, the batchwise reindex after a *)
(* change of text normalisation, and quarantine of a corrupt file.  The    *)
(* process may die between any two statements and come back as a newer     *)
(* release.  DDL outside a transaction is durable at once; the DML that    *)
(* follows waits for a COMMIT.                                             *)
(*                                                                         *)
(* A row of messages is its text_norm: the version of the normal form it   *)
(* is in.  Locks held by other processes are SharedConnection's subject,   *)
(* the other columns and the plain indexes are left out.                   *)
(***************************************************************************)
EXTENDS FiniteSets, FiniteSetsExt

CONSTANTS
  MaxRows,     \* bound: rows in messages
  MaxVersion,  \* bound: the latest TEXT_NORMALIZATION_VERSION
  Stable,      \* rowids whose text has one normal form in every version
  BatchSize,   \* _REINDEX_BATCH_SIZE
  Legacy,      \* the file was written before there was a full-text index
  MaxCrashes,  \* bound: process deaths
  MaxDamages   \* bound: times the file gets corrupted

ASSUME InitDbAssumption ==
  /\ MaxRows \in Nat
  /\ MaxVersion \in Nat /\ MaxVersion >= 2
  /\ Stable \subseteq 1..MaxRows
  /\ BatchSize \in Nat \ {0}
  /\ Legacy \in BOOLEAN
  /\ MaxCrashes \in Nat
  /\ MaxDamages \in Nat

VARIABLES
  db,       \* the file as the connection sees it
  disk,     \* the file as the last COMMIT left it
  pc,       \* where init_db is
  release,  \* TEXT_NORMALIZATION_VERSION of the release that runs, or ran
  last,     \* last_rowid
  batch,    \* the rows SELECTed and not committed
  damaged,  \* the file is corrupt
  retried,  \* this is the second _init_db_once
  crashes,
  damages

vars == <<db, disk, pc, release, last, batch, damaged, retried, crashes, damages>>

files == <<db, disk>>
loop  == <<last, batch>>
world == <<release, damaged, retried, crashes, damages>>

RowIds == 1..MaxRows

\* Version 1 wrote no runtime_meta; 0 is: no row, no entry, no version.
Forms == 0..MaxVersion

File == [text    : [RowIds -> Forms],
         index   : [RowIds -> Forms],
         meta    : Forms,
         trigger : {"none", "every_update", "text_changes"}]

EmptyFile == [text    |-> [m \in RowIds |-> 0],
              index   |-> [m \in RowIds |-> 0],
              meta    |-> 0,
              trigger |-> "none"]

\* normalize_text in version v.
Normal(m, v) == IF m \in Stable THEN 1 ELSE v

Stored(f) == {m \in RowIds : f.text[m] # 0}

Starting == {"schema", "drop", "create", "sync", "check", "version",
             "select", "update", "commit", "store_meta"}

\* A file of the first release with some rows, or one that has just been made.
Init ==
  /\ \E n \in 0..MaxRows :
       LET text == [m \in RowIds |-> IF m <= n THEN 1 ELSE 0] IN
       disk = [text    |-> text,
               index   |-> IF Legacy THEN EmptyFile.index ELSE text,
               meta    |-> 0,
               trigger |-> IF Legacy THEN "none" ELSE "every_update"]
  /\ db = disk
  /\ pc = "down"
  /\ release = 2
  /\ last = 0
  /\ batch = {}
  /\ damaged = FALSE
  /\ retried = FALSE
  /\ crashes = 0
  /\ damages = 0

Commit == disk' = db /\ UNCHANGED db

\* A statement that commits by itself.
Durably(file) == db' = file /\ disk' = file

-----------------------------------------------------------------------------
\* The process is launched, perhaps after an upgrade.
Launch ==
  /\ pc = "down"
  /\ pc' = "schema"
  /\ release' \in release..MaxVersion
  /\ retried' = FALSE
  /\ UNCHANGED <<files, loop, damaged, crashes, damages>>

\* SCHEMA_SQL, runtime_meta and the missing columns: all IF NOT EXISTS.
EnsureSchema ==
  /\ pc = "schema"
  /\ Durably([db EXCEPT !.trigger = IF @ = "none" THEN "text_changes" ELSE @])
  /\ pc' = "drop"
  /\ UNCHANGED <<loop, world>>

DropTrigger ==
  /\ pc = "drop"
  /\ Durably([db EXCEPT !.trigger = "none"])
  /\ pc' = "create"
  /\ UNCHANGED <<loop, world>>

\* Mutant: the trigger is dropped for good.
CreateNoTrigger ==
  /\ pc = "create"
  /\ pc' = "sync"
  /\ UNCHANGED <<files, loop, world>>

CreateTrigger ==
  /\ pc = "create"
  /\ Durably([db EXCEPT !.trigger = "text_changes"])
  /\ pc' = "sync"
  /\ UNCHANGED <<loop, world>>

\* COUNT(*) on an external-content FTS5 table scans the content table.
IndexCount(f) == Cardinality(Stored(f))

\* _ensure_message_fts_synced, and the metadata backfill, which touches no
\* text_norm: a transaction is open from here on.
SyncIndex ==
  /\ pc = "sync"
  /\ db' = IF Cardinality(Stored(db)) = IndexCount(db)
             THEN db ELSE [db EXCEPT !.index = db.text]
  /\ pc' = "check"
  /\ UNCHANGED <<disk, loop, world>>

\* PRAGMA quick_check
CheckIntegrity ==
  /\ pc = "check"
  /\ ~damaged
  /\ pc' = "version"
  /\ UNCHANGED <<files, loop, world>>

\* Mutant: the version is recorded before the rows are rewritten.
RecordFirst ==
  /\ pc = "version"
  /\ IF db.meta = release
       THEN Commit /\ pc' = "ready" /\ UNCHANGED last
       ELSE Durably([db EXCEPT !.meta = release]) /\ last' = 0 /\ pc' = "select"
  /\ UNCHANGED <<batch, world>>

\* The reindex is due unless the file is in this release's normal form.
CompareVersion ==
  /\ pc = "version"
  /\ \/ /\ db.meta = release
        /\ Commit
        /\ pc' = "ready"
        /\ UNCHANGED last
     \/ /\ db.meta # release
        /\ last' = 0
        /\ pc' = "select"
        /\ UNCHANGED files
  /\ UNCHANGED <<batch, world>>

\* WHERE rowid > last ORDER BY rowid LIMIT BatchSize
SelectBatch ==
  /\ pc = "select"
  /\ LET later == {m \in Stored(db) : m > last} IN
       /\ batch' = {m \in later : Cardinality({n \in later : n < m}) < BatchSize}
       /\ pc' = IF later = {} THEN "store_meta" ELSE "update"
  /\ UNCHANGED <<files, last, world>>

\* The trigger carries each changed text into the index.
UpdateBatch ==
  /\ pc = "update"
  /\ LET changed == {m \in batch : db.text[m] # Normal(m, release)}
         seen == IF db.trigger = "none" THEN {} ELSE changed IN
     db' = [db EXCEPT
              !.text  = [m \in RowIds |-> IF m \in changed THEN Normal(m, release) ELSE @[m]],
              !.index = [m \in RowIds |-> IF m \in seen THEN Normal(m, release) ELSE @[m]]]
  /\ pc' = "commit"
  /\ UNCHANGED <<disk, loop, world>>

\* Mutant: last_rowid is one too far.
SkipOne ==
  /\ pc = "commit"
  /\ Commit
  /\ last' = Max(batch) + 1
  /\ batch' = {}
  /\ pc' = "select"
  /\ UNCHANGED world

\* Mutant: last_rowid stays where it is.
NoProgress ==
  /\ pc = "commit"
  /\ Commit
  /\ batch' = {}
  /\ pc' = "select"
  /\ UNCHANGED <<last, world>>

CommitBatch ==
  /\ pc = "commit"
  /\ Commit
  /\ last' = Max(batch)
  /\ batch' = {}
  /\ pc' = "select"
  /\ UNCHANGED world

\* The version is recorded when no row is left; init_db returns.
StoreMeta ==
  /\ pc = "store_meta"
  /\ Durably([db EXCEPT !.meta = release])
  /\ pc' = "ready"
  /\ UNCHANGED <<loop, world>>

-----------------------------------------------------------------------------
\* Ingestion stores a post: row, index entry (messages_ai) and COMMIT.
InsertRow ==
  /\ pc = "ready"
  /\ \E m \in RowIds \ Stored(db) :
       /\ \A n \in RowIds : n < m => n \in Stored(db)
       /\ Durably([db EXCEPT !.text[m] = Normal(m, release),
                             !.index[m] = Normal(m, release)])
  /\ UNCHANGED <<pc, loop, world>>

\* A statement of init_db meets the corruption: the first time the file is
\* moved away, never to be read again, and everything starts over with a new
\* one; the second time the error goes to the supervisor.
MeetCorruption ==
  /\ damaged
  /\ pc \in Starting
  /\ IF retried
       THEN /\ pc' = "down"
            /\ db' = disk
            /\ UNCHANGED <<disk, damaged, retried>>
       ELSE /\ pc' = "schema"
            /\ Durably(EmptyFile)
            /\ damaged' = FALSE
            /\ retried' = TRUE
  /\ last' = 0
  /\ batch' = {}
  /\ UNCHANGED <<release, crashes, damages>>

\* The notifier meets it and fails the runtime; the supervisor restarts it.
FailRuntime ==
  /\ damaged
  /\ pc = "ready"
  /\ pc' = "down"
  /\ db' = disk
  /\ UNCHANGED <<disk, loop, world>>

\* The disk corrupts the file (external).
Damage ==
  /\ damages < MaxDamages
  /\ ~damaged
  /\ damaged' = TRUE
  /\ damages' = damages + 1
  /\ UNCHANGED <<files, pc, loop, release, retried, crashes>>

Crash ==
  /\ pc # "down"
  /\ crashes < MaxCrashes
  /\ crashes' = crashes + 1
  /\ pc' = "down"
  /\ db' = disk
  /\ last' = 0
  /\ batch' = {}
  /\ UNCHANGED <<disk, release, damaged, retried, damages>>

Proceed ==
  \/ Launch
  \/ EnsureSchema
  \/ DropTrigger
  \/ CreateTrigger
  \/ SyncIndex
  \/ CheckIntegrity
  \/ CompareVersion
  \/ SelectBatch
  \/ UpdateBatch
  \/ CommitBatch
  \/ StoreMeta

Next ==
  \/ Proceed
  \/ MeetCorruption
  \/ FailRuntime
  \/ InsertRow
  \/ Damage
  \/ Crash

\* The process runs on, is launched again when it died, and quick_check, or
\* the notifier's next poll, finds any damage.
Spec ==
  /\ Init
  /\ [][Next]_vars
  /\ WF_vars(Proceed)
  /\ WF_vars(MeetCorruption)
  /\ WF_vars(FailRuntime)

-----------------------------------------------------------------------------
TypeOK ==
  /\ db \in File
  /\ disk \in File
  /\ pc \in Starting \cup {"down", "ready"}
  /\ release \in 2..MaxVersion
  /\ last \in 0..MaxRows
  /\ batch \in SUBSET RowIds
  /\ damaged \in BOOLEAN
  /\ retried \in BOOLEAN
  /\ crashes \in 0..MaxCrashes
  /\ damages \in 0..MaxDamages

\* Wherever a reindex was interrupted, a file that names the running release's
\* version has no row in another normal form; a runtime that serves has such a
\* file.
VersionIsTruthful ==
  /\ pc = "ready" => disk.meta = release
  /\ disk.meta = release =>
       \A m \in Stored(disk) : disk.text[m] = Normal(m, release)

\* What is durable in messages is durable in the index: searches and matches
\* see the text that the row has, also between DROP and CREATE TRIGGER.
IndexFollowsText == disk.index = disk.text

\* The runtime serves again after any upgrade, crash or corruption.
AlwaysServesAgain == []<>(pc = "ready" /\ ~damaged)

\* What the row-count check is for: once init_db returned, every stored post is
\* in the index.
IndexIsComplete ==
  pc = "ready" => \A m \in Stored(db) : db.index[m] = db.text[m]
=============================================================================
