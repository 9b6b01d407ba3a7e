----------------------------- MODULE InitDbProofs -----------------------------
(***************************************************************************)
(* The recorded normalisation version never lies, and the full-text index  *)
(* of a file that was built with one follows the text, for every number of *)
(* rows, of releases, of crashes and of corruptions and every batch size.  *)
(***************************************************************************)
EXTENDS InitDb, Extrema

\* Rowids are finitely many integers.
LEMMA Bounded ==
  ASSUME NEW n \in Nat, NEW S \in SUBSET (1..n)
  PROVE  IsFiniteSet(S) /\ S \in SUBSET Int
<1>1. IsFiniteSet(1..n)
  BY FS_Interval
<1>2. IsFiniteSet(S)
  BY <1>1, FS_Subset
<1>3. \A k \in S : k \in Int
  OBVIOUS
<1> QED  BY <1>2, <1>3

\* A SELECT with a LIMIT takes some of the rows there are, and the first ones.
LEMMA BatchIsInitial ==
  ASSUME NEW n \in Nat, NEW later \in SUBSET (1..n), later # {}, NEW size \in Nat \ {0},
         NEW taken, taken = {m \in later : Cardinality({k \in later : k < m}) < size}
  PROVE  /\ taken # {}
         /\ \A m \in taken, k \in later : k < m => k \in taken
<1> DEFINE Before(m) == {k \in later : k < m}
<1>1. \A m \in later : m \in Int
  OBVIOUS
<1>2. IsFiniteSet(later)
  <2>1. IsFiniteSet(1..n)
    BY FS_Interval
  <2> QED  BY <2>1, FS_Subset
<1>3. \A m : IsFiniteSet(Before(m))
  BY <1>2, FS_Subset
<1>4. \A m : Cardinality(Before(m)) \in Nat
  <2> HIDE DEF Before
  <2> QED  BY <1>3, FS_CardinalityType
<1>5. \A m : m \in taken <=> m \in later /\ Cardinality(Before(m)) < size
  OBVIOUS
<1>6. PICK x \in later : \A y \in later : x <= y
  BY Bounded, Extremes
<1>7. x \in taken
  <2>1. Before(x) = {}
    <3>1. \A y \in later : ~(y < x)
      BY <1>1, <1>6
    <3> QED  BY <3>1
  <2> HIDE DEF Before
  <2>2. Cardinality(Before(x)) = 0
    BY <2>1, FS_EmptySet
  <2> QED  BY <1>5, <2>2
<1>8. ASSUME NEW m \in taken, NEW k \in later, k < m PROVE k \in taken
  <2>1. m \in later /\ Cardinality(Before(m)) < size
    BY <1>5
  <2>2. \A j \in later : j < k => j < m
    BY <1>1, <1>8, <2>1
  <2>3. Before(k) \in SUBSET Before(m)
    BY <2>2
  <2> HIDE DEF Before
  <2>4. Cardinality(Before(k)) <= Cardinality(Before(m))
    BY <1>3, <2>3, FS_Subset
  <2> QED  BY <1>4, <1>5, <2>1, <2>4
<1> QED  BY <1>7, <1>8

-----------------------------------------------------------------------------
\* Every row of f is in the normal form of the release.
InForm(f) == \A m \in Stored(f) : f.text[m] = Normal(m, release)

\* No file is from the future, and one that names the release is in its form.
VersionKept ==
  /\ db.meta = disk.meta
  /\ disk.meta <= release
  /\ db.meta = release => InForm(db)
  /\ disk.meta = release => InForm(disk)
  /\ pc = "ready" => disk.meta = release

\* Up to last_rowid the rows are in the normal form; the batch is what follows.
LoopKept ==
  /\ pc \in {"select", "update", "commit"} =>
       \A m \in Stored(db) : m <= last => db.text[m] = Normal(m, release)
  /\ pc \in {"update", "commit"} =>
       /\ batch # {}
       /\ batch \subseteq Stored(db)
       /\ \A m \in batch, k \in Stored(db) : last < k /\ k < m => k \in batch
  /\ pc = "commit" => \A m \in batch : db.text[m] = Normal(m, release)
  /\ pc = "store_meta" => InForm(db)

\* A file that was built with an index has it, and its trigger during a
\* reindex.
IndexKept ==
  Legacy \/ /\ db.index = db.text
            /\ disk.index = disk.text
            /\ pc \in {"sync", "check", "version", "select", "update", "commit"} =>
                 db.trigger # "none"

DInv == TypeOK /\ VersionKept /\ LoopKept /\ IndexKept

\* What the reindex writes is the release's form.
LEMMA NormalIsForm ==
  ASSUME TypeOK, NEW m
  PROVE  Normal(m, release) \in Forms \ {0}
BY InitDbAssumption DEF TypeOK, Normal, Forms

\* At the start the file holds rows of the first release, or nothing.
LEMMA InitEstablishes == Init => DInv
<1> SUFFICES ASSUME Init PROVE DInv
  OBVIOUS
<1>1. PICK n \in 0..MaxRows :
        disk = [text    |-> [m \in RowIds |-> IF m <= n THEN 1 ELSE 0],
                index   |-> IF Legacy THEN EmptyFile.index
                                      ELSE [m \in RowIds |-> IF m <= n THEN 1 ELSE 0],
                meta    |-> 0,
                trigger |-> IF Legacy THEN "none" ELSE "every_update"]
  BY DEF Init
<1>2. disk \in File
  BY <1>1, InitDbAssumption DEF File, Forms, EmptyFile
<1>3. TypeOK
  <2>1. /\ 2 \in 2..MaxVersion
        /\ 0 \in 0..MaxRows /\ 0 \in 0..MaxCrashes /\ 0 \in 0..MaxDamages
    BY InitDbAssumption
  <2> QED  BY <1>2, <2>1 DEF Init, TypeOK
<1>4. VersionKept /\ LoopKept
  BY <1>1 DEF Init, VersionKept, LoopKept
<1>5. IndexKept
  BY <1>1 DEF Init, IndexKept
<1> QED  BY <1>3, <1>4, <1>5 DEF DInv

\* The schema steps, a launch and everything that stops the process.
LEMMA QuietStepsKeep ==
  ASSUME DInv, Launch \/ EnsureSchema \/ DropTrigger \/ CreateTrigger
  PROVE  DInv'
<1> USE DEF DInv
<1>1. CASE Launch
  <2>1. release' \in 2..MaxVersion /\ release <= release'
    BY <1>1, InitDbAssumption DEF Launch, TypeOK
  <2>2. TypeOK'
    BY <1>1, <2>1 DEF Launch, TypeOK, Starting, files, loop
  <2>3. VersionKept'
    <3>1. db.meta \in Nat /\ disk.meta \in Nat
      BY InitDbAssumption DEF TypeOK, File, Forms
    <3>2. disk.meta = release' => release' = release
      BY <2>1, <3>1 DEF VersionKept, TypeOK
    <3> QED
      BY <1>1, <2>1, <3>1, <3>2
         DEF Launch, VersionKept, InForm, Stored, Normal, files, TypeOK
  <2>4. LoopKept' /\ IndexKept'
    BY <1>1 DEF Launch, LoopKept, IndexKept, files, loop
  <2> QED  BY <2>2, <2>3, <2>4
<1>2. CASE EnsureSchema \/ DropTrigger \/ CreateTrigger
  <2>1. PICK trigger \in {"none", "every_update", "text_changes"} :
          /\ db' = [db EXCEPT !.trigger = trigger]
          /\ disk' = db'
          /\ pc' \in {"drop", "create", "sync"}
          /\ pc' = "sync" => trigger # "none"
    BY <1>2 DEF EnsureSchema, DropTrigger, CreateTrigger, Durably, TypeOK, File
  <2>2. UNCHANGED <<loop, world>> /\ pc # "ready"
    BY <1>2 DEF EnsureSchema, DropTrigger, CreateTrigger
  <2>3. /\ db' \in File
        /\ db'.text = db.text /\ db'.index = db.index /\ db'.meta = db.meta
    BY <2>1 DEF TypeOK, File
  <2>4. TypeOK'
    BY <2>1, <2>2, <2>3 DEF TypeOK, Starting, loop, world
  <2>5. VersionKept' /\ LoopKept' /\ IndexKept'
    BY <2>1, <2>2, <2>3
       DEF VersionKept, LoopKept, IndexKept, InForm, Stored, Normal, world, TypeOK, File
  <2> QED  BY <2>4, <2>5
<1> QED  BY <1>1, <1>2

\* The trigger and, where it is missing, the index are created.
LEMMA SyncIndexKeeps ==
  ASSUME DInv, SyncIndex
  PROVE  DInv'
<1> USE DEF DInv
<1>1. /\ db' = db
      /\ pc = "sync" /\ pc' = "check"
      /\ UNCHANGED <<disk, loop, world>>
  BY DEF SyncIndex, IndexCount
<1>2. TypeOK'
  BY <1>1 DEF TypeOK, Starting, loop, world
<1> QED
  BY <1>1, <1>2 DEF VersionKept, LoopKept, IndexKept, InForm, Stored, Normal, loop, world

\* The reindex is entered when the recorded version differs.
LEMMA CompareVersionKeeps ==
  ASSUME DInv, CheckIntegrity \/ CompareVersion
  PROVE  DInv'
<1> USE DEF DInv
<1>1. /\ db' = db
      /\ UNCHANGED <<batch, world>>
      /\ pc' \in {"version", "ready", "select"}
      /\ disk' = disk \/ disk' = db
      /\ pc' = "ready" => disk' = db /\ db.meta = release
      /\ pc' = "select" => last' = 0
      /\ last' \in {last, 0}
  BY DEF CheckIntegrity, CompareVersion, Commit, files, loop, TypeOK
<1>2. pc \in {"check", "version"}
  BY DEF CheckIntegrity, CompareVersion
<1>3. 0 \in 0..MaxRows
  BY InitDbAssumption
<1>4. TypeOK'
  BY <1>1, <1>3 DEF TypeOK, Starting, world
<1>5. VersionKept'
  BY <1>1 DEF VersionKept, InForm, Stored, Normal, world
<1>6. LoopKept'
  <2>1. \A m \in Stored(db) : ~(m <= 0)
    BY InitDbAssumption DEF Stored, RowIds
  <2> QED  BY <1>1, <2>1 DEF LoopKept
<1>7. IndexKept'
  BY <1>1, <1>2 DEF IndexKept
<1> QED  BY <1>4, <1>5, <1>6, <1>7

\* The next rows, in their order.
LEMMA SelectBatchKeeps ==
  ASSUME DInv, SelectBatch
  PROVE  DInv'
<1> USE DEF DInv
<1> DEFINE later == {m \in Stored(db) : m > last}
<1>1. /\ pc = "select"
      /\ batch' = {m \in later : Cardinality({n \in later : n < m}) < BatchSize}
      /\ pc' = IF later = {} THEN "store_meta" ELSE "update"
      /\ UNCHANGED <<files, last, world>>
  BY DEF SelectBatch
<1>2. later \in SUBSET (1..MaxRows) /\ later \subseteq Stored(db)
  BY DEF Stored, RowIds
<1>3. batch' \subseteq later
  BY <1>1
<1>4. \A m \in Stored(db) : m \in later \/ m <= last
  BY InitDbAssumption DEF TypeOK, Stored, RowIds
<1>5. \A m \in Stored(db) : m <= last => db.text[m] = Normal(m, release)
  BY <1>1 DEF LoopKept
<1>6. later # {} => /\ batch' # {}
                    /\ \A m \in batch', k \in later : k < m => k \in batch'
  <2> DEFINE taken == {m \in later : Cardinality({n \in later : n < m}) < BatchSize}
  <2> SUFFICES ASSUME later # {}
               PROVE  taken # {} /\ \A m \in taken, k \in later : k < m => k \in taken
    BY <1>1
  <2> HIDE DEF later
  <2>1. \A t : t = taken => t # {} /\ \A m \in t, k \in later : k < m => k \in t
    <3> TAKE t
    <3> HAVE t = taken
    <3> QED  BY <1>2, BatchIsInitial, InitDbAssumption
  <2> HIDE DEF taken
  <2> QED  BY <2>1
<1>7. \A k \in Stored(db) : last < k => k \in later
  BY InitDbAssumption DEF TypeOK, Stored, RowIds
<1> HIDE DEF later
<1>8. TypeOK'
  BY <1>1, <1>2, <1>3 DEF TypeOK, Starting, files, world, RowIds
<1>9. VersionKept'
  BY <1>1 DEF VersionKept, InForm, Stored, Normal, files, world
<1>10. LoopKept'
  <2>1. CASE later = {}
    BY <1>1, <1>4, <1>5, <2>1 DEF LoopKept, InForm, Stored, Normal, files, world
  <2>2. CASE later # {}
    <3>1. pc' = "update" /\ Stored(db)' = Stored(db) /\ db' = db /\ last' = last
      BY <1>1, <2>2 DEF files, Stored
    <3>2. \A m : Normal(m, release)' = Normal(m, release)
      BY <1>1 DEF Normal, world
    <3> QED  BY <1>2, <1>3, <1>5, <1>6, <1>7, <2>2, <3>1, <3>2 DEF LoopKept
  <2> QED  BY <2>1, <2>2
<1>11. IndexKept'
  BY <1>1 DEF IndexKept, files
<1> QED  BY <1>8, <1>9, <1>10, <1>11

\* The batch is rewritten, and the index with it.
LEMMA UpdateBatchKeeps ==
  ASSUME DInv, UpdateBatch
  PROVE  DInv'
<1> USE DEF DInv
<1> DEFINE changed == {m \in batch : db.text[m] # Normal(m, release)}
           seen == IF db.trigger = "none" THEN {} ELSE changed
           newText == [m \in RowIds |-> IF m \in changed THEN Normal(m, release) ELSE db.text[m]]
           newIndex == [m \in RowIds |-> IF m \in seen THEN Normal(m, release) ELSE db.index[m]]
<1>1. /\ pc = "update" /\ pc' = "commit"
      /\ db' = [db EXCEPT !.text = newText, !.index = newIndex]
      /\ UNCHANGED <<disk, loop, world>>
  BY DEF UpdateBatch
<1>2. \A m : Normal(m, release) \in Forms \ {0}
  BY NormalIsForm
<1>3. /\ db \in File
      /\ batch \subseteq RowIds
  BY DEF TypeOK
<1>4. newText \in [RowIds -> Forms] /\ newIndex \in [RowIds -> Forms]
  BY <1>2, <1>3 DEF File
<1>5. \A m \in RowIds : newText[m] = IF m \in batch THEN Normal(m, release) ELSE db.text[m]
  OBVIOUS
<1>6. IndexKept'
  BY <1>1, <1>3 DEF IndexKept, File
<1> HIDE DEF changed, seen, newText, newIndex
<1>7. db' \in File /\ db'.text = newText /\ db'.meta = db.meta
  BY <1>1, <1>3, <1>4 DEF File
<1>8. \A m : Normal(m, release)' = Normal(m, release)
  BY <1>1 DEF Normal, world
<1>9. batch \subseteq Stored(db) /\ Stored(db)' = Stored(db)
  <2>1. batch \subseteq Stored(db)
    BY <1>1 DEF LoopKept
  <2>2. \A m \in RowIds : newText[m] = 0 <=> db.text[m] = 0
    BY <1>2, <1>5, <2>1 DEF Stored
  <2>3. Stored(db)' = {m \in RowIds : newText[m] # 0}
    BY <1>7 DEF Stored
  <2> QED  BY <2>1, <2>2, <2>3 DEF Stored
<1>10. TypeOK'
  BY <1>1, <1>7 DEF TypeOK, Starting, loop, world
<1>11. VersionKept'
  <2>1. db.meta = release => InForm(db)'
    <3> SUFFICES ASSUME db.meta = release, NEW m \in Stored(db)
                 PROVE  newText[m] = Normal(m, release)
      BY <1>7, <1>8, <1>9 DEF InForm
    <3>1. db.text[m] = Normal(m, release) /\ m \in RowIds
      BY DEF VersionKept, InForm, Stored
    <3> QED  BY <1>5, <3>1
  <2>2. InForm(disk) => InForm(disk)'
    BY <1>1, <1>8 DEF InForm, Stored
  <2> QED  BY <1>1, <1>7, <2>1, <2>2 DEF VersionKept, world
<1>12. LoopKept'
  <2>1. \A m \in Stored(db) : m \in RowIds
    BY DEF Stored
  <2>2. /\ \A m \in Stored(db) : m <= last => newText[m] = Normal(m, release)
        /\ \A m \in batch : newText[m] = Normal(m, release)
    <3>1. \A m \in Stored(db) : m <= last => db.text[m] = Normal(m, release)
      BY <1>1 DEF LoopKept
    <3> QED  BY <1>3, <1>5, <2>1, <3>1
  <2>3. /\ batch # {}
        /\ \A m \in batch, k \in Stored(db) : last < k /\ k < m => k \in batch
    BY <1>1 DEF LoopKept
  <2> QED  BY <1>1, <1>7, <1>8, <1>9, <2>2, <2>3 DEF LoopKept, loop
<1> QED  BY <1>6, <1>10, <1>11, <1>12

\* The COMMIT of a batch.
LEMMA CommitBatchKeeps ==
  ASSUME DInv, CommitBatch
  PROVE  DInv'
<1> USE DEF DInv
<1>1. /\ pc = "commit" /\ pc' = "select"
      /\ disk' = db /\ db' = db
      /\ last' = Max(batch)
      /\ batch' = {}
      /\ UNCHANGED world
  BY DEF CommitBatch, Commit
<1>2. /\ batch # {} /\ batch \subseteq Stored(db)
      /\ \A m \in batch, k \in Stored(db) : last < k /\ k < m => k \in batch
      /\ \A m \in batch : db.text[m] = Normal(m, release)
      /\ \A m \in Stored(db) : m <= last => db.text[m] = Normal(m, release)
  BY <1>1 DEF LoopKept
<1>3. batch \in SUBSET (1..MaxRows) /\ MaxRows \in Nat
  BY InitDbAssumption DEF TypeOK, RowIds
<1>4. Max(batch) \in batch
  BY <1>2, <1>3, Bounded, MaxIsMember
<1>5. TypeOK'
  <2>1. last' \in 0..MaxRows
    <3>1. \A m \in batch : m \in 0..MaxRows
      BY <1>3
    <3> QED  BY <1>1, <1>4, <3>1
  <2> QED  BY <1>1, <2>1 DEF TypeOK, Starting, world
<1>6. VersionKept' /\ IndexKept'
  BY <1>1 DEF VersionKept, IndexKept, InForm, Stored, Normal, world
<1>7. LoopKept'
  <2>1. \A m \in Stored(db) : m \in 1..MaxRows
    BY DEF Stored, RowIds
  <2>2. last \in Nat
    BY DEF TypeOK
  <2>3. \A m \in Stored(db) : m <= Max(batch) => m <= last \/ m \in batch
    <3>1. PICK b \in batch : b = Max(batch)
      BY <1>4
    <3> SUFFICES ASSUME NEW m \in Stored(db), m <= b, ~(m <= last)
                 PROVE  m \in batch
      BY <3>1
    <3>2. m \in Int /\ b \in Int
      BY <1>3, <2>1
    <3>3. m = b \/ (last < m /\ m < b)
      BY <2>2, <3>2
    <3> QED  BY <1>2, <3>3
  <2>4. \A m \in Stored(db) : m <= last' => db.text[m] = Normal(m, release)
    BY <1>1, <1>2, <2>3
  <2> QED  BY <1>1, <2>4 DEF LoopKept, Stored, Normal, world
<1> QED  BY <1>5, <1>6, <1>7

\* The version is recorded.
LEMMA StoreMetaKeeps ==
  ASSUME DInv, StoreMeta
  PROVE  DInv'
<1> USE DEF DInv
<1>1. /\ pc = "store_meta" /\ pc' = "ready"
      /\ db' = [db EXCEPT !.meta = release]
      /\ disk' = db'
      /\ UNCHANGED <<loop, world>>
  BY DEF StoreMeta, Durably
<1>2. db \in File /\ release \in Forms /\ release <= release
  BY InitDbAssumption DEF TypeOK, Forms
<1>3. db' \in File /\ db'.text = db.text /\ db'.index = db.index /\ db'.meta = release
  BY <1>1, <1>2 DEF File
<1>4. TypeOK'
  BY <1>1, <1>3 DEF TypeOK, loop, world
<1>5. InForm(db)' /\ InForm(disk)'
  BY <1>1, <1>3 DEF LoopKept, InForm, Stored, Normal, world
<1>6. VersionKept' /\ LoopKept' /\ IndexKept'
  BY <1>1, <1>2, <1>3, <1>5 DEF VersionKept, LoopKept, IndexKept, world
<1> QED  BY <1>4, <1>6

\* Ingestion stores a post.
LEMMA InsertRowKeeps ==
  ASSUME DInv, InsertRow
  PROVE  DInv'
<1> USE DEF DInv
<1>1. PICK m \in RowIds :
        /\ db' = [db EXCEPT !.text[m] = Normal(m, release), !.index[m] = Normal(m, release)]
        /\ disk' = db'
        /\ pc = "ready"
        /\ UNCHANGED <<pc, loop, world>>
  BY DEF InsertRow, Durably
<1>2. db \in File /\ Normal(m, release) \in Forms
  BY NormalIsForm DEF TypeOK
<1>3. /\ db' \in File /\ db'.meta = db.meta
      /\ db'.text = [db.text EXCEPT ![m] = Normal(m, release)]
      /\ db'.index = [db.index EXCEPT ![m] = Normal(m, release)]
  BY <1>1, <1>2 DEF File
<1>4. TypeOK'
  BY <1>1, <1>3 DEF TypeOK, loop, world
<1>5. InForm(db) => InForm(db)'
  BY <1>1, <1>2, <1>3 DEF InForm, Stored, Normal, File, world
<1>6. VersionKept' /\ LoopKept'
  BY <1>1, <1>3, <1>5 DEF VersionKept, LoopKept, InForm, Stored, Normal, world
<1>7. IndexKept'
  BY <1>1, <1>3 DEF IndexKept
<1> QED  BY <1>4, <1>6, <1>7

\* Whatever stops the process, or has it start over, leaves it outside the loop
\* with the durable file, or with an empty one.
LEMMA StopsKeep ==
  ASSUME DInv, MeetCorruption \/ FailRuntime \/ Crash
  PROVE  DInv'
<1> USE DEF DInv
<1>1. pc' \in {"down", "schema"}
  BY DEF MeetCorruption, FailRuntime, Crash
<1>2. /\ last' \in 0..MaxRows /\ batch' \in SUBSET RowIds
      /\ damaged' \in BOOLEAN /\ retried' \in BOOLEAN
      /\ crashes' \in 0..MaxCrashes /\ damages' = damages /\ release' = release
  <2>1. 0 \in 0..MaxRows
    BY InitDbAssumption
  <2>2. CASE MeetCorruption
    BY <2>1, <2>2 DEF TypeOK, MeetCorruption
  <2>3. CASE FailRuntime
    BY <2>3 DEF TypeOK, FailRuntime, loop, world
  <2>4. CASE Crash
    <3>1. crashes' \in 0..MaxCrashes
      BY <2>4, InitDbAssumption DEF TypeOK, Crash
    <3> QED  BY <2>1, <2>4, <3>1 DEF TypeOK, Crash
  <2> QED  BY <2>2, <2>3, <2>4
<1>3. /\ EmptyFile \in File /\ EmptyFile.meta = 0 /\ EmptyFile.index = EmptyFile.text
      /\ Stored(EmptyFile) = {}
  BY InitDbAssumption DEF EmptyFile, File, Forms, Stored
<1>4. db' = disk' /\ (disk' = disk \/ disk' = EmptyFile)
  BY DEF MeetCorruption, FailRuntime, Crash, Durably
<1>5. TypeOK'
  <2>1. disk' \in File
    BY <1>3, <1>4 DEF TypeOK
  <2> QED  BY <1>1, <1>2, <1>4, <2>1 DEF TypeOK, Starting
<1>6. VersionKept'
  <2>1. InForm(EmptyFile)' /\ 0 <= release
    BY <1>3 DEF InForm, TypeOK, EmptyFile, Stored
  <2>2. \A m : Normal(m, release)' = Normal(m, release)
    BY <1>2 DEF Normal
  <2>3. CASE disk' = disk
    BY <1>1, <1>2, <1>4, <2>2, <2>3 DEF VersionKept, InForm, Stored
  <2>4. CASE disk' = EmptyFile
    <3>1. InForm(db)' /\ InForm(disk)'
      BY <1>3, <1>4, <2>4 DEF InForm, Stored
    <3> QED  BY <1>1, <1>2, <1>3, <1>4, <2>1, <2>4, <3>1 DEF VersionKept
  <2> QED  BY <1>4, <2>3, <2>4
<1>7. LoopKept'
  BY <1>1 DEF LoopKept
<1>8. IndexKept'
  BY <1>1, <1>3, <1>4 DEF IndexKept
<1> QED  BY <1>5, <1>6, <1>7, <1>8

\* Damage to the file, and stuttering.
LEMMA OthersKeep ==
  ASSUME DInv, Damage \/ UNCHANGED vars
  PROVE  DInv'
<1>1. /\ UNCHANGED <<files, pc, loop, release, retried, crashes>>
      /\ damaged' \in BOOLEAN /\ damages' \in 0..MaxDamages
  <2>1. CASE Damage
    <3>1. damages' \in 0..MaxDamages
      BY <2>1, InitDbAssumption DEF DInv, TypeOK, Damage
    <3> QED  BY <2>1, <3>1 DEF Damage, files, loop
  <2>2. CASE UNCHANGED vars
    BY <2>2 DEF DInv, TypeOK, vars, files, loop
  <2> QED  BY <2>1, <2>2
<1> QED
  BY <1>1 DEF DInv, TypeOK, VersionKept, LoopKept, IndexKept, InForm, Stored, Normal,
              files, loop

\* The invariant holds in every reachable state.
LEMMA InitDbInductive == Spec => []DInv
<1>1. DInv /\ [Next]_vars => DInv'
  BY QuietStepsKeep, SyncIndexKeeps, CompareVersionKeeps, SelectBatchKeeps,
     UpdateBatchKeeps, CommitBatchKeeps, StoreMetaKeeps, InsertRowKeeps, StopsKeep,
     OthersKeep
     DEF Next, Proceed
<1> QED  BY <1>1, InitEstablishes, PTL DEF Spec

-----------------------------------------------------------------------------
\* The files and the cursor of init_db keep their types.
THEOREM InitDbTyped == Spec => []TypeOK
BY InitDbInductive, PTL DEF DInv

\* A file that names the running release's version is in its normal form.
THEOREM VersionTruthful == Spec => []VersionIsTruthful
<1>1. DInv => VersionIsTruthful
  BY DEF DInv, VersionKept, InForm, VersionIsTruthful
<1> QED  BY <1>1, InitDbInductive, PTL

\* The durable index is that of the durable text, if the file had an index.
THEOREM IndexFollows ==
  ASSUME ~Legacy
  PROVE  Spec => []IndexFollowsText
<1>1. DInv => IndexFollowsText
  BY DEF DInv, IndexKept, IndexFollowsText
<1> QED  BY <1>1, InitDbInductive, PTL
=============================================================================
