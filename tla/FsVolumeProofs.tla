--------------------------- MODULE FsVolumeProofs ---------------------------
(* Theorems about the volume of kernel/fs.c, for every table size, record
   size, generation width, set of names and initial disk. *)
EXTENDS FsVolumeRefinement, FsExtentsProofs

USE DEF FS_SLOT_COUNT, Slots, FS_DISK_VERSION, FS_INTEGRITY_DISK_VERSION,
        FS_CONTENT_DISK_VERSION, FS_LEGACY_DISK_VERSION

----------------------------------------------------------------------------
(* Types of the operators *)

LEMMA EmptyFilesType == EmptyFiles \in FileArray
BY ClearedFileType DEF EmptyFiles, FileArray

LEMMA FreshFilesType == FreshFiles \in FileArray
<1>1. ASSUME NEW i \in FileIndex
      PROVE  (IF i <= Len(Seeds) THEN Seeds[i] ELSE ClearedFile) \in File
  BY VolumeAssumption, ClearedFileType, ExtentsAssumption DEF FileIndex
<1> QED
  BY <1>1 DEF FreshFiles, FileArray

\* fs_find_mutable returns an index of FILES, of a file that is there, or 0.
LEMMA FindType ==
  ASSUME NEW files \in FileArray, NEW name
  PROVE  LET i == fs_find_mutable(files, name)
         IN  i = 0 \/ (i \in FileIndex /\ files[i].in_use /\ files[i].name = name)
<1> DEFINE matching == {i \in FileIndex : files[i].in_use /\ files[i].name = name}
<1>1. CASE matching = {}
  BY <1>1 DEF fs_find_mutable
<1>2. CASE matching # {}
  <2>1. matching \in SUBSET Nat
    BY DEF FileIndex
  <2>2. PICK x \in matching : \A y \in matching : x <= y
    BY <1>2, <2>1, LeastMember
  <2>3. \A j \in 1 .. x - 1 : ~ (files[j].in_use /\ files[j].name = name)
    BY <2>1, <2>2, ExtentsAssumption DEF FileIndex
  <2>4. \E i \in FileIndex :
          /\ files[i].in_use /\ files[i].name = name
          /\ \A j \in 1 .. i - 1 : ~ (files[j].in_use /\ files[j].name = name)
    BY <2>2, <2>3
  <2> QED
    BY <2>4 DEF fs_find_mutable
<1> QED
  BY <1>1, <1>2

\* The recovery names are names.
LEMMA FreeCandidateType ==
  ASSUME NEW files \in FileArray,
         NEW candidates \in {RecoveredTestNames, RecoveredLogNames}
  PROVE  FreeCandidate(files, candidates) \in Names \cup {NoName}
<1> DEFINE free == {k \in 1 .. FS_MAX_FILES + 1 : fs_find_mutable(files, candidates[k]) = 0}
<1>1. CASE free = {}
  BY <1>1 DEF FreeCandidate
<1>2. CASE free # {}
  <2>1. free \in SUBSET Nat
    BY ExtentsAssumption
  <2>2. \E x \in free : \A y \in free : x <= y
    BY <1>2, <2>1, LeastMember
  <2>3. (CHOOSE k \in free : \A j \in free : k <= j) \in free
    BY <2>2
  <2>4. candidates \in [1 .. FS_MAX_FILES + 1 -> Names]
    BY VolumeAssumption
  <2>5. candidates[CHOOSE k \in free : \A j \in free : k <= j] \in Names
    BY <2>3, <2>4
  <2> QED
    BY <1>2, <2>5 DEF FreeCandidate
<1> QED
  BY <1>1, <1>2

LEMMA RecoverType ==
  ASSUME NEW files \in FileArray, NEW i,
         NEW candidates \in {RecoveredTestNames, RecoveredLogNames}
  PROVE  Recover(files, i, candidates) \in FileArray
BY FreeCandidateType DEF Recover, FileArray, File

LEMMA QuarantinedType ==
  ASSUME NEW files \in FileArray
  PROVE  Quarantined(files) \in FileArray
<1>1. RecoverFirstArtifact(files) \in FileArray
  BY RecoverType DEF RecoverFirstArtifact
<1>2. RecoverFirstArtifact(RecoverFirstArtifact(files)) \in FileArray
  BY <1>1, RecoverType DEF RecoverFirstArtifact
<1> QED
  BY <1>2, RecoverType
     DEF Quarantined, fs_quarantine_self_test_artifacts, fs_quarantine_physical_system_log

LEMMA ClearArtifactsType ==
  ASSUME NEW files \in FileArray
  PROVE  fs_clear_self_test_artifacts(files) \in FileArray
BY ClearedFileType DEF fs_clear_self_test_artifacts, FileArray

\* Putting a file in an array, renaming one and clearing one.
LEMMA StoreType ==
  ASSUME NEW files \in FileArray, NEW name \in Names, NEW data \in Seq(Bytes)
  PROVE  Store(files, name, data) \in FileArray
<1>1. NewFile(name, data) \in File
  BY DEF NewFile, File
<1> QED
  BY <1>1 DEF Store, FileArray

LEMMA RenameType ==
  ASSUME NEW files \in FileArray, NEW i, NEW name \in Names
  PROVE  [files EXCEPT ![i].name = name] \in FileArray
BY DEF FileArray, File

LEMMA ReplaceType ==
  ASSUME NEW files \in FileArray, NEW i, NEW file \in File
  PROVE  [files EXCEPT ![i] = file] \in FileArray
BY DEF FileArray

LEMMA DataOfType ==
  ASSUME NEW files \in FileArray, NEW name
  PROVE  DataOf(files, name) \in Seq(Bytes)
BY FindType DEF DataOf, FileArray, File

LEMMA StageFilesType ==
  ASSUME FILES \in FileArray, NEW stage \in SelfTestStages
  PROVE  StageFiles(stage) \in FileArray
BY StoreType, RenameType, ReplaceType, ClearedFileType, VolumeAssumption
   DEF StageFiles, SelfTestStages

----------------------------------------------------------------------------
(* Type correctness *)

LEMMA FirstSlotType == ASSUME NEW rd PROVE FirstSlot(rd) \in Slots
BY DEF FirstSlot

\* A slot that loads yields a file array.
LEMMA FilesOfSlotType ==
  ASSUME TypeOK, NEW rd, NEW s \in Slots, fs_load_slot(rd, s) = "LOADED"
  PROVE  FilesOfSlot(s) \in FileArray
<1>1. table[s] \in Table
  BY DEF TypeOK
<1>2. CASE header[s].version >= FS_DISK_VERSION
  <2>1. CurrentTableIsValid(table[s])
    BY <1>2 DEF fs_load_slot
  <2> QED
    BY <1>1, <1>2, <2>1, DeserializeCurrentType DEF FilesOfSlot
<1>3. CASE ~(header[s].version >= FS_DISK_VERSION)
  <2>1. LegacyTableIsValid(table[s])
    BY <1>3 DEF fs_load_slot
  <2> QED
    BY <1>1, <1>3, <2>1, DeserializeLegacyType DEF FilesOfSlot
<1> QED
  BY <1>2, <1>3

LEMMA LoadedSlotType ==
  ASSUME NEW rd
  PROVE  LET s == LoadedSlot(FirstSlot(rd), [t \in Slots |-> fs_load_slot(rd, t)])
         IN  s = FS_SLOT_COUNT \/ (s \in Slots /\ fs_load_slot(rd, s) = "LOADED")
<1>1. FirstSlot(rd) \in Slots
  BY FirstSlotType
<1> QED
  BY <1>1 DEF LoadedSlot

\* What a load leaves in the mount variables has their types.
LEMMA LoadType ==
  ASSUME TypeOK, NEW init, NEW rd
  PROVE  LET load == fs_load_from_disk(init, rd)
         IN  /\ load.files \in FileArray
             /\ load.slot \in Slots \cup {FS_SLOT_COUNT}
             /\ load.generation \in Generations
             /\ load.version \in 0 .. FS_DISK_VERSION
             /\ load.upgrade \in {"UNAVAILABLE", "AVAILABLE"}
<1> DEFINE slot == LoadedSlot(FirstSlot(rd), [t \in Slots |-> fs_load_slot(rd, t)])
           loaded == init = "READY" /\ slot # FS_SLOT_COUNT
           load == fs_load_from_disk(init, rd)
<1>1. slot = FS_SLOT_COUNT \/ (slot \in Slots /\ fs_load_slot(rd, slot) = "LOADED")
  BY LoadedSlotType
<1>2. /\ load.files = IF loaded THEN FilesOfSlot(slot) ELSE FILES
      /\ load.slot = IF init = "READY" THEN slot ELSE g_active_slot
      /\ load.generation = IF loaded THEN fs_header_generation(header[slot])
                           ELSE IF init = "READY" THEN 0 ELSE g_active_generation
      /\ load.version = IF loaded THEN header[slot].version
                        ELSE IF init = "READY" THEN 0 ELSE g_loaded_version
      /\ load.upgrade = IF loaded /\ BothLegacy(rd) /\ TablesDiffer(rd)
                        THEN "AVAILABLE" ELSE "UNAVAILABLE"
  BY DEF fs_load_from_disk
<1> HIDE DEF slot, load
<1>3. load.files \in FileArray
  BY <1>1, <1>2, FilesOfSlotType DEF TypeOK
<1>4. 0 \in Generations
  BY VolumeAssumption DEF Generations
<1>5. loaded => header[slot] \in Header
  BY <1>1 DEF TypeOK
<1>6. loaded => fs_header_generation(header[slot]) \in Generations
                /\ header[slot].version \in 0 .. FS_DISK_VERSION
  BY <1>4, <1>5 DEF fs_header_generation, Header
<1> QED
  BY <1>1, <1>2, <1>3, <1>4, <1>6 DEF load, TypeOK

\* Which callers a program counter goes with.
CallShape ==
  /\ call.pc \in {"selftest", "reload"} => call.who \in SelfTestStages
  /\ call.pc \in {"table", "header"} => call.who # "none"

TypeInv == TypeOK /\ CallShape

LEMMA ReturnedType ==
  ASSUME NEW pc \in {"off", "idle"}
  PROVE  Returned(pc) \in [pc : {"off", "idle", "table", "header", "selftest", "reload"},
                           who : Callers, undo : FileArray]
BY EmptyFilesType DEF Returned, Callers

LEMMA SyncingType ==
  ASSUME NEW pc \in {"table", "header", "selftest", "reload"}, NEW who \in Callers,
         NEW undo \in FileArray
  PROVE  Syncing(pc, who, undo)
           \in [pc : {"off", "idle", "table", "header", "selftest", "reload"},
                who : Callers, undo : FileArray]
BY DEF Syncing

LEMMA CommitHeaderType ==
  ASSUME TypeOK
  PROVE  /\ target_slot \in Slots
         /\ next_generation \in Generations
         /\ CommitHeader \in Header
         /\ TornHeader \in Header
<1>1. target_slot \in Slots
  BY DEF TypeOK, target_slot
<1>2. next_generation \in Generations
  BY VolumeAssumption DEF TypeOK, next_generation, IncGeneration, Generations
<1>3. fs_serialize(FILES) \in Table
  BY SerializeType DEF TypeOK
<1>4. CommitHeader \in Header
  BY <1>2, <1>3 DEF CommitHeader, Header
<1>5. header[target_slot] \in Header
  BY <1>1 DEF TypeOK
<1>6. TornHeader \in Header
  BY <1>5 DEF TornHeader, Header
<1> QED
  BY <1>1, <1>2, <1>4, <1>6

\* The sync result and the caller it returns to keep the types of everything
\* but the disk.
MemoryTypeOK ==
  /\ FILES \in FileArray
  /\ g_active_slot \in Slots \cup {FS_SLOT_COUNT}
  /\ g_active_generation \in Generations
  /\ g_loaded_version \in 0 .. FS_DISK_VERSION
  /\ g_backend_status \in Backends
  /\ g_legacy_upgrade_status \in {"UNAVAILABLE", "AVAILABLE", "OUTCOME_UNCERTAIN"}
  /\ g_self_test_active \in BOOLEAN
  /\ call \in [pc : {"off", "idle", "table", "header", "selftest", "reload"},
               who : Callers, undo : FileArray]

LEMMA SelfTestFailsType ==
  ASSUME NEW files \in FileArray, NEW backend \in Backends, SelfTestFails(files, backend)
  PROVE  /\ FILES' \in FileArray /\ g_backend_status' \in Backends
         /\ g_self_test_active' \in BOOLEAN
         /\ call' \in [pc : {"off", "idle", "table", "header", "selftest", "reload"},
                       who : Callers, undo : FileArray]
         /\ CallShape'
BY ClearArtifactsType, ReturnedType DEF SelfTestFails, CallShape, Returned

LEMMA SyncReturnsType ==
  ASSUME TypeInv, NEW result \in {"COMMITTED", "FAILED", "UNCERTAIN"}, SyncReturns(result)
  PROVE  MemoryTypeOK' /\ CallShape'
<1>1. /\ g_active_slot' \in Slots \cup {FS_SLOT_COUNT}
      /\ g_active_generation' \in Generations
      /\ g_loaded_version' \in 0 .. FS_DISK_VERSION
  BY CommitHeaderType DEF TypeInv, TypeOK, SyncReturns, fs_accept_commit, mount
<1>2. CASE ReturnToMutation(result)
  BY <1>1, <1>2, ReturnedType
     DEF ReturnToMutation, MemoryTypeOK, CallShape, TypeInv, TypeOK, Returned, Backends
<1>3. CASE ReturnToFormat(result)
  <2>1. CASE result = "COMMITTED"
    <3>1. call' = Syncing("selftest", "selftest_write", EmptyFiles)
          /\ FILES' = fs_clear_self_test_artifacts(FILES)
          /\ g_backend_status' = "PERSISTENT" /\ g_self_test_active' = TRUE
          /\ UNCHANGED g_legacy_upgrade_status
      BY <1>3, <2>1 DEF ReturnToFormat
    <3>2. call' \in [pc : {"off", "idle", "table", "header", "selftest", "reload"},
                     who : Callers, undo : FileArray]
      BY <3>1, SyncingType, EmptyFilesType DEF Callers, SelfTestStages
    <3>3. FILES' \in FileArray
      BY <3>1, ClearArtifactsType DEF TypeInv, TypeOK
    <3>4. CallShape'
      BY <3>1 DEF CallShape, Syncing, SelfTestStages
    <3> QED
      BY <1>1, <3>1, <3>2, <3>3, <3>4 DEF MemoryTypeOK, TypeInv, TypeOK, Backends
  <2>2. CASE result # "COMMITTED"
    BY <1>1, <1>3, <2>2, ReturnedType
       DEF ReturnToFormat, MemoryTypeOK, CallShape, TypeInv, TypeOK, Returned, Backends
  <2> QED
    BY <2>1, <2>2
<1>4. CASE ReturnToUpgrade(result)
  BY <1>1, <1>4, ReturnedType
     DEF ReturnToUpgrade, MemoryTypeOK, CallShape, TypeInv, TypeOK, Returned, Backends
<1>5. CASE ReturnToSelfTest(result)
  <2>1. CASE result = "FAILED"
    <3>1. SelfTestFails(call.undo, "VOLATILE_IO_ERROR")
      BY <1>5, <2>1 DEF ReturnToSelfTest
    <3>2. call.undo \in FileArray
      BY DEF TypeInv, TypeOK
    <3> QED
      BY <1>1, <1>5, <3>1, <3>2, SelfTestFailsType
         DEF ReturnToSelfTest, MemoryTypeOK, TypeInv, TypeOK, Backends
  <2>2. CASE result # "FAILED"
    BY <1>1, <1>5, <2>2, SyncingType, EmptyFilesType
       DEF ReturnToSelfTest, MemoryTypeOK, CallShape, TypeInv, TypeOK, Syncing, Backends,
           Callers
  <2> QED
    BY <2>1, <2>2
<1> QED
  BY <1>2, <1>3, <1>4, <1>5 DEF SyncReturns

LEMMA TypeInit == Init => TypeInv
<1> SUFFICES ASSUME Init PROVE TypeInv
  OBVIOUS
<1>1. PICK d \in InitialDisks : header = d.header /\ table = d.table
  BY DEF Init
<1>2. header \in [Slots -> Header] /\ table \in [Slots -> Table]
  BY <1>1, VolumeAssumption DEF Disk
<1>3. 0 \in Generations
  BY VolumeAssumption DEF Generations
<1>4. call \in [pc : {"off", "idle", "table", "header", "selftest", "reload"},
                who : Callers, undo : FileArray]
  BY ReturnedType DEF Init, PoweredOff
<1>5. CallShape
  BY DEF Init, PoweredOff, CallShape, Returned
<1>6. FILES \in FileArray
  BY EmptyFilesType DEF Init, PoweredOff
<1>7. /\ g_active_slot = 2 /\ g_active_generation = 0 /\ g_loaded_version = 0
      /\ g_backend_status = "UNINITIALIZED"
      /\ g_legacy_upgrade_status = "UNAVAILABLE"
  BY DEF Init, PoweredOff
<1>8. g_self_test_active \in BOOLEAN
  BY Zenon DEF Init, PoweredOff
<1>9. TypeOK
  BY <1>2, <1>3, <1>4, <1>6, <1>7, <1>8 DEF TypeOK, Backends
<1> QED
  BY <1>5, <1>9 DEF TypeInv

LEMMA WriteTableType == TypeInv /\ WriteTable => TypeInv'
<1> SUFFICES ASSUME TypeInv, WriteTable PROVE TypeInv'
  OBVIOUS
<1> DEFINE image == fs_serialize(FILES)
           Continue == /\ call' = Syncing("header", call.who, call.undo)
                       /\ UNCHANGED <<mount, FILES, g_backend_status,
                                      g_legacy_upgrade_status, g_self_test_active>>
<1>1. image \in Table
  BY SerializeType DEF TypeInv, TypeOK
<1>2. target_slot \in Slots /\ table[target_slot] \in Table
  BY CommitHeaderType DEF TypeInv, TypeOK
<1>a. PICK written \in AtaWriteResults : \E t \in TableAfter(written, image) :
        /\ table' = [table EXCEPT ![target_slot] = t]
        /\ AfterWrite(written, t = image, Continue)
  BY DEF WriteTable
<1>3. PICK t \in TableAfter(written, image) :
        /\ table' = [table EXCEPT ![target_slot] = t]
        /\ AfterWrite(written, t = image, Continue)
  BY <1>a
<1>4. UNCHANGED header /\ call.pc = "table"
  BY DEF WriteTable
<1> HIDE DEF image
<1>5. ASSUME NEW n \in 0 .. FS_MAX_FILES PROVE PartialTable(image, n) \in Table
  BY <1>1, <1>2 DEF PartialTable, Table
<1>6. t \in Table
  BY <1>1, <1>2, <1>3, <1>5 DEF TableAfter
<1>7. table' \in [Slots -> Table] /\ header' \in [Slots -> Header]
  BY <1>2, <1>3, <1>4, <1>6 DEF TypeInv, TypeOK
<1>8. MemoryTypeOK' /\ CallShape'
  <2>1. CASE Continue
    <3>1. call' \in [pc : {"off", "idle", "table", "header", "selftest", "reload"},
                     who : Callers, undo : FileArray]
      BY <2>1, SyncingType DEF TypeInv, TypeOK
    <3>2. CallShape'
      BY <1>4, <2>1 DEF TypeInv, TypeOK, CallShape, Syncing
    <3> QED
      BY <2>1, <3>1, <3>2 DEF TypeInv, TypeOK, MemoryTypeOK, mount
  <2>2. CASE SyncReturns("FAILED")
    BY <2>2, SyncReturnsType
  <2>3. CASE SyncReturns("UNCERTAIN")
    BY <2>3, SyncReturnsType
  <2> QED
    BY <1>3, <2>1, <2>2, <2>3 DEF AfterWrite
<1> QED
  BY <1>7, <1>8 DEF TypeInv, TypeOK, MemoryTypeOK

LEMMA WriteHeaderType == TypeInv /\ WriteHeader => TypeInv'
<1> SUFFICES ASSUME TypeInv, WriteHeader PROVE TypeInv'
  OBVIOUS
<1>1. target_slot \in Slots /\ CommitHeader \in Header /\ TornHeader \in Header
  BY CommitHeaderType DEF TypeInv
<1>a. PICK written \in AtaWriteResults : \E h \in HeaderAfter(written, CommitHeader) :
        /\ header' = [header EXCEPT ![target_slot] = h]
        /\ AfterWrite(written, h = CommitHeader /\ table[target_slot] = CommitHeader.checksum,
                      SyncReturns("COMMITTED"))
  BY DEF WriteHeader
<1>2. PICK h \in HeaderAfter(written, CommitHeader) :
        /\ header' = [header EXCEPT ![target_slot] = h]
        /\ AfterWrite(written, h = CommitHeader /\ table[target_slot] = CommitHeader.checksum,
                      SyncReturns("COMMITTED"))
  BY <1>a
<1>3. UNCHANGED table
  BY DEF WriteHeader
<1>4. h \in Header
  BY <1>1, <1>2 DEF HeaderAfter, TypeInv, TypeOK
<1>5. header' \in [Slots -> Header] /\ table' \in [Slots -> Table]
  BY <1>1, <1>2, <1>3, <1>4 DEF TypeInv, TypeOK
<1>6. MemoryTypeOK' /\ CallShape'
  BY <1>2, SyncReturnsType DEF AfterWrite
<1> QED
  BY <1>5, <1>6 DEF TypeInv, TypeOK, MemoryTypeOK

LEMMA CommitChangesType ==
  ASSUME TypeInv, call.pc = "idle", NEW files \in FileArray, fs_commit_changes(files)
  PROVE  TypeInv'
<1>1. UNCHANGED <<disk, mount, g_legacy_upgrade_status, g_self_test_active>>
  BY DEF fs_commit_changes
<1>2. CASE g_backend_status # "PERSISTENT" /\ FILES' = files /\ UNCHANGED <<g_backend_status, call>>
  BY <1>1, <1>2 DEF TypeInv, TypeOK, CallShape, disk, mount
<1>3. CASE g_backend_status' = "VOLATILE_IO_ERROR" /\ UNCHANGED <<FILES, call>>
  BY <1>1, <1>3 DEF TypeInv, TypeOK, CallShape, disk, mount, Backends
<1>4. CASE FILES' = files /\ call' = Syncing("table", "op", FILES) /\ UNCHANGED g_backend_status
  <2>1. call' \in [pc : {"off", "idle", "table", "header", "selftest", "reload"},
                   who : Callers, undo : FileArray]
    BY <1>4, SyncingType DEF TypeInv, TypeOK, Callers
  <2>2. CallShape'
    BY <1>4 DEF CallShape, Syncing
  <2> QED
    BY <1>1, <1>4, <2>1, <2>2 DEF TypeInv, TypeOK, disk, mount
<1> QED
  BY <1>2, <1>3, <1>4 DEF fs_commit_changes

LEMMA MutateType == TypeInv /\ Mutate => TypeInv'
<1> SUFFICES ASSUME TypeInv, Mutate PROVE TypeInv'
  OBVIOUS
<1>1. call.pc = "idle" /\ FILES \in FileArray
  BY DEF Mutate, TypeInv, TypeOK
<1>2. ASSUME NEW name, fs_touch(name) PROVE TypeInv'
  <2>1. name \in Names
    BY <1>2 DEF fs_touch, Writable, fs_is_valid_name
  <2>2. << >> \in Seq(Bytes)
    OBVIOUS
  <2>3. Store(FILES, name, << >>) \in FileArray
    BY <1>1, <2>1, <2>2, StoreType
  <2>4. fs_commit_changes(Store(FILES, name, << >>))
    BY <1>2 DEF fs_touch
  <2> QED
    BY <1>1, <2>3, <2>4, CommitChangesType
<1>3. ASSUME NEW name, fs_remove_internal(name) PROVE TypeInv'
  <2>1. [FILES EXCEPT ![fs_find_mutable(FILES, name)] = ClearedFile] \in FileArray
    BY <1>1, ReplaceType, ClearedFileType
  <2> QED
    BY <1>1, <1>3, <2>1, CommitChangesType DEF fs_remove_internal
<1>4. ASSUME NEW name, NEW contents \in Payloads, fs_write_bytes_internal(name, contents)
      PROVE  TypeInv'
  <2>1. Store(FILES, name, contents) \in FileArray
    BY <1>1, <1>4, StoreType, VolumeAssumption
       DEF fs_write_bytes_internal, Writable, fs_is_valid_name
  <2> QED
    BY <1>1, <1>4, <2>1, CommitChangesType DEF fs_write_bytes_internal
<1>5. ASSUME NEW name, NEW contents \in Payloads, fs_append(name, contents) PROVE TypeInv'
  <2>1. DataOf(FILES, name) \o contents \in Seq(Bytes)
    BY <1>1, DataOfType, VolumeAssumption
  <2>2. Store(FILES, name, DataOf(FILES, name) \o contents) \in FileArray
    BY <1>1, <1>5, <2>1, StoreType DEF fs_append, Writable, fs_is_valid_name
  <2> QED
    BY <1>1, <1>5, <2>2, CommitChangesType DEF fs_append
<1>6. ASSUME NEW old_name, NEW new_name, fs_rename_internal(old_name, new_name)
      PROVE  TypeInv'
  <2>1. [FILES EXCEPT ![fs_find_mutable(FILES, old_name)].name = new_name] \in FileArray
    BY <1>1, <1>6, RenameType DEF fs_rename_internal, Writable, fs_is_valid_name
  <2> QED
    BY <1>1, <1>6, <2>1, CommitChangesType DEF fs_rename_internal
<1> QED
  BY <1>2, <1>3, <1>4, <1>5, <1>6
     DEF Mutate, fs_remove, fs_system_remove, fs_write_bytes, fs_system_write_bytes,
         fs_rename, fs_system_rename

LEMMA UpgradeType == TypeInv /\ fs_upgrade_legacy_snapshot => TypeInv'
<1> SUFFICES ASSUME TypeInv, fs_upgrade_legacy_snapshot PROVE TypeInv'
  OBVIOUS
<1>1. call' = Syncing("table", "upgrade", FILES)
      /\ UNCHANGED <<disk, mount, FILES, g_backend_status, g_legacy_upgrade_status,
                     g_self_test_active>>
  BY DEF fs_upgrade_legacy_snapshot
<1>2. call' \in [pc : {"off", "idle", "table", "header", "selftest", "reload"},
                 who : Callers, undo : FileArray]
  BY <1>1, SyncingType DEF TypeInv, TypeOK, Callers
<1>3. CallShape'
  BY <1>1 DEF CallShape, Syncing
<1> QED
  BY <1>1, <1>2, <1>3 DEF TypeInv, TypeOK, disk, mount

LEMMA SelfTestMutatesType == TypeInv /\ SelfTestMutates => TypeInv'
<1> SUFFICES ASSUME TypeInv, SelfTestMutates PROVE TypeInv'
  OBVIOUS
<1>1. /\ call.who \in SelfTestStages /\ call.who \in Callers
      /\ FILES \in FileArray
      /\ UNCHANGED <<disk, mount, g_legacy_upgrade_status>>
  BY DEF SelfTestMutates, TypeInv, TypeOK, CallShape
<1>2. CASE /\ FILES' = StageFiles(call.who)
           /\ call' = Syncing("table", call.who, FILES)
           /\ UNCHANGED <<g_backend_status, g_self_test_active>>
  <2>1. FILES' \in FileArray
    BY <1>1, <1>2, StageFilesType
  <2>2. call' \in [pc : {"off", "idle", "table", "header", "selftest", "reload"},
                   who : Callers, undo : FileArray]
    BY <1>1, <1>2, SyncingType
  <2>3. CallShape'
    BY <1>1, <1>2 DEF CallShape, Syncing, SelfTestStages
  <2> QED
    BY <1>1, <1>2, <2>1, <2>2, <2>3 DEF TypeInv, TypeOK, disk, mount
<1>3. CASE SelfTestFails(FILES, "VOLATILE_IO_ERROR")
  BY <1>1, <1>3, SelfTestFailsType DEF TypeInv, TypeOK, Backends, disk, mount
<1> QED
  BY <1>2, <1>3 DEF SelfTestMutates
LEMMA DegradedBackendType == ASSUME NEW result PROVE DegradedBackend(result) \in Backends
BY DEF DegradedBackend, Backends

\* The mount variables after a step that loads.
LEMMA TakesMountType ==
  ASSUME TypeOK, NEW init, NEW rd, TakesMountOf(fs_load_from_disk(init, rd)), UNCHANGED disk
  PROVE  /\ header' \in [Slots -> Header]
         /\ table' \in [Slots -> Table]
         /\ g_active_slot' \in Slots \cup {FS_SLOT_COUNT}
         /\ g_active_generation' \in Generations
         /\ g_loaded_version' \in 0 .. FS_DISK_VERSION
         /\ g_legacy_upgrade_status' \in {"UNAVAILABLE", "AVAILABLE", "OUTCOME_UNCERTAIN"}
BY LoadType DEF TakesMountOf, disk, TypeOK

LEMMA ReloadType ==
  ASSUME TypeInv, NEW init, NEW rd, fs_self_test_reload(init, rd)
  PROVE  TypeInv'
<1> DEFINE load == fs_load_from_disk(init, rd)
<1>1. call.pc = "reload" /\ call.who \in SelfTestStages /\ call.who \in Callers
  BY DEF fs_self_test_reload, TypeInv, TypeOK, CallShape
<1>2. TakesMountOf(load) /\ UNCHANGED disk
  BY DEF fs_self_test_reload
<1>3. load.files \in FileArray
  BY LoadType DEF TypeInv
<1>4. \/ SelfTestFails(load.files, DegradedBackend(load.result))
      \/ SelfTestFails(load.files, "VOLATILE_IO_ERROR")
      \/ /\ FILES' = load.files /\ g_backend_status' = "PERSISTENT"
         /\ IF call.who = "selftest_remove"
            THEN call' = Returned("idle") /\ g_self_test_active' = FALSE
            ELSE /\ call' = Syncing("selftest", NextStage[call.who], EmptyFiles)
                 /\ UNCHANGED g_self_test_active
  BY DEF fs_self_test_reload
<1> HIDE DEF load
<1>5. /\ FILES' \in FileArray /\ g_backend_status' \in Backends
      /\ g_self_test_active' \in BOOLEAN
      /\ call' \in [pc : {"off", "idle", "table", "header", "selftest", "reload"},
                    who : Callers, undo : FileArray]
      /\ CallShape'
  <2>1. CASE SelfTestFails(load.files, DegradedBackend(load.result))
    BY <1>3, <2>1, SelfTestFailsType, DegradedBackendType
  <2>2. CASE SelfTestFails(load.files, "VOLATILE_IO_ERROR")
    BY <1>3, <2>2, SelfTestFailsType DEF Backends
  <2>3. CASE /\ FILES' = load.files /\ g_backend_status' = "PERSISTENT"
             /\ call.who = "selftest_remove"
             /\ call' = Returned("idle") /\ g_self_test_active' = FALSE
    BY <1>3, <2>3, ReturnedType DEF Backends, CallShape, Returned
  <2>4. CASE /\ FILES' = load.files /\ g_backend_status' = "PERSISTENT"
             /\ call.who # "selftest_remove"
             /\ call' = Syncing("selftest", NextStage[call.who], EmptyFiles)
             /\ UNCHANGED g_self_test_active
    <3>1. NextStage[call.who] \in SelfTestStages
      BY <1>1, <2>4 DEF SelfTestStages, NextStage
    <3>2. NextStage[call.who] \in Callers
      BY <3>1 DEF Callers
    <3>3. call' \in [pc : {"off", "idle", "table", "header", "selftest", "reload"},
                     who : Callers, undo : FileArray]
      BY <2>4, <3>2, SyncingType, EmptyFilesType
    <3>4. CallShape'
      BY <2>4, <3>1 DEF CallShape, Syncing
    <3> QED
      BY <1>3, <2>4, <3>3, <3>4 DEF Backends, TypeInv, TypeOK
  <2> QED
    BY <1>4, <2>1, <2>2, <2>3, <2>4
<1> QED
  BY <1>2, <1>5, TakesMountType DEF load, TypeInv, TypeOK

LEMMA FilesWithBmpType ==
  ASSUME NEW load, load.files \in FileArray
  PROVE  FilesWithBmp(load) \in FileArray
<1>1. DefaultBmp \in File
  BY VolumeAssumption, ExtentsAssumption DEF DefaultBmp
<1> QED
  BY <1>1, QuarantinedType, ReplaceType DEF FilesWithBmp

LEMMA InitialMountType ==
  ASSUME TypeInv, NEW init, NEW rd, fs_init(init, rd)
  PROVE  TypeInv'
<1> DEFINE load == fs_load_from_disk(init, rd)
<1>1. TakesMountOf(load) /\ UNCHANGED <<disk, g_self_test_active>>
  BY DEF fs_init
<1>2. load.files \in FileArray
  BY LoadType DEF TypeInv
<1>3. MountsVolume(load) \/ MountsFreshFiles(load)
  BY DEF fs_init
<1> HIDE DEF load
<1>4. Quarantined(load.files) \in FileArray /\ FilesWithBmp(load) \in FileArray
  BY <1>2, QuarantinedType, FilesWithBmpType
<1>5. /\ FILES' \in FileArray /\ g_backend_status' \in Backends
      /\ call' \in [pc : {"off", "idle", "table", "header", "selftest", "reload"},
                    who : Callers, undo : FileArray]
      /\ CallShape'
  <2>1. CASE call' = Returned("idle")
    <3>1. /\ CallShape'
          /\ call' \in [pc : {"off", "idle", "table", "header", "selftest", "reload"},
                        who : Callers, undo : FileArray]
      BY <2>1, ReturnedType DEF CallShape, Returned
    <3> QED
      BY <1>3, <1>4, <3>1, FreshFilesType, DegradedBackendType
         DEF MountsVolume, MountsFreshFiles, Backends, TypeInv, TypeOK
  <2>2. CASE call' = Syncing("table", "metadata", Quarantined(load.files))
    <3>1. /\ CallShape'
          /\ call' \in [pc : {"off", "idle", "table", "header", "selftest", "reload"},
                        who : Callers, undo : FileArray]
      BY <1>4, <2>2, SyncingType DEF CallShape, Syncing, Callers
    <3> QED
      BY <1>3, <1>4, <3>1, FreshFilesType, DegradedBackendType
         DEF MountsVolume, MountsFreshFiles, Backends, TypeInv, TypeOK
  <2>3. CASE call' = Syncing("table", "format", FreshFiles)
    <3>1. /\ CallShape'
          /\ call' \in [pc : {"off", "idle", "table", "header", "selftest", "reload"},
                        who : Callers, undo : FileArray]
      BY <2>3, SyncingType, FreshFilesType DEF CallShape, Syncing, Callers
    <3> QED
      BY <1>3, <1>4, <3>1, FreshFilesType, DegradedBackendType
         DEF MountsVolume, MountsFreshFiles, Backends, TypeInv, TypeOK
  <2> QED
    BY <1>3, <2>1, <2>2, <2>3 DEF MountsVolume, MountsFreshFiles
<1> QED
  BY <1>1, <1>5, TakesMountType DEF load, TypeInv, TypeOK

LEMMA CrashType == TypeInv /\ Crash => TypeInv'
<1> SUFFICES ASSUME TypeInv, Crash PROVE TypeInv'
  OBVIOUS
<1>1. /\ FILES' \in FileArray
      /\ CallShape'
      /\ call' \in [pc : {"off", "idle", "table", "header", "selftest", "reload"},
                    who : Callers, undo : FileArray]
  BY EmptyFilesType, ReturnedType DEF Crash, CallShape, Returned
<1>2. 0 \in Generations
  BY VolumeAssumption DEF Generations
<1>3. /\ g_active_slot' = 2 /\ g_active_generation' = 0 /\ g_loaded_version' = 0
      /\ g_backend_status' = "UNINITIALIZED"
      /\ g_legacy_upgrade_status' = "UNAVAILABLE"
  BY DEF Crash
<1>a. g_self_test_active' \in BOOLEAN
  BY Zenon DEF Crash
<1>4. /\ target_slot \in Slots /\ CommitHeader \in Header /\ TornHeader \in Header
      /\ header \in [Slots -> Header] /\ table \in [Slots -> Table]
  BY CommitHeaderType DEF TypeInv, TypeOK
<1>5. header' \in [Slots -> Header] /\ table' \in [Slots -> Table]
  <2>1. CASE call.pc = "table"
    <3> DEFINE image == fs_serialize(FILES)
    <3>1. image \in Table /\ table[target_slot] \in Table
      BY <1>4, SerializeType DEF TypeInv, TypeOK
    <3>2. PICK t \in TableAfter("UNCERTAIN", image) :
            table' = [table EXCEPT ![target_slot] = t] /\ UNCHANGED header
      BY <2>1 DEF Crash
    <3> HIDE DEF image
    <3>3. ASSUME NEW n \in 0 .. FS_MAX_FILES PROVE PartialTable(image, n) \in Table
      BY <3>1 DEF PartialTable, Table
    <3>4. t \in Table
      BY <3>2, <3>3 DEF TableAfter
    <3> QED
      BY <1>4, <3>2, <3>4
  <2>2. CASE call.pc = "header"
    <3>1. PICK h \in HeaderAfter("UNCERTAIN", CommitHeader) :
            header' = [header EXCEPT ![target_slot] = h] /\ UNCHANGED table
      BY <2>2 DEF Crash
    <3> QED
      BY <1>4, <3>1 DEF HeaderAfter
  <2>3. CASE call.pc \notin {"table", "header"}
    BY <1>4, <2>3 DEF Crash, disk
  <2> QED
    BY <2>1, <2>2, <2>3
<1>6. TypeOK'
  BY <1>1, <1>2, <1>3, <1>5, <1>a DEF TypeOK, Backends
<1> QED
  BY <1>1, <1>6 DEF TypeInv

LEMMA TypeStep == TypeInv /\ [Next]_vars => TypeInv'
<1> SUFFICES ASSUME TypeInv, [Next]_vars PROVE TypeInv'
  OBVIOUS
<1>1. CASE UNCHANGED vars
  BY <1>1 DEF vars, TypeInv, TypeOK, CallShape
<1>2. CASE Next
  BY <1>2, ReloadType, InitialMountType, MutateType, UpgradeType, WriteTableType,
     WriteHeaderType, SelfTestMutatesType, CrashType DEF Next
<1> QED
  BY <1>1, <1>2

\* The variables keep their types, whatever the drive does and wherever the
\* power fails: generations stay in their width, the mounted array, the undo
\* copy and both tables stay arrays of FS_MAX_FILES files and records, however
\* a table on the disk was torn (all of kernel/fs.c).
THEOREM TypeCorrect == Spec => []TypeOK
<1>1. Spec => []TypeInv
  BY TypeInit, TypeStep, PTL DEF Spec
<1>2. TypeInv => TypeOK
  BY DEF TypeInv
<1> QED
  BY <1>1, <1>2, PTL

----------------------------------------------------------------------------
(* The active slot is the one the next boot mounts *)

\* A call that will commit or reload on behalf of a trusted volume.
SyncsTrusted ==
  \/ call.pc = "selftest"
  \/ call.pc \in {"table", "header"} /\ call.who \in {"op", "metadata"} \cup SelfTestStages

\* The strengthening.  ActiveSlotWins alone is not inductive: a commit makes the
\* target slot the winner only if its table was completely written, and only
\* because of what the other header is, which differs for a mutation of a
\* trusted volume, for a format and for the explicit legacy upgrade.
SlotInv ==
  /\ ActiveSlotWins
  /\ call.pc = "header" => table[target_slot] = fs_serialize(FILES)
  /\ SyncsTrusted => g_backend_status = "PERSISTENT"
  /\ call.pc = "off" => g_backend_status = "UNINITIALIZED"
  /\ call.pc \in {"table", "header"} /\ call.who = "format" =>
       /\ g_backend_status = "UNINITIALIZED"
       /\ g_active_slot = FS_SLOT_COUNT
       /\ ~fs_header_is_valid(header[1])
  /\ call.pc \in {"table", "header"} /\ call.who = "upgrade" =>
       g_legacy_upgrade_status = "AVAILABLE"
  /\ g_legacy_upgrade_status = "AVAILABLE" =>
       /\ g_backend_status # "PERSISTENT"
       /\ g_active_slot \in Slots
       /\ ~IsProtected(header[g_active_slot])

\* Serial-number arithmetic: the next generation is newer than this one and
\* this one is not newer than the next, at the wrap too.
LEMMA NextIsNewer ==
  ASSUME NEW g \in Generations
  PROVE  /\ fs_generation_is_newer(IncGeneration(g), g)
         /\ ~fs_generation_is_newer(g, IncGeneration(g))
BY VolumeAssumption
   DEF fs_generation_is_newer, IncGeneration, Distance, Generations

\* A load that is trusted loaded the slot that wins the order.
LEMMA TrustedLoadWins ==
  ASSUME NEW init, NEW rd, fs_load_from_disk(init, rd).result = "LOADED"
  PROVE  LET load == fs_load_from_disk(init, rd)
         IN  /\ load.slot \in Slots
             /\ FirstSlot(NoFault) = load.slot
             /\ fs_header_is_valid(header[load.slot])
             /\ header[load.slot].checksum = table[load.slot]
             /\ fs_header_generation(header[load.slot]) = load.generation
             /\ load.upgrade = "UNAVAILABLE"
<1> DEFINE first == FirstSlot(rd)
           result == [t \in Slots |-> fs_load_slot(rd, t)]
           slot == LoadedSlot(first, result)
           attempts == {result[first]} \cup (IF slot = first THEN {} ELSE {result[1 - first]})
           load == fs_load_from_disk(init, rd)
<1>1. first \in Slots
  BY FirstSlotType
<1>2. /\ init = "READY" /\ slot # FS_SLOT_COUNT
      /\ rd.hdr = {} /\ "IO_ERROR" \notin attempts /\ "CORRUPT" \notin attempts
      /\ ~OrderIsAmbiguous(rd)
  BY DEF fs_load_from_disk
<1>3. /\ load.slot = slot
      /\ load.generation = fs_header_generation(header[slot])
      /\ load.upgrade = IF BothLegacy(rd) /\ TablesDiffer(rd) THEN "AVAILABLE"
                        ELSE "UNAVAILABLE"
  BY <1>2 DEF fs_load_from_disk
<1> HIDE DEF load, first
<1>4. fs_load_slot(rd, first) = "LOADED"
  <2>1. fs_load_slot(rd, first) \notin {"IO_ERROR", "CORRUPT"}
    BY <1>1, <1>2
  <2>2. CASE fs_load_slot(rd, first) = "ABSENT"
    <3>1. ~HeaderAccepted(rd, 0) /\ ~HeaderAccepted(rd, 1)
      BY <1>1, <2>2 DEF fs_load_slot, first, FirstSlot
    <3>2. fs_load_slot(rd, 0) = "ABSENT" /\ fs_load_slot(rd, 1) = "ABSENT"
      BY <3>1 DEF fs_load_slot
    <3> QED
      BY <1>1, <1>2, <3>2 DEF LoadedSlot
  <2> QED
    BY <2>1, <2>2 DEF fs_load_slot
<1>5. slot = first
  BY <1>1, <1>4 DEF LoadedSlot
<1> HIDE DEF slot, result
<1>6. FirstSlot(NoFault) = first
  BY <1>2 DEF first, FirstSlot, HeaderAccepted, NoFault
<1>7. fs_header_is_valid(header[first]) /\ header[first].checksum = table[first]
  BY <1>4 DEF fs_load_slot, HeaderAccepted
<1> QED
  BY <1>1, <1>2, <1>3, <1>5, <1>6, <1>7 DEF load, OrderIsAmbiguous

\* A disk that is taken for blank has no valid header.
LEMMA BlankLoad ==
  ASSUME NEW init, NEW rd, fs_load_from_disk(init, rd).result = "BLANK"
  PROVE  LET load == fs_load_from_disk(init, rd)
         IN  /\ load.slot = FS_SLOT_COUNT
             /\ ~fs_header_is_valid(header[1])
<1> DEFINE first == FirstSlot(rd)
           result == [t \in Slots |-> fs_load_slot(rd, t)]
           slot == LoadedSlot(first, result)
           attempts == {result[first]} \cup (IF slot = first THEN {} ELSE {result[1 - first]})
           load == fs_load_from_disk(init, rd)
<1>1. first \in Slots
  BY FirstSlotType
<1>2. /\ init = "READY" /\ slot = FS_SLOT_COUNT
      /\ rd.hdr = {} /\ "IO_ERROR" \notin attempts /\ "CORRUPT" \notin attempts
  BY DEF fs_load_from_disk
<1>3. load.slot = FS_SLOT_COUNT
  BY <1>2 DEF fs_load_from_disk
<1> HIDE DEF load, first
<1>4. fs_load_slot(rd, 1) \notin {"IO_ERROR", "CORRUPT", "LOADED"}
  BY <1>1, <1>2 DEF LoadedSlot
<1>5. ~fs_header_is_valid(header[1])
  BY <1>2, <1>4 DEF fs_load_slot, HeaderAccepted
<1> QED
  BY <1>3, <1>5 DEF load

\* An offered upgrade leaves a valid unprotected active slot.
LEMMA UpgradableLoad ==
  ASSUME NEW init, NEW rd, fs_load_from_disk(init, rd).upgrade = "AVAILABLE"
  PROVE  LET load == fs_load_from_disk(init, rd)
         IN  /\ load.result # "LOADED" /\ load.result # "BLANK"
             /\ load.slot \in Slots
             /\ ~IsProtected(header[load.slot])
<1> DEFINE slot == LoadedSlot(FirstSlot(rd), [t \in Slots |-> fs_load_slot(rd, t)])
           load == fs_load_from_disk(init, rd)
<1>1. init = "READY" /\ slot # FS_SLOT_COUNT /\ BothLegacy(rd)
  BY DEF fs_load_from_disk
<1>2. slot \in Slots
  BY <1>1, LoadedSlotType
<1>3. load.slot = slot
  BY <1>1 DEF fs_load_from_disk
<1>4. load.result # "LOADED" /\ load.result # "BLANK"
  BY TrustedLoadWins, BlankLoad, <1>1, <1>3
<1> QED
  BY <1>1, <1>2, <1>3, <1>4 DEF BothLegacy

LEMMA FirstSlotFrame ==
  ASSUME UNCHANGED header
  PROVE  FirstSlot(NoFault)' = FirstSlot(NoFault)
BY DEF FirstSlot, HeaderAccepted, NoFault, fs_header_is_valid, IsProtected,
       fs_header_generation, fs_generation_is_newer, Distance

LEMMA SlotWinsFrame ==
  ASSUME UNCHANGED <<header, g_active_slot, g_active_generation>>,
         table'[g_active_slot] = table[g_active_slot], SlotWins(g_active_slot)
  PROVE  SlotWins(g_active_slot)'
BY FirstSlotFrame DEF SlotWins, fs_header_is_valid, fs_header_generation

\* A trusted load makes the loaded slot the winner.
LEMMA LoadWins ==
  ASSUME NEW init, NEW rd, fs_load_from_disk(init, rd).result = "LOADED",
         TakesMountOf(fs_load_from_disk(init, rd)), UNCHANGED disk
  PROVE  SlotWins(g_active_slot)' /\ g_legacy_upgrade_status' = "UNAVAILABLE"
<1> DEFINE load == fs_load_from_disk(init, rd)
<1>1. /\ load.slot \in Slots
      /\ FirstSlot(NoFault) = load.slot
      /\ fs_header_is_valid(header[load.slot])
      /\ header[load.slot].checksum = table[load.slot]
      /\ fs_header_generation(header[load.slot]) = load.generation
      /\ load.upgrade = "UNAVAILABLE"
  BY TrustedLoadWins
<1>2. /\ g_active_slot' = load.slot /\ g_active_generation' = load.generation
      /\ g_legacy_upgrade_status' = load.upgrade
      /\ UNCHANGED <<header, table>>
  BY DEF TakesMountOf, disk
<1> HIDE DEF load
<1> QED
  BY <1>1, <1>2, FirstSlotFrame DEF SlotWins, fs_header_is_valid, fs_header_generation

\* The conjunct about the upgrade after any load.
LEMMA LoadUpgrade ==
  ASSUME NEW init, NEW rd, TakesMountOf(fs_load_from_disk(init, rd)), UNCHANGED disk,
         g_legacy_upgrade_status' = "AVAILABLE"
  PROVE  /\ fs_load_from_disk(init, rd).result \notin {"LOADED", "BLANK"}
         /\ g_active_slot' \in Slots
         /\ ~IsProtected(header[g_active_slot])'
BY UpgradableLoad DEF TakesMountOf, disk, IsProtected

LEMMA SlotInit == Init => SlotInv
BY DEF Init, PoweredOff, Returned, SlotInv, ActiveSlotWins, SyncsTrusted

LEMMA SlotMount ==
  ASSUME TypeInv, SlotInv, NEW init, NEW rd, fs_init(init, rd)
  PROVE  SlotInv'
<1> DEFINE load == fs_load_from_disk(init, rd)
<1>1. call.pc = "off" /\ TakesMountOf(load) /\ UNCHANGED disk
      /\ (MountsVolume(load) \/ MountsFreshFiles(load))
  BY DEF fs_init
<1>2. g_backend_status = "UNINITIALIZED"
  BY <1>1 DEF SlotInv
<1>3. load.result = "LOADED" => SlotWins(g_active_slot)' /\ g_legacy_upgrade_status' = "UNAVAILABLE"
  BY <1>1, LoadWins
<1>4. g_legacy_upgrade_status' = "AVAILABLE" =>
        /\ load.result \notin {"LOADED", "BLANK"}
        /\ g_active_slot' \in Slots
        /\ ~IsProtected(header[g_active_slot])'
  BY <1>1, LoadUpgrade
<1>5. load.result = "BLANK" => g_active_slot' = FS_SLOT_COUNT /\ ~fs_header_is_valid(header[1])'
  BY <1>1, BlankLoad DEF TakesMountOf, disk, fs_header_is_valid
<1> HIDE DEF load
<1>6. g_backend_status' = "PERSISTENT" => load.result = "LOADED"
  BY <1>1, <1>2 DEF MountsVolume, MountsFreshFiles, DegradedBackend
<1>7. \/ call' = Returned("idle")
      \/ /\ call' = Syncing("table", "metadata", Quarantined(load.files))
         /\ g_backend_status' = "PERSISTENT"
      \/ /\ call' = Syncing("table", "format", FreshFiles)
         /\ load.result = "BLANK" /\ g_backend_status' = "UNINITIALIZED"
  BY <1>1, <1>2 DEF MountsVolume, MountsFreshFiles
<1> QED
  BY <1>3, <1>4, <1>5, <1>6, <1>7
     DEF SlotInv, ActiveSlotWins, SyncsTrusted, Returned, Syncing, SelfTestStages

LEMMA SlotReload ==
  ASSUME TypeInv, SlotInv, NEW init, NEW rd, fs_self_test_reload(init, rd)
  PROVE  SlotInv'
<1> DEFINE load == fs_load_from_disk(init, rd)
<1>1. TakesMountOf(load) /\ UNCHANGED disk
  BY DEF fs_self_test_reload
<1>2. load.result = "LOADED" => SlotWins(g_active_slot)' /\ g_legacy_upgrade_status' = "UNAVAILABLE"
  BY <1>1, LoadWins
<1>3. g_legacy_upgrade_status' = "AVAILABLE" =>
        /\ load.result \notin {"LOADED", "BLANK"}
        /\ g_active_slot' \in Slots
        /\ ~IsProtected(header[g_active_slot])'
  BY <1>1, LoadUpgrade
<1>4. \/ call' = Returned("idle") /\ g_backend_status' # "PERSISTENT"
      \/ /\ call' = Returned("idle") \/ call' = Syncing("selftest", NextStage[call.who], EmptyFiles)
         /\ g_backend_status' = "PERSISTENT" /\ load.result = "LOADED"
  BY DEF fs_self_test_reload, SelfTestFails, DegradedBackend
<1> HIDE DEF load
<1> QED
  BY <1>2, <1>3, <1>4 DEF SlotInv, ActiveSlotWins, SyncsTrusted, Returned, Syncing

\* Steps that change FILES and the call but neither the disk nor the mount.
LEMMA SlotFrame ==
  ASSUME SlotInv,
         UNCHANGED <<header, table, g_active_slot, g_active_generation, g_legacy_upgrade_status>>,
         g_backend_status' # g_backend_status => g_backend_status' = "VOLATILE_IO_ERROR",
         call'.pc \in {"idle", "table"},
         call'.pc = "table" => \/ /\ call'.who \in {"op"} \cup SelfTestStages
                                  /\ g_backend_status' = "PERSISTENT"
                               \/ /\ call'.who = "upgrade"
                                  /\ g_legacy_upgrade_status = "AVAILABLE"
  PROVE  SlotInv'
<1>1. ActiveSlotWins'
  BY SlotWinsFrame DEF SlotInv, ActiveSlotWins
<1>2. g_legacy_upgrade_status' = "AVAILABLE" =>
        /\ g_backend_status' # "PERSISTENT"
        /\ g_active_slot' \in Slots
        /\ ~IsProtected(header[g_active_slot])'
  BY DEF SlotInv, IsProtected
<1> QED
  BY <1>1, <1>2 DEF SlotInv, SyncsTrusted, SelfTestStages

LEMMA SlotCommitChanges ==
  ASSUME SlotInv, call.pc = "idle", NEW files, fs_commit_changes(files)
  PROVE  SlotInv'
BY SlotFrame DEF fs_commit_changes, disk, mount, Syncing

LEMMA SlotMutate == SlotInv /\ Mutate => SlotInv'
BY SlotCommitChanges
   DEF Mutate, fs_touch, fs_remove, fs_system_remove, fs_remove_internal, fs_write_bytes,
       fs_system_write_bytes, fs_write_bytes_internal, fs_append, fs_rename,
       fs_system_rename, fs_rename_internal

LEMMA SlotUpgrade == SlotInv /\ fs_upgrade_legacy_snapshot => SlotInv'
BY SlotFrame DEF fs_upgrade_legacy_snapshot, disk, mount, Syncing

LEMMA SlotSelfTest == TypeInv /\ SlotInv /\ SelfTestMutates => SlotInv'
<1> SUFFICES ASSUME TypeInv, SlotInv, SelfTestMutates PROVE SlotInv'
  OBVIOUS
<1>1. call.pc = "selftest" /\ call.who \in SelfTestStages
      /\ g_backend_status = "PERSISTENT"
  BY DEF SelfTestMutates, TypeInv, CallShape, SlotInv, SyncsTrusted
<1> QED
  BY <1>1, SlotFrame DEF SelfTestMutates, SelfTestFails, disk, mount, Syncing, Returned

LEMMA TargetIsOther ==
  ASSUME TypeOK, g_active_slot \in Slots
  PROVE  target_slot = 1 - g_active_slot /\ target_slot # g_active_slot
BY DEF target_slot

\* A commit that does not succeed ends the trust in the volume.
LEMMA SlotSyncFails ==
  ASSUME TypeInv, SlotInv, call.pc \in {"table", "header"},
         NEW result \in {"FAILED", "UNCERTAIN"}, SyncReturns(result),
         g_active_slot \in Slots => header'[g_active_slot] = header[g_active_slot]
  PROVE  SlotInv'
<1>1. UNCHANGED <<g_active_slot, g_active_generation>>
  BY DEF SyncReturns, mount
<1>2. g_backend_status' # "PERSISTENT"
  BY DEF SyncReturns, ReturnToMutation, ReturnToFormat, ReturnToUpgrade, ReturnToSelfTest,
         SelfTestFails, SlotInv
<1>3. call'.pc \in {"idle", "reload"}
  BY DEF SyncReturns, ReturnToMutation, ReturnToFormat, ReturnToUpgrade, ReturnToSelfTest,
         SelfTestFails, Returned, Syncing
<1>4. g_legacy_upgrade_status' = "AVAILABLE" => g_legacy_upgrade_status = "AVAILABLE"
  BY DEF SyncReturns, ReturnToMutation, ReturnToFormat, ReturnToUpgrade, ReturnToSelfTest
<1>5. g_legacy_upgrade_status' = "AVAILABLE" =>
        g_active_slot' \in Slots /\ ~IsProtected(header[g_active_slot])'
  BY <1>1, <1>4 DEF SlotInv, IsProtected
<1> QED
  BY <1>2, <1>3, <1>5 DEF SlotInv, ActiveSlotWins, SyncsTrusted

LEMMA SlotWriteTable == TypeInv /\ SlotInv /\ WriteTable => SlotInv'
<1> SUFFICES ASSUME TypeInv, SlotInv, WriteTable PROVE SlotInv'
  OBVIOUS
<1> DEFINE image == fs_serialize(FILES)
           Continue == /\ call' = Syncing("header", call.who, call.undo)
                       /\ UNCHANGED <<mount, FILES, g_backend_status,
                                      g_legacy_upgrade_status, g_self_test_active>>
<1>1. call.pc = "table" /\ UNCHANGED header
  BY DEF WriteTable
<1>2. target_slot \in Slots /\ table \in [Slots -> Table]
  BY CommitHeaderType DEF TypeInv, TypeOK
<1>a. PICK written \in AtaWriteResults : \E t \in TableAfter(written, image) :
        /\ table' = [table EXCEPT ![target_slot] = t]
        /\ AfterWrite(written, t = image, Continue)
  BY DEF WriteTable
<1>3. PICK t \in TableAfter(written, image) :
        /\ table' = [table EXCEPT ![target_slot] = t]
        /\ AfterWrite(written, t = image, Continue)
  BY <1>a
<1> HIDE DEF image
<1>4. CASE SyncReturns("FAILED") \/ SyncReturns("UNCERTAIN")
  BY <1>1, <1>4, SlotSyncFails
<1>5. CASE Continue /\ t = image
  <2>1. /\ UNCHANGED <<g_active_slot, g_active_generation, FILES, g_backend_status,
                       g_legacy_upgrade_status>>
        /\ call' = Syncing("header", call.who, call.undo)
    BY <1>5 DEF mount
  <2>2. ActiveSlotWins'
    <3> SUFFICES ASSUME g_backend_status = "PERSISTENT" PROVE SlotWins(g_active_slot)'
      BY <2>1 DEF ActiveSlotWins
    <3>1. SlotWins(g_active_slot) /\ g_active_slot \in Slots
      BY DEF SlotInv, ActiveSlotWins, SlotWins
    <3>2. table'[g_active_slot] = table[g_active_slot]
      BY <1>2, <1>3, <3>1, TargetIsOther DEF TypeInv
    <3> QED
      BY <1>1, <2>1, <3>1, <3>2, SlotWinsFrame
  <2>3. target_slot' = target_slot
    BY <2>1 DEF target_slot
  <2>4. fs_serialize(FILES)' = image
    BY <2>1 DEF image
  <2>5. table'[target_slot'] = fs_serialize(FILES)'
    BY <1>2, <1>3, <1>5, <2>3, <2>4
  <2>6. (SyncsTrusted => g_backend_status = "PERSISTENT")'
    BY <1>1, <2>1 DEF SlotInv, SyncsTrusted, Syncing
  <2>7. g_legacy_upgrade_status' = "AVAILABLE" =>
          /\ g_backend_status' # "PERSISTENT"
          /\ g_active_slot' \in Slots
          /\ ~IsProtected(header[g_active_slot])'
    BY <1>1, <2>1 DEF SlotInv, IsProtected
  <2>8. call'.who = "format" =>
          /\ g_backend_status' = "UNINITIALIZED"
          /\ g_active_slot' = FS_SLOT_COUNT
          /\ ~fs_header_is_valid(header[1])'
    BY <1>1, <2>1 DEF SlotInv, Syncing, fs_header_is_valid
  <2>9. call'.who = "upgrade" => g_legacy_upgrade_status' = "AVAILABLE"
    BY <1>1, <2>1 DEF SlotInv, Syncing
  <2>10. call'.pc = "header"
    BY <2>1 DEF Syncing
  <2> QED
    BY <2>2, <2>5, <2>6, <2>7, <2>8, <2>9, <2>10 DEF SlotInv
<1>6. Continue => t = image
  BY <1>1, <1>3 DEF TableAfter, AfterWrite, MayDrop, require_verified_readback, AtaWriteResults, SyncReturns,
     ReturnToMutation, ReturnToFormat, ReturnToUpgrade, ReturnToSelfTest, SelfTestFails,
     Returned, Syncing
<1> QED
  BY <1>3, <1>4, <1>5, <1>6 DEF AfterWrite

\* A header that is written over a complete table wins, and so clearly that a
\* boot can tell: the other header is not valid, or unprotected, or protected
\* and of the generation before.
LEMMA CommittedFirst ==
  ASSUME TypeInv, SlotInv, call.pc = "header",
         header' = [header EXCEPT ![target_slot] = CommitHeader]
  PROVE  /\ FirstSlot(NoFault)' = target_slot
         /\ LET other == header[1 - target_slot]
            IN  \/ other.kind # "valid"
                \/ ~(other.version >= 4)
                \/ other.version >= 4 /\ other.generation = g_active_generation
<1>1. /\ target_slot \in Slots /\ next_generation \in Generations
      /\ g_active_generation \in Generations
      /\ header \in [Slots -> Header]
  BY CommitHeaderType DEF TypeInv, TypeOK
<1>2. /\ header'[target_slot] = CommitHeader
      /\ header'[1 - target_slot] = header[1 - target_slot]
  BY <1>1
<1>3. /\ CommitHeader.kind = "valid" /\ CommitHeader.version = 5
      /\ CommitHeader.generation = next_generation
      /\ CommitHeader.checksum = fs_serialize(FILES)
  BY DEF CommitHeader
<1> HIDE DEF CommitHeader
<1> DEFINE other == header[1 - target_slot]
<1>5. \/ other.kind # "valid"
      \/ ~(other.version >= 4)
      \/ /\ other.version >= 4
         /\ other.generation = g_active_generation
  <2>1. CASE g_backend_status = "PERSISTENT"
    <3>1. SlotWins(g_active_slot)
      BY <2>1 DEF SlotInv, ActiveSlotWins
    <3>2. 1 - target_slot = g_active_slot
      BY <3>1, TargetIsOther DEF SlotWins, TypeInv
    <3>3. fs_header_generation(other) = g_active_generation
      BY <3>1, <3>2 DEF SlotWins
    <3>4. other \in Header
      BY <1>1
    <3> QED
      BY <3>3, <3>4 DEF fs_header_generation, Header
  <2>2. CASE call.who = "format"
    BY <2>2 DEF SlotInv, target_slot, fs_header_is_valid
  <2>3. CASE call.who = "upgrade"
    <3>1. g_active_slot \in Slots /\ ~IsProtected(header[g_active_slot])
      BY <2>3 DEF SlotInv
    <3>2. 1 - target_slot = g_active_slot
      BY <3>1, TargetIsOther DEF TypeInv
    <3> QED
      BY <3>1, <3>2 DEF IsProtected
  <2>4. call.who \in {"op", "metadata", "format", "upgrade"} \cup SelfTestStages
    BY DEF TypeInv, TypeOK, CallShape, Callers
  <2> QED
    BY <2>1, <2>2, <2>3, <2>4 DEF SlotInv, SyncsTrusted
<1>6. /\ fs_generation_is_newer(next_generation, g_active_generation)
      /\ ~fs_generation_is_newer(g_active_generation, next_generation)
  BY <1>1, NextIsNewer DEF next_generation
<1>7. FirstSlot(NoFault)' = target_slot
  <2> DEFINE Newer(g, h) == fs_generation_is_newer(g, h)
  <2>1. FirstSlot(NoFault)' =
          IF /\ header'[1].kind = "valid"
             /\ \/ header'[0].kind # "valid"
                \/ header'[1].version >= 4 /\ ~(header'[0].version >= 4)
                \/ /\ header'[1].version >= 4 <=> header'[0].version >= 4
                   /\ Newer(fs_header_generation(header'[1]), fs_header_generation(header'[0]))
          THEN 1 ELSE 0
    BY DEF FirstSlot, HeaderAccepted, NoFault, fs_header_is_valid, IsProtected,
           fs_generation_is_newer, fs_header_generation, Distance
  <2> HIDE DEF Newer
  <2>2. Newer(next_generation, g_active_generation) /\ ~Newer(g_active_generation, next_generation)
    BY <1>6 DEF Newer
  <2>3. fs_header_generation(header'[target_slot]) = next_generation
    BY <1>2, <1>3 DEF fs_header_generation
  <2>4. other.version >= 4 => fs_header_generation(header'[1 - target_slot]) = other.generation
    BY <1>1, <1>2 DEF fs_header_generation
  <2>5. CASE target_slot = 0
    BY <1>2, <1>3, <1>5, <2>1, <2>2, <2>3, <2>4, <2>5
  <2>6. CASE target_slot = 1
    BY <1>2, <1>3, <1>5, <2>1, <2>2, <2>3, <2>4, <2>6
  <2> QED
    BY <1>1, <2>5, <2>6
<1> QED
  BY <1>5, <1>7

LEMMA CommittedSlotWins ==
  ASSUME TypeInv, SlotInv, call.pc = "header", fs_accept_commit, UNCHANGED table,
         header' = [header EXCEPT ![target_slot] = CommitHeader]
  PROVE  SlotWins(g_active_slot)'
<1>1. /\ target_slot \in Slots /\ header \in [Slots -> Header]
      /\ g_active_slot' = target_slot /\ g_active_generation' = next_generation
  BY CommitHeaderType DEF fs_accept_commit, TypeInv, TypeOK
<1>2. header'[target_slot] = CommitHeader
  BY <1>1
<1>3. /\ CommitHeader.kind = "valid" /\ CommitHeader.version = 5
      /\ CommitHeader.generation = next_generation
      /\ CommitHeader.checksum = table[target_slot]
  BY DEF CommitHeader, SlotInv
<1> HIDE DEF CommitHeader
<1>4. FirstSlot(NoFault)' = target_slot
  BY CommittedFirst DEF CommitHeader
<1> QED
  BY <1>1, <1>2, <1>3, <1>4
     DEF SlotWins, fs_header_is_valid, fs_header_generation

LEMMA SlotWriteHeader == TypeInv /\ SlotInv /\ WriteHeader => SlotInv'
<1> SUFFICES ASSUME TypeInv, SlotInv, WriteHeader PROVE SlotInv'
  OBVIOUS
<1>1. call.pc = "header" /\ UNCHANGED table
  BY DEF WriteHeader
<1>2. target_slot \in Slots /\ header \in [Slots -> Header]
  BY CommitHeaderType DEF TypeInv, TypeOK
<1>a. PICK written \in AtaWriteResults : \E h \in HeaderAfter(written, CommitHeader) :
        /\ header' = [header EXCEPT ![target_slot] = h]
        /\ AfterWrite(written, h = CommitHeader /\ table[target_slot] = CommitHeader.checksum,
                      SyncReturns("COMMITTED"))
  BY DEF WriteHeader
<1>3. PICK h \in HeaderAfter(written, CommitHeader) :
        /\ header' = [header EXCEPT ![target_slot] = h]
        /\ AfterWrite(written, h = CommitHeader /\ table[target_slot] = CommitHeader.checksum,
                      SyncReturns("COMMITTED"))
  BY <1>a
<1>4. CASE SyncReturns("FAILED") \/ SyncReturns("UNCERTAIN")
  <2>1. g_active_slot \in Slots => header'[g_active_slot] = header[g_active_slot]
    BY <1>2, <1>3, TargetIsOther DEF TypeInv
  <2> QED
    BY <1>1, <1>4, <2>1, SlotSyncFails
<1>5. CASE SyncReturns("COMMITTED") /\ h = CommitHeader
  <2>1. fs_accept_commit
    BY <1>5 DEF SyncReturns
  <2>2. SlotWins(g_active_slot)'
    BY <1>1, <1>3, <1>5, <2>1, CommittedSlotWins
  <2>3. g_legacy_upgrade_status' # "AVAILABLE"
    BY <1>1, <1>5 DEF SyncReturns, ReturnToMutation, ReturnToFormat, ReturnToUpgrade,
       ReturnToSelfTest, SlotInv, SyncsTrusted
  <2>4. call'.pc \in {"idle", "reload"}
        \/ (call'.pc = "selftest" /\ g_backend_status' = "PERSISTENT")
    BY <1>5 DEF SyncReturns, ReturnToMutation, ReturnToFormat, ReturnToUpgrade,
       ReturnToSelfTest, Returned, Syncing
  <2> QED
    BY <2>2, <2>3, <2>4 DEF SlotInv, ActiveSlotWins, SyncsTrusted
<1>6. \/ SyncReturns("FAILED") \/ SyncReturns("UNCERTAIN")
      \/ SyncReturns("COMMITTED") /\ h = CommitHeader
  BY <1>3 DEF AfterWrite, HeaderAfter, MayDrop, require_verified_readback, AtaWriteResults
<1> QED
  BY <1>4, <1>5, <1>6

LEMMA SlotCrash == Crash => SlotInv'
BY DEF Crash, SlotInv, ActiveSlotWins, SyncsTrusted, Returned

LEMMA SlotStep == TypeInv /\ SlotInv /\ [Next]_vars => SlotInv'
<1> SUFFICES ASSUME TypeInv, SlotInv, [Next]_vars PROVE SlotInv'
  OBVIOUS
<1>1. CASE UNCHANGED vars
  <2>1. ActiveSlotWins'
    BY <1>1, SlotWinsFrame DEF vars, SlotInv, ActiveSlotWins
  <2>2. target_slot' = target_slot /\ fs_serialize(FILES)' = fs_serialize(FILES)
    BY <1>1 DEF vars, target_slot
  <2> QED
    BY <1>1, <2>1, <2>2 DEF vars, SlotInv, SyncsTrusted, IsProtected, fs_header_is_valid
<1>2. CASE Next
  BY <1>2, SlotMount, SlotReload, SlotMutate, SlotUpgrade, SlotWriteTable,
     SlotWriteHeader, SlotSelfTest, SlotCrash DEF Next
<1> QED
  BY <1>1, <1>2

\* While the volume is persistent the active slot is complete and is the one
\* the next boot tries first: for every generation width above 2, through the
\* wrap of the counter, with every outcome of every disk write and a loss of
\* power anywhere (fs_sync_to_disk_verified against fs_load_from_disk).
THEOREM ActiveSlotAlwaysWins == Spec => []ActiveSlotWins
<1>1. Init => TypeInv /\ SlotInv
  BY TypeInit, SlotInit
<1>2. TypeInv /\ SlotInv /\ [Next]_vars => (TypeInv /\ SlotInv)'
  BY TypeStep, SlotStep
<1>3. TypeInv /\ SlotInv => ActiveSlotWins
  BY DEF SlotInv
<1> QED
  BY <1>1, <1>2, <1>3, PTL DEF Spec

----------------------------------------------------------------------------
(* The file array stays sound *)

NoLog(files) == \A i \in InUse(files) : files[i].name # SystemLogName

NoArtifact(files) == \A i \in InUse(files) : ~fs_file_is_self_test_artifact(files[i])

Sound(files) == WellFormed(files) /\ Fits(files) /\ NoLog(files)

LEMMA WellFormedType ==
  ASSUME NEW files, WellFormed(files)
  PROVE  /\ files \in FileArray
         /\ DOMAIN files = FileIndex
         /\ \A i \in FileIndex : files[i] \in File
         /\ \A i \in FileIndex : files[i].in_use =>
              /\ i \in InUse(files) /\ files[i].name \in Names
              /\ Len(files[i].data) < FS_MAX_FILE_SIZE
         /\ \A i \in FileIndex : ~files[i].in_use => files[i] = ClearedFile
         /\ \A i \in InUse(files) : i \in FileIndex /\ files[i].in_use
BY DEF WellFormed, FileArray, InUse

\* A NULL from fs_find_mutable means that no file has the name.
LEMMA FindNone ==
  ASSUME NEW files \in FileArray, NEW name, fs_find_mutable(files, name) = 0,
         NEW i \in FileIndex, files[i].in_use
  PROVE  files[i].name # name
<1> SUFFICES ASSUME files[i].name = name PROVE FALSE
  OBVIOUS
<1> DEFINE matching == {j \in FileIndex : files[j].in_use /\ files[j].name = name}
<1>1. matching \in SUBSET Nat /\ matching # {}
  BY DEF FileIndex
<1>2. PICK x \in matching : \A y \in matching : x <= y
  BY <1>1, LeastMember
<1>3. \A j \in 1 .. x - 1 : ~ (files[j].in_use /\ files[j].name = name)
  BY <1>1, <1>2, ExtentsAssumption DEF FileIndex
<1>4. \E k \in FileIndex :
        /\ files[k].in_use /\ files[k].name = name
        /\ \A j \in 1 .. k - 1 : ~ (files[j].in_use /\ files[j].name = name)
  BY <1>2, <1>3
<1> DEFINE found == CHOOSE k \in FileIndex :
                      /\ files[k].in_use /\ files[k].name = name
                      /\ \A j \in 1 .. k - 1 : ~ (files[j].in_use /\ files[j].name = name)
<1>5. found \in FileIndex
  BY <1>4
<1>6. fs_find_mutable(files, name) = found
  BY DEF fs_find_mutable
<1> HIDE DEF found
<1> QED
  BY <1>5, <1>6 DEF FileIndex

\* fs_allocate_slot finds a free slot if there is one.
LEMMA AllocateType ==
  ASSUME NEW files \in FileArray
  PROVE  LET i == fs_allocate_slot(files)
         IN  i = 0 \/ (i \in FileIndex /\ ~files[i].in_use)
<1> DEFINE free == {i \in FileIndex : ~files[i].in_use}
<1>1. CASE free = {}
  BY <1>1 DEF fs_allocate_slot
<1>2. CASE free # {}
  <2>1. free \in SUBSET Nat
    BY DEF FileIndex
  <2>2. PICK x \in free : \A y \in free : x <= y
    BY <1>2, <2>1, LeastMember
  <2>3. \A j \in 1 .. x - 1 : files[j].in_use
    BY <2>1, <2>2, ExtentsAssumption DEF FileIndex
  <2>4. \E i \in FileIndex : ~files[i].in_use /\ \A j \in 1 .. i - 1 : files[j].in_use
    BY <2>2, <2>3
  <2> QED
    BY <2>4 DEF fs_allocate_slot
<1> QED
  BY <1>1, <1>2

LEMMA WellFormedIntro ==
  ASSUME NEW files \in FileArray,
         \A i \in FileIndex : files[i].in_use =>
           files[i].name \in Names /\ Len(files[i].data) < FS_MAX_FILE_SIZE,
         \A i \in FileIndex : ~files[i].in_use => files[i] = ClearedFile,
         \A i, j \in FileIndex :
           files[i].in_use /\ files[j].in_use /\ files[i].name = files[j].name => i = j
  PROVE  WellFormed(files)
BY DEF WellFormed, NamesAreUnique, InUse

\* One file is replaced by one whose name no other file has.
LEMMA PutWellFormed ==
  ASSUME NEW files, WellFormed(files), NEW k \in FileIndex, NEW file \in File,
         file.in_use, file.name \in Names, Len(file.data) < FS_MAX_FILE_SIZE,
         \A i \in FileIndex \ {k} : files[i].in_use => files[i].name # file.name
  PROVE  WellFormed([files EXCEPT ![k] = file])
<1> DEFINE new == [files EXCEPT ![k] = file]
<1>1. /\ files \in FileArray
      /\ \A i \in FileIndex : files[i].in_use =>
           files[i].name \in Names /\ Len(files[i].data) < FS_MAX_FILE_SIZE
      /\ \A i \in FileIndex : ~files[i].in_use => files[i] = ClearedFile
      /\ \A i, j \in FileIndex :
           files[i].in_use /\ files[j].in_use /\ files[i].name = files[j].name => i = j
  BY DEF WellFormed, NamesAreUnique, InUse
<1>2. new \in FileArray /\ \A i \in FileIndex : new[i] = IF i = k THEN file ELSE files[i]
  BY <1>1, ReplaceType DEF FileArray
<1> HIDE DEF new
<1>3. WellFormed(new)
  BY <1>1, <1>2, WellFormedIntro
<1> QED
  BY <1>3 DEF new

\* The files of an array, some of them cleared.
LEMMA ClearedSound ==
  ASSUME NEW files, WellFormed(files), NEW new \in FileArray,
         \A i \in FileIndex : new[i] = files[i] \/ new[i] = ClearedFile
  PROVE  /\ WellFormed(new)
         /\ Fits(files) => Fits(new)
         /\ NoLog(files) => NoLog(new)
         /\ NoArtifact(files) => NoArtifact(new)
<1>1. /\ files \in FileArray
      /\ \A i \in FileIndex : files[i].in_use =>
           files[i].name \in Names /\ Len(files[i].data) < FS_MAX_FILE_SIZE
      /\ \A i \in FileIndex : ~files[i].in_use => files[i] = ClearedFile
      /\ \A i, j \in FileIndex :
           files[i].in_use /\ files[j].in_use /\ files[i].name = files[j].name => i = j
  BY DEF WellFormed, NamesAreUnique, InUse
<1>2. ~ClearedFile.in_use
  BY DEF ClearedFile
<1>3. WellFormed(new)
  BY <1>1, <1>2, WellFormedIntro
<1>4. \A i \in InUse(new) : i \in InUse(files) /\ new[i] = files[i]
  BY <1>2 DEF InUse
<1>5. Extents(new) \subseteq Extents(files)
  <2>1. ASSUME NEW e \in Extents(new) PROVE e \in Extents(files)
    <3>1. e = <<e[1], e[2]>>
      BY ExtentShape
    <3>2. e[1] \in InUse(new) /\ e[2] \in 1 .. Parts(new[e[1]])
      BY <1>3, <3>1, ExtentIff
    <3>3. <<e[1], e[2]>> \in Extents(files)
      BY <1>4, <3>2, ExtentIff
    <3> QED
      BY <3>1, <3>3
  <2> QED
    BY <2>1
<1> QED
  BY <1>3, <1>4, <1>5, FewerExtentsFit DEF NoLog, NoArtifact

\* Renaming one file to a name no other file has.
LEMMA RenamedSound ==
  ASSUME NEW files, WellFormed(files), NEW k \in InUse(files), NEW name \in Names,
         \A i \in FileIndex : files[i].in_use => files[i].name # name
  PROVE  LET new == [files EXCEPT ![k].name = name]
         IN  /\ WellFormed(new)
             /\ Fits(files) => Fits(new)
             /\ InUse(new) = InUse(files)
             /\ \A i \in FileIndex : new[i].data = files[i].data
             /\ \A i \in FileIndex : new[i].in_use = files[i].in_use
             /\ \A i \in FileIndex \ {k} : new[i] = files[i]
             /\ new[k].name = name
<1> DEFINE file == [files[k] EXCEPT !.name = name]
           new == [files EXCEPT ![k] = file]
<1>1. k \in FileIndex /\ files[k] \in File /\ files[k].in_use
      /\ Len(files[k].data) < FS_MAX_FILE_SIZE /\ files \in FileArray
  BY WellFormedType
<1>2. /\ file \in File /\ file.in_use /\ file.name = name
      /\ file.data = files[k].data
  BY <1>1 DEF File
<1>3. new = [files EXCEPT ![k].name = name]
  OBVIOUS
<1> HIDE DEF file
<1>4. WellFormed(new)
  BY <1>1, <1>2, PutWellFormed
<1>5. \A i \in FileIndex : new[i] = IF i = k THEN file ELSE files[i]
  BY <1>1 DEF FileArray
<1> HIDE DEF new
<1>6. /\ \A i \in FileIndex : new[i].data = files[i].data
      /\ \A i \in FileIndex : new[i].in_use <=> files[i].in_use
      /\ \A i \in FileIndex \ {k} : new[i] = files[i]
      /\ new[k].name = name
  BY <1>1, <1>2, <1>5
<1>7. InUse(new) = InUse(files)
  BY <1>6 DEF InUse
<1>8. Extents(new) = Extents(files)
  BY <1>6 DEF Extents
<1>9. Fits(files) => Fits(new)
  BY <1>8 DEF Fits
<1>10. \A i \in FileIndex : new[i].in_use = files[i].in_use
  BY <1>2, <1>5, WellFormedType DEF File
<1> QED
  BY <1>3, <1>4, <1>6, <1>7, <1>9, <1>10

----------------------------------------------------------------------------
(* Quarantine: a recovery name is always free *)

CandidateLists == {RecoveredTestNames, RecoveredLogNames}

\* There is one candidate more than there are files, so one is free.
LEMMA FreeCandidateIsFree ==
  ASSUME NEW files, WellFormed(files), NEW candidates \in CandidateLists
  PROVE  LET name == FreeCandidate(files, candidates)
         IN  /\ name \in Names /\ name # NoName
             /\ name \notin {SystemLogName, SelfTestScratch, SelfTestRenamed}
             /\ \A i \in FileIndex : files[i].in_use => files[i].name # name
<1> DEFINE K == 1 .. FS_MAX_FILES + 1
           free == {k \in K : fs_find_mutable(files, candidates[k]) = 0}
<1>0. files \in FileArray
  BY WellFormedType
<1>1. /\ candidates \in [K -> Names]
      /\ \A i, j \in K : candidates[i] = candidates[j] => i = j
      /\ \A i \in K : candidates[i] \notin {SystemLogName, SelfTestScratch, SelfTestRenamed}
  BY VolumeAssumption DEF CandidateLists
<1>2. free # {}
  <2> SUFFICES ASSUME free = {} PROVE FALSE
    OBVIOUS
  <2> DEFINE f == [k \in K |-> fs_find_mutable(files, candidates[k])]
  <2>1. \A k \in K : f[k] \in FileIndex /\ files[f[k]].name = candidates[k]
    BY <1>0, FindType
  <2>2. f \in [K -> FileIndex]
    BY <2>1
  <2>3. /\ IsFiniteSet(K) /\ Cardinality(K) = FS_MAX_FILES + 1
        /\ IsFiniteSet(FileIndex) /\ Cardinality(FileIndex) = FS_MAX_FILES
    <3> DEFINE n == FS_MAX_FILES + 1
    <3>1. n \in Int /\ 1 \in Int /\ n >= 1 /\ FS_MAX_FILES \in Nat \ {0}
      BY ExtentsAssumption
    <3> HIDE DEF n
    <3>2. IsFiniteSet(1 .. n) /\ Cardinality(1 .. n) = n
      BY <3>1, FS_Interval
    <3>3. IsFiniteSet(1 .. FS_MAX_FILES) /\ Cardinality(1 .. FS_MAX_FILES) = FS_MAX_FILES
      BY <3>1, FS_Interval
    <3> QED
      BY <3>2, <3>3 DEF n, FileIndex
  <2>4. Cardinality(FileIndex) < Cardinality(K)
    BY <2>3, ExtentsAssumption
  <2> HIDE DEF f, K
  <2>5. \E x, y \in K : x # y /\ f[x] = f[y]
    BY <2>2, <2>3, <2>4, FS_PigeonHole
  <2> QED
    BY <1>1, <2>1, <2>5
<1>3. free \in SUBSET Nat
  BY ExtentsAssumption
<1>4. \E x \in free : \A y \in free : x <= y
  BY <1>2, <1>3, LeastMember
<1> DEFINE k == CHOOSE k \in free : \A j \in free : k <= j
<1>5. k \in free
  BY <1>4
<1>6. FreeCandidate(files, candidates) = candidates[k]
  BY <1>2 DEF FreeCandidate
<1> HIDE DEF k
<1>7. candidates[k] \in Names /\ candidates[k] # NoName
  BY <1>1, <1>5, ExtentsAssumption
<1>8. \A i \in FileIndex : files[i].in_use => files[i].name # candidates[k]
  BY <1>0, <1>5, FindNone
<1> QED
  BY <1>1, <1>5, <1>6, <1>7, <1>8

LEMMA RecoverSound ==
  ASSUME NEW files, WellFormed(files), NEW k \in InUse(files), NEW candidates \in CandidateLists
  PROVE  LET new == Recover(files, k, candidates)
         IN  /\ WellFormed(new)
             /\ Fits(files) => Fits(new)
             /\ InUse(new) = InUse(files)
             /\ \A i \in FileIndex : new[i].data = files[i].data
             /\ \A i \in FileIndex \ {k} : new[i] = files[i]
             /\ new[k].name \notin {SystemLogName, SelfTestScratch, SelfTestRenamed}
<1> DEFINE name == FreeCandidate(files, candidates)
<1>1. /\ name \in Names /\ name # NoName
      /\ name \notin {SystemLogName, SelfTestScratch, SelfTestRenamed}
      /\ \A i \in FileIndex : files[i].in_use => files[i].name # name
  BY FreeCandidateIsFree
<1>2. k # 0
  BY DEF InUse, FileIndex
<1>3. Recover(files, k, candidates) = [files EXCEPT ![k].name = name]
  BY <1>1, <1>2 DEF Recover
<1> HIDE DEF name
<1> DEFINE new == [files EXCEPT ![k].name = name]
<1>4. /\ WellFormed(new)
      /\ Fits(files) => Fits(new)
      /\ InUse(new) = InUse(files)
      /\ \A i \in FileIndex : new[i].data = files[i].data
      /\ \A i \in FileIndex \ {k} : new[i] = files[i]
      /\ new[k].name = name
  BY <1>1, RenamedSound
<1> HIDE DEF new
<1> QED
  BY <1>1, <1>3, <1>4 DEF new

Artifacts(files) == {i \in FileIndex : fs_file_is_self_test_artifact(files[i])}

\* Renaming the first artifact leaves the others, and makes no new one.
LEMMA FirstArtifactRecovered ==
  ASSUME NEW files, WellFormed(files)
  PROVE  LET new == RecoverFirstArtifact(files)
         IN  /\ WellFormed(new)
             /\ Fits(files) => Fits(new)
             /\ InUse(new) = InUse(files)
             /\ \A i \in FileIndex : new[i].data = files[i].data
             /\ \/ Artifacts(files) = {} /\ new = files
                \/ \E x \in Artifacts(files) : /\ Artifacts(new) = Artifacts(files) \ {x}
                                               /\ \A i \in FileIndex \ {x} : new[i] = files[i]
<1> DEFINE new == RecoverFirstArtifact(files)
           x == FirstArtifact(files)
<1>1. CASE Artifacts(files) = {}
  <2>1. x = 0
    BY <1>1 DEF FirstArtifact, Artifacts
  <2>2. new = files
    BY <2>1 DEF RecoverFirstArtifact, Recover
  <2> QED
    BY <1>1, <2>2
<1>2. CASE Artifacts(files) # {}
  <2>1. Artifacts(files) \in SUBSET Nat
    BY DEF Artifacts, FileIndex
  <2>2. \E a \in Artifacts(files) : \A b \in Artifacts(files) : a <= b
    BY <1>2, <2>1, LeastMember
  <2>3. x = CHOOSE a \in Artifacts(files) : \A b \in Artifacts(files) : a <= b
    BY <1>2 DEF FirstArtifact, Artifacts
  <2>4. x \in Artifacts(files)
    BY <2>2, <2>3
  <2> HIDE DEF x
  <2>5. x \in InUse(files) /\ x \in FileIndex
    BY <2>4 DEF Artifacts, InUse, fs_file_is_self_test_artifact
  <2>6. new = Recover(files, x, RecoveredTestNames)
    BY DEF RecoverFirstArtifact, x
  <2> HIDE DEF new
  <2>7. /\ WellFormed(new)
        /\ Fits(files) => Fits(new)
        /\ InUse(new) = InUse(files)
        /\ \A i \in FileIndex : new[i].data = files[i].data
        /\ \A i \in FileIndex \ {x} : new[i] = files[i]
        /\ new[x].name \notin {SystemLogName, SelfTestScratch, SelfTestRenamed}
    BY <2>5, <2>6, RecoverSound DEF CandidateLists
  <2>8. ~fs_file_is_self_test_artifact(new[x])
    BY <2>7 DEF fs_file_is_self_test_artifact, fs_name_is_self_test_file
  <2>9. Artifacts(new) = Artifacts(files) \ {x}
    BY <2>5, <2>7, <2>8 DEF Artifacts
  <2> QED
    BY <2>4, <2>7, <2>9 DEF new
<1> QED
  BY <1>1, <1>2

\* Names are unique, so there are at most two artifacts and two rounds suffice.
LEMMA ArtifactsQuarantined ==
  ASSUME NEW files, WellFormed(files)
  PROVE  LET new == fs_quarantine_self_test_artifacts(files)
         IN  /\ WellFormed(new)
             /\ Fits(files) => Fits(new)
             /\ InUse(new) = InUse(files)
             /\ \A i \in FileIndex : new[i].data = files[i].data
             /\ Artifacts(new) = {}
<1> DEFINE one == RecoverFirstArtifact(files)
           two == RecoverFirstArtifact(one)
<1>1. /\ WellFormed(one)
      /\ Fits(files) => Fits(one)
      /\ InUse(one) = InUse(files)
      /\ \A i \in FileIndex : one[i].data = files[i].data
      /\ \/ Artifacts(files) = {} /\ one = files
         \/ \E x \in Artifacts(files) : Artifacts(one) = Artifacts(files) \ {x}
  BY FirstArtifactRecovered
<1> HIDE DEF one
<1>2. /\ WellFormed(two)
      /\ Fits(one) => Fits(two)
      /\ InUse(two) = InUse(one)
      /\ \A i \in FileIndex : two[i].data = one[i].data
      /\ \/ Artifacts(one) = {} /\ two = one
         \/ \E x \in Artifacts(one) : Artifacts(two) = Artifacts(one) \ {x}
  BY <1>1, FirstArtifactRecovered
<1> HIDE DEF two
<1>3. Artifacts(two) = {}
  <2> SUFFICES ASSUME NEW a \in Artifacts(two) PROVE FALSE
    OBVIOUS
  <2>1. \E x, y \in Artifacts(files) : x # y /\ a # x /\ a # y /\ a \in Artifacts(files)
    BY <1>1, <1>2
  <2>2. PICK x, y \in Artifacts(files) : x # y /\ a # x /\ a # y /\ a \in Artifacts(files)
    BY <2>1
  <2>3. \A i \in Artifacts(files) : /\ i \in InUse(files)
                                    /\ files[i].name \in {SelfTestScratch, SelfTestRenamed}
    BY DEF Artifacts, InUse, fs_file_is_self_test_artifact, fs_name_is_self_test_file
  <2>4. \A i, j \in InUse(files) : files[i].name = files[j].name => i = j
    BY DEF WellFormed, NamesAreUnique
  <2> QED
    BY <2>2, <2>3, <2>4
<1>4. fs_quarantine_self_test_artifacts(files) = two
  BY DEF fs_quarantine_self_test_artifacts, one, two
<1> QED
  BY <1>1, <1>2, <1>3, <1>4

LEMMA QuarantinedSound ==
  ASSUME NEW files, WellFormed(files)
  PROVE  LET new == Quarantined(files)
         IN  /\ WellFormed(new)
             /\ Fits(files) => Fits(new)
             /\ InUse(new) = InUse(files)
             /\ \A i \in FileIndex : new[i].data = files[i].data
             /\ NoLog(new) /\ NoArtifact(new)
<1> DEFINE mid == fs_quarantine_self_test_artifacts(files)
           x == fs_find_mutable(mid, SystemLogName)
           new == Recover(mid, x, RecoveredLogNames)
<1>1. /\ WellFormed(mid)
      /\ Fits(files) => Fits(mid)
      /\ InUse(mid) = InUse(files)
      /\ \A i \in FileIndex : mid[i].data = files[i].data
      /\ Artifacts(mid) = {}
  BY ArtifactsQuarantined
<1>2. new = Quarantined(files)
  BY DEF Quarantined, fs_quarantine_physical_system_log
<1> HIDE DEF mid
<1>3. mid \in FileArray
  BY <1>1, WellFormedType
<1>4. CASE x = 0
  <2>1. new = mid
    BY <1>4 DEF Recover
  <2>2. NoLog(mid)
    BY <1>3, <1>4, FindNone DEF NoLog, InUse
  <2>3. NoArtifact(mid)
    BY <1>1 DEF NoArtifact, Artifacts, InUse
  <2> HIDE DEF new
  <2> QED
    BY <1>1, <1>2, <2>1, <2>2, <2>3
<1>5. CASE x # 0
  <2>1. x \in FileIndex /\ mid[x].in_use /\ mid[x].name = SystemLogName
    BY <1>3, <1>5, FindType
  <2> HIDE DEF x
  <2>2. x \in InUse(mid)
    BY <2>1 DEF InUse
  <2>3. /\ WellFormed(new)
        /\ Fits(mid) => Fits(new)
        /\ InUse(new) = InUse(mid)
        /\ \A i \in FileIndex : new[i].data = mid[i].data
        /\ \A i \in FileIndex \ {x} : new[i] = mid[i]
        /\ new[x].name \notin {SystemLogName, SelfTestScratch, SelfTestRenamed}
    BY <1>1, <2>2, RecoverSound DEF CandidateLists
  <2> HIDE DEF new
  <2>4. NoLog(new)
    <3>1. ASSUME NEW i \in InUse(mid), mid[i].name = SystemLogName PROVE i = x
      BY <1>1, <2>1, <2>2, <3>1 DEF WellFormed, NamesAreUnique
    <3> QED
      BY <2>3, <3>1 DEF NoLog, InUse
  <2>5. NoArtifact(new)
    <3>1. ~fs_file_is_self_test_artifact(new[x])
      BY <2>3 DEF fs_file_is_self_test_artifact, fs_name_is_self_test_file
    <3> QED
      BY <1>1, <2>3, <3>1 DEF NoArtifact, Artifacts, InUse
  <2> QED
    BY <1>1, <1>2, <2>3, <2>4, <2>5
<1> QED
  BY <1>4, <1>5

----------------------------------------------------------------------------
(* Files that are created, stored and loaded *)

LEMMA EmptySound == Sound(EmptyFiles) /\ NoArtifact(EmptyFiles)
<1>1. \A i \in FileIndex : EmptyFiles[i] = ClearedFile /\ ~EmptyFiles[i].in_use
  BY DEF EmptyFiles, ClearedFile
<1>2. WellFormed(EmptyFiles)
  BY <1>1, EmptyFilesType, WellFormedIntro
<1>3. InUse(EmptyFiles) = {}
  BY <1>1 DEF InUse
<1>4. Fits(EmptyFiles)
  BY <1>2, <1>3, SmallFilesFit
<1> QED
  BY <1>2, <1>3, <1>4 DEF Sound, NoLog, NoArtifact

LEMMA FreshSound == Sound(FreshFiles) /\ NoArtifact(FreshFiles)
<1>1. FreshFiles \in FileArray
  BY FreshFilesType
<1>2. Len(Seeds) \in 1 .. FS_MAX_FILES /\ Seeds \in Seq(File)
  BY VolumeAssumption
<1>3. \A i \in FileIndex :
        \/ FreshFiles[i] = ClearedFile
        \/ i \in 1 .. Len(Seeds) /\ FreshFiles[i] = Seeds[i]
  BY <1>2 DEF FreshFiles, FileIndex
<1>4. \A i \in 1 .. Len(Seeds) :
        /\ Seeds[i].in_use /\ Seeds[i].name \in Names
        /\ Seeds[i].name \notin {SystemLogName, SelfTestScratch, SelfTestRenamed}
        /\ Len(Seeds[i].data) \in Nat
        /\ Len(Seeds[i].data) < FS_DISK_DATA_BYTES
  BY <1>2, VolumeAssumption DEF File
<1>5. \A i, j \in 1 .. Len(Seeds) : Seeds[i].name = Seeds[j].name => i = j
  BY VolumeAssumption
<1>6. ~ClearedFile.in_use
  BY DEF ClearedFile
<1>7. \A i \in FileIndex : FreshFiles[i].in_use =>
        /\ i \in 1 .. Len(Seeds) /\ FreshFiles[i] = Seeds[i]
        /\ FreshFiles[i].name \in Names
        /\ FreshFiles[i].name \notin {SystemLogName, SelfTestScratch, SelfTestRenamed}
        /\ Len(FreshFiles[i].data) <= FS_DISK_DATA_BYTES
        /\ Len(FreshFiles[i].data) < FS_MAX_FILE_SIZE
  BY <1>3, <1>4, <1>6, ExtentsAssumption
<1>8. \A i \in FileIndex : ~FreshFiles[i].in_use => FreshFiles[i] = ClearedFile
  BY <1>3, <1>4
<1>9. WellFormed(FreshFiles)
  BY <1>1, <1>5, <1>7, <1>8, WellFormedIntro
<1>10. Fits(FreshFiles)
  BY <1>7, <1>9, SmallFilesFit DEF InUse
<1>11. NoLog(FreshFiles) /\ NoArtifact(FreshFiles)
  BY <1>7 DEF NoLog, NoArtifact, InUse, fs_file_is_self_test_artifact,
     fs_name_is_self_test_file
<1> QED
  BY <1>9, <1>10, <1>11 DEF Sound

\* Storing a file over the one of its name, or in a free slot.
LEMMA StoreWellFormed ==
  ASSUME NEW files, WellFormed(files), NEW name \in Names, NEW data \in Seq(Bytes),
         Len(data) < FS_MAX_FILE_SIZE, PlaceFor(files, name) # 0
  PROVE  LET k == PlaceFor(files, name)
         IN  /\ k \in FileIndex
             /\ WellFormed(Store(files, name, data))
             /\ \A i \in FileIndex : Store(files, name, data)[i]
                                       = IF i = k THEN NewFile(name, data) ELSE files[i]
<1> DEFINE k == PlaceFor(files, name)
           file == NewFile(name, data)
<1>1. files \in FileArray
  BY WellFormedType
<1>2. k \in FileIndex /\ \A i \in FileIndex \ {k} : files[i].in_use => files[i].name # name
  <2>1. CASE fs_find_mutable(files, name) # 0
    <3>1. k \in FileIndex /\ files[k].in_use /\ files[k].name = name
      BY <1>1, <2>1, FindType DEF PlaceFor
    <3> QED
      BY <3>1 DEF WellFormed, NamesAreUnique, InUse
  <2>2. CASE fs_find_mutable(files, name) = 0
    <3>1. k \in FileIndex
      BY <1>1, <2>2, AllocateType DEF PlaceFor
    <3> QED
      BY <1>1, <2>2, <3>1, FindNone
  <2> QED
    BY <2>1, <2>2
<1>3. /\ file \in File /\ file.in_use /\ file.name = name /\ file.data = data
  BY DEF NewFile, File
<1>4. Store(files, name, data) = [files EXCEPT ![k] = file]
  BY DEF Store
<1> HIDE DEF k, file
<1>5. WellFormed([files EXCEPT ![k] = file])
  BY <1>2, <1>3, PutWellFormed
<1> QED
  BY <1>1, <1>2, <1>4, <1>5 DEF k, file, FileArray

\* A table with no head of the virtual log's name.
NoLogTable(t) == \A r \in Heads(t) : t[r].name # SystemLogName

LEMMA SerializeNoLog ==
  ASSUME NEW files, Sound(files)
  PROVE  NoLogTable(fs_serialize(files))
<1>1. WellFormed(files) /\ Fits(files) /\ NoLog(files)
  BY DEF Sound
<1> QED
  BY <1>1, HeadsAreOfFiles, HeadWritten DEF NoLogTable, NoLog

\* The disk of a volume that this kernel formatted: a slot with a valid header
\* is of the current version and its table has no file of the log's name.
CleanDisk ==
  \A s \in Slots : fs_header_is_valid(header[s]) =>
    header[s].version = FS_DISK_VERSION /\ NoLogTable(header[s].checksum)

LEMMA DecodedNoLog ==
  ASSUME NEW t \in Table, CurrentTableIsValid(t), NoLogTable(t)
  PROVE  NoLog(fs_deserialize_current(t))
BY DecodedInUse, FileOfHead DEF NoLog, NoLogTable

\* What a slot loads.
LEMMA SlotSound ==
  ASSUME TypeOK, NEW rd, NEW s \in Slots, fs_load_slot(rd, s) = "LOADED"
  PROVE  /\ WellFormed(FilesOfSlot(s)) /\ Fits(FilesOfSlot(s))
         /\ header[s].version < FS_DISK_VERSION =>
              \A i \in InUse(FilesOfSlot(s)) : Len(FilesOfSlot(s)[i].data) < FS_DISK_DATA_BYTES
         /\ CleanDisk => NoLog(FilesOfSlot(s))
<1>1. table[s] \in Table /\ header[s] \in Header /\ header[s].version \in 0 .. 5
  BY DEF TypeOK, Header
<1>2. header[s].checksum = table[s] /\ fs_header_is_valid(header[s])
  BY DEF fs_load_slot, HeaderAccepted
<1>3. CASE header[s].version >= FS_DISK_VERSION
  <2>1. CurrentTableIsValid(table[s])
    BY <1>3 DEF fs_load_slot
  <2>2. FilesOfSlot(s) = fs_deserialize_current(table[s])
    BY <1>3 DEF FilesOfSlot
  <2>3. CleanDisk => NoLogTable(table[s])
    BY <1>2 DEF CleanDisk
  <2> QED
    BY <1>1, <1>3, <2>1, <2>2, <2>3, DecodedWellFormed, DecodedFits, DecodedNoLog
<1>4. CASE ~(header[s].version >= FS_DISK_VERSION)
  <2>1. LegacyTableIsValid(table[s])
    BY <1>4 DEF fs_load_slot
  <2>2. FilesOfSlot(s) = fs_deserialize_legacy(table[s])
    BY <1>4 DEF FilesOfSlot
  <2>3. ~CleanDisk
    BY <1>2, <1>4 DEF CleanDisk
  <2> QED
    BY <1>1, <2>1, <2>2, <2>3, LegacyWellFormed
<1> QED
  BY <1>3, <1>4

LEMMA LoadSound ==
  ASSUME TypeOK, Sound(FILES), NEW init, NEW rd
  PROVE  LET load == fs_load_from_disk(init, rd)
         IN  /\ WellFormed(load.files) /\ Fits(load.files)
             /\ IsLoaded(load.result) /\ load.version < FS_DISK_VERSION =>
                  \A i \in InUse(load.files) : Len(load.files[i].data) < FS_DISK_DATA_BYTES
             /\ CleanDisk => NoLog(load.files)
<1> DEFINE slot == LoadedSlot(FirstSlot(rd), [t \in Slots |-> fs_load_slot(rd, t)])
           loaded == init = "READY" /\ slot # FS_SLOT_COUNT
           load == fs_load_from_disk(init, rd)
<1>1. slot = FS_SLOT_COUNT \/ (slot \in Slots /\ fs_load_slot(rd, slot) = "LOADED")
  BY LoadedSlotType
<1>2. /\ load.files = IF loaded THEN FilesOfSlot(slot) ELSE FILES
      /\ loaded => load.version = header[slot].version
      /\ ~loaded => ~IsLoaded(load.result)
  BY DEF fs_load_from_disk, IsLoaded
<1> HIDE DEF slot, load
<1>3. CASE loaded
  BY <1>1, <1>2, <1>3, SlotSound DEF load
<1>4. CASE ~loaded
  BY <1>2, <1>4 DEF load, Sound
<1> QED
  BY <1>3, <1>4

\* The files of a mounted volume, with the bitmap when it is added.
LEMMA MountedSound ==
  ASSUME NEW load, WellFormed(load.files), Fits(load.files), load.version \in 0 .. 5,
         load.result = "LOADED" /\ load.version < FS_DISK_VERSION =>
           \A i \in InUse(load.files) : Len(load.files[i].data) < FS_DISK_DATA_BYTES
  PROVE  /\ Sound(Quarantined(load.files)) /\ NoArtifact(Quarantined(load.files))
         /\ Sound(FilesWithBmp(load)) /\ NoArtifact(FilesWithBmp(load))
<1> DEFINE files == Quarantined(load.files)
<1>1. /\ WellFormed(files) /\ Fits(files)
      /\ InUse(files) = InUse(load.files)
      /\ \A i \in FileIndex : files[i].data = load.files[i].data
      /\ NoLog(files) /\ NoArtifact(files)
  BY QuarantinedSound
<1>2. Sound(files)
  BY <1>1 DEF Sound
<1>3. CASE ~AddsBmp(load)
  <2>1. FilesWithBmp(load) = files
    BY <1>3 DEF FilesWithBmp
  <2> QED
    BY <1>1, <1>2, <2>1
<1>4. CASE AddsBmp(load)
  <2> DEFINE k == fs_allocate_slot(files)
             new == [files EXCEPT ![k] = DefaultBmp]
  <2>1. /\ load.result = "LOADED" /\ load.version < 5
        /\ fs_find_mutable(files, DefaultBmp.name) = 0 /\ k # 0
    BY <1>4 DEF AddsBmp
  <2>2. FilesWithBmp(load) = new
    BY <1>4 DEF FilesWithBmp
  <2> HIDE DEF files
  <2>3. files \in FileArray
    BY <1>1, WellFormedType
  <2>4. k \in FileIndex /\ ~files[k].in_use
    BY <2>1, <2>3, AllocateType
  <2> HIDE DEF k
  <2>5. /\ DefaultBmp \in File /\ DefaultBmp.in_use /\ DefaultBmp.name \in Names
        /\ DefaultBmp.name \notin {SystemLogName, SelfTestScratch, SelfTestRenamed}
        /\ Len(DefaultBmp.data) \in Nat
        /\ Len(DefaultBmp.data) < FS_DISK_DATA_BYTES
    <3>1. Seeds \in Seq(File) /\ Len(Seeds) \in 1 .. Len(Seeds)
      BY VolumeAssumption, ExtentsAssumption
    <3> DEFINE n == Len(Seeds)
    <3>2. /\ Seeds[n] \in File /\ Seeds[n].in_use
          /\ Seeds[n].name \in Names \ {SystemLogName, SelfTestScratch, SelfTestRenamed}
          /\ Len(Seeds[n].data) < FS_DISK_DATA_BYTES
      BY <3>1, VolumeAssumption
    <3>3. Len(Seeds[n].data) \in Nat
      BY <3>2 DEF File
    <3> QED
      BY <3>2, <3>3 DEF DefaultBmp
  <2>6. Len(DefaultBmp.data) < FS_MAX_FILE_SIZE /\ Len(DefaultBmp.data) <= FS_DISK_DATA_BYTES
    BY <2>5, ExtentsAssumption
  <2>7. \A i \in FileIndex \ {k} : files[i].in_use => files[i].name # DefaultBmp.name
    BY <2>1, <2>3, FindNone
  <2>8. WellFormed(new)
    BY <1>1, <2>4, <2>5, <2>6, <2>7, PutWellFormed
  <2>9. \A i \in FileIndex : new[i] = IF i = k THEN DefaultBmp ELSE files[i]
    BY <2>3, <2>4 DEF FileArray
  <2> HIDE DEF new
  <2>10. \A i \in InUse(new) : i = k \/ (i \in InUse(files) /\ new[i] = files[i])
    BY <2>9 DEF InUse
  <2>11. \A i \in InUse(files) : Len(files[i].data) <= FS_DISK_DATA_BYTES
    <3>1. \A i \in InUse(files) : /\ Len(files[i].data) \in Nat
                                  /\ Len(files[i].data) < FS_DISK_DATA_BYTES
      BY <1>1, <2>1, PartsType DEF InUse
    <3> QED
      BY <3>1, ExtentsAssumption
  <2>12. \A i \in InUse(new) : Len(new[i].data) <= FS_DISK_DATA_BYTES
    BY <2>4, <2>6, <2>9, <2>10, <2>11
  <2>13. Fits(new)
    BY <2>8, <2>12, SmallFilesFit
  <2>14. NoLog(new) /\ NoArtifact(new)
    BY <1>1, <2>4, <2>5, <2>9, <2>10
       DEF NoLog, NoArtifact, fs_file_is_self_test_artifact, fs_name_is_self_test_file
  <2> QED
    BY <1>1, <1>2, <2>2, <2>8, <2>13, <2>14 DEF Sound, files
<1> QED
  BY <1>3, <1>4

----------------------------------------------------------------------------
(* The invariant *)

\* The strengthening of FilesAreSound: the undo copy is sound too, and a self
\* test, the only caller that may hold an artifact, only ever reloads a disk
\* that has no file of the log's name.
SoundInv ==
  /\ Sound(FILES) /\ Sound(call.undo)
  /\ call.who \notin SelfTestStages =>
       NoArtifact(FILES) /\ NoArtifact(call.undo) /\ ~g_self_test_active
  /\ call.who \in SelfTestStages \cup {"format"} => CleanDisk
  /\ call.pc \in {"off", "idle"} => call.who = "none"

LEMMA CleanFrame == ASSUME UNCHANGED header PROVE CleanDisk => CleanDisk'
BY DEF CleanDisk, fs_header_is_valid

\* Clearing the artifacts leaves none.
LEMMA ClearArtifactsSound ==
  ASSUME NEW files, Sound(files)
  PROVE  LET new == fs_clear_self_test_artifacts(files)
         IN  Sound(new) /\ NoArtifact(new)
<1> DEFINE new == fs_clear_self_test_artifacts(files)
<1>1. WellFormed(files) /\ files \in FileArray /\ Fits(files) /\ NoLog(files)
  BY WellFormedType DEF Sound
<1>2. new \in FileArray
  BY <1>1, ClearArtifactsType
<1>3. \A i \in FileIndex : new[i] = IF fs_file_is_self_test_artifact(files[i])
                                    THEN ClearedFile ELSE files[i]
  BY DEF fs_clear_self_test_artifacts
<1>4. ~ClearedFile.in_use
  BY DEF ClearedFile
<1> HIDE DEF new
<1>5. Sound(new)
  BY <1>1, <1>2, <1>3, ClearedSound DEF Sound
<1>6. NoArtifact(new)
  BY <1>3, <1>4 DEF NoArtifact, InUse
<1> QED
  BY <1>5, <1>6 DEF new

LEMMA SoundIdle ==
  ASSUME Sound(FILES'), NoArtifact(FILES'), call' = Returned("idle") \/ call' = Returned("off"),
         ~g_self_test_active'
  PROVE  SoundInv'
<1>1. call'.who = "none" /\ call'.undo = EmptyFiles
  BY DEF Returned
<1> QED
  BY <1>1, EmptySound DEF SoundInv, SelfTestStages

LEMMA SoundSelfTestFails ==
  ASSUME NEW files, Sound(files), NEW backend, SelfTestFails(files, backend)
  PROVE  SoundInv'
<1>1. Sound(FILES') /\ NoArtifact(FILES')
  BY ClearArtifactsSound DEF SelfTestFails
<1> QED
  BY <1>1, SoundIdle DEF SelfTestFails

LEMMA SoundInit == Init => SoundInv
<1> SUFFICES ASSUME Init PROVE SoundInv
  OBVIOUS
<1>1. FILES = EmptyFiles /\ call = Returned("off") /\ ~g_self_test_active
  BY DEF Init, PoweredOff
<1> QED
  BY <1>1, EmptySound DEF SoundInv, Returned, SelfTestStages

LEMMA SoundCrash == Crash => SoundInv'
<1> SUFFICES ASSUME Crash PROVE SoundInv'
  OBVIOUS
<1>1. FILES' = EmptyFiles /\ call' = Returned("off") /\ ~g_self_test_active'
  BY DEF Crash
<1> QED
  BY <1>1, EmptySound, SoundIdle

\* A disk that is taken for blank is blank.
LEMMA BlankDisk ==
  ASSUME TypeOK, NEW init, NEW rd, fs_load_from_disk(init, rd).result = "BLANK"
  PROVE  \A s \in Slots : header[s].kind = "blank" /\ table[s] = BlankTable
<1> DEFINE first == FirstSlot(rd)
           result == [t \in Slots |-> fs_load_slot(rd, t)]
           slot == LoadedSlot(first, result)
           attempts == {result[first]} \cup (IF slot = first THEN {} ELSE {result[1 - first]})
<1>1. first \in Slots
  BY FirstSlotType
<1>2. /\ init = "READY" /\ slot = FS_SLOT_COUNT
      /\ rd.hdr = {} /\ "IO_ERROR" \notin attempts /\ "CORRUPT" \notin attempts
      /\ ~NonblankInvalidHeader(rd)
      /\ \A s \in Slots : table[s] = BlankTable
  BY DEF fs_load_from_disk
<1> HIDE DEF first
<1>3. \A s \in Slots : fs_load_slot(rd, s) \notin {"IO_ERROR", "CORRUPT", "LOADED"}
  BY <1>1, <1>2 DEF LoadedSlot
<1>4. \A s \in Slots : ~fs_header_is_valid(header[s])
  BY <1>2, <1>3 DEF fs_load_slot, HeaderAccepted
<1>5. \A s \in Slots : header[s].kind # "invalid"
  BY <1>2 DEF NonblankInvalidHeader
<1>6. \A s \in Slots : header[s].kind \in {"blank", "valid", "invalid"}
  BY DEF TypeOK, Header
<1> QED
  BY <1>2, <1>4, <1>5, <1>6 DEF fs_header_is_valid

LEMMA SoundMount ==
  ASSUME TypeInv, SlotInv, SoundInv, NEW init, NEW rd, fs_init(init, rd)
  PROVE  SoundInv'
<1> DEFINE load == fs_load_from_disk(init, rd)
           old == Quarantined(load.files)
           new == FilesWithBmp(load)
<1>1. /\ call.pc = "off" /\ TakesMountOf(load) /\ UNCHANGED <<header, g_self_test_active>>
      /\ MountsVolume(load) \/ MountsFreshFiles(load)
  BY DEF fs_init, disk
<1>2. /\ WellFormed(load.files) /\ Fits(load.files)
      /\ IsLoaded(load.result) /\ load.version < FS_DISK_VERSION =>
           \A i \in InUse(load.files) : Len(load.files[i].data) < FS_DISK_DATA_BYTES
  BY LoadSound DEF TypeInv, SoundInv
<1>3. load.version \in 0 .. 5
  BY LoadType DEF TypeInv
<1>4. load.result = "BLANK" => CleanDisk'
  <2>1. load.result = "BLANK" => CleanDisk
    BY BlankDisk DEF CleanDisk, TypeInv, fs_header_is_valid
  <2> QED
    BY <1>1, <2>1, CleanFrame
<1> HIDE DEF load
<1>5. Sound(old) /\ NoArtifact(old) /\ Sound(new) /\ NoArtifact(new)
  BY <1>2, <1>3, MountedSound DEF IsLoaded
<1>6. Sound(FreshFiles) /\ NoArtifact(FreshFiles)
  BY FreshSound
<1>7. ~g_self_test_active'
  BY <1>1 DEF SoundInv, SelfTestStages
<1>8. FILES' \in {old, new, FreshFiles}
  BY <1>1 DEF MountsVolume, MountsFreshFiles
<1>9. \/ call' = Returned("idle")
      \/ call' = Syncing("table", "metadata", old)
      \/ call' = Syncing("table", "format", FreshFiles) /\ load.result = "BLANK"
  BY <1>1 DEF MountsVolume, MountsFreshFiles
<1> HIDE DEF old, new
<1>10. Sound(FILES') /\ NoArtifact(FILES')
  BY <1>5, <1>6, <1>8
<1>11. CASE call' = Returned("idle")
  BY <1>7, <1>10, <1>11, SoundIdle
<1>12. CASE call' = Syncing("table", "metadata", old)
  <2>1. call'.pc = "table" /\ call'.who = "metadata" /\ call'.undo = old
    BY <1>12 DEF Syncing
  <2> QED
    BY <1>5, <1>7, <1>10, <2>1 DEF SoundInv, SelfTestStages
<1>13. CASE call' = Syncing("table", "format", FreshFiles) /\ load.result = "BLANK"
  <2>1. call'.pc = "table" /\ call'.who = "format" /\ call'.undo = FreshFiles
    BY <1>13 DEF Syncing
  <2> QED
    BY <1>4, <1>6, <1>7, <1>10, <1>13, <2>1 DEF SoundInv, SelfTestStages
<1> QED
  BY <1>9, <1>11, <1>12, <1>13

\* A mutation hands files that fs_commit_changes may keep or drop.
LEMMA SoundCommitChanges ==
  ASSUME SoundInv, call.pc = "idle", NEW files, WellFormed(files), NoLog(files),
         NoArtifact(files), fs_commit_changes(files)
  PROVE  SoundInv'
<1>1. /\ Fits(files) /\ UNCHANGED g_self_test_active
      /\ \/ FILES' = files /\ UNCHANGED call
         \/ UNCHANGED <<FILES, call>>
         \/ FILES' = files /\ call' = Syncing("table", "op", FILES)
  BY DEF fs_commit_changes
<1>2. Sound(files)
  BY <1>1 DEF Sound
<1>3. call.who = "none" /\ call.who \notin SelfTestStages \cup {"format"}
  BY DEF SoundInv, SelfTestStages
<1>4. CASE FILES' = files /\ UNCHANGED call
  BY <1>1, <1>2, <1>3, <1>4 DEF SoundInv
<1>5. CASE UNCHANGED <<FILES, call>>
  BY <1>1, <1>3, <1>5 DEF SoundInv
<1>6. CASE FILES' = files /\ call' = Syncing("table", "op", FILES)
  <2>1. call'.pc = "table" /\ call'.who = "op" /\ call'.undo = FILES
    BY <1>6 DEF Syncing
  <2> QED
    BY <1>1, <1>2, <1>3, <1>6, <2>1 DEF SoundInv, SelfTestStages
<1> QED
  BY <1>1, <1>4, <1>5, <1>6

\* A file that a mutation may create.
LEMMA StoreVisible ==
  ASSUME NEW files, WellFormed(files), NoLog(files), NoArtifact(files),
         NEW name \in Names, NEW data \in Seq(Bytes), Len(data) < FS_MAX_FILE_SIZE,
         PlaceFor(files, name) # 0,
         name \notin {SystemLogName, SelfTestScratch, SelfTestRenamed}
  PROVE  LET new == Store(files, name, data)
         IN  WellFormed(new) /\ NoLog(new) /\ NoArtifact(new)
<1> DEFINE new == Store(files, name, data)
           k == PlaceFor(files, name)
           file == NewFile(name, data)
<1>1. /\ WellFormed(new)
      /\ \A i \in FileIndex : new[i] = IF i = k THEN file ELSE files[i]
  BY StoreWellFormed
<1>2. file.name = name
  BY DEF NewFile
<1> HIDE DEF new, k, file
<1>3. \A i \in InUse(new) : new[i] = file \/ (i \in InUse(files) /\ new[i] = files[i])
  BY <1>1 DEF InUse
<1>4. NoLog(new) /\ NoArtifact(new)
  BY <1>2, <1>3 DEF NoLog, NoArtifact, fs_file_is_self_test_artifact, fs_name_is_self_test_file
<1> QED
  BY <1>1, <1>4 DEF new

LEMMA RenameVisible ==
  ASSUME NEW files, WellFormed(files), NoLog(files), NoArtifact(files),
         NEW k, k # 0, k \in FileIndex, files[k].in_use, NEW name \in Names,
         fs_find_mutable(files, name) = 0,
         name \notin {SystemLogName, SelfTestScratch, SelfTestRenamed}
  PROVE  LET new == [files EXCEPT ![k].name = name]
         IN  WellFormed(new) /\ NoLog(new) /\ NoArtifact(new)
<1> DEFINE new == [files EXCEPT ![k].name = name]
<1>1. k \in InUse(files)
  BY DEF InUse
<1>2. \A i \in FileIndex : files[i].in_use => files[i].name # name
  BY WellFormedType, FindNone
<1>3. /\ WellFormed(new) /\ InUse(new) = InUse(files)
      /\ \A i \in FileIndex \ {k} : new[i] = files[i]
      /\ new[k].name = name
  BY <1>1, <1>2, RenamedSound
<1> HIDE DEF new
<1>4. NoLog(new) /\ NoArtifact(new)
  BY <1>3 DEF NoLog, NoArtifact, InUse, fs_file_is_self_test_artifact,
     fs_name_is_self_test_file
<1> QED
  BY <1>3, <1>4 DEF new

LEMMA SoundMutate == TypeInv /\ SoundInv /\ Mutate => SoundInv'
<1> SUFFICES ASSUME TypeInv, SoundInv, Mutate PROVE SoundInv'
  OBVIOUS
<1>1. call.pc = "idle"
  BY DEF Mutate
<1>2. /\ WellFormed(FILES) /\ NoLog(FILES) /\ NoArtifact(FILES) /\ ~g_self_test_active
      /\ FILES \in FileArray
  BY <1>1, WellFormedType DEF SoundInv, Sound, SelfTestStages
<1>3. \A name : Writable(name) =>
        name \in Names /\ name \notin {SystemLogName, SelfTestScratch, SelfTestRenamed}
  BY <1>2 DEF Writable, fs_is_valid_name, fs_name_is_self_test_file
<1>4. ASSUME NEW name, fs_touch(name) PROVE SoundInv'
  <2>1. /\ Writable(name) /\ fs_find_mutable(FILES, name) = 0 /\ fs_allocate_slot(FILES) # 0
        /\ fs_commit_changes(Store(FILES, name, << >>))
    BY <1>4 DEF fs_touch
  <2>2. PlaceFor(FILES, name) # 0
    BY <2>1 DEF PlaceFor
  <2>3. << >> \in Seq(Bytes) /\ Len(<< >>) < FS_MAX_FILE_SIZE
    BY ExtentsAssumption
  <2> DEFINE new == Store(FILES, name, << >>)
  <2>4. WellFormed(new) /\ NoLog(new) /\ NoArtifact(new)
    BY <1>2, <1>3, <2>1, <2>2, <2>3, StoreVisible
  <2> HIDE DEF new
  <2> QED
    BY <1>1, <2>1, <2>4, SoundCommitChanges DEF new
<1>5. ASSUME NEW name, fs_remove_internal(name) PROVE SoundInv'
  <2> DEFINE k == fs_find_mutable(FILES, name)
             new == [FILES EXCEPT ![k] = ClearedFile]
  <2>1. fs_commit_changes(new)
    BY <1>5 DEF fs_remove_internal
  <2> HIDE DEF k
  <2>2. /\ new \in FileArray
        /\ \A i \in FileIndex : new[i] = FILES[i] \/ new[i] = ClearedFile
    BY <1>2, ReplaceType, ClearedFileType DEF FileArray
  <2> HIDE DEF new
  <2>3. WellFormed(new) /\ NoLog(new) /\ NoArtifact(new)
    BY <1>2, <2>2, ClearedSound
  <2> QED
    BY <1>1, <2>1, <2>3, SoundCommitChanges
<1>6. ASSUME NEW name, NEW contents \in Payloads, fs_write_bytes_internal(name, contents)
      PROVE  SoundInv'
  <2> DEFINE new == Store(FILES, name, contents)
  <2>1. /\ Writable(name) /\ PlaceFor(FILES, name) # 0 /\ Len(contents) < FS_MAX_FILE_SIZE
        /\ fs_commit_changes(new)
    BY <1>6 DEF fs_write_bytes_internal
  <2>2. contents \in Seq(Bytes)
    BY VolumeAssumption
  <2>3. WellFormed(new) /\ NoLog(new) /\ NoArtifact(new)
    BY <1>2, <1>3, <2>1, <2>2, StoreVisible
  <2> HIDE DEF new
  <2> QED
    BY <1>1, <2>1, <2>3, SoundCommitChanges
<1>7. ASSUME NEW name, NEW contents \in Payloads, fs_append(name, contents) PROVE SoundInv'
  <2> DEFINE data == DataOf(FILES, name) \o contents
             new == Store(FILES, name, data)
  <2>1. /\ Writable(name) /\ PlaceFor(FILES, name) # 0
        /\ Len(contents) <= FS_MAX_FILE_SIZE - 1 - Len(DataOf(FILES, name))
        /\ fs_commit_changes(new)
    BY <1>7 DEF fs_append
  <2>2. contents \in Seq(Bytes) /\ DataOf(FILES, name) \in Seq(Bytes)
    BY <1>2, DataOfType, VolumeAssumption
  <2>3. data \in Seq(Bytes) /\ Len(data) < FS_MAX_FILE_SIZE
    <3>1. /\ data \in Seq(Bytes) /\ Len(data) = Len(DataOf(FILES, name)) + Len(contents)
          /\ Len(contents) \in Nat /\ Len(DataOf(FILES, name)) \in Nat
      BY <2>2
    <3> QED
      BY <2>1, <3>1, ExtentsAssumption
  <2> HIDE DEF data
  <2>4. WellFormed(new) /\ NoLog(new) /\ NoArtifact(new)
    BY <1>2, <1>3, <2>1, <2>3, StoreVisible
  <2> HIDE DEF new
  <2> QED
    BY <1>1, <2>1, <2>4, SoundCommitChanges
<1>8. ASSUME NEW old_name, NEW new_name, fs_rename_internal(old_name, new_name)
      PROVE  SoundInv'
  <2> DEFINE k == fs_find_mutable(FILES, old_name)
             new == [FILES EXCEPT ![k].name = new_name]
  <2>1. /\ Writable(new_name) /\ k # 0 /\ fs_find_mutable(FILES, new_name) = 0
        /\ fs_commit_changes(new)
    BY <1>8 DEF fs_rename_internal
  <2>2. k \in FileIndex /\ FILES[k].in_use
    BY <1>2, <2>1, FindType
  <2> HIDE DEF k
  <2>3. WellFormed(new) /\ NoLog(new) /\ NoArtifact(new)
    BY <1>2, <1>3, <2>1, <2>2, RenameVisible
  <2> HIDE DEF new
  <2> QED
    BY <1>1, <2>1, <2>3, SoundCommitChanges
<1> QED
  BY <1>4, <1>5, <1>6, <1>7, <1>8
     DEF Mutate, fs_remove, fs_system_remove, fs_write_bytes, fs_system_write_bytes,
         fs_rename, fs_system_rename

LEMMA SoundUpgrade == SoundInv /\ fs_upgrade_legacy_snapshot => SoundInv'
<1> SUFFICES ASSUME SoundInv, fs_upgrade_legacy_snapshot PROVE SoundInv'
  OBVIOUS
<1>1. /\ call.pc = "idle" /\ call' = Syncing("table", "upgrade", FILES)
      /\ UNCHANGED <<FILES, g_self_test_active>>
  BY DEF fs_upgrade_legacy_snapshot
<1>2. call.who \notin SelfTestStages
  BY <1>1 DEF SoundInv, SelfTestStages
<1>3. call'.pc = "table" /\ call'.who = "upgrade" /\ call'.undo = FILES
  BY <1>1 DEF Syncing
<1> QED
  BY <1>1, <1>2, <1>3 DEF SoundInv, SelfTestStages

LEMMA StageSound ==
  ASSUME Sound(FILES), NEW stage \in SelfTestStages, StageIsPossible(stage)
  PROVE  Sound(StageFiles(stage))
<1>1. WellFormed(FILES) /\ FILES \in FileArray /\ NoLog(FILES) /\ Fits(StageFiles(stage))
  BY WellFormedType DEF Sound, StageIsPossible
<1>2. CASE stage = "selftest_write"
  <2> DEFINE k == PlaceFor(FILES, SelfTestScratch)
             file == NewFile(SelfTestScratch, SelfTestPayload)
             new == Store(FILES, SelfTestScratch, SelfTestPayload)
  <2>1. StageFiles(stage) = new
    BY <1>2 DEF StageFiles
  <2>2. /\ WellFormed(new)
        /\ \A i \in FileIndex : new[i] = IF i = k THEN file ELSE FILES[i]
    BY <1>1, <1>2, StoreWellFormed, VolumeAssumption DEF StageIsPossible
  <2>3. file.name # SystemLogName
    BY VolumeAssumption DEF NewFile
  <2> HIDE DEF k, file, new
  <2>4. NoLog(new)
    BY <1>1, <2>2, <2>3 DEF NoLog, InUse
  <2> QED
    BY <1>1, <2>1, <2>2, <2>4 DEF Sound
<1>3. CASE stage = "selftest_rename"
  <2> DEFINE k == fs_find_mutable(FILES, SelfTestScratch)
             new == [FILES EXCEPT ![k].name = SelfTestRenamed]
  <2>1. StageFiles(stage) = new
    BY <1>3 DEF StageFiles
  <2>2. k = 0 \/ (k \in FileIndex /\ FILES[k].in_use)
    BY <1>1, FindType
  <2>3. \A i \in FileIndex : FILES[i].in_use => FILES[i].name # SelfTestRenamed
    BY <1>1, <1>3, FindNone DEF StageIsPossible
  <2> HIDE DEF k
  <2>4. CASE k = 0
    <3>1. new = FILES
      BY <1>1, <2>4 DEF FileArray, FileIndex
    <3> QED
      BY <1>1, <2>1, <3>1 DEF Sound
  <2>5. CASE k \in FileIndex /\ FILES[k].in_use
    <3>1. k \in InUse(FILES)
      BY <2>5 DEF InUse
    <3>2. /\ WellFormed(new) /\ InUse(new) = InUse(FILES)
          /\ \A i \in FileIndex \ {k} : new[i] = FILES[i]
          /\ new[k].name = SelfTestRenamed
      BY <1>1, <2>3, <3>1, RenamedSound, VolumeAssumption
    <3> HIDE DEF new
    <3>3. NoLog(new)
      BY <1>1, <3>2, VolumeAssumption DEF NoLog, InUse
    <3> QED
      BY <1>1, <2>1, <3>2, <3>3 DEF Sound
  <2> QED
    BY <2>2, <2>4, <2>5
<1>4. CASE stage = "selftest_remove"
  <2> DEFINE k == fs_find_mutable(FILES, SelfTestRenamed)
             new == [FILES EXCEPT ![k] = ClearedFile]
  <2>1. StageFiles(stage) = new
    BY <1>4 DEF StageFiles
  <2> HIDE DEF k
  <2>2. /\ new \in FileArray
        /\ \A i \in FileIndex : new[i] = FILES[i] \/ new[i] = ClearedFile
    BY <1>1, ReplaceType, ClearedFileType DEF FileArray
  <2> HIDE DEF new
  <2>3. WellFormed(new) /\ NoLog(new)
    BY <1>1, <2>2, ClearedSound
  <2> QED
    BY <1>1, <2>1, <2>3 DEF Sound
<1> QED
  BY <1>2, <1>3, <1>4 DEF SelfTestStages

LEMMA SoundSelfTest == TypeInv /\ SoundInv /\ SelfTestMutates => SoundInv'
<1> SUFFICES ASSUME TypeInv, SoundInv, SelfTestMutates PROVE SoundInv'
  OBVIOUS
<1>1. /\ call.who \in SelfTestStages /\ UNCHANGED header
  BY DEF SelfTestMutates, TypeInv, CallShape, disk
<1>2. CASE SelfTestFails(FILES, "VOLATILE_IO_ERROR")
  BY <1>2, SoundSelfTestFails DEF SoundInv
<1>3. CASE /\ StageIsPossible(call.who) /\ FILES' = StageFiles(call.who)
           /\ call' = Syncing("table", call.who, FILES)
  <2>1. Sound(FILES')
    BY <1>1, <1>3, StageSound DEF SoundInv
  <2>2. call'.pc = "table" /\ call'.who = call.who /\ call'.undo = FILES
    BY <1>3 DEF Syncing
  <2>3. CleanDisk'
    BY <1>1, CleanFrame DEF SoundInv
  <2> QED
    BY <1>1, <2>1, <2>2, <2>3 DEF SoundInv
<1> QED
  BY <1>2, <1>3 DEF SelfTestMutates

LEMMA SoundReload ==
  ASSUME TypeInv, SoundInv, NEW init, NEW rd, fs_self_test_reload(init, rd)
  PROVE  SoundInv'
<1> DEFINE load == fs_load_from_disk(init, rd)
<1>1. /\ call.who \in SelfTestStages /\ UNCHANGED header
  BY DEF fs_self_test_reload, TypeInv, CallShape, disk
<1>2. WellFormed(load.files) /\ Fits(load.files) /\ NoLog(load.files)
  BY <1>1, LoadSound DEF TypeInv, SoundInv
<1>3. \/ SelfTestFails(load.files, DegradedBackend(load.result))
      \/ SelfTestFails(load.files, "VOLATILE_IO_ERROR")
      \/ /\ FILES' = load.files
         /\ StageSucceeded(call.who, load.files)
         /\ IF call.who = "selftest_remove"
            THEN call' = Returned("idle") /\ g_self_test_active' = FALSE
            ELSE /\ call' = Syncing("selftest", NextStage[call.who], EmptyFiles)
                 /\ UNCHANGED g_self_test_active
  BY DEF fs_self_test_reload
<1> HIDE DEF load
<1>4. Sound(load.files)
  BY <1>2 DEF Sound
<1>5. CASE \/ SelfTestFails(load.files, DegradedBackend(load.result))
           \/ SelfTestFails(load.files, "VOLATILE_IO_ERROR")
  BY <1>4, <1>5, SoundSelfTestFails
<1>6. CASE /\ FILES' = load.files /\ StageSucceeded(call.who, load.files)
           /\ call.who = "selftest_remove"
           /\ call' = Returned("idle") /\ g_self_test_active' = FALSE
  <2> DEFINE files == load.files
  <2>1. fs_find_mutable(files, SelfTestScratch) = 0 /\ fs_find_mutable(files, SelfTestRenamed) = 0
    BY <1>6 DEF StageSucceeded
  <2>2. files \in FileArray
    BY <1>2, WellFormedType
  <2> HIDE DEF files
  <2>3. NoArtifact(files)
    BY <2>1, <2>2, FindNone
       DEF NoArtifact, InUse, fs_file_is_self_test_artifact, fs_name_is_self_test_file
  <2>4. Sound(FILES') /\ NoArtifact(FILES')
    BY <1>4, <1>6, <2>3 DEF files
  <2> QED
    BY <1>6, <2>4, SoundIdle
<1>7. CASE /\ FILES' = load.files /\ call.who # "selftest_remove"
           /\ call' = Syncing("selftest", NextStage[call.who], EmptyFiles)
  <2>1. NextStage[call.who] \in SelfTestStages
    BY <1>1, <1>7 DEF SelfTestStages, NextStage
  <2>2. /\ call'.pc = "selftest" /\ call'.who \in SelfTestStages /\ call'.undo = EmptyFiles
    BY <1>7, <2>1 DEF Syncing
  <2>3. CleanDisk'
    BY <1>1, CleanFrame DEF SoundInv
  <2> QED
    BY <1>4, <1>7, <2>2, <2>3, EmptySound DEF SoundInv
<1> QED
  BY <1>3, <1>5, <1>6, <1>7

\* The return of a commit, given what it leaves of the headers.
LEMMA SoundSync ==
  ASSUME TypeInv, SoundInv, NEW result, SyncReturns(result),
         call.pc \in {"table", "header"},
         CleanDisk => CleanDisk'
  PROVE  SoundInv'
<1>1. CASE ReturnToMutation(result)
  <2>1. /\ call.who \notin SelfTestStages
        /\ FILES' = FILES \/ FILES' = call.undo
        /\ call' = Returned("idle") /\ UNCHANGED g_self_test_active
    BY <1>1 DEF ReturnToMutation, SelfTestStages
  <2>2. Sound(FILES') /\ NoArtifact(FILES') /\ ~g_self_test_active'
    BY <2>1 DEF SoundInv
  <2> QED
    BY <2>1, <2>2, SoundIdle
<1>2. CASE ReturnToFormat(result)
  <2>1. call.who = "format" /\ call.who \notin SelfTestStages /\ CleanDisk
    BY <1>2 DEF ReturnToFormat, SelfTestStages, SoundInv
  <2>2. CASE result = "COMMITTED"
    <3>1. /\ FILES' = fs_clear_self_test_artifacts(FILES)
          /\ call' = Syncing("selftest", "selftest_write", EmptyFiles)
      BY <1>2, <2>2 DEF ReturnToFormat
    <3>2. Sound(FILES')
      BY <3>1, ClearArtifactsSound DEF SoundInv
    <3>3. call'.pc = "selftest" /\ call'.who \in SelfTestStages /\ call'.undo = EmptyFiles
      BY <3>1 DEF Syncing, SelfTestStages
    <3> QED
      BY <2>1, <3>2, <3>3, EmptySound DEF SoundInv
  <2>3. CASE result # "COMMITTED"
    <3>1. call' = Returned("idle") /\ UNCHANGED <<FILES, g_self_test_active>>
      BY <1>2, <2>3 DEF ReturnToFormat
    <3>2. Sound(FILES') /\ NoArtifact(FILES') /\ ~g_self_test_active'
      BY <2>1, <3>1 DEF SoundInv
    <3> QED
      BY <3>1, <3>2, SoundIdle
  <2> QED
    BY <2>2, <2>3
<1>3. CASE ReturnToUpgrade(result)
  <2>1. /\ call.who \notin SelfTestStages
        /\ call' = Returned("idle") /\ UNCHANGED <<FILES, g_self_test_active>>
    BY <1>3 DEF ReturnToUpgrade, SelfTestStages
  <2>2. Sound(FILES') /\ NoArtifact(FILES') /\ ~g_self_test_active'
    BY <2>1 DEF SoundInv
  <2> QED
    BY <2>1, <2>2, SoundIdle
<1>4. CASE ReturnToSelfTest(result)
  <2>1. call.who \in SelfTestStages /\ CleanDisk
    BY <1>4 DEF ReturnToSelfTest, SoundInv
  <2>2. CASE result = "FAILED"
    BY <1>4, <2>2, SoundSelfTestFails DEF ReturnToSelfTest, SoundInv
  <2>3. CASE result # "FAILED"
    <3>1. call' = Syncing("reload", call.who, EmptyFiles) /\ UNCHANGED FILES
      BY <1>4, <2>3 DEF ReturnToSelfTest
    <3>2. call'.pc = "reload" /\ call'.who = call.who /\ call'.undo = EmptyFiles
      BY <3>1 DEF Syncing
    <3> QED
      BY <2>1, <3>1, <3>2, EmptySound DEF SoundInv
  <2> QED
    BY <2>2, <2>3
<1> QED
  BY <1>1, <1>2, <1>3, <1>4 DEF SyncReturns

LEMMA SoundWriteTable == TypeInv /\ SoundInv /\ WriteTable => SoundInv'
<1> SUFFICES ASSUME TypeInv, SoundInv, WriteTable PROVE SoundInv'
  OBVIOUS
<1>1. call.pc = "table" /\ UNCHANGED header
  BY DEF WriteTable
<1>2. CleanDisk => CleanDisk'
  BY <1>1, CleanFrame
<1>3. \/ SyncReturns("FAILED") \/ SyncReturns("UNCERTAIN")
      \/ /\ call' = Syncing("header", call.who, call.undo)
         /\ UNCHANGED <<FILES, g_self_test_active>>
  BY Zenon DEF WriteTable, AfterWrite
<1>4. CASE SyncReturns("FAILED") \/ SyncReturns("UNCERTAIN")
  BY <1>1, <1>2, <1>4, SoundSync
<1>5. CASE /\ call' = Syncing("header", call.who, call.undo)
           /\ UNCHANGED <<FILES, g_self_test_active>>
  <2>1. call'.pc = "header" /\ call'.who = call.who /\ call'.undo = call.undo
    BY <1>5 DEF Syncing
  <2> QED
    BY <1>2, <1>5, <2>1 DEF SoundInv
<1> QED
  BY <1>3, <1>4, <1>5

LEMMA SoundWriteHeader == TypeInv /\ SoundInv /\ WriteHeader => SoundInv'
<1> SUFFICES ASSUME TypeInv, SoundInv, WriteHeader PROVE SoundInv'
  OBVIOUS
<1>1. call.pc = "header"
  BY DEF WriteHeader
<1>a. target_slot \in Slots /\ header \in [Slots -> Header]
  BY CommitHeaderType DEF TypeInv, TypeOK
<1>2. \E h \in {header[target_slot], CommitHeader, TornHeader} :
        header' = [header EXCEPT ![target_slot] = h]
  BY DEF WriteHeader, HeaderAfter, AtaWriteResults, MayDrop
<1>3. PICK h \in {header[target_slot], CommitHeader, TornHeader} :
        header' = [header EXCEPT ![target_slot] = h]
  BY <1>2
<1>4. CleanDisk => CleanDisk'
  <2>1. /\ CommitHeader.version = 5 /\ CommitHeader.checksum = fs_serialize(FILES)
        /\ TornHeader.kind = "invalid"
    BY <1>a DEF CommitHeader, TornHeader, TypeInv, TypeOK, Header
  <2>2. NoLogTable(CommitHeader.checksum)
    BY <2>1, SerializeNoLog DEF SoundInv
  <2>3. \A s \in Slots : header'[s] = IF s = target_slot THEN h ELSE header[s]
    BY <1>a, <1>3
  <2> SUFFICES ASSUME CleanDisk, NEW s \in Slots, header'[s].kind = "valid"
               PROVE  header'[s].version = 5 /\ NoLogTable(header'[s].checksum)
    BY DEF CleanDisk, fs_header_is_valid
  <2> HIDE DEF CommitHeader, TornHeader
  <2> QED
    BY <1>a, <1>3, <2>1, <2>2, <2>3 DEF CleanDisk, fs_header_is_valid
<1>5. SyncReturns("FAILED") \/ SyncReturns("UNCERTAIN") \/ SyncReturns("COMMITTED")
  BY Zenon DEF WriteHeader, AfterWrite
<1> QED
  BY <1>1, <1>4, <1>5, SoundSync

LEMMA SoundStep == TypeInv /\ SlotInv /\ SoundInv /\ [Next]_vars => SoundInv'
<1> SUFFICES ASSUME TypeInv, SlotInv, SoundInv, [Next]_vars PROVE SoundInv'
  OBVIOUS
<1>1. CASE UNCHANGED vars
  BY <1>1, CleanFrame DEF vars, SoundInv
<1>2. CASE Next
  BY <1>2, SoundMount, SoundReload, SoundMutate, SoundUpgrade, SoundWriteTable,
     SoundWriteHeader, SoundSelfTest, SoundCrash DEF Next
<1> QED
  BY <1>1, <1>2

\* The files in RAM can always be held and written, and outside a call none is
\* hidden: for any table size, record size and set of names, whatever disk the
\* machine is switched on with, however its tables were damaged, through every
\* failed, torn and uncertain write (the decoders, fs_quarantine_*, the
\* mutations, their rollback and the self test together).
THEOREM FilesAlwaysSound == Spec => []FilesAreSound
<1>1. Init => TypeInv /\ SlotInv /\ SoundInv
  BY TypeInit, SlotInit, SoundInit
<1>2. TypeInv /\ SlotInv /\ SoundInv /\ [Next]_vars => (TypeInv /\ SlotInv /\ SoundInv)'
  BY TypeStep, SlotStep, SoundStep
<1>3. TypeInv /\ SlotInv /\ SoundInv => FilesAreSound
  BY DEF SoundInv, FilesAreSound, Sound, NoLog, NoArtifact, SelfTestStages
<1> QED
  BY <1>1, <1>2, <1>3, PTL DEF Spec

----------------------------------------------------------------------------
(* What a boot finds on a disk, as operators of its headers h and tables t *)

First(h) ==
  IF /\ fs_header_is_valid(h[1])
     /\ \/ ~fs_header_is_valid(h[0])
        \/ IsProtected(h[1]) /\ ~IsProtected(h[0])
        \/ /\ IsProtected(h[1]) <=> IsProtected(h[0])
           /\ fs_generation_is_newer(fs_header_generation(h[1]), fs_header_generation(h[0]))
  THEN 1 ELSE 0

\* The slot has a valid header over the table it was computed from.
Loads(h, t, s) ==
  /\ fs_header_is_valid(h[s])
  /\ h[s].checksum = t[s]
  /\ h[s].version >= FS_DISK_VERSION => CurrentTableIsValid(t[s])
  /\ ~(h[s].version >= FS_DISK_VERSION) => LegacyTableIsValid(t[s])

FilesIn(h, t, s) ==
  IF h[s].version >= FS_DISK_VERSION THEN fs_deserialize_current(t[s])
  ELSE fs_deserialize_legacy(t[s])

Ambiguous(h, t) ==
  \/ /\ \A s \in Slots : fs_header_is_valid(h[s]) /\ ~IsProtected(h[s])
     /\ t[0] # t[1]
  \/ /\ \A s \in Slots : fs_header_is_valid(h[s]) /\ IsProtected(h[s])
     /\ \/ /\ fs_header_generation(h[0]) = fs_header_generation(h[1])
           /\ t[0] # t[1]
        \/ 2 * Distance(fs_header_generation(h[0]), fs_header_generation(h[1]))
             = GenerationModulus

\* A boot without read faults trusts this disk.
Healthy(h, t) ==
  /\ Loads(h, t, First(h))
  /\ \A s \in Slots : h[s].kind # "invalid"
  /\ ~Ambiguous(h, t)

\* The files it shows.
Snapshot(h, t) ==
  IF Loads(h, t, First(h)) THEN Logical(FilesIn(h, t, First(h)))
  ELSE IF Loads(h, t, 1 - First(h)) THEN Logical(FilesIn(h, t, 1 - First(h)))
  ELSE {}

LEMMA FirstType == ASSUME NEW h PROVE First(h) \in Slots
BY DEF First

\* A slot depends on its own header and table only.
LEMMA LoadsFrame ==
  ASSUME NEW h, NEW t, NEW g, NEW u, NEW s, g[s] = h[s], u[s] = t[s]
  PROVE  /\ Loads(h, t, s) <=> Loads(g, u, s)
         /\ FilesIn(g, u, s) = FilesIn(h, t, s)
BY DEF Loads, FilesIn

LEMMA FirstIs ==
  /\ FirstSlot(NoFault) = First(header)
  /\ FirstSlot(NoFault)' = First(header')
BY DEF FirstSlot, First, HeaderAccepted, NoFault, fs_header_is_valid, IsProtected,
       fs_header_generation, fs_generation_is_newer, Distance

LEMMA LoadsIs ==
  ASSUME NEW s
  PROVE  /\ fs_load_slot(NoFault, s) = "LOADED" <=> Loads(header, table, s)
         /\ (fs_load_slot(NoFault, s) = "LOADED")' <=> Loads(header', table', s)
         /\ FilesOfSlot(s) = FilesIn(header, table, s)
         /\ FilesOfSlot(s)' = FilesIn(header', table', s)
BY DEF fs_load_slot, HeaderAccepted, NoFault, Loads, FilesOfSlot, FilesIn, fs_header_is_valid

\* Whatever could not be read, a slot that loaded would load.
LEMMA LoadsAnyway ==
  ASSUME NEW rd, NEW s, fs_load_slot(rd, s) = "LOADED"
  PROVE  Loads(header, table, s)
BY DEF fs_load_slot, HeaderAccepted, Loads

LEMMA DurableIs == Durable = Snapshot(header, table)
<1> DEFINE first == FirstSlot(NoFault)
           result == [s \in Slots |-> fs_load_slot(NoFault, s)]
           slot == LoadedSlot(first, result)
<1>1. first = First(header) /\ first \in Slots /\ 1 - first \in Slots
  BY FirstIs, FirstType
<1>2. Durable = UNION {Logical(FilesOfSlot(s)) : s \in Slots \cap {slot}}
  BY DEF Durable
<1>3. slot = IF Loads(header, table, first) THEN first
             ELSE IF Loads(header, table, 1 - first) THEN 1 - first ELSE 2
  BY <1>1, LoadsIs DEF LoadedSlot
<1>4. \A s \in Slots : FilesOfSlot(s) = FilesIn(header, table, s)
  BY LoadsIs
<1> HIDE DEF first, slot
<1>5. CASE slot \in Slots
  <2>1. Slots \cap {slot} = {slot}
    BY <1>5
  <2>2. Durable = Logical(FilesOfSlot(slot))
    BY <1>2, <2>1
  <2> QED
    BY <1>1, <1>3, <1>4, <1>5, <2>2 DEF Snapshot
<1>6. CASE slot = 2
  <2>1. Durable = {}
    BY <1>2, <1>6
  <2> QED
    BY <1>1, <1>3, <1>6, <2>1 DEF Snapshot
<1> QED
  BY <1>1, <1>3, <1>5, <1>6

LEMMA DurableNextIs == Durable' = Snapshot(header', table')
<1>1. (Durable = Snapshot(header, table))'
  BY DurableIs, PTL
<1> QED
  BY <1>1

\* A load that is trusted, whatever it could not read, found a disk that the
\* next boot trusts, and took the files that boot will show.
LEMMA LoadHealthy ==
  ASSUME NEW init, NEW rd, fs_load_from_disk(init, rd).result = "LOADED"
  PROVE  LET load == fs_load_from_disk(init, rd)
         IN  /\ Healthy(header, table)
             /\ load.slot = First(header)
             /\ load.files = FilesIn(header, table, First(header))
             /\ load.version = header[First(header)].version
<1> DEFINE first == FirstSlot(rd)
           result == [t \in Slots |-> fs_load_slot(rd, t)]
           slot == LoadedSlot(first, result)
           load == fs_load_from_disk(init, rd)
<1>1. /\ init = "READY" /\ slot # FS_SLOT_COUNT
      /\ rd.hdr = {} /\ ~(TablesCompared(rd) /\ rd.cmp)
      /\ ~NonblankInvalidHeader(rd) /\ ~OrderIsAmbiguous(rd)
  BY DEF fs_load_from_disk
<1>2. /\ load.slot = slot
      /\ load.files = FilesOfSlot(slot)
      /\ load.version = header[slot].version
  BY <1>1 DEF fs_load_from_disk
<1>3. slot \in Slots /\ fs_load_slot(rd, slot) = "LOADED"
  BY <1>1, LoadedSlotType
<1>4. slot = First(header)
  BY <1>2, TrustedLoadWins, FirstIs
<1> HIDE DEF slot, load
<1>5. Loads(header, table, slot)
  BY <1>3, LoadsAnyway
<1>6. \A s \in Slots : header[s].kind # "invalid"
  BY <1>1 DEF NonblankInvalidHeader
<1>7. ~Ambiguous(header, table)
  BY <1>1 DEF OrderIsAmbiguous, TablesDiffer, TablesCompared, BothLegacy, BothProtected,
              HeaderAccepted, Ambiguous
<1> QED
  BY <1>2, <1>4, <1>5, <1>6, <1>7, LoadsIs DEF load, Healthy

LEMMA BootHealthy ==
  ASSUME Healthy(header, table)
  PROVE  /\ NextBoot.result = "LOADED"
         /\ NextBoot.files = FilesIn(header, table, First(header))
<1> DEFINE first == FirstSlot(NoFault)
           result == [t \in Slots |-> fs_load_slot(NoFault, t)]
           slot == LoadedSlot(first, result)
<1>1. first \in Slots /\ first = First(header)
  BY FirstIs, FirstType
<1>2. fs_load_slot(NoFault, first) = "LOADED"
  BY <1>1, LoadsIs DEF Healthy
<1>3. slot = first
  BY <1>1, <1>2 DEF LoadedSlot
<1>4. /\ NoFault.hdr = {} /\ NoFault.cmp = FALSE
      /\ ~NonblankInvalidHeader(NoFault)
  BY DEF Healthy, NonblankInvalidHeader, NoFault
<1>5. ~OrderIsAmbiguous(NoFault)
  BY <1>4 DEF OrderIsAmbiguous, TablesDiffer, TablesCompared, BothLegacy, BothProtected,
              HeaderAccepted, Ambiguous, Healthy
<1>6. result[first] = "LOADED"
  BY <1>1, <1>2
<1> DEFINE attempts == {result[first]} \cup (IF slot = first THEN {} ELSE {result[1 - first]})
<1>7. attempts = {"LOADED"}
  BY <1>3, <1>6
<1>8. NextBoot.result = "LOADED"
  <2> DEFINE io == NoFault.hdr # {} \/ (TablesCompared(NoFault) /\ NoFault.cmp)
                   \/ "IO_ERROR" \in attempts
             bad == NonblankInvalidHeader(NoFault) \/ "CORRUPT" \in attempts
  <2>1. ~io /\ ~bad
    BY <1>4, <1>7
  <2>2. NextBoot.result =
          IF slot # FS_SLOT_COUNT
          THEN IF io THEN "LOADED_IO_ERROR"
               ELSE IF bad \/ OrderIsAmbiguous(NoFault) THEN "LOADED_CORRUPT"
               ELSE "LOADED"
          ELSE NextBoot.result
    BY DEF NextBoot, fs_load_from_disk
  <2> HIDE DEF io, bad, slot, first
  <2> QED
    BY <1>1, <1>3, <1>5, <2>1, <2>2
<1>9. NextBoot.files = FilesOfSlot(first)
  <2>1. NextBoot.files = IF slot # FS_SLOT_COUNT THEN FilesOfSlot(slot) ELSE FILES
    BY DEF NextBoot, fs_load_from_disk
  <2> HIDE DEF slot, first
  <2> QED
    BY <1>1, <1>3, <2>1
<1> QED
  BY <1>1, <1>8, <1>9, LoadsIs

LEMMA BootBlank ==
  ASSUME \A s \in Slots : header[s].kind = "blank" /\ table[s] = BlankTable
  PROVE  NextBoot.result = "BLANK"
<1> DEFINE first == FirstSlot(NoFault)
           result == [t \in Slots |-> fs_load_slot(NoFault, t)]
           slot == LoadedSlot(first, result)
           attempts == {result[first]} \cup (IF slot = first THEN {} ELSE {result[1 - first]})
           io == NoFault.hdr # {} \/ (TablesCompared(NoFault) /\ NoFault.cmp)
                 \/ "IO_ERROR" \in attempts
           bad == NonblankInvalidHeader(NoFault) \/ "CORRUPT" \in attempts
<1>1. first \in Slots
  BY FirstIs, FirstType
<1>2. \A s \in Slots : result[s] = "ABSENT"
  BY DEF fs_load_slot, HeaderAccepted, fs_header_is_valid
<1>3. NoFault.hdr = {} /\ NoFault.cmp = FALSE /\ NoFault.tbl = {}
  BY DEF NoFault
<1>4. ~NonblankInvalidHeader(NoFault)
  BY DEF NonblankInvalidHeader
<1>5. NextBoot.result =
        IF slot # FS_SLOT_COUNT THEN NextBoot.result
        ELSE IF io THEN "IO_ERROR"
        ELSE IF bad THEN "CORRUPT"
        ELSE IF NoFault.tbl # {} THEN "IO_ERROR"
        ELSE IF \E s \in Slots : table[s] # BlankTable THEN "CORRUPT"
        ELSE "BLANK"
  BY DEF NextBoot, fs_load_from_disk
<1> HIDE DEF first, result
<1>6. slot = FS_SLOT_COUNT
  BY <1>1, <1>2 DEF LoadedSlot
<1>7. attempts = {"ABSENT"}
  BY <1>1, <1>2, <1>6
<1>8. ~io /\ ~bad
  BY <1>3, <1>4, <1>7
<1> HIDE DEF slot, io, bad
<1> QED
  BY <1>3, <1>5, <1>6, <1>8

----------------------------------------------------------------------------
(* Persistent means durable *)

Committing == call.pc \in {"table", "header"}

\* The strengthening of PersistentMeansDurable: which disk a commit is begun
\* on, that the slot it does not write still loads, and that the undo copy of
\* a mutation is what that slot holds.
DurInv ==
  /\ call.pc \in {"idle", "selftest"} /\ g_backend_status = "PERSISTENT" =>
       Healthy(header, table)
  /\ call.pc = "idle" /\ g_backend_status = "PERSISTENT" =>
       Logical(FilesIn(header, table, g_active_slot)) = Logical(FILES)
  /\ call.pc = "table" /\ call.who \notin {"format", "upgrade"} => Healthy(header, table)
  /\ call.pc = "table" /\ call.who = "format" => \A s \in Slots : table[s] = BlankTable
  /\ Committing /\ call.who = "format" => \A s \in Slots : header[s].kind = "blank"
  /\ Committing /\ call.who # "format" => Loads(header, table, g_active_slot)
  /\ Committing /\ call.who = "op" =>
       Logical(FilesIn(header, table, g_active_slot)) = Logical(call.undo)
  /\ g_legacy_upgrade_status = "AVAILABLE" => Loads(header, table, g_active_slot)

LEMMA DurInit == Init => DurInv
BY DEF Init, PoweredOff, Returned, DurInv, Committing

LEMMA DurCrash == Crash => DurInv'
BY DEF Crash, Returned, DurInv, Committing

\* A volume that needs no new metadata is mounted as it was loaded.
LEMMA UnchangedMetadata ==
  ASSUME NEW load, load.version \in 0 .. 5, ~metadata_changed(load)
  PROVE  Quarantined(load.files) = load.files
<1>1. FilesWithBmp(load) = load.files /\ ~(load.version < 5)
  BY DEF metadata_changed
<1>2. CASE AddsBmp(load)
  <2>1. load.version < 3
    BY <1>2 DEF AddsBmp
  <2> QED
    BY <1>1, <2>1
<1>3. CASE ~AddsBmp(load)
  BY <1>1, <1>3 DEF FilesWithBmp
<1> QED
  BY <1>2, <1>3

\* What a load leaves, for both of its callers.
LEMMA DurLoad ==
  ASSUME NEW init, NEW rd, TakesMountOf(fs_load_from_disk(init, rd)), UNCHANGED disk
  PROVE  LET load == fs_load_from_disk(init, rd)
         IN  /\ load.result = "LOADED" =>
                  /\ Healthy(header', table')
                  /\ Loads(header', table', g_active_slot')
                  /\ load.files = FilesIn(header', table', g_active_slot')
             /\ g_legacy_upgrade_status' = "AVAILABLE" =>
                  Loads(header', table', g_active_slot')
<1> DEFINE load == fs_load_from_disk(init, rd)
           slot == LoadedSlot(FirstSlot(rd), [t \in Slots |-> fs_load_slot(rd, t)])
<1>1. header' = header /\ table' = table /\ g_active_slot' = load.slot
      /\ g_legacy_upgrade_status' = load.upgrade
  BY DEF TakesMountOf, disk
<1>2. load.result = "LOADED" =>
        /\ Healthy(header, table)
        /\ load.slot = First(header)
        /\ load.files = FilesIn(header, table, First(header))
  BY LoadHealthy
<1>3. load.upgrade = "AVAILABLE" => load.slot = slot /\ slot # FS_SLOT_COUNT
  BY DEF fs_load_from_disk
<1>4. slot # FS_SLOT_COUNT => fs_load_slot(rd, slot) = "LOADED"
  BY LoadedSlotType
<1> HIDE DEF slot, load
<1>5. load.upgrade = "AVAILABLE" => Loads(header, table, load.slot)
  BY <1>3, <1>4, LoadsAnyway
<1> QED
  BY <1>1, <1>2, <1>5 DEF load, Healthy

LEMMA DurMount ==
  ASSUME TypeInv, SlotInv, DurInv, NEW init, NEW rd, fs_init(init, rd)
  PROVE  DurInv'
<1> DEFINE load == fs_load_from_disk(init, rd)
<1>1. /\ call.pc = "off" /\ TakesMountOf(load) /\ UNCHANGED disk
      /\ MountsVolume(load) \/ MountsFreshFiles(load)
  BY DEF fs_init
<1>2. g_backend_status = "UNINITIALIZED"
  BY <1>1 DEF SlotInv
<1>3. /\ load.result = "LOADED" =>
           /\ Healthy(header', table')
           /\ Loads(header', table', g_active_slot')
           /\ load.files = FilesIn(header', table', g_active_slot')
      /\ g_legacy_upgrade_status' = "AVAILABLE" => Loads(header', table', g_active_slot')
  BY <1>1, DurLoad
<1>4. load.result = "BLANK" =>
        \A s \in Slots : header'[s].kind = "blank" /\ table'[s] = BlankTable
  BY <1>1, BlankDisk DEF TypeInv, disk
<1>a. load.version \in 0 .. 5
  BY LoadType DEF TypeInv
<1> HIDE DEF load
<1>5. \/ /\ call' = Returned("idle")
         /\ g_backend_status' = "PERSISTENT" =>
              load.result = "LOADED" /\ FILES' = load.files
      \/ /\ call' = Syncing("table", "metadata", Quarantined(load.files))
         /\ load.result = "LOADED"
      \/ /\ call' = Syncing("table", "format", FreshFiles)
         /\ load.result = "BLANK"
  BY <1>1, <1>2, <1>a, UnchangedMetadata DEF MountsVolume, MountsFreshFiles, DegradedBackend
<1>6. CASE /\ call' = Returned("idle")
           /\ g_backend_status' = "PERSISTENT" =>
                load.result = "LOADED" /\ FILES' = load.files
  BY <1>3, <1>6 DEF DurInv, Committing, Returned
<1>7. CASE /\ call' = Syncing("table", "metadata", Quarantined(load.files))
           /\ load.result = "LOADED"
  BY <1>3, <1>7 DEF DurInv, Committing, Syncing
<1>8. CASE /\ call' = Syncing("table", "format", FreshFiles)
           /\ load.result = "BLANK"
  BY <1>3, <1>4, <1>8 DEF DurInv, Committing, Syncing
<1> QED
  BY <1>5, <1>6, <1>7, <1>8

LEMMA DurReload ==
  ASSUME TypeInv, DurInv, NEW init, NEW rd, fs_self_test_reload(init, rd)
  PROVE  DurInv'
<1> DEFINE load == fs_load_from_disk(init, rd)
<1>1. TakesMountOf(load) /\ UNCHANGED disk
  BY DEF fs_self_test_reload
<1>2. /\ load.result = "LOADED" =>
           /\ Healthy(header', table')
           /\ Loads(header', table', g_active_slot')
           /\ load.files = FilesIn(header', table', g_active_slot')
      /\ g_legacy_upgrade_status' = "AVAILABLE" => Loads(header', table', g_active_slot')
  BY <1>1, DurLoad
<1>3. \/ call' = Returned("idle") /\ g_backend_status' # "PERSISTENT"
      \/ /\ call' = Returned("idle") \/ call' = Syncing("selftest", NextStage[call.who], EmptyFiles)
         /\ load.result = "LOADED" /\ FILES' = load.files
  BY DEF fs_self_test_reload, SelfTestFails, DegradedBackend
<1> HIDE DEF load
<1> QED
  BY <1>2, <1>3 DEF DurInv, Committing, Returned, Syncing

\* Steps that leave the disk and the mount alone.
LEMMA DurCommitChanges ==
  ASSUME SlotInv, DurInv, call.pc = "idle", NEW files, fs_commit_changes(files)
  PROVE  DurInv'
<1>1. /\ header' = header /\ table' = table /\ g_active_slot' = g_active_slot
      /\ g_legacy_upgrade_status' = g_legacy_upgrade_status
  BY DEF fs_commit_changes, disk, mount
<1>2. g_backend_status = "PERSISTENT" => Loads(header, table, g_active_slot)
  BY FirstIs DEF DurInv, Healthy, SlotInv, ActiveSlotWins, SlotWins
<1>3. CASE g_backend_status' # "PERSISTENT" /\ UNCHANGED call
  BY <1>1, <1>3 DEF DurInv, Committing
<1>4. CASE g_backend_status = "PERSISTENT" /\ call' = Syncing("table", "op", FILES)
  BY <1>1, <1>2, <1>4 DEF DurInv, Committing, Syncing
<1> QED
  BY <1>3, <1>4 DEF fs_commit_changes

LEMMA DurMutate == SlotInv /\ DurInv /\ Mutate => DurInv'
BY DurCommitChanges
   DEF Mutate, fs_touch, fs_remove, fs_system_remove, fs_remove_internal, fs_write_bytes,
       fs_system_write_bytes, fs_write_bytes_internal, fs_append, fs_rename,
       fs_system_rename, fs_rename_internal

LEMMA DurUpgrade == DurInv /\ fs_upgrade_legacy_snapshot => DurInv'
BY DEF fs_upgrade_legacy_snapshot, disk, mount, Syncing, DurInv, Committing

LEMMA DurSelfTest == TypeInv /\ SlotInv /\ DurInv /\ SelfTestMutates => DurInv'
<1> SUFFICES ASSUME TypeInv, SlotInv, DurInv, SelfTestMutates PROVE DurInv'
  OBVIOUS
<1>1. /\ call.pc = "selftest" /\ call.who \in SelfTestStages
      /\ g_backend_status = "PERSISTENT"
      /\ header' = header /\ table' = table /\ g_active_slot' = g_active_slot
      /\ g_legacy_upgrade_status' = g_legacy_upgrade_status
  BY DEF SelfTestMutates, TypeInv, CallShape, SlotInv, SyncsTrusted, disk, mount
<1>2. Healthy(header, table) /\ Loads(header, table, g_active_slot)
  BY <1>1, FirstIs DEF DurInv, Healthy, SlotInv, ActiveSlotWins, SlotWins
<1>3. \/ call' = Syncing("table", call.who, FILES)
      \/ call' = Returned("idle") /\ g_backend_status' # "PERSISTENT"
  BY DEF SelfTestMutates, SelfTestFails
<1> QED
  BY <1>1, <1>2, <1>3 DEF DurInv, Committing, Syncing, Returned, SelfTestStages

\* Serial-number arithmetic: consecutive generations are neither equal nor half
\* a turn apart.
LEMMA NextIsClear ==
  ASSUME NEW g \in Generations
  PROVE  /\ IncGeneration(g) # g
         /\ 2 * Distance(IncGeneration(g), g) # GenerationModulus
         /\ 2 * Distance(g, IncGeneration(g)) # GenerationModulus
BY VolumeAssumption DEF IncGeneration, Distance, Generations

\* Once the header of a commit is on the disk, wherever the call is in its code,
\* the next boot trusts the disk and shows exactly the files of the commit.
LEMMA CommittedDisk ==
  ASSUME TypeInv, SlotInv, SoundInv, DurInv, call.pc = "header", UNCHANGED table,
         header' = [header EXCEPT ![target_slot] = CommitHeader]
  PROVE  /\ Healthy(header', table')
         /\ First(header') = target_slot
         /\ Logical(FilesIn(header', table', target_slot)) = Logical(FILES)
<1> DEFINE image == fs_serialize(FILES)
           other == header[1 - target_slot]
<1>1. /\ target_slot \in Slots /\ 1 - target_slot \in Slots /\ header \in [Slots -> Header]
      /\ g_active_generation \in Generations
  BY CommitHeaderType DEF TypeInv, TypeOK
<1>2. header'[target_slot] = CommitHeader /\ header'[1 - target_slot] = other
  BY <1>1
<1>3. /\ CommitHeader.kind = "valid" /\ CommitHeader.version = 5
      /\ CommitHeader.generation = IncGeneration(g_active_generation)
      /\ CommitHeader.checksum = image
  BY DEF CommitHeader, next_generation
<1>4. table'[target_slot] = image
  BY DEF SlotInv
<1>5. /\ First(header') = target_slot
      /\ \/ other.kind # "valid"
         \/ ~(other.version >= 4)
         \/ other.version >= 4 /\ other.generation = g_active_generation
  BY CommittedFirst, FirstIs
<1>6. CurrentTableIsValid(image) /\ Logical(fs_deserialize_current(image)) = Logical(FILES)
  BY WrittenIsReadBack DEF SoundInv, Sound, IsRewritable
<1>7. other.kind # "invalid"
  <2>1. CASE call.who = "format"
    BY <1>1, <2>1 DEF DurInv, Committing
  <2>2. CASE call.who # "format"
    <3>1. Loads(header, table, g_active_slot)
      BY <2>2 DEF DurInv, Committing
    <3>2. g_active_slot \in Slots
      <4>1. call.who = "upgrade" \/ call.who \in {"op", "metadata"} \cup SelfTestStages
        BY <2>2 DEF TypeInv, TypeOK, CallShape, Callers
      <4> QED
        BY <4>1 DEF SlotInv, SyncsTrusted, ActiveSlotWins, SlotWins
    <3>3. 1 - target_slot = g_active_slot
      BY <3>2, TargetIsOther DEF TypeInv
    <3> QED
      BY <3>1, <3>3 DEF Loads, fs_header_is_valid
  <2> QED
    BY <2>1, <2>2
<1> HIDE DEF CommitHeader, image
<1>8. Loads(header', table', target_slot)
  BY <1>2, <1>3, <1>4, <1>6 DEF Loads, fs_header_is_valid
<1>9. Logical(FilesIn(header', table', target_slot)) = Logical(FILES)
  BY <1>2, <1>3, <1>4, <1>6 DEF FilesIn
<1>10. \A s \in Slots : header'[s].kind # "invalid"
  BY <1>1, <1>2, <1>3, <1>7
<1>11. ~Ambiguous(header', table')
  <2>1. fs_header_generation(header'[target_slot]) = IncGeneration(g_active_generation)
    BY <1>2, <1>3 DEF fs_header_generation
  <2>2. IsProtected(header'[target_slot])
    BY <1>2, <1>3 DEF IsProtected
  <2>3. \/ ~fs_header_is_valid(header'[1 - target_slot])
        \/ ~IsProtected(header'[1 - target_slot])
        \/ fs_header_generation(header'[1 - target_slot]) = g_active_generation
    BY <1>1, <1>2, <1>5 DEF fs_header_is_valid, IsProtected, fs_header_generation
  <2>4. /\ IncGeneration(g_active_generation) # g_active_generation
        /\ 2 * Distance(IncGeneration(g_active_generation), g_active_generation)
             # GenerationModulus
        /\ 2 * Distance(g_active_generation, IncGeneration(g_active_generation))
             # GenerationModulus
    BY <1>1, NextIsClear
  <2>5. CASE target_slot = 0
    BY <2>1, <2>2, <2>3, <2>4, <2>5 DEF Ambiguous
  <2>6. CASE target_slot = 1
    BY <2>1, <2>2, <2>3, <2>4, <2>6 DEF Ambiguous
  <2> QED
    BY <1>1, <2>5, <2>6
<1> QED
  BY <1>5, <1>8, <1>9, <1>10, <1>11 DEF Healthy

\* What a sync that does not commit leaves in RAM.
LEMMA SyncFailsShape ==
  ASSUME SlotInv, Committing, NEW result \in {"FAILED", "UNCERTAIN"}, SyncReturns(result)
  PROVE  /\ UNCHANGED <<g_active_slot, g_active_generation>>
         /\ g_backend_status' # "PERSISTENT"
         /\ call'.pc \in {"idle", "reload"}
         /\ g_legacy_upgrade_status' = "AVAILABLE" => g_legacy_upgrade_status = "AVAILABLE"
<1>1. UNCHANGED <<g_active_slot, g_active_generation>>
  BY DEF SyncReturns, mount
<1>2. g_backend_status' # "PERSISTENT"
  BY DEF SyncReturns, ReturnToMutation, ReturnToFormat, ReturnToUpgrade, ReturnToSelfTest,
         SelfTestFails, SlotInv, Committing
<1>3. call'.pc \in {"idle", "reload"}
  BY DEF SyncReturns, ReturnToMutation, ReturnToFormat, ReturnToUpgrade, ReturnToSelfTest,
         SelfTestFails, Returned, Syncing
<1>4. g_legacy_upgrade_status' = "AVAILABLE" => g_legacy_upgrade_status = "AVAILABLE"
  BY DEF SyncReturns, ReturnToMutation, ReturnToFormat, ReturnToUpgrade, ReturnToSelfTest
<1> QED
  BY <1>1, <1>2, <1>3, <1>4

LEMMA DurSyncFails ==
  ASSUME TypeInv, SlotInv, DurInv, Committing,
         NEW result \in {"FAILED", "UNCERTAIN"}, SyncReturns(result),
         g_active_slot \in Slots =>
           header'[g_active_slot] = header[g_active_slot]
           /\ table'[g_active_slot] = table[g_active_slot]
  PROVE  DurInv'
<1>1. /\ g_active_slot' = g_active_slot
      /\ g_backend_status' # "PERSISTENT"
      /\ call'.pc \in {"idle", "reload"}
      /\ g_legacy_upgrade_status' = "AVAILABLE" => g_legacy_upgrade_status = "AVAILABLE"
  BY SyncFailsShape
<1>2. g_legacy_upgrade_status' = "AVAILABLE" => Loads(header', table', g_active_slot')
  BY <1>1, LoadsFrame DEF DurInv, SlotInv
<1> QED
  BY <1>1, <1>2 DEF DurInv, Committing

\* The slot a commit starts from exists, except in a format.
LEMMA CommitsFromSlot ==
  ASSUME TypeInv, SlotInv, Committing, call.who # "format"
  PROVE  g_active_slot \in Slots
<1>1. call.who = "upgrade" \/ call.who \in {"op", "metadata"} \cup SelfTestStages
  BY DEF TypeInv, TypeOK, CallShape, Callers, Committing
<1> QED
  BY <1>1 DEF SlotInv, SyncsTrusted, ActiveSlotWins, SlotWins, Committing

LEMMA DurWriteTable == TypeInv /\ SlotInv /\ DurInv /\ WriteTable => DurInv'
<1> SUFFICES ASSUME TypeInv, SlotInv, DurInv, WriteTable PROVE DurInv'
  OBVIOUS
<1>1. call.pc = "table" /\ Committing /\ header' = header
  BY DEF WriteTable, Committing
<1>a. \E t : table' = [table EXCEPT ![target_slot] = t]
  BY Zenon DEF WriteTable
<1>2. PICK t : table' = [table EXCEPT ![target_slot] = t]
  BY <1>a
<1>3. g_active_slot \in Slots =>
        header'[g_active_slot] = header[g_active_slot]
        /\ table'[g_active_slot] = table[g_active_slot]
  BY <1>1, <1>2, TargetIsOther DEF TypeInv, TypeOK
<1>4. \/ SyncReturns("FAILED") \/ SyncReturns("UNCERTAIN")
      \/ /\ call' = Syncing("header", call.who, call.undo)
         /\ UNCHANGED <<mount, g_legacy_upgrade_status>>
  BY Zenon DEF WriteTable, AfterWrite
<1>5. CASE SyncReturns("FAILED") \/ SyncReturns("UNCERTAIN")
  BY <1>1, <1>3, <1>5, DurSyncFails
<1>6. CASE /\ call' = Syncing("header", call.who, call.undo)
           /\ UNCHANGED <<mount, g_legacy_upgrade_status>>
  <2>1. /\ call'.pc = "header" /\ call'.who = call.who /\ call'.undo = call.undo
        /\ g_active_slot' = g_active_slot
    BY <1>6 DEF Syncing, mount
  <2>2. g_active_slot \in Slots =>
          /\ Loads(header, table, g_active_slot) <=> Loads(header', table', g_active_slot)
          /\ FilesIn(header', table', g_active_slot) = FilesIn(header, table, g_active_slot)
    BY <1>3, LoadsFrame
  <2>3. call.who # "format" \/ g_legacy_upgrade_status = "AVAILABLE" => g_active_slot \in Slots
    BY <1>1, CommitsFromSlot DEF SlotInv
  <2>4. call'.who = "format" => \A s \in Slots : header'[s].kind = "blank"
    BY <1>1, <2>1 DEF DurInv
  <2>5. call'.who # "format" => Loads(header', table', g_active_slot')
    BY <1>1, <2>1, <2>2, <2>3 DEF DurInv
  <2>6. call'.who = "op" =>
          Logical(FilesIn(header', table', g_active_slot')) = Logical(call'.undo)
    BY <1>1, <2>1, <2>2, <2>3 DEF DurInv
  <2>7. g_legacy_upgrade_status' = "AVAILABLE" => Loads(header', table', g_active_slot')
    BY <1>6, <2>1, <2>2, <2>3 DEF DurInv
  <2> QED
    BY <2>1, <2>4, <2>5, <2>6, <2>7 DEF DurInv
<1> QED
  BY <1>4, <1>5, <1>6

\* What WriteHeader does: the header is left, torn or written, and the sync
\* returns committed only if it is written.
LEMMA HeaderOutcomes ==
  ASSUME TypeInv, WriteHeader
  PROVE  \E h \in {header[target_slot], TornHeader, CommitHeader} :
           /\ header' = [header EXCEPT ![target_slot] = h]
           /\ \/ SyncReturns("FAILED") /\ (h = CommitHeader => table[target_slot] # fs_serialize(FILES)
                                                               \/ h = header[target_slot])
              \/ SyncReturns("UNCERTAIN")
              \/ SyncReturns("COMMITTED") /\ h = CommitHeader
<1>a. PICK written \in AtaWriteResults : \E h \in HeaderAfter(written, CommitHeader) :
        /\ header' = [header EXCEPT ![target_slot] = h]
        /\ AfterWrite(written, h = CommitHeader /\ table[target_slot] = CommitHeader.checksum,
                      SyncReturns("COMMITTED"))
  BY DEF WriteHeader
<1>1. PICK h \in HeaderAfter(written, CommitHeader) :
        /\ header' = [header EXCEPT ![target_slot] = h]
        /\ AfterWrite(written, h = CommitHeader /\ table[target_slot] = CommitHeader.checksum,
                      SyncReturns("COMMITTED"))
  BY <1>a
<1>2. h \in {header[target_slot], TornHeader, CommitHeader}
  BY <1>1 DEF HeaderAfter
<1>3. CommitHeader.checksum = fs_serialize(FILES)
  BY DEF CommitHeader
<1> HIDE DEF CommitHeader, TornHeader
<1>4. \/ SyncReturns("FAILED") /\ (h = CommitHeader => table[target_slot] # fs_serialize(FILES)
                                                       \/ h = header[target_slot])
      \/ SyncReturns("UNCERTAIN")
      \/ SyncReturns("COMMITTED") /\ h = CommitHeader
  BY <1>1, <1>3 DEF AfterWrite, HeaderAfter, MayDrop, require_verified_readback, AtaWriteResults
<1> QED
  BY <1>1, <1>2, <1>4

LEMMA DurWriteHeader == TypeInv /\ SlotInv /\ SoundInv /\ DurInv /\ WriteHeader => DurInv'
<1> SUFFICES ASSUME TypeInv, SlotInv, SoundInv, DurInv, WriteHeader PROVE DurInv'
  OBVIOUS
<1>1. call.pc = "header" /\ Committing /\ table' = table
  BY DEF WriteHeader, Committing
<1>2. PICK h \in {header[target_slot], TornHeader, CommitHeader} :
        /\ header' = [header EXCEPT ![target_slot] = h]
        /\ \/ SyncReturns("FAILED") \/ SyncReturns("UNCERTAIN")
           \/ SyncReturns("COMMITTED") /\ h = CommitHeader
  BY HeaderOutcomes
<1>3. CASE SyncReturns("FAILED") \/ SyncReturns("UNCERTAIN")
  <2>1. g_active_slot \in Slots =>
          header'[g_active_slot] = header[g_active_slot]
          /\ table'[g_active_slot] = table[g_active_slot]
    BY <1>1, <1>2, TargetIsOther DEF TypeInv, TypeOK
  <2> QED
    BY <1>1, <1>3, <2>1, DurSyncFails
<1>4. CASE SyncReturns("COMMITTED") /\ h = CommitHeader
  <2>1. /\ Healthy(header', table')
        /\ Logical(FilesIn(header', table', target_slot)) = Logical(FILES)
    BY <1>1, <1>2, <1>4, CommittedDisk
  <2>2. g_active_slot' = target_slot
    BY <1>4 DEF SyncReturns, fs_accept_commit
  <2>3. g_legacy_upgrade_status' # "AVAILABLE"
    BY <1>1, <1>4 DEF SyncReturns, ReturnToMutation, ReturnToFormat, ReturnToUpgrade,
       ReturnToSelfTest, SlotInv, SyncsTrusted
  <2>4. \/ call'.pc = "idle" /\ FILES' = FILES
        \/ call'.pc \in {"selftest", "reload"}
    BY <1>4 DEF SyncReturns, ReturnToMutation, ReturnToFormat, ReturnToUpgrade,
       ReturnToSelfTest, Returned, Syncing
  <2> QED
    BY <2>1, <2>2, <2>3, <2>4 DEF DurInv, Committing
<1> QED
  BY <1>2, <1>3, <1>4

LEMMA DurStep == TypeInv /\ SlotInv /\ SoundInv /\ DurInv /\ [Next]_vars => DurInv'
<1> SUFFICES ASSUME TypeInv, SlotInv, SoundInv, DurInv, [Next]_vars PROVE DurInv'
  OBVIOUS
<1>1. CASE UNCHANGED vars
  BY <1>1 DEF vars, DurInv, Committing
<1>2. CASE Next
  BY <1>2, DurMount, DurReload, DurMutate, DurUpgrade, DurWriteTable,
     DurWriteHeader, DurSelfTest, DurCrash DEF Next
<1> QED
  BY <1>1, <1>2

\* The invariant of the volume.
VolumeInv == TypeInv /\ SlotInv /\ SoundInv /\ DurInv

LEMMA VolumeInit == Init => VolumeInv
BY TypeInit, SlotInit, SoundInit, DurInit DEF VolumeInv

LEMMA VolumeStep == VolumeInv /\ [Next]_vars => VolumeInv'
BY TypeStep, SlotStep, SoundStep, DurStep DEF VolumeInv

\* A volume that claims to be persistent is: between calls the next boot trusts
\* the disk and shows exactly the files in RAM, for every table and record
\* size, generation width and initial disk, with every outcome of every write
\* and a loss of power anywhere (fs_commit_changes, fs_init and fs_self_test
\* against fs_load_from_disk, through the encoder and the decoders).
THEOREM PersistentIsDurable == Spec => []PersistentMeansDurable
<1>1. VolumeInv => PersistentMeansDurable
  <2> SUFFICES ASSUME VolumeInv, call.pc = "idle", g_backend_status = "PERSISTENT"
               PROVE  NextBoot.result = "LOADED" /\ Logical(NextBoot.files) = Logical(FILES)
    BY DEF PersistentMeansDurable
  <2>1. /\ Healthy(header, table)
        /\ Logical(FilesIn(header, table, g_active_slot)) = Logical(FILES)
    BY DEF VolumeInv, DurInv
  <2>2. First(header) = g_active_slot
    BY FirstIs DEF VolumeInv, SlotInv, ActiveSlotWins, SlotWins
  <2> QED
    BY <2>1, <2>2, BootHealthy
<1> QED
  BY <1>1, VolumeInit, VolumeStep, PTL DEF Spec

\* As long as the header of the target slot is left or torn, the slot that is
\* tried first and loads is the one the next boot shows, whatever the table of
\* the target has become.
LEMMA KeepsFirst ==
  ASSUME NEW h, NEW t, NEW g, NEW u, NEW s \in Slots,
         First(h) = s, Loads(h, t, s), g[s] = h[s], u[s] = t[s],
         g[1 - s] = h[1 - s] \/ g[1 - s].kind = "invalid"
  PROVE  First(g) = s /\ Snapshot(g, u) = Logical(FilesIn(h, t, s))
<1>1. Loads(g, u, s) /\ FilesIn(g, u, s) = FilesIn(h, t, s)
  BY LoadsFrame
<1>2. First(g) = s
  <2>1. fs_header_is_valid(g[s])
    BY <1>1 DEF Loads
  <2>2. CASE s = 0
    BY <2>1, <2>2 DEF First, fs_header_is_valid
  <2>3. CASE s = 1
    BY <2>1, <2>3 DEF First, fs_header_is_valid
  <2> QED
    BY <2>2, <2>3
<1> QED
  BY <1>1, <1>2 DEF Snapshot

\* A commit is begun only on a disk that the next boot would trust, on a blank
\* one, or by the explicit upgrade (every caller of fs_sync_to_disk_verified).
THEOREM RejectedMediaArePreserved == Spec => RejectedMediaPreserved
<1>1. VolumeInv /\ call.pc = "table" =>
        NextBoot.result \in {"LOADED", "BLANK"} \/ call.who = "upgrade"
  <2> SUFFICES ASSUME VolumeInv, call.pc = "table", call.who # "upgrade"
               PROVE  NextBoot.result \in {"LOADED", "BLANK"}
    OBVIOUS
  <2>1. CASE call.who = "format"
    <3>1. \A s \in Slots : header[s].kind = "blank" /\ table[s] = BlankTable
      BY <2>1 DEF VolumeInv, DurInv, Committing
    <3> QED
      BY <3>1, BootBlank
  <2>2. CASE call.who # "format"
    <3>1. Healthy(header, table)
      BY <2>2 DEF VolumeInv, DurInv
    <3> QED
      BY <3>1, BootHealthy
  <2> QED
    BY <2>1, <2>2
<1>2. VolumeInv /\ [Next]_vars =>
        [call.pc = "table" /\ table' # table =>
           NextBoot.result \in {"LOADED", "BLANK"} \/ call.who = "upgrade"]_vars
  BY <1>1
<1> QED
  BY <1>2, VolumeInit, VolumeStep, PTL DEF Spec, RejectedMediaPreserved

\* The two ways back from a commit that failed.
LEMMA FailedCommit ==
  ASSUME VolumeInv, Next, call.who = "op", call'.pc = "idle", FILES' # FILES
  PROVE  /\ Committing
         /\ g_active_slot \in Slots
         /\ header'[g_active_slot] = header[g_active_slot]
         /\ table'[g_active_slot] = table[g_active_slot]
         /\ \/ header'[1 - g_active_slot] = header[1 - g_active_slot]
            \/ header'[1 - g_active_slot].kind = "invalid"
<1>1. call.pc \in {"table", "header"} /\ Committing
  BY DEF VolumeInv, SoundInv, TypeInv, TypeOK, CallShape, SelfTestStages, Committing
<1>2. /\ g_active_slot \in Slots /\ target_slot \in Slots
      /\ target_slot = 1 - g_active_slot /\ target_slot # g_active_slot
      /\ header \in [Slots -> Header] /\ table \in [Slots -> Table]
  BY <1>1, CommitsFromSlot, TargetIsOther, CommitHeaderType DEF VolumeInv, TypeInv, TypeOK
<1>3. WriteTable \/ WriteHeader
  BY <1>1 DEF Next, fs_init, fs_self_test_reload, Mutate, fs_upgrade_legacy_snapshot,
     SelfTestMutates, Crash, Returned
<1>4. CASE WriteTable
  <2>1. \E t : table' = [table EXCEPT ![target_slot] = t]
    BY <1>4, Zenon DEF WriteTable
  <2>2. PICK t : table' = [table EXCEPT ![target_slot] = t]
    BY <2>1
  <2>3. header' = header
    BY <1>4 DEF WriteTable
  <2> QED
    BY <1>1, <1>2, <2>2, <2>3
<1>5. CASE WriteHeader
  <2>1. call.pc = "header" /\ table' = table
    BY <1>5 DEF WriteHeader
  <2>2. PICK h \in {header[target_slot], TornHeader, CommitHeader} :
          /\ header' = [header EXCEPT ![target_slot] = h]
          /\ \/ SyncReturns("FAILED") /\ (h = CommitHeader => table[target_slot] # fs_serialize(FILES)
                                                              \/ h = header[target_slot])
             \/ SyncReturns("UNCERTAIN")
             \/ SyncReturns("COMMITTED") /\ h = CommitHeader
    BY <1>5, HeaderOutcomes DEF VolumeInv
  <2>3. ~SyncReturns("UNCERTAIN") /\ ~SyncReturns("COMMITTED")
    BY DEF SyncReturns, ReturnToMutation, ReturnToFormat, ReturnToUpgrade, ReturnToSelfTest,
           SelfTestStages
  <2>4. table[target_slot] = fs_serialize(FILES)
    BY <2>1 DEF VolumeInv, SlotInv
  <2>5. TornHeader.kind = "invalid"
    BY <1>2 DEF TornHeader, Header
  <2>6. h = header[target_slot] \/ h.kind = "invalid"
    BY <2>2, <2>3, <2>4, <2>5
  <2> QED
    BY <1>1, <1>2, <2>1, <2>2, <2>6
<1> QED
  BY <1>3, <1>4, <1>5

\* A mutation that is rolled back in RAM is not on the disk either: the next
\* boot shows the files the call put back (FS_SYNC_FAILED is only returned when
\* the header of the commit is known not to be on the disk).
THEOREM RollbackIsNotDurable == Spec => RolledBackIsNotDurable
<1>1. ASSUME VolumeInv, Next, call.who = "op", call'.pc = "idle", FILES' = call.undo,
             FILES' # FILES
      PROVE  Durable' = Logical(call.undo)
  <2>1. /\ Committing /\ g_active_slot \in Slots
        /\ header'[g_active_slot] = header[g_active_slot]
        /\ table'[g_active_slot] = table[g_active_slot]
        /\ \/ header'[1 - g_active_slot] = header[1 - g_active_slot]
           \/ header'[1 - g_active_slot].kind = "invalid"
    BY <1>1, FailedCommit
  <2>2. /\ First(header) = g_active_slot /\ Loads(header, table, g_active_slot)
        /\ Logical(FilesIn(header, table, g_active_slot)) = Logical(call.undo)
    BY <1>1, <2>1, FirstIs
       DEF VolumeInv, DurInv, SlotInv, SyncsTrusted, Committing, ActiveSlotWins, SlotWins
  <2>3. Snapshot(header', table') = Logical(FilesIn(header, table, g_active_slot))
    BY <2>1, <2>2, KeepsFirst
  <2> QED
    BY <2>2, <2>3, DurableNextIs
<1>2. VolumeInv /\ [Next]_vars =>
        [(/\ call.who = "op" /\ call'.pc = "idle"
          /\ FILES' = call.undo /\ FILES' # FILES) => Durable' = Logical(call.undo)]_vars
  BY <1>1
<1> QED
  BY <1>2, VolumeInit, VolumeStep, PTL DEF Spec, RolledBackIsNotDurable

----------------------------------------------------------------------------
(* The volume implements FsAtomic *)

Unprotected(h, s) == fs_header_is_valid(h[s]) /\ ~IsProtected(h[s])

\* The header of slot s fits its table, or fits no table that loads.
NeverRepaired(h, t, s) == h[s].checksum = t[s] \/ ~LegacyTableIsValid(h[s].checksum)

\* The explicit upgrade writes over a slot that is not tried first, or that no
\* partial write of its table can bring back.
LegacyInv ==
  /\ (\A s \in Slots : Unprotected(header, s)) => NeverRepaired(header, table, First(header))
  /\ g_legacy_upgrade_status = "AVAILABLE" /\ g_backend_status = "VOLATILE_CORRUPT" =>
       \/ First(header) = g_active_slot
       \/ /\ Unprotected(header, 1 - g_active_slot)
          /\ ~LegacyTableIsValid(header[1 - g_active_slot].checksum)
  /\ Committing /\ call.who = "upgrade" => g_backend_status = "VOLATILE_CORRUPT"

LEMMA LegacyInit == Init => LegacyInv
<1> SUFFICES ASSUME Init PROVE LegacyInv
  OBVIOUS
<1>1. PICK d \in InitialDisks : header = d.header /\ table = d.table
  BY DEF Init
<1>2. ASSUME \A s \in Slots : Unprotected(header, s)
      PROVE  NeverRepaired(header, table, First(header))
  <2>1. First(header) = TriedFirst(header)
    BY <1>2 DEF First, TriedFirst, Unprotected
  <2>2. \A s \in Slots : fs_header_is_valid(d.header[s]) /\ ~IsProtected(d.header[s])
    BY <1>1, <1>2 DEF Unprotected
  <2> QED
    BY <1>1, <2>1, <2>2, LegacyPairsIntact DEF NeverRepaired
<1>3. /\ g_legacy_upgrade_status # "AVAILABLE"
      /\ call.pc = "off"
  BY DEF Init, PoweredOff, Returned
<1> QED
  BY <1>2, <1>3 DEF LegacyInv, Committing

\* An upgrade that a load offers.
LEMMA LegacyOffered ==
  ASSUME TypeOK, LegacyInv, NEW init, NEW rd,
         fs_load_from_disk(init, rd).upgrade = "AVAILABLE",
         fs_load_from_disk(init, rd).result \in {"CORRUPT", "LOADED_CORRUPT"}
  PROVE  LET load == fs_load_from_disk(init, rd)
         IN  \/ First(header) = load.slot
             \/ /\ Unprotected(header, 1 - load.slot)
                /\ ~LegacyTableIsValid(header[1 - load.slot].checksum)
<1> DEFINE first == FirstSlot(rd)
           result == [t \in Slots |-> fs_load_slot(rd, t)]
           slot == LoadedSlot(first, result)
           attempts == {result[first]} \cup (IF slot = first THEN {} ELSE {result[1 - first]})
           load == fs_load_from_disk(init, rd)
<1>1. init = "READY" /\ slot # FS_SLOT_COUNT /\ BothLegacy(rd)
  BY DEF fs_load_from_disk
<1>2. load.slot = slot /\ "IO_ERROR" \notin attempts
  BY <1>1 DEF fs_load_from_disk
<1>3. first \in Slots
  BY FirstSlotType
<1>4. \A s \in Slots : Unprotected(header, s) /\ s \notin rd.hdr
  BY <1>1 DEF BothLegacy, HeaderAccepted, Unprotected
<1>5. first = First(header)
  BY <1>4 DEF FirstSlot, First, HeaderAccepted
<1> HIDE DEF load, first
<1>6. slot = first \/ slot = 1 - first
  BY <1>1 DEF LoadedSlot
<1>7. CASE slot = first
  BY <1>2, <1>5, <1>7 DEF load
<1>8. CASE slot = 1 - first /\ slot # first
  <2>1. fs_load_slot(rd, first) # "LOADED" /\ fs_load_slot(rd, first) # "IO_ERROR"
    BY <1>2, <1>3, <1>8 DEF LoadedSlot
  <2>2. HeaderAccepted(rd, first) /\ ~(header[first].version >= 5)
    BY <1>3, <1>4 DEF HeaderAccepted, Unprotected, IsProtected, TypeOK, Header
  <2>3. header[first].checksum # table[first] \/ ~LegacyTableIsValid(table[first])
    BY <2>1, <2>2 DEF fs_load_slot
  <2>4. NeverRepaired(header, table, first)
    BY <1>4, <1>5 DEF LegacyInv
  <2>5. ~LegacyTableIsValid(header[first].checksum)
    BY <2>3, <2>4 DEF NeverRepaired
  <2>6. first = 1 - load.slot
    BY <1>2, <1>3, <1>8
  <2> QED
    BY <1>3, <1>4, <2>5, <2>6 DEF load
<1> QED
  BY <1>6, <1>7, <1>8

LEMMA LegacyLoad ==
  ASSUME TypeOK, LegacyInv, NEW init, NEW rd,
         TakesMountOf(fs_load_from_disk(init, rd)), UNCHANGED disk,
         call'.pc \in {"idle", "selftest"} \/ call'.who # "upgrade",
         g_backend_status' = "VOLATILE_CORRUPT" =>
           fs_load_from_disk(init, rd).result \in {"CORRUPT", "LOADED_CORRUPT"}
  PROVE  LegacyInv'
<1> DEFINE load == fs_load_from_disk(init, rd)
<1>1. /\ header' = header /\ table' = table
      /\ g_active_slot' = load.slot /\ g_legacy_upgrade_status' = load.upgrade
  BY DEF TakesMountOf, disk
<1>2. load.upgrade = "AVAILABLE" /\ g_backend_status' = "VOLATILE_CORRUPT" =>
        \/ First(header) = load.slot
        \/ /\ Unprotected(header, 1 - load.slot)
           /\ ~LegacyTableIsValid(header[1 - load.slot].checksum)
  BY LegacyOffered
<1> HIDE DEF load
<1>3. ((\A s \in Slots : Unprotected(header, s)) => NeverRepaired(header, table, First(header)))'
  BY <1>1 DEF LegacyInv
<1> QED
  BY <1>1, <1>2, <1>3 DEF LegacyInv, Committing

LEMMA LegacyMount ==
  ASSUME TypeInv, SlotInv, LegacyInv, NEW init, NEW rd, fs_init(init, rd)
  PROVE  LegacyInv'
<1> DEFINE load == fs_load_from_disk(init, rd)
<1>1. /\ call.pc = "off" /\ TakesMountOf(load) /\ UNCHANGED disk
      /\ MountsVolume(load) \/ MountsFreshFiles(load)
  BY DEF fs_init
<1>2. g_backend_status = "UNINITIALIZED"
  BY <1>1 DEF SlotInv
<1> HIDE DEF load
<1>3. call'.pc \in {"idle", "selftest"} \/ call'.who # "upgrade"
  BY <1>1 DEF MountsVolume, MountsFreshFiles, Returned, Syncing
<1>4. g_backend_status' = "VOLATILE_CORRUPT" => load.result \in {"CORRUPT", "LOADED_CORRUPT"}
  BY <1>1, <1>2 DEF MountsVolume, MountsFreshFiles, DegradedBackend
<1> QED
  BY <1>1, <1>3, <1>4, LegacyLoad DEF load, TypeInv

LEMMA LegacyReload ==
  ASSUME TypeInv, LegacyInv, NEW init, NEW rd, fs_self_test_reload(init, rd)
  PROVE  LegacyInv'
<1> DEFINE load == fs_load_from_disk(init, rd)
<1>1. TakesMountOf(load) /\ UNCHANGED disk
  BY DEF fs_self_test_reload
<1>2. call'.pc \in {"idle", "selftest"}
  BY DEF fs_self_test_reload, SelfTestFails, Returned, Syncing
<1>3. g_backend_status' = "VOLATILE_CORRUPT" => load.result \in {"CORRUPT", "LOADED_CORRUPT"}
  BY DEF fs_self_test_reload, SelfTestFails, DegradedBackend
<1> HIDE DEF load
<1> QED
  BY <1>1, <1>2, <1>3, LegacyLoad DEF load, TypeInv

\* Steps that leave the disk and the mount alone.
LEMMA LegacyFrame ==
  ASSUME LegacyInv,
         UNCHANGED <<header, table, g_active_slot, g_legacy_upgrade_status>>,
         g_backend_status' = "VOLATILE_CORRUPT" => g_backend_status = "VOLATILE_CORRUPT",
         call'.pc = "table" /\ call'.who = "upgrade" => g_backend_status' = "VOLATILE_CORRUPT",
         call'.pc # "header"
  PROVE  LegacyInv'
<1>1. /\ header' = header /\ table' = table /\ g_active_slot' = g_active_slot
      /\ g_legacy_upgrade_status' = g_legacy_upgrade_status
  OBVIOUS
<1>2. ((\A s \in Slots : Unprotected(header, s)) => NeverRepaired(header, table, First(header)))'
  BY <1>1 DEF LegacyInv
<1> QED
  BY <1>1, <1>2 DEF LegacyInv, Committing

LEMMA LegacyCommitChanges ==
  ASSUME LegacyInv, call.pc = "idle", NEW files, fs_commit_changes(files)
  PROVE  LegacyInv'
BY LegacyFrame DEF fs_commit_changes, disk, mount, Syncing

LEMMA LegacyMutate == LegacyInv /\ Mutate => LegacyInv'
BY LegacyCommitChanges
   DEF Mutate, fs_touch, fs_remove, fs_system_remove, fs_remove_internal, fs_write_bytes,
       fs_system_write_bytes, fs_write_bytes_internal, fs_append, fs_rename,
       fs_system_rename, fs_rename_internal

LEMMA LegacyUpgrade == LegacyInv /\ fs_upgrade_legacy_snapshot => LegacyInv'
BY LegacyFrame DEF fs_upgrade_legacy_snapshot, disk, mount, Syncing

LEMMA LegacySelfTest == TypeInv /\ LegacyInv /\ SelfTestMutates => LegacyInv'
<1> SUFFICES ASSUME TypeInv, LegacyInv, SelfTestMutates PROVE LegacyInv'
  OBVIOUS
<1>1. call.who \in SelfTestStages
  BY DEF SelfTestMutates, TypeInv, CallShape
<1> QED
  BY <1>1, LegacyFrame
     DEF SelfTestMutates, SelfTestFails, disk, mount, Syncing, Returned, SelfTestStages

\* The state of the two slots while a commit is under way, by its caller.
LEMMA CommitShape ==
  ASSUME VolumeInv, LegacyInv, Committing
  PROVE  \/ \A s \in Slots : header[s].kind = "blank"
         \/ /\ g_active_slot \in Slots /\ target_slot = 1 - g_active_slot
            /\ Loads(header, table, g_active_slot)
            /\ \/ First(header) = g_active_slot
               \/ /\ Unprotected(header, target_slot)
                  /\ ~LegacyTableIsValid(header[target_slot].checksum)
<1>1. CASE call.who = "format"
  BY <1>1 DEF VolumeInv, DurInv
<1>2. CASE call.who # "format"
  <2>1. g_active_slot \in Slots /\ target_slot = 1 - g_active_slot
    BY <1>2, CommitsFromSlot, TargetIsOther DEF VolumeInv, TypeInv
  <2>2. Loads(header, table, g_active_slot)
    BY <1>2 DEF VolumeInv, DurInv
  <2>3. CASE call.who = "upgrade"
    <3>1. g_legacy_upgrade_status = "AVAILABLE" /\ g_backend_status = "VOLATILE_CORRUPT"
      BY <2>3 DEF VolumeInv, SlotInv, LegacyInv, Committing
    <3> QED
      BY <2>1, <2>2, <3>1 DEF LegacyInv
  <2>4. CASE call.who # "upgrade"
    <3>1. call.who \in {"op", "metadata"} \cup SelfTestStages
      BY <1>2, <2>4 DEF VolumeInv, TypeInv, TypeOK, CallShape, Callers, Committing
    <3>2. First(header) = g_active_slot
      BY <3>1, FirstIs DEF VolumeInv, SlotInv, SyncsTrusted, ActiveSlotWins, SlotWins, Committing
    <3> QED
      BY <2>1, <2>2, <3>2
  <2> QED
    BY <2>3, <2>4
<1> QED
  BY <1>1, <1>2

\* The first conjunct through a write to the target slot.
LEMMA LegacyWritten ==
  ASSUME VolumeInv, LegacyInv, Committing,
         NEW g, NEW u,
         \/ /\ \A s \in Slots : g[s] = header[s]
            /\ \A s \in Slots \ {target_slot} : u[s] = table[s]
         \/ ~Unprotected(g, target_slot),
         \A s \in Slots : Unprotected(g, s)
  PROVE  NeverRepaired(g, u, First(g))
<1>1. target_slot \in Slots
  BY CommitHeaderType DEF VolumeInv, TypeInv
<1>2. /\ \A s \in Slots : g[s] = header[s]
      /\ \A s \in Slots \ {target_slot} : u[s] = table[s]
  BY <1>1
<1>3. First(g) = First(header) /\ First(header) \in Slots
  BY <1>2, FirstType DEF First
<1>4. \A s \in Slots : Unprotected(header, s)
  BY <1>2 DEF Unprotected
<1>5. NeverRepaired(header, table, First(header))
  BY <1>4 DEF LegacyInv
<1>6. CASE First(header) # target_slot
  BY <1>2, <1>3, <1>5, <1>6 DEF NeverRepaired
<1>7. CASE First(header) = target_slot
  <2>1. ~LegacyTableIsValid(header[target_slot].checksum)
    BY <1>1, <1>4, <1>7, CommitShape DEF Unprotected, fs_header_is_valid
  <2> QED
    BY <1>1, <1>2, <1>3, <1>7, <2>1 DEF NeverRepaired
<1> QED
  BY <1>6, <1>7

LEMMA LegacySyncFails ==
  ASSUME VolumeInv, LegacyInv, Committing,
         NEW result \in {"FAILED", "UNCERTAIN"}, SyncReturns(result),
         (\A s \in Slots : Unprotected(header', s)) =>
           NeverRepaired(header', table', First(header')),
         call.who = "upgrade" /\ result = "FAILED" =>
           \/ \A s \in Slots : header'[s] = header[s]
           \/ First(header') = g_active_slot
  PROVE  LegacyInv'
<1>1. /\ g_active_slot' = g_active_slot
      /\ call'.pc \in {"idle", "reload"}
  BY SyncFailsShape DEF VolumeInv
<1>2. ASSUME g_legacy_upgrade_status' = "AVAILABLE", g_backend_status' = "VOLATILE_CORRUPT"
      PROVE  \/ First(header') = g_active_slot'
             \/ /\ Unprotected(header', 1 - g_active_slot')
                /\ ~LegacyTableIsValid(header'[1 - g_active_slot'].checksum)
  <2>1. call.who = "upgrade" /\ result = "FAILED"
    BY <1>2 DEF SyncReturns, ReturnToMutation, ReturnToFormat, ReturnToUpgrade,
       ReturnToSelfTest, SelfTestFails, VolumeInv, SlotInv, SyncsTrusted, Committing
  <2>2. /\ g_legacy_upgrade_status = "AVAILABLE" /\ g_backend_status = "VOLATILE_CORRUPT"
        /\ g_active_slot \in Slots
    BY <2>1 DEF LegacyInv, VolumeInv, SlotInv, Committing
  <2>3. CASE First(header') = g_active_slot
    BY <1>1, <2>3
  <2>4. CASE \A s \in Slots : header'[s] = header[s]
    <3>1. First(header') = First(header)
      BY <2>4 DEF First
    <3>2. 1 - g_active_slot \in Slots
      BY <2>2
    <3> QED
      BY <1>1, <2>2, <2>4, <3>1, <3>2 DEF LegacyInv, Unprotected
  <2> QED
    BY <2>1, <2>3, <2>4
<1> QED
  BY <1>1, <1>2 DEF LegacyInv, Committing

LEMMA LegacyWriteTable == VolumeInv /\ LegacyInv /\ WriteTable => LegacyInv'
<1> SUFFICES ASSUME VolumeInv, LegacyInv, WriteTable PROVE LegacyInv'
  OBVIOUS
<1>1. call.pc = "table" /\ Committing /\ header' = header
  BY DEF WriteTable, Committing
<1>a. \E t : table' = [table EXCEPT ![target_slot] = t]
  BY Zenon DEF WriteTable
<1>2. PICK t : table' = [table EXCEPT ![target_slot] = t]
  BY <1>a
<1>3. \A s \in Slots \ {target_slot} : table'[s] = table[s]
  BY <1>2 DEF VolumeInv, TypeInv, TypeOK
<1>4. (\A s \in Slots : Unprotected(header', s)) =>
        NeverRepaired(header', table', First(header'))
  BY <1>1, <1>3, LegacyWritten
<1>5. \/ SyncReturns("FAILED") \/ SyncReturns("UNCERTAIN")
      \/ /\ call' = Syncing("header", call.who, call.undo)
         /\ UNCHANGED <<mount, g_backend_status, g_legacy_upgrade_status>>
  BY Zenon DEF WriteTable, AfterWrite
<1>6. CASE SyncReturns("FAILED") \/ SyncReturns("UNCERTAIN")
  BY <1>1, <1>4, <1>6, LegacySyncFails
<1>7. CASE /\ call' = Syncing("header", call.who, call.undo)
           /\ UNCHANGED <<mount, g_backend_status, g_legacy_upgrade_status>>
  <2>1. /\ call'.pc = "header" /\ call'.who = call.who
        /\ g_active_slot' = g_active_slot /\ g_backend_status' = g_backend_status
        /\ g_legacy_upgrade_status' = g_legacy_upgrade_status
    BY <1>7 DEF Syncing, mount
  <2> QED
    BY <1>1, <1>4, <2>1 DEF LegacyInv, Committing
<1> QED
  BY <1>5, <1>6, <1>7

LEMMA LegacyWriteHeader == VolumeInv /\ LegacyInv /\ WriteHeader => LegacyInv'
<1> SUFFICES ASSUME VolumeInv, LegacyInv, WriteHeader PROVE LegacyInv'
  OBVIOUS
<1>1. call.pc = "header" /\ Committing /\ table' = table
  BY DEF WriteHeader, Committing
<1>2. PICK h \in {header[target_slot], TornHeader, CommitHeader} :
        /\ header' = [header EXCEPT ![target_slot] = h]
        /\ \/ SyncReturns("FAILED") /\ (h = CommitHeader => table[target_slot] # fs_serialize(FILES)
                                                            \/ h = header[target_slot])
           \/ SyncReturns("UNCERTAIN")
           \/ SyncReturns("COMMITTED") /\ h = CommitHeader
  BY HeaderOutcomes DEF VolumeInv
<1>3. /\ target_slot \in Slots /\ header \in [Slots -> Header]
      /\ header'[target_slot] = h
      /\ \A s \in Slots \ {target_slot} : header'[s] = header[s]
  BY <1>2, CommitHeaderType DEF VolumeInv, TypeInv, TypeOK
<1>4. /\ TornHeader.kind = "invalid"
      /\ CommitHeader.version = 5
  BY <1>3 DEF TornHeader, CommitHeader, Header
<1>5. table[target_slot] = fs_serialize(FILES)
  BY <1>1 DEF VolumeInv, SlotInv
<1> HIDE DEF TornHeader, CommitHeader
<1>6. h = header[target_slot] \/ ~Unprotected(header', target_slot)
  BY <1>2, <1>3, <1>4 DEF Unprotected, fs_header_is_valid, IsProtected
<1>7. (\A s \in Slots : Unprotected(header', s)) =>
        NeverRepaired(header', table', First(header'))
  BY <1>1, <1>3, <1>6, LegacyWritten
<1>8. CASE SyncReturns("UNCERTAIN")
  BY <1>1, <1>7, <1>8, LegacySyncFails
<1>9. CASE SyncReturns("FAILED") /\ (h = header[target_slot] \/ h = TornHeader)
  <2>1. h = header[target_slot] => \A s \in Slots : header'[s] = header[s]
    BY <1>3
  <2>2. h = TornHeader /\ call.who = "upgrade" => First(header') = g_active_slot
    <3> SUFFICES ASSUME h = TornHeader, call.who = "upgrade"
                 PROVE  First(header') = g_active_slot
      OBVIOUS
    <3>1. /\ g_active_slot \in Slots /\ target_slot = 1 - g_active_slot
          /\ fs_header_is_valid(header[g_active_slot])
      BY <1>1, CommitsFromSlot, TargetIsOther DEF VolumeInv, TypeInv, DurInv, Loads
    <3>2. /\ fs_header_is_valid(header'[g_active_slot])
          /\ ~fs_header_is_valid(header'[1 - g_active_slot])
      BY <1>3, <1>4, <3>1 DEF fs_header_is_valid
    <3> QED
      BY <3>1, <3>2 DEF First
  <2> QED
    BY <1>1, <1>7, <1>9, <2>1, <2>2, LegacySyncFails
<1>10. CASE SyncReturns("COMMITTED") /\ h = CommitHeader
  <2>1. g_legacy_upgrade_status' # "AVAILABLE"
    BY <1>1, <1>10 DEF SyncReturns, ReturnToMutation, ReturnToFormat, ReturnToUpgrade,
       ReturnToSelfTest, VolumeInv, SlotInv, SyncsTrusted
  <2>2. call'.pc \in {"idle", "selftest", "reload"}
    BY <1>10 DEF SyncReturns, ReturnToMutation, ReturnToFormat, ReturnToUpgrade,
       ReturnToSelfTest, Returned, Syncing
  <2> QED
    BY <1>7, <2>1, <2>2 DEF LegacyInv, Committing
<1> QED
  BY <1>2, <1>5, <1>8, <1>9, <1>10

\* The disk after a loss of power.
LEMMA CrashOutcomes ==
  ASSUME TypeInv, Crash
  PROVE  \/ UNCHANGED <<header, table>>
         \/ /\ call.pc = "table" /\ header' = header
            /\ \A s \in Slots \ {target_slot} : table'[s] = table[s]
         \/ /\ call.pc = "header" /\ table' = table
            /\ \E h \in {header[target_slot], TornHeader, CommitHeader} :
                 header' = [header EXCEPT ![target_slot] = h]
<1>1. CASE call.pc = "table"
  <2>1. header' = header /\ \E t : table' = [table EXCEPT ![target_slot] = t]
    BY <1>1 DEF Crash
  <2>2. PICK t : table' = [table EXCEPT ![target_slot] = t]
    BY <2>1
  <2>3. \A s \in Slots \ {target_slot} : table'[s] = table[s]
    BY <2>2 DEF TypeInv, TypeOK
  <2> QED
    BY <1>1, <2>1, <2>3
<1>2. CASE call.pc = "header"
  BY <1>2 DEF Crash, HeaderAfter
<1>3. CASE call.pc \notin {"table", "header"}
  BY <1>3 DEF Crash, disk
<1> QED
  BY <1>1, <1>2, <1>3

LEMMA LegacyCrash == VolumeInv /\ LegacyInv /\ Crash => LegacyInv'
<1> SUFFICES ASSUME VolumeInv, LegacyInv, Crash PROVE LegacyInv'
  OBVIOUS
<1>1. call'.pc = "off" /\ g_legacy_upgrade_status' = "UNAVAILABLE"
  BY DEF Crash, Returned
<1>2. ASSUME \A s \in Slots : Unprotected(header', s)
      PROVE  NeverRepaired(header', table', First(header'))
  <2>1. CASE UNCHANGED <<header, table>>
    BY <1>2, <2>1 DEF LegacyInv
  <2>2. CASE /\ call.pc = "table" /\ header' = header
             /\ \A s \in Slots \ {target_slot} : table'[s] = table[s]
    BY <1>2, <2>2, LegacyWritten DEF Committing
  <2>3. CASE /\ call.pc = "header" /\ table' = table
             /\ \E h \in {header[target_slot], TornHeader, CommitHeader} :
                  header' = [header EXCEPT ![target_slot] = h]
    <3>1. PICK h \in {header[target_slot], TornHeader, CommitHeader} :
            header' = [header EXCEPT ![target_slot] = h]
      BY <2>3
    <3>2. /\ target_slot \in Slots /\ header'[target_slot] = h
          /\ \A s \in Slots \ {target_slot} : header'[s] = header[s]
          /\ TornHeader.kind = "invalid" /\ CommitHeader.version = 5
      BY <3>1, CommitHeaderType
         DEF VolumeInv, TypeInv, TypeOK, TornHeader, CommitHeader, Header
    <3> HIDE DEF TornHeader, CommitHeader
    <3>3. h = header[target_slot] \/ ~Unprotected(header', target_slot)
      BY <3>1, <3>2 DEF Unprotected, fs_header_is_valid, IsProtected
    <3> QED
      BY <1>2, <2>3, <3>2, <3>3, LegacyWritten DEF Committing
  <2> QED
    BY <2>1, <2>2, <2>3, CrashOutcomes DEF VolumeInv
<1> QED
  BY <1>1, <1>2 DEF LegacyInv, Committing

LEMMA LegacyStep == VolumeInv /\ LegacyInv /\ [Next]_vars => LegacyInv'
<1> SUFFICES ASSUME VolumeInv, LegacyInv, [Next]_vars PROVE LegacyInv'
  OBVIOUS
<1>1. CASE UNCHANGED vars
  <2>1. /\ header' = header /\ table' = table /\ g_active_slot' = g_active_slot
        /\ g_backend_status' = g_backend_status /\ call' = call
        /\ g_legacy_upgrade_status' = g_legacy_upgrade_status
    BY <1>1 DEF vars
  <2> QED
    BY <2>1 DEF LegacyInv, Committing
<1>2. CASE Next
  BY <1>2, LegacyMount, LegacyReload, LegacyMutate, LegacyUpgrade, LegacyWriteTable,
     LegacyWriteHeader, LegacySelfTest, LegacyCrash DEF Next, VolumeInv
<1> QED
  BY <1>1, <1>2

----------------------------------------------------------------------------
(* The refinement, step by step *)

\* A slot whose header was computed from a table that does not load never loads.
LEMMA NeverLoads ==
  ASSUME NEW h, NEW t, NEW s, ~IsProtected(h[s]), h[s] \in Header,
         ~LegacyTableIsValid(h[s].checksum)
  PROVE  ~Loads(h, t, s)
BY DEF Loads, IsProtected, Header

\* Until the header of the commit is on the disk, the next boot shows what it
\* would have shown before, whatever of the new table has been written.
LEMMA DurableKept ==
  ASSUME VolumeInv, LegacyInv, Committing,
         \A s \in Slots \ {target_slot} : header'[s] = header[s] /\ table'[s] = table[s],
         header'[target_slot] = header[target_slot] \/ header'[target_slot].kind = "invalid"
  PROVE  Durable' = Durable
<1>1. target_slot \in Slots /\ header \in [Slots -> Header]
  BY CommitHeaderType DEF VolumeInv, TypeInv, TypeOK
<1>2. CASE \A s \in Slots : header[s].kind = "blank"
  <2>1. \A s \in Slots : header'[s].kind \in {"blank", "invalid"}
    BY <1>1, <1>2
  <2>2. \A s \in Slots : ~Loads(header, table, s) /\ ~Loads(header', table', s)
    BY <1>2, <2>1 DEF Loads, fs_header_is_valid
  <2>3. /\ First(header) \in Slots /\ 1 - First(header) \in Slots
        /\ First(header') \in Slots /\ 1 - First(header') \in Slots
    BY DEF First
  <2> QED
    BY <2>2, <2>3, DurableIs, DurableNextIs DEF Snapshot
<1>3. CASE /\ g_active_slot \in Slots /\ target_slot = 1 - g_active_slot
           /\ Loads(header, table, g_active_slot)
           /\ First(header) = g_active_slot
  <2>1. /\ header'[g_active_slot] = header[g_active_slot]
        /\ table'[g_active_slot] = table[g_active_slot]
    BY <1>3
  <2>2. Snapshot(header', table') = Logical(FilesIn(header, table, g_active_slot))
    BY <1>3, <2>1, KeepsFirst
  <2>3. Snapshot(header, table) = Logical(FilesIn(header, table, g_active_slot))
    BY <1>3 DEF Snapshot
  <2> QED
    BY <2>2, <2>3, DurableIs, DurableNextIs
<1>4. CASE /\ g_active_slot \in Slots /\ target_slot = 1 - g_active_slot
           /\ Loads(header, table, g_active_slot)
           /\ First(header) # g_active_slot
           /\ Unprotected(header, target_slot)
           /\ ~LegacyTableIsValid(header[target_slot].checksum)
  <2>1. First(header) = target_slot /\ 1 - target_slot = g_active_slot
    BY <1>1, <1>4, FirstType
  <2>2. /\ Loads(header', table', g_active_slot)
        /\ FilesIn(header', table', g_active_slot) = FilesIn(header, table, g_active_slot)
    BY <1>4, LoadsFrame
  <2>3. ~Loads(header, table, target_slot)
    BY <1>1, <1>4, NeverLoads DEF Unprotected
  <2>4. Snapshot(header, table) = Logical(FilesIn(header, table, g_active_slot))
    BY <1>4, <2>1, <2>3 DEF Snapshot
  <2>5. Snapshot(header', table') = Logical(FilesIn(header, table, g_active_slot))
    <3>1. ~Loads(header', table', target_slot)
      <4>1. CASE header'[target_slot] = header[target_slot]
        BY <1>1, <1>4, <4>1, NeverLoads DEF Unprotected
      <4>2. CASE header'[target_slot].kind = "invalid"
        BY <4>2 DEF Loads, fs_header_is_valid
      <4> QED
        BY <4>1, <4>2
    <3>2. First(header') \in {g_active_slot, target_slot}
      BY <1>4, FirstType
    <3>3. 1 - g_active_slot = target_slot
      BY <1>4
    <3> QED
      BY <2>1, <2>2, <3>1, <3>2, <3>3 DEF Snapshot
  <2> QED
    BY <2>4, <2>5, DurableIs, DurableNextIs
<1> QED
  BY <1>2, <1>3, <1>4, CommitShape

\* The mode by the state.
LEMMA ModeIs ==
  /\ call.pc = "off" => Mode = "off"
  /\ call.pc = "idle" => Mode = IF g_backend_status = "PERSISTENT" THEN "persistent"
                                ELSE "volatile"
  /\ call.pc \notin {"off", "idle"} => Mode = "busy"
BY DEF Mode

LEMMA ModeNextIs ==
  /\ call'.pc = "off" => Mode' = "off"
  /\ call'.pc = "idle" => Mode' = IF g_backend_status' = "PERSISTENT" THEN "persistent"
                                  ELSE "volatile"
  /\ call'.pc \notin {"off", "idle"} => Mode' = "busy"
BY DEF Mode

\* What a well-formed array shows is a snapshot.
LEMMA LogicalType ==
  ASSUME NEW files, WellFormed(files)
  PROVE  Logical(files) \in SUBSET (Names \X Seq(Bytes))
<1>1. ASSUME NEW i \in InUse(files)
      PROVE  files[i].name \in Names /\ files[i].data \in Seq(Bytes)
  BY DEF WellFormed, InUse, FileArray, File
<1> QED
  BY <1>1 DEF Logical

LEMMA DurableType == TypeOK => Durable \in SUBSET (Names \X Seq(Bytes))
<1> SUFFICES ASSUME TypeOK PROVE Durable \in SUBSET (Names \X Seq(Bytes))
  OBVIOUS
<1>1. ASSUME NEW s \in Slots, Loads(header, table, s)
      PROVE  Logical(FilesIn(header, table, s)) \in SUBSET (Names \X Seq(Bytes))
  <2>1. fs_load_slot(NoFault, s) = "LOADED" /\ FilesOfSlot(s) = FilesIn(header, table, s)
    BY <1>1, LoadsIs
  <2> QED
    BY <2>1, SlotSound, LogicalType
<1>2. First(header) \in Slots /\ 1 - First(header) \in Slots
  BY FirstType
<1> QED
  BY <1>1, <1>2, DurableIs DEF Snapshot

\* In mode "persistent" the view is what is durable.
LEMMA PersistentView ==
  VolumeInv /\ call.pc = "idle" /\ g_backend_status = "PERSISTENT" => Durable = Logical(FILES)
<1> SUFFICES ASSUME VolumeInv, call.pc = "idle", g_backend_status = "PERSISTENT"
             PROVE  Durable = Logical(FILES)
  OBVIOUS
<1>1. /\ Healthy(header, table)
      /\ Logical(FilesIn(header, table, g_active_slot)) = Logical(FILES)
  BY DEF VolumeInv, DurInv
<1>2. First(header) = g_active_slot
  BY FirstIs DEF VolumeInv, SlotInv, ActiveSlotWins, SlotWins
<1> QED
  BY <1>1, <1>2, DurableIs DEF Snapshot, Healthy

\* A step that leaves what is durable alone is work, if it does not switch the
\* machine off or make a volatile volume persistent.
LEMMA WorkStep ==
  ASSUME VolumeInv', Durable' = Durable, call'.pc # "off",
         Mode = "volatile" => Mode' \in {"volatile", "busy"}
  PROVE  Atomic!Work
<1>1. Logical(FILES') \in SUBSET (Names \X Seq(Bytes))
  BY LogicalType DEF VolumeInv, SoundInv, Sound
<1>2. Mode' \in {"persistent", "volatile", "busy"}
  BY ModeNextIs
<1>3. (VolumeInv /\ call.pc = "idle" /\ g_backend_status = "PERSISTENT" =>
         Durable = Logical(FILES))'
  BY PersistentView, PTL
<1>4. Mode' = "persistent" => Logical(FILES') = Durable
  <2> SUFFICES ASSUME Mode' = "persistent" PROVE Logical(FILES') = Durable
    OBVIOUS
  <2>1. call'.pc = "idle" /\ g_backend_status' = "PERSISTENT"
    BY ModeNextIs
  <2>2. Durable' = Logical(FILES')
    BY <1>3, <2>1
  <2> QED
    BY <2>2
<1>5. Logical(FILES)' = Logical(FILES')
  BY DEF Logical, InUse
<1> QED
  BY <1>1, <1>2, <1>4, <1>5 DEF Atomic!Work

LEMMA DurableFrame ==
  ASSUME UNCHANGED <<header, table>>
  PROVE  Durable' = Durable
<1>1. header' = header /\ table' = table
  OBVIOUS
<1> QED
  BY <1>1, DurableIs, DurableNextIs

LEMMA AtomicMount ==
  ASSUME VolumeInv', NEW init, NEW rd, fs_init(init, rd) \/ fs_self_test_reload(init, rd)
  PROVE  Atomic!Work
<1>1. CASE fs_init(init, rd)
  <2>1. call.pc = "off" /\ UNCHANGED <<header, table>>
    BY <1>1 DEF fs_init, disk
  <2>2. call'.pc \in {"idle", "table"}
    <3> DEFINE load == fs_load_from_disk(init, rd)
    <3>1. MountsVolume(load) \/ MountsFreshFiles(load)
      BY <1>1 DEF fs_init
    <3> HIDE DEF load
    <3> QED
      BY <3>1 DEF MountsVolume, MountsFreshFiles, Returned, Syncing
  <2> QED
    BY <2>1, <2>2, ModeIs, DurableFrame, WorkStep
<1>2. CASE fs_self_test_reload(init, rd)
  <2>1. call.pc = "reload" /\ UNCHANGED <<header, table>>
    BY <1>2 DEF fs_self_test_reload, disk
  <2>2. call'.pc \in {"idle", "selftest"}
    BY <1>2 DEF fs_self_test_reload, SelfTestFails, Returned, Syncing
  <2> QED
    BY <2>1, <2>2, ModeIs, DurableFrame, WorkStep
<1> QED
  BY <1>1, <1>2

LEMMA AtomicCommitChanges ==
  ASSUME VolumeInv', call.pc = "idle", NEW files, fs_commit_changes(files)
  PROVE  Atomic!Work
<1>1. UNCHANGED <<header, table>>
  BY DEF fs_commit_changes, disk
<1>2. /\ call'.pc \in {"idle", "table"}
      /\ g_backend_status # "PERSISTENT" => call'.pc = "idle" /\ g_backend_status' # "PERSISTENT"
  BY DEF fs_commit_changes, Syncing
<1>3. Mode = "volatile" => Mode' \in {"volatile", "busy"}
  BY <1>2, ModeIs, ModeNextIs
<1> QED
  BY <1>1, <1>2, <1>3, DurableFrame, WorkStep

LEMMA AtomicMutate == VolumeInv' /\ Mutate => Atomic!Work
BY AtomicCommitChanges
   DEF Mutate, fs_touch, fs_remove, fs_system_remove, fs_remove_internal, fs_write_bytes,
       fs_system_write_bytes, fs_write_bytes_internal, fs_append, fs_rename,
       fs_system_rename, fs_rename_internal

LEMMA AtomicUpgrade == VolumeInv' /\ fs_upgrade_legacy_snapshot => Atomic!Work
<1> SUFFICES ASSUME VolumeInv', fs_upgrade_legacy_snapshot PROVE Atomic!Work
  OBVIOUS
<1>1. UNCHANGED <<header, table>> /\ call'.pc = "table"
  BY DEF fs_upgrade_legacy_snapshot, disk, Syncing
<1> QED
  BY <1>1, ModeNextIs, DurableFrame, WorkStep

LEMMA AtomicSelfTest == VolumeInv' /\ SelfTestMutates => Atomic!Work
<1> SUFFICES ASSUME VolumeInv', SelfTestMutates PROVE Atomic!Work
  OBVIOUS
<1>1. UNCHANGED <<header, table>> /\ call.pc = "selftest" /\ call'.pc \in {"idle", "table"}
  BY DEF SelfTestMutates, SelfTestFails, disk, Syncing, Returned
<1> QED
  BY <1>1, ModeIs, DurableFrame, WorkStep

LEMMA AtomicWriteTable == VolumeInv /\ LegacyInv /\ VolumeInv' /\ WriteTable => Atomic!Work
<1> SUFFICES ASSUME VolumeInv, LegacyInv, VolumeInv', WriteTable PROVE Atomic!Work
  OBVIOUS
<1>1. call.pc = "table" /\ Committing /\ header' = header
  BY DEF WriteTable, Committing
<1>a. \E t : table' = [table EXCEPT ![target_slot] = t]
  BY Zenon DEF WriteTable
<1>2. PICK t : table' = [table EXCEPT ![target_slot] = t]
  BY <1>a
<1>3. \A s \in Slots \ {target_slot} : header'[s] = header[s] /\ table'[s] = table[s]
  BY <1>1, <1>2 DEF VolumeInv, TypeInv, TypeOK
<1>4. Durable' = Durable
  BY <1>1, <1>3, DurableKept
<1>5. \/ SyncReturns("FAILED") \/ SyncReturns("UNCERTAIN")
      \/ call' = Syncing("header", call.who, call.undo)
  BY Zenon DEF WriteTable, AfterWrite
<1>6. call'.pc # "off"
  BY <1>1, <1>5, SyncFailsShape DEF VolumeInv, Syncing
<1> QED
  BY <1>1, <1>4, <1>6, ModeIs, WorkStep

\* The header write: the commit point, or its uncertain outcome.
LEMMA AtomicCommit ==
  ASSUME VolumeInv, call.pc = "header", Durable' = Logical(FILES),
         SyncReturns("COMMITTED")
  PROVE  Atomic!Commit
<1>1. Mode = "busy"
  BY ModeIs
<1>2. FILES' = FILES
  <2>1. CASE call.who = "format"
    <3>1. NoArtifact(FILES) /\ FILES \in FileArray
      BY <2>1 DEF VolumeInv, SoundInv, SelfTestStages, TypeInv, TypeOK
    <3>2. FILES' = fs_clear_self_test_artifacts(FILES)
      BY <2>1 DEF SyncReturns, ReturnToMutation, ReturnToFormat, ReturnToUpgrade,
         ReturnToSelfTest, SelfTestStages
    <3>3. \A i \in FileIndex : ~fs_file_is_self_test_artifact(FILES[i])
      BY <3>1 DEF NoArtifact, InUse, fs_file_is_self_test_artifact
    <3>4. fs_clear_self_test_artifacts(FILES) = [i \in FileIndex |-> FILES[i]]
      BY <3>3 DEF fs_clear_self_test_artifacts
    <3> QED
      BY <3>1, <3>2, <3>4 DEF FileArray
  <2>2. CASE call.who # "format"
    BY <2>2 DEF SyncReturns, ReturnToMutation, ReturnToFormat, ReturnToUpgrade,
       ReturnToSelfTest
  <2> QED
    BY <2>1, <2>2
<1>3. \/ call'.pc = "idle" /\ g_backend_status' = "PERSISTENT"
      \/ call'.pc \in {"selftest", "reload"}
  BY DEF SyncReturns, ReturnToMutation, ReturnToFormat, ReturnToUpgrade, ReturnToSelfTest,
         Returned, Syncing, VolumeInv, SlotInv, SyncsTrusted
<1>4. Mode' \in {"persistent", "busy"}
  BY <1>3, ModeNextIs
<1>5. Logical(FILES)' = Logical(FILES)
  BY <1>2 DEF Logical, InUse
<1> QED
  BY <1>1, <1>4, <1>5 DEF Atomic!Commit

LEMMA AtomicGiveUp ==
  ASSUME VolumeInv, call.pc = "header", Durable' = Logical(FILES), SyncReturns("UNCERTAIN")
  PROVE  Atomic!GiveUp
<1>1. Mode = "busy"
  BY ModeIs
<1>2. FILES' = FILES
  BY DEF SyncReturns, ReturnToMutation, ReturnToFormat, ReturnToUpgrade, ReturnToSelfTest
<1>3. /\ g_backend_status' # "PERSISTENT"
      /\ call'.pc \in {"idle", "reload"}
  BY SyncFailsShape DEF VolumeInv, Committing
<1>4. Mode' \in {"volatile", "busy"}
  BY <1>3, ModeNextIs
<1>5. Logical(FILES)' = Logical(FILES)
  BY <1>2 DEF Logical, InUse
<1> QED
  BY <1>1, <1>4, <1>5 DEF Atomic!GiveUp

LEMMA AtomicWriteHeader == VolumeInv /\ LegacyInv /\ VolumeInv' /\ WriteHeader => Atomic!Next
<1> SUFFICES ASSUME VolumeInv, LegacyInv, VolumeInv', WriteHeader PROVE Atomic!Next
  OBVIOUS
<1>1. call.pc = "header" /\ Committing /\ table' = table
  BY DEF WriteHeader, Committing
<1>2. PICK h \in {header[target_slot], TornHeader, CommitHeader} :
        /\ header' = [header EXCEPT ![target_slot] = h]
        /\ \/ SyncReturns("FAILED") /\ (h = CommitHeader => table[target_slot] # fs_serialize(FILES)
                                                            \/ h = header[target_slot])
           \/ SyncReturns("UNCERTAIN")
           \/ SyncReturns("COMMITTED") /\ h = CommitHeader
  BY HeaderOutcomes DEF VolumeInv
<1>3. /\ target_slot \in Slots /\ header \in [Slots -> Header]
      /\ header'[target_slot] = h
      /\ \A s \in Slots \ {target_slot} : header'[s] = header[s]
  BY <1>2, CommitHeaderType DEF VolumeInv, TypeInv, TypeOK
<1>4. TornHeader.kind = "invalid"
  BY <1>3 DEF TornHeader, Header
<1>5. table[target_slot] = fs_serialize(FILES)
  BY <1>1 DEF VolumeInv, SlotInv
<1>6. CASE h = CommitHeader /\ SyncReturns("COMMITTED")
  <2>1. Durable' = Logical(FILES)
    BY <1>1, <1>2, <1>6, CommittedDisk, DurableNextIs DEF VolumeInv, Snapshot, Healthy
  <2> QED
    BY <1>1, <1>6, <2>1, AtomicCommit DEF Atomic!Next
<1>7. CASE h = CommitHeader /\ SyncReturns("UNCERTAIN")
  <2>1. Durable' = Logical(FILES)
    BY <1>1, <1>2, <1>7, CommittedDisk, DurableNextIs DEF VolumeInv, Snapshot, Healthy
  <2> QED
    BY <1>1, <1>7, <2>1, AtomicGiveUp DEF Atomic!Next
<1>8. CASE /\ h = header[target_slot] \/ h = TornHeader
           /\ SyncReturns("FAILED") \/ SyncReturns("UNCERTAIN")
  <2>1. Durable' = Durable
    BY <1>1, <1>3, <1>4, <1>8, DurableKept
  <2>2. call'.pc # "off"
    BY <1>1, <1>8, SyncFailsShape DEF VolumeInv
  <2> QED
    BY <1>1, <2>1, <2>2, ModeIs, WorkStep DEF Atomic!Next
<1> QED
  BY <1>2, <1>5, <1>6, <1>7, <1>8

LEMMA AtomicCrash == VolumeInv /\ LegacyInv /\ Crash => Atomic!Crash
<1> SUFFICES ASSUME VolumeInv, LegacyInv, Crash PROVE Atomic!Crash
  OBVIOUS
<1>1. Mode # "off" /\ Mode' = "off"
  <2>1. call.pc # "off" /\ call'.pc = "off"
    BY DEF Crash, Returned
  <2> QED
    BY <2>1, ModeIs, ModeNextIs
<1>2. Logical(FILES)' = {}
  <2>1. \A i \in FileIndex : ~FILES'[i].in_use
    BY DEF Crash, EmptyFiles, ClearedFile
  <2> QED
    BY <2>1 DEF Logical, InUse
<1>3. Durable' = Durable \/ (Mode = "busy" /\ Durable' = Logical(FILES))
  <2>1. CASE UNCHANGED <<header, table>>
    BY <2>1, DurableFrame
  <2>2. CASE /\ call.pc = "table" /\ header' = header
             /\ \A s \in Slots \ {target_slot} : table'[s] = table[s]
    BY <2>2, DurableKept DEF Committing
  <2>3. CASE /\ call.pc = "header" /\ table' = table
             /\ \E h \in {header[target_slot], TornHeader, CommitHeader} :
                  header' = [header EXCEPT ![target_slot] = h]
    <3>1. PICK h \in {header[target_slot], TornHeader, CommitHeader} :
            header' = [header EXCEPT ![target_slot] = h]
      BY <2>3
    <3>2. /\ target_slot \in Slots /\ header'[target_slot] = h
          /\ \A s \in Slots \ {target_slot} : header'[s] = header[s]
          /\ TornHeader.kind = "invalid"
      BY <3>1, CommitHeaderType DEF VolumeInv, TypeInv, TypeOK, TornHeader, Header
    <3>3. CASE h = CommitHeader
      <4>1. Durable' = Logical(FILES)
        BY <2>3, <3>1, <3>3, CommittedDisk, DurableNextIs DEF VolumeInv, Snapshot, Healthy
      <4> QED
        BY <2>3, <4>1, ModeIs
    <3>4. CASE h = header[target_slot] \/ h = TornHeader
      BY <2>3, <3>2, <3>4, DurableKept DEF Committing
    <3> QED
      BY <3>1, <3>3, <3>4
  <2> QED
    BY <2>1, <2>2, <2>3, CrashOutcomes DEF VolumeInv
<1> QED
  BY <1>1, <1>2, <1>3 DEF Atomic!Crash

LEMMA AtomicInit == Init => Atomic!Init
<1> SUFFICES ASSUME Init PROVE Atomic!Init
  OBVIOUS
<1>1. Durable \in SUBSET (Names \X Seq(Bytes))
  BY TypeInit, DurableType DEF TypeInv
<1>2. Mode = "off"
  BY ModeIs DEF Init, PoweredOff, Returned
<1>3. Logical(FILES) = {}
  BY DEF Init, PoweredOff, EmptyFiles, ClearedFile, Logical, InUse
<1> QED
  BY <1>1, <1>2, <1>3 DEF Atomic!Init

LEMMA AtomicStep ==
  VolumeInv /\ LegacyInv /\ VolumeInv' /\ [Next]_vars => [Atomic!Next]_(Atomic!vars)
<1> SUFFICES ASSUME VolumeInv, LegacyInv, VolumeInv', [Next]_vars
             PROVE  [Atomic!Next]_(Atomic!vars)
  OBVIOUS
<1>1. CASE UNCHANGED vars
  <2>1. UNCHANGED <<header, table>> /\ FILES' = FILES /\ call' = call
        /\ g_backend_status' = g_backend_status
    BY <1>1 DEF vars
  <2>2. Durable' = Durable
    BY <2>1, DurableFrame
  <2>3. Mode' = Mode
    BY <2>1 DEF Mode
  <2>4. Logical(FILES)' = Logical(FILES)
    BY <2>1 DEF Logical, InUse
  <2> QED
    BY <2>2, <2>3, <2>4 DEF Atomic!vars
<1>2. CASE Next
  <2>1. ASSUME NEW a \in Accesses, fs_init(a[1], a[2]) \/ fs_self_test_reload(a[1], a[2])
        PROVE  Atomic!Next
    BY <2>1, AtomicMount DEF Atomic!Next
  <2>2. CASE Mutate
    BY <2>2, AtomicMutate DEF Atomic!Next
  <2>3. CASE fs_upgrade_legacy_snapshot
    BY <2>3, AtomicUpgrade DEF Atomic!Next
  <2>4. CASE WriteTable
    BY <2>4, AtomicWriteTable DEF Atomic!Next
  <2>5. CASE WriteHeader
    BY <2>5, AtomicWriteHeader
  <2>6. CASE SelfTestMutates
    BY <2>6, AtomicSelfTest DEF Atomic!Next
  <2>7. CASE Crash
    BY <2>7, AtomicCrash DEF Atomic!Next
  <2> QED
    BY <1>2, <2>1, <2>2, <2>3, <2>4, <2>5, <2>6, <2>7 DEF Next
<1> QED
  BY <1>1, <1>2

\* The two-slot volume implements one durable snapshot that changes only as a
\* whole: every step of kernel/fs.c, every failed, torn, dropped and uncertain
\* write and every loss of power is a step of FsAtomic or no step at all, for
\* every table and record size, generation width and initial disk.
THEOREM VolumeIsAtomic == Spec => ImplementsAtomicSnapshot
<1>1. Init => VolumeInv /\ LegacyInv
  BY VolumeInit, LegacyInit
<1>2. VolumeInv /\ LegacyInv /\ [Next]_vars => (VolumeInv /\ LegacyInv)'
  BY VolumeStep, LegacyStep
<1>3. Init => Atomic!Init
  BY AtomicInit
<1>4. VolumeInv /\ LegacyInv /\ VolumeInv' /\ [Next]_vars => [Atomic!Next]_(Atomic!vars)
  BY AtomicStep
<1> QED
  BY <1>1, <1>2, <1>3, <1>4, PTL DEF Spec, ImplementsAtomicSnapshot, Atomic!Spec
=============================================================================
