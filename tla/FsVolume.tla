------------------------------ MODULE FsVolume ------------------------------
(***************************************************************************)
(* The persistent volume of kernel/fs.c on the ATA driver kernel/ata.c:     *)
(* two slots on the disk, each a header sector and a record table, and the  *)
(* mounted file array FILES in RAM.  A commit writes the table of the slot  *)
(* that is not active and then the header that makes it the newest one.     *)
(*                                                                         *)
(* Every ata_write is one step, so a crash can fall between any two of      *)
(* them or in the middle of one.  File system calls are serialised in the   *)
(* kernel (cooperative kernel tasks, system calls with interrupts off), so  *)
(* no other call runs while one is committing.                              *)
(*                                                                         *)
(* A checksum is idealised as the table it was computed from: two tables    *)
(* have equal checksums only when they are equal.                           *)
(***************************************************************************)
EXTENDS FsExtents

CONSTANTS
  GenerationModulus,    \* 2^32 in the code: generations wrap around
  SystemLogName,        \* "system.log"
  ManagedNames,         \* the names of fs_name_is_system_managed
  SelfTestScratch, SelfTestRenamed, SelfTestPayload,
  RecoveredTestNames,   \* the candidate names of fs_recovered_self_test_name
  RecoveredLogNames,    \* the candidate names of fs_recovered_log_name
  Seeds,                \* the files of a fresh volume; the last is the bitmap
  InitialDisks,         \* the disks the machine may be switched on with
  CallNames, Payloads   \* the arguments of the calls

FS_SLOT_COUNT == 2
Slots == {0, 1}
FS_LEGACY_DISK_VERSION == 1
FS_CONTENT_DISK_VERSION == 3
FS_INTEGRITY_DISK_VERSION == 4
FS_DISK_VERSION == 5

Generations == 0 .. GenerationModulus - 1

\* struct fs_disk_header.  An "invalid" header is neither blank nor passes
\* fs_header_is_valid; the other fields then do not matter.
Header == [kind : {"blank", "valid", "invalid"}, version : 0 .. FS_DISK_VERSION,
           generation : Generations, checksum : Table]

Disk == [header : [Slots -> Header], table : [Slots -> Table]]

DefaultBmp == Seeds[Len(Seeds)]

ASSUME VolumeAssumption ==
  /\ GenerationModulus \in Nat /\ GenerationModulus > 2
  /\ {SystemLogName, SelfTestScratch, SelfTestRenamed} \subseteq Names
  /\ SystemLogName \notin {SelfTestScratch, SelfTestRenamed}
  /\ SelfTestPayload \in Seq(Bytes) /\ Len(SelfTestPayload) < FS_MAX_FILE_SIZE
  /\ \A names \in {RecoveredTestNames, RecoveredLogNames} :
       /\ names \in [1 .. FS_MAX_FILES + 1 -> Names]
       /\ \A i, j \in 1 .. FS_MAX_FILES + 1 : names[i] = names[j] => i = j
       /\ \A i \in 1 .. FS_MAX_FILES + 1 :
            names[i] \notin {SystemLogName, SelfTestScratch, SelfTestRenamed}
  /\ Seeds \in Seq(File) /\ Len(Seeds) \in 1 .. FS_MAX_FILES
  /\ \A i \in 1 .. Len(Seeds) :   \* ordinary files of one record each
       /\ Seeds[i].in_use
       /\ Seeds[i].name \in Names \ {SystemLogName, SelfTestScratch, SelfTestRenamed}
       /\ Len(Seeds[i].data) < FS_DISK_DATA_BYTES
  /\ \A i, j \in 1 .. Len(Seeds) : Seeds[i].name = Seeds[j].name => i = j
  /\ InitialDisks \subseteq Disk
  /\ CallNames \subseteq Names
  /\ Payloads \subseteq Seq(Bytes)

VARIABLES
  header, table,            \* the two slots on the disk
  FILES,
  g_active_slot, g_active_generation, g_loaded_version,
  g_backend_status, g_legacy_upgrade_status, g_self_test_active,
  call                      \* the call in progress

disk == <<header, table>>
mount == <<g_active_slot, g_active_generation, g_loaded_version>>
vars == <<header, table, FILES, g_active_slot, g_active_generation,
          g_loaded_version, g_backend_status, g_legacy_upgrade_status,
          g_self_test_active, call>>

----------------------------------------------------------------------------
(* The file array *)

\* The index of the file of this name; 0 is the code's NULL.
fs_find_mutable(files, name) ==
  IF \E i \in FileIndex : files[i].in_use /\ files[i].name = name
  THEN CHOOSE i \in FileIndex :
         /\ files[i].in_use /\ files[i].name = name
         /\ \A j \in 1 .. i - 1 : ~(files[j].in_use /\ files[j].name = name)
  ELSE 0

\* The first free index, or 0.
fs_allocate_slot(files) ==
  IF \E i \in FileIndex : ~files[i].in_use
  THEN CHOOSE i \in FileIndex :
         ~files[i].in_use /\ \A j \in 1 .. i - 1 : files[j].in_use
  ELSE 0

NewFile(name, data) == [in_use |-> TRUE, name |-> name, data |-> data]

\* Where a file of this name goes: over the old one or in a free slot.
PlaceFor(files, name) ==
  IF fs_find_mutable(files, name) # 0 THEN fs_find_mutable(files, name)
  ELSE fs_allocate_slot(files)

\* The contents a call starts from.
DataOf(files, name) ==
  IF fs_find_mutable(files, name) = 0 THEN <<>>
  ELSE files[fs_find_mutable(files, name)].data

fs_name_is_system_managed(name) == name \in ManagedNames
fs_name_is_self_test_file(name) == name \in {SelfTestScratch, SelfTestRenamed}

fs_file_is_self_test_artifact(file) ==
  /\ file.in_use
  /\ fs_name_is_self_test_file(file.name)
  /\ file.data = SelfTestPayload

fs_clear_self_test_artifacts(files) ==
  [i \in FileIndex |-> IF fs_file_is_self_test_artifact(files[i])
                       THEN ClearedFile ELSE files[i]]

\* The first candidate that no file carries; NoName when all are taken.
FreeCandidate(files, candidates) ==
  LET free == {k \in 1 .. FS_MAX_FILES + 1 :
                 fs_find_mutable(files, candidates[k]) = 0}
  IN  IF free = {} THEN NoName
      ELSE candidates[CHOOSE k \in free : \A j \in free : k <= j]

\* Give file i the first free candidate name, in place.
Recover(files, i, candidates) ==
  IF i = 0 \/ FreeCandidate(files, candidates) = NoName THEN files
  ELSE [files EXCEPT ![i].name = FreeCandidate(files, candidates)]

\* The first self-test artifact, or 0.
FirstArtifact(files) ==
  LET artifacts == {i \in FileIndex : fs_file_is_self_test_artifact(files[i])}
  IN  IF artifacts = {} THEN 0
      ELSE CHOOSE i \in artifacts : \A j \in artifacts : i <= j

RecoverFirstArtifact(files) ==
  Recover(files, FirstArtifact(files), RecoveredTestNames)

\* Names are unique and there are two self-test names: two rounds of the loop.
fs_quarantine_self_test_artifacts(files) ==
  RecoverFirstArtifact(RecoverFirstArtifact(files))

fs_quarantine_physical_system_log(files) ==
  Recover(files, fs_find_mutable(files, SystemLogName), RecoveredLogNames)

\* FILES after fs_clear on every file and the seeding of a fresh volume.
FreshFiles == [i \in FileIndex |-> IF i <= Len(Seeds) THEN Seeds[i] ELSE ClearedFile]

----------------------------------------------------------------------------
(* Headers and the order of generations *)

fs_header_is_valid(h) == h.kind = "valid"

IsProtected(h) == h.version >= FS_INTEGRITY_DISK_VERSION

fs_header_generation(h) ==
  IF h.version = FS_LEGACY_DISK_VERSION THEN 0 ELSE h.generation

\* Unsigned subtraction of generations.
Distance(lhs, rhs) == IF lhs >= rhs THEN lhs - rhs ELSE lhs - rhs + GenerationModulus

\* Mutant: generations are compared as plain numbers.
NewerWithoutWrap(lhs, rhs) == lhs > rhs

fs_generation_is_newer(lhs, rhs) ==
  /\ Distance(lhs, rhs) # 0
  /\ 2 * Distance(lhs, rhs) < GenerationModulus

\* Mutant: the counter is wider than the header field.
IncWithoutWrap(g) == g + 1

IncGeneration(g) == IF g = GenerationModulus - 1 THEN 0 ELSE g + 1

----------------------------------------------------------------------------
(* Mounting.  A read fault is a set of headers, a set of tables that cannot be
   read and whether fs_compare_slot_tables meets an unreadable sector. *)

AtaInitResults == {"READY", "NO_DEVICE", "ERROR"}
ReadFaults == [hdr : SUBSET Slots, tbl : SUBSET Slots, cmp : BOOLEAN]
NoFault == [hdr |-> {}, tbl |-> {}, cmp |-> FALSE]

HeaderAccepted(rd, s) == s \notin rd.hdr /\ fs_header_is_valid(header[s])

NonblankInvalidHeader(rd) ==
  \E s \in Slots \ rd.hdr : header[s].kind = "invalid"

BothLegacy(rd) ==
  \A s \in Slots : HeaderAccepted(rd, s) /\ ~IsProtected(header[s])

BothProtected(rd) ==
  \A s \in Slots : HeaderAccepted(rd, s) /\ IsProtected(header[s])

\* The two generations cannot order the slots and their tables are compared.
TablesCompared(rd) ==
  \/ BothLegacy(rd)
  \/ /\ BothProtected(rd)
     /\ fs_header_generation(header[0]) = fs_header_generation(header[1])

TablesDiffer(rd) == TablesCompared(rd) /\ ~rd.cmp /\ table[0] # table[1]

OrderIsAmbiguous(rd) ==
  \/ TablesDiffer(rd)
  \/ /\ BothProtected(rd)
     /\ 2 * Distance(fs_header_generation(header[0]),
                     fs_header_generation(header[1])) = GenerationModulus

\* The slot that is tried first.
FirstSlot(rd) ==
  IF /\ HeaderAccepted(rd, 1)
     /\ \/ ~HeaderAccepted(rd, 0)
        \/ IsProtected(header[1]) /\ ~IsProtected(header[0])
        \/ /\ IsProtected(header[1]) <=> IsProtected(header[0])
           /\ fs_generation_is_newer(fs_header_generation(header[1]),
                                     fs_header_generation(header[0]))
  THEN 1 ELSE 0

fs_load_slot(rd, s) ==
  IF ~HeaderAccepted(rd, s) THEN "ABSENT"
  ELSE IF s \in rd.tbl THEN "IO_ERROR"
  ELSE IF header[s].checksum # table[s] THEN "CORRUPT"
  ELSE IF IF header[s].version >= FS_DISK_VERSION
          THEN CurrentTableIsValid(table[s])
          ELSE LegacyTableIsValid(table[s])
  THEN "LOADED" ELSE "CORRUPT"

FilesOfSlot(s) ==
  IF header[s].version >= FS_DISK_VERSION
  THEN fs_deserialize_current(table[s])
  ELSE fs_deserialize_legacy(table[s])

\* The slot that gets loaded, given what both loads would give; FS_SLOT_COUNT
\* when neither does.
LoadedSlot(first, result) ==
  IF result[first] = "LOADED" THEN first
  ELSE IF result[1 - first] = "LOADED" THEN 1 - first
  ELSE FS_SLOT_COUNT

\* fs_load_from_disk: its result and what it leaves in the mount variables.
fs_load_from_disk(init, rd) ==
  LET first == FirstSlot(rd)
      result == [s \in Slots |-> fs_load_slot(rd, s)]
      slot == LoadedSlot(first, result)
      loaded == init = "READY" /\ slot # FS_SLOT_COUNT
      attempts == {result[first]} \cup (IF slot = first THEN {} ELSE {result[1 - first]})
      saw_io_error ==
        rd.hdr # {} \/ (TablesCompared(rd) /\ rd.cmp) \/ "IO_ERROR" \in attempts
      saw_corruption == NonblankInvalidHeader(rd) \/ "CORRUPT" \in attempts
  IN  [result |->
         IF init # "READY" THEN IF init = "NO_DEVICE" THEN "NO_DRIVE" ELSE "IO_ERROR"
         ELSE IF loaded
         THEN IF saw_io_error THEN "LOADED_IO_ERROR"
              ELSE IF saw_corruption \/ OrderIsAmbiguous(rd) THEN "LOADED_CORRUPT"
              ELSE "LOADED"
         ELSE IF saw_io_error THEN "IO_ERROR"
         ELSE IF saw_corruption THEN "CORRUPT"
         ELSE IF rd.tbl # {} THEN "IO_ERROR"
         ELSE IF \E s \in Slots : table[s] # BlankTable THEN "CORRUPT"
         ELSE "BLANK",
       files |-> IF loaded THEN FilesOfSlot(slot) ELSE FILES,
       slot |-> IF init = "READY" THEN slot ELSE g_active_slot,
       generation |-> IF loaded THEN fs_header_generation(header[slot])
                      ELSE IF init = "READY" THEN 0 ELSE g_active_generation,
       version |-> IF loaded THEN header[slot].version
                   ELSE IF init = "READY" THEN 0 ELSE g_loaded_version,
       upgrade |-> IF loaded /\ BothLegacy(rd) /\ TablesDiffer(rd)
                   THEN "AVAILABLE" ELSE "UNAVAILABLE"]

\* The drive does not answer, or answers and some reads fail.
Accesses == {a \in AtaInitResults \X ReadFaults : a[1] = "READY" \/ a[2] = NoFault}

TakesMountOf(load) ==
  /\ g_active_slot' = load.slot
  /\ g_active_generation' = load.generation
  /\ g_loaded_version' = load.version
  /\ g_legacy_upgrade_status' = load.upgrade

\* Mutant: a volume that loaded with corruption elsewhere is trusted.
TrustedIfLoaded(result) ==
  IF result = "NO_DRIVE" THEN "VOLATILE_NO_DRIVE"
  ELSE IF result = "LOADED_CORRUPT" THEN "PERSISTENT"
  ELSE IF result = "CORRUPT" THEN "VOLATILE_CORRUPT"
  ELSE "VOLATILE_IO_ERROR"

\* The backend after a load that gives no trusted volume.
DegradedBackend(result) ==
  IF result = "NO_DRIVE" THEN "VOLATILE_NO_DRIVE"
  ELSE IF result \in {"CORRUPT", "LOADED_CORRUPT"} THEN "VOLATILE_CORRUPT"
  ELSE "VOLATILE_IO_ERROR"

----------------------------------------------------------------------------
(* Calls in progress.  undo is what the caller puts back in FILES when the
   commit fails; who says which caller fs_sync_to_disk_verified returns to. *)

EmptyFiles == [i \in FileIndex |-> ClearedFile]

SelfTestStages == {"selftest_write", "selftest_rename", "selftest_remove"}
Callers == {"none", "op", "metadata", "format", "upgrade"} \cup SelfTestStages

Returned(pc) == [pc |-> pc, who |-> "none", undo |-> EmptyFiles]
Syncing(pc, who, undo) == [pc |-> pc, who |-> who, undo |-> undo]

\* The static initialisers of the kernel image, before fs_init.
PoweredOff ==
  /\ FILES = EmptyFiles
  /\ g_active_slot = FS_SLOT_COUNT
  /\ g_active_generation = 0
  /\ g_loaded_version = 0
  /\ g_backend_status = "UNINITIALIZED"
  /\ g_legacy_upgrade_status = "UNAVAILABLE"
  /\ g_self_test_active = FALSE
  /\ call = Returned("off")

Init ==
  /\ \E d \in InitialDisks : header = d.header /\ table = d.table
  /\ PoweredOff

----------------------------------------------------------------------------
(* fs_sync_to_disk_verified *)

\* Mutant: the commit overwrites the slot it was loaded from.
TargetActiveSlot == IF g_active_slot < FS_SLOT_COUNT THEN g_active_slot ELSE 0

target_slot == IF g_active_slot < FS_SLOT_COUNT THEN 1 - g_active_slot ELSE 0

next_generation == IncGeneration(g_active_generation)

CommitHeader ==
  [kind |-> "valid", version |-> FS_DISK_VERSION,
   generation |-> next_generation, checksum |-> fs_serialize(FILES)]

\* A header sector that was being written when the power failed.
TornHeader == [header[target_slot] EXCEPT !.kind = "invalid"]

fs_accept_commit ==
  /\ g_active_slot' = target_slot
  /\ g_active_generation' = next_generation
  /\ g_loaded_version' = FS_DISK_VERSION

\* fs_self_test_fail, and the tail of fs_self_test_reload, on these files.
SelfTestFails(files, backend) ==
  /\ FILES' = fs_clear_self_test_artifacts(files)
  /\ g_backend_status' = backend
  /\ g_self_test_active' = FALSE
  /\ call' = Returned("idle")

\* fs_commit_changes and the mutation that called it, after the sync result.
ReturnToMutation(result) ==
  /\ call.who \in {"op", "metadata"}
  /\ FILES' = IF result = "FAILED" THEN call.undo ELSE FILES
  /\ g_backend_status' = IF result = "COMMITTED" THEN g_backend_status
                         ELSE "VOLATILE_IO_ERROR"
  /\ call' = Returned("idle")
  /\ UNCHANGED <<g_legacy_upgrade_status, g_self_test_active>>

\* The blank-disk branch of fs_init; a committed format starts fs_self_test.
ReturnToFormat(result) ==
  /\ call.who = "format"
  /\ UNCHANGED g_legacy_upgrade_status
  /\ IF result = "COMMITTED"
     THEN /\ g_backend_status' = "PERSISTENT"
          /\ g_self_test_active' = TRUE
          /\ FILES' = fs_clear_self_test_artifacts(FILES)
          /\ call' = Syncing("selftest", "selftest_write", EmptyFiles)
     ELSE /\ g_backend_status' = "VOLATILE_IO_ERROR"
          /\ call' = Returned("idle")
          /\ UNCHANGED <<FILES, g_self_test_active>>

ReturnToUpgrade(result) ==
  /\ call.who = "upgrade"
  /\ g_backend_status' = IF result = "COMMITTED" THEN "PERSISTENT"
                         ELSE g_backend_status
  /\ g_legacy_upgrade_status' =
       IF result = "COMMITTED" THEN "UNAVAILABLE"
       ELSE IF result = "UNCERTAIN" THEN "OUTCOME_UNCERTAIN"
       ELSE g_legacy_upgrade_status
  /\ call' = Returned("idle")
  /\ UNCHANGED <<FILES, g_self_test_active>>

\* A mutation of the self test: a retained mutation goes on to the reload.
ReturnToSelfTest(result) ==
  /\ call.who \in SelfTestStages
  /\ UNCHANGED g_legacy_upgrade_status
  /\ IF result = "FAILED"
     THEN SelfTestFails(call.undo, "VOLATILE_IO_ERROR")
     ELSE /\ g_backend_status' = IF result = "COMMITTED" THEN g_backend_status
                                 ELSE "VOLATILE_IO_ERROR"
          /\ call' = Syncing("reload", call.who, EmptyFiles)
          /\ UNCHANGED <<FILES, g_self_test_active>>

SyncReturns(result) ==
  /\ IF result = "COMMITTED" THEN fs_accept_commit ELSE UNCHANGED mount
  /\ \/ ReturnToMutation(result)
     \/ ReturnToFormat(result)
     \/ ReturnToUpgrade(result)
     \/ ReturnToSelfTest(result)

\* Mutant: explicit recovery trusts the status of its writes.
NoVerifiedReadback == FALSE

\* Explicit legacy recovery reads back even writes that were reported complete.
require_verified_readback == call.who = "upgrade"

\* The first n records of the new table over the old one.
PartialTable(image, n) ==
  [r \in FileIndex |-> IF r <= n THEN image[r] ELSE table[target_slot][r]]

\* A write the drive reports complete and loses, considered where the code
\* defends against it.
MayDrop == call.who = "upgrade"

\* What ata_write may leave of the table, by its result.
TableAfter(written, image) ==
  IF written = "FAILED" THEN {table[target_slot]}
  ELSE IF written = "UNCERTAIN"
  THEN {PartialTable(image, n) : n \in 0 .. FS_MAX_FILES}
  ELSE {image} \cup (IF MayDrop THEN {table[target_slot]} ELSE {})

HeaderAfter(written, commit) ==
  IF written = "FAILED" THEN {header[target_slot]}
  ELSE IF written = "UNCERTAIN" THEN {header[target_slot], commit, TornHeader}
  ELSE {commit} \cup (IF MayDrop THEN {header[target_slot]} ELSE {})

AtaWriteResults == {"COMPLETE", "FAILED", "UNCERTAIN"}

\* Mutant: a read-back that cannot be read counts as a failed write.
UnreadableIsFailed(written, matches, Continue) ==
  LET checked == written = "UNCERTAIN" \/ require_verified_readback
  IN  \/ written = "FAILED" /\ SyncReturns("FAILED")
      \/ written # "FAILED" /\ checked /\ SyncReturns("FAILED")
      \/ written # "FAILED" /\ (checked => matches) /\ Continue

\* What the code does next after one of its two writes; matches is the outcome
\* of the read-back, which may itself meet an unreadable sector.
AfterWrite(written, matches, Continue) ==
  LET checked == written = "UNCERTAIN" \/ require_verified_readback
  IN  \/ written = "FAILED" /\ SyncReturns("FAILED")
      \/ written # "FAILED" /\ checked /\ SyncReturns("UNCERTAIN")
      \/ written # "FAILED" /\ checked /\ ~matches /\ SyncReturns("FAILED")
      \/ written # "FAILED" /\ (checked => matches) /\ Continue

\* ata_write of the table, and fs_reconcile_table.
WriteTable ==
  LET image == fs_serialize(FILES)
  IN  /\ call.pc = "table"
      /\ UNCHANGED header
      /\ \E written \in AtaWriteResults : \E t \in TableAfter(written, image) :
           /\ table' = [table EXCEPT ![target_slot] = t]
           /\ AfterWrite(written, t = image,
                /\ call' = Syncing("header", call.who, call.undo)
                /\ UNCHANGED <<mount, FILES, g_backend_status,
                               g_legacy_upgrade_status, g_self_test_active>>)

\* ata_write of the header, and fs_reconcile_slot.
WriteHeader ==
  LET commit == CommitHeader
  IN  /\ call.pc = "header"
      /\ UNCHANGED table
      /\ \E written \in AtaWriteResults : \E h \in HeaderAfter(written, commit) :
           /\ header' = [header EXCEPT ![target_slot] = h]
           /\ AfterWrite(written,
                h = commit /\ table[target_slot] = commit.checksum,
                SyncReturns("COMMITTED"))

----------------------------------------------------------------------------
(* Mutations *)

\* fs_commit_changes after FILES was changed to files.  When the files do not
\* fit in a table the call puts everything back and changes nothing.
fs_commit_changes(files) ==
  /\ Fits(files)
  /\ UNCHANGED <<disk, mount, g_legacy_upgrade_status, g_self_test_active>>
  /\ \/ /\ g_backend_status # "PERSISTENT"
        /\ FILES' = files
        /\ UNCHANGED <<g_backend_status, call>>
     \/ /\ g_backend_status = "PERSISTENT"   \* ata_init fails
        /\ g_backend_status' = "VOLATILE_IO_ERROR"
        /\ UNCHANGED <<FILES, call>>
     \/ /\ g_backend_status = "PERSISTENT"
        /\ FILES' = files
        /\ call' = Syncing("table", "op", FILES)
        /\ UNCHANGED g_backend_status

\* The names a mutation refuses whoever calls it.
Writable(name) ==
  /\ fs_is_valid_name(name)
  /\ name # SystemLogName
  /\ ~(fs_name_is_self_test_file(name) /\ ~g_self_test_active)

\* A self-test artifact cannot be renamed or removed outside the self test.
IsHeldArtifact(i) ==
  ~g_self_test_active /\ fs_file_is_self_test_artifact(FILES[i])

Store(files, name, data) == [files EXCEPT ![PlaceFor(files, name)] = NewFile(name, data)]

fs_touch(name) ==
  /\ Writable(name) /\ ~fs_name_is_system_managed(name)
  /\ fs_find_mutable(FILES, name) = 0
  /\ fs_allocate_slot(FILES) # 0
  /\ fs_commit_changes(Store(FILES, name, <<>>))

fs_write_bytes_internal(name, contents) ==
  /\ Writable(name)
  /\ Len(contents) < FS_MAX_FILE_SIZE
  /\ PlaceFor(FILES, name) # 0
  /\ fs_commit_changes(Store(FILES, name, contents))

fs_write_bytes(name, contents) ==
  ~fs_name_is_system_managed(name) /\ fs_write_bytes_internal(name, contents)

fs_system_write_bytes(name, contents) ==
  fs_name_is_system_managed(name) /\ fs_write_bytes_internal(name, contents)

\* contents is a C string: it has no zero byte.
fs_append(name, contents) ==
  /\ Writable(name) /\ ~fs_name_is_system_managed(name)
  /\ \A b \in DOMAIN contents : contents[b] # 0
  /\ Len(contents) < FS_MAX_FILE_SIZE
  /\ PlaceFor(FILES, name) # 0
  /\ Len(contents) <= FS_MAX_FILE_SIZE - 1 - Len(DataOf(FILES, name))
  /\ fs_commit_changes(Store(FILES, name, DataOf(FILES, name) \o contents))

\* Mutant: the new name may be taken.
RenameOverExisting(old_name, new_name) ==
  LET file == fs_find_mutable(FILES, old_name)
  IN  /\ fs_is_valid_name(old_name) /\ old_name # SystemLogName
      /\ Writable(new_name)
      /\ file # 0
      /\ ~IsHeldArtifact(file)
      /\ fs_commit_changes([FILES EXCEPT ![file].name = new_name])

fs_rename_internal(old_name, new_name) ==
  LET file == fs_find_mutable(FILES, old_name)
  IN  /\ fs_is_valid_name(old_name) /\ old_name # SystemLogName
      /\ Writable(new_name)
      /\ file # 0
      /\ ~IsHeldArtifact(file)
      /\ fs_find_mutable(FILES, new_name) = 0
      /\ fs_commit_changes([FILES EXCEPT ![file].name = new_name])

fs_rename(old_name, new_name) ==
  /\ ~fs_name_is_system_managed(old_name) /\ ~fs_name_is_system_managed(new_name)
  /\ fs_rename_internal(old_name, new_name)

fs_system_rename(old_name, new_name) ==
  /\ fs_name_is_system_managed(old_name) /\ ~fs_name_is_system_managed(new_name)
  /\ fs_rename_internal(old_name, new_name)

fs_remove_internal(name) ==
  LET file == fs_find_mutable(FILES, name)
  IN  /\ name # SystemLogName
      /\ file # 0
      /\ ~IsHeldArtifact(file)
      /\ fs_commit_changes([FILES EXCEPT ![file] = ClearedFile])

fs_remove(name) == ~fs_name_is_system_managed(name) /\ fs_remove_internal(name)

fs_system_remove(name) == fs_name_is_system_managed(name) /\ fs_remove_internal(name)

Mutate ==
  /\ call.pc = "idle"
  /\ \E name \in CallNames :
       \/ fs_touch(name)
       \/ fs_remove(name)
       \/ fs_system_remove(name)
       \/ \E contents \in Payloads :
            \/ fs_write_bytes(name, contents)
            \/ fs_system_write_bytes(name, contents)
            \/ fs_append(name, contents)
       \/ \E new_name \in CallNames :
            \/ fs_rename(name, new_name)
            \/ fs_system_rename(name, new_name)

\* With the confirmation text; without it the call only reports.
fs_upgrade_legacy_snapshot ==
  /\ call.pc = "idle"
  /\ g_legacy_upgrade_status = "AVAILABLE"
  /\ g_backend_status = "VOLATILE_CORRUPT"
  /\ g_active_slot < FS_SLOT_COUNT
  /\ g_loaded_version < FS_DISK_VERSION
  /\ Fits(FILES)
  /\ call' = Syncing("table", "upgrade", FILES)
  /\ UNCHANGED <<disk, mount, FILES, g_backend_status, g_legacy_upgrade_status,
                 g_self_test_active>>

----------------------------------------------------------------------------
(* fs_self_test, entered with the backend persistent *)

\* FILES as each stage's mutation leaves it.
StageFiles(stage) ==
  CASE stage = "selftest_write" -> Store(FILES, SelfTestScratch, SelfTestPayload)
    [] stage = "selftest_rename" ->
         [FILES EXCEPT ![fs_find_mutable(FILES, SelfTestScratch)].name = SelfTestRenamed]
    [] stage = "selftest_remove" ->
         [FILES EXCEPT ![fs_find_mutable(FILES, SelfTestRenamed)] = ClearedFile]

\* The preconditions of that mutation and its fs_commit_changes.
StageIsPossible(stage) ==
  /\ stage = "selftest_write" => PlaceFor(FILES, SelfTestScratch) # 0
  /\ stage = "selftest_rename" => fs_find_mutable(FILES, SelfTestRenamed) = 0
  /\ Fits(StageFiles(stage))

SelfTestMutates ==
  /\ call.pc = "selftest"
  /\ UNCHANGED <<disk, mount, g_legacy_upgrade_status>>
  /\ \/ /\ StageIsPossible(call.who)
        /\ FILES' = StageFiles(call.who)
        /\ call' = Syncing("table", call.who, FILES)
        /\ UNCHANGED <<g_backend_status, g_self_test_active>>
     \/ SelfTestFails(FILES, "VOLATILE_IO_ERROR")   \* ata_init fails, or no room

\* What fs_self_test requires of the reloaded files before it goes on.
StageSucceeded(stage, files) ==
  LET Find(name) == fs_find_mutable(files, name)
      IsArtifact(name) == Find(name) # 0 /\ fs_file_is_self_test_artifact(files[Find(name)])
  IN  CASE stage = "selftest_write" -> IsArtifact(SelfTestScratch)
        [] stage = "selftest_rename" -> Find(SelfTestScratch) = 0 /\ IsArtifact(SelfTestRenamed)
        [] stage = "selftest_remove" -> Find(SelfTestScratch) = 0 /\ Find(SelfTestRenamed) = 0

NextStage == [selftest_write |-> "selftest_rename", selftest_rename |-> "selftest_remove"]

fs_self_test_reload(init, rd) ==
  LET load == fs_load_from_disk(init, rd)
  IN  /\ call.pc = "reload"
      /\ TakesMountOf(load)
      /\ UNCHANGED disk
      /\ \/ /\ load.result # "LOADED"
            /\ SelfTestFails(load.files, DegradedBackend(load.result))
         \/ /\ load.result = "LOADED" /\ ~StageSucceeded(call.who, load.files)
            /\ SelfTestFails(load.files, "VOLATILE_IO_ERROR")
         \/ /\ load.result = "LOADED" /\ StageSucceeded(call.who, load.files)
            /\ FILES' = load.files
            /\ g_backend_status' = "PERSISTENT"
            /\ IF call.who = "selftest_remove"
               THEN call' = Returned("idle") /\ g_self_test_active' = FALSE
               ELSE /\ call' = Syncing("selftest", NextStage[call.who], EmptyFiles)
                    /\ UNCHANGED g_self_test_active

----------------------------------------------------------------------------
(* fs_init *)

IsLoaded(result) == result \in {"LOADED", "LOADED_IO_ERROR", "LOADED_CORRUPT"}

Quarantined(files) ==
  fs_quarantine_physical_system_log(fs_quarantine_self_test_artifacts(files))

\* A trusted volume older than version 3 gets the default bitmap, room given.
AddsBmp(load) ==
  /\ load.result = "LOADED"
  /\ load.version < FS_CONTENT_DISK_VERSION
  /\ fs_find_mutable(Quarantined(load.files), DefaultBmp.name) = 0
  /\ fs_allocate_slot(Quarantined(load.files)) # 0

FilesWithBmp(load) ==
  LET files == Quarantined(load.files)
  IN  IF AddsBmp(load) THEN [files EXCEPT ![fs_allocate_slot(files)] = DefaultBmp]
      ELSE files

metadata_changed(load) ==
  \/ FilesWithBmp(load) # load.files
  \/ load.version < FS_DISK_VERSION

\* A volume was loaded.  A trusted one that needs new metadata is committed; if
\* that fails the bitmap goes and the recovery names stay for this session.
MountsVolume(load) ==
  /\ IsLoaded(load.result)
  /\ \/ /\ load.result # "LOADED" \/ ~metadata_changed(load)
        /\ FILES' = Quarantined(load.files)
        /\ g_backend_status' = IF load.result = "LOADED" THEN "PERSISTENT"
                               ELSE DegradedBackend(load.result)
        /\ call' = Returned("idle")
     \/ /\ load.result = "LOADED" /\ metadata_changed(load)
        /\ Fits(FilesWithBmp(load))
        /\ FILES' = FilesWithBmp(load)
        /\ g_backend_status' = "PERSISTENT"
        /\ call' = Syncing("table", "metadata", Quarantined(load.files))
     \/ /\ load.result = "LOADED" /\ metadata_changed(load)   \* ata_init fails
        /\ Fits(FilesWithBmp(load))
        /\ FILES' = Quarantined(load.files)
        /\ g_backend_status' = "VOLATILE_IO_ERROR"
        /\ call' = Returned("idle")

\* Nothing was loaded: a fresh file array, formatted only on a blank disk.
MountsFreshFiles(load) ==
  /\ ~IsLoaded(load.result)
  /\ FILES' = FreshFiles
  /\ \/ /\ load.result = "BLANK"
        /\ g_backend_status' = g_backend_status
        /\ call' = Syncing("table", "format", FreshFiles)
     \/ /\ load.result = "BLANK"   \* ata_init fails
        /\ g_backend_status' = "VOLATILE_IO_ERROR"
        /\ call' = Returned("idle")
     \/ /\ load.result # "BLANK"
        /\ g_backend_status' = DegradedBackend(load.result)
        /\ call' = Returned("idle")

fs_init(init, rd) ==
  LET load == fs_load_from_disk(init, rd)
  IN  /\ call.pc = "off"
      /\ TakesMountOf(load)
      /\ UNCHANGED <<disk, g_self_test_active>>
      /\ MountsVolume(load) \/ MountsFreshFiles(load)

----------------------------------------------------------------------------
(* Loss of power: RAM is gone, a write in progress is cut short. *)

Crash ==
  /\ call.pc # "off"
  /\ FILES' = EmptyFiles
  /\ g_active_slot' = FS_SLOT_COUNT
  /\ g_active_generation' = 0
  /\ g_loaded_version' = 0
  /\ g_backend_status' = "UNINITIALIZED"
  /\ g_legacy_upgrade_status' = "UNAVAILABLE"
  /\ g_self_test_active' = FALSE
  /\ call' = Returned("off")
  /\ IF call.pc = "table"
     THEN /\ \E t \in TableAfter("UNCERTAIN", fs_serialize(FILES)) :
               table' = [table EXCEPT ![target_slot] = t]
          /\ UNCHANGED header
     ELSE IF call.pc = "header"
     THEN /\ \E h \in HeaderAfter("UNCERTAIN", CommitHeader) :
               header' = [header EXCEPT ![target_slot] = h]
          /\ UNCHANGED table
     ELSE UNCHANGED disk

Next ==
  \/ \E a \in Accesses : fs_init(a[1], a[2]) \/ fs_self_test_reload(a[1], a[2])
  \/ Mutate
  \/ fs_upgrade_legacy_snapshot
  \/ WriteTable
  \/ WriteHeader
  \/ SelfTestMutates
  \/ Crash

Spec == Init /\ [][Next]_vars

----------------------------------------------------------------------------
(* Properties *)

Backends == {"UNINITIALIZED", "PERSISTENT", "VOLATILE_NO_DRIVE",
             "VOLATILE_CORRUPT", "VOLATILE_IO_ERROR"}

\* Every variable stays within what the C types and the on-disk format can hold; in
\* particular the generation counter wraps within its 32 bits.
TypeOK ==
  /\ header \in [Slots -> Header]
  /\ table \in [Slots -> Table]
  /\ FILES \in FileArray
  /\ g_active_slot \in Slots \cup {FS_SLOT_COUNT}
  /\ g_active_generation \in Generations
  /\ g_loaded_version \in 0 .. FS_DISK_VERSION
  /\ g_backend_status \in Backends
  /\ g_legacy_upgrade_status \in {"UNAVAILABLE", "AVAILABLE", "OUTCOME_UNCERTAIN"}
  /\ g_self_test_active \in BOOLEAN
  /\ call \in [pc : {"off", "idle", "table", "header", "selftest", "reload"},
               who : Callers, undo : FileArray]

\* What the next boot would find on the disk if every read succeeded.
NextBoot == fs_load_from_disk("READY", NoFault)

\* The files that boot would show: those of the slot it loads, if it loads one.
Durable ==
  LET result == [s \in Slots |-> fs_load_slot(NoFault, s)]
  IN  UNION {Logical(FilesOfSlot(s)) :
               s \in Slots \cap {LoadedSlot(FirstSlot(NoFault), result)}}

\* Whenever the volume claims to be persistent and no call is in progress, the
\* next boot mounts it as trusted and finds exactly the files in RAM
\* (fs_commit_changes, fs_init, fs_self_test and the slot choice together).
PersistentMeansDurable ==
  (call.pc = "idle" /\ g_backend_status = "PERSISTENT") =>
     LET boot == NextBoot
     IN  boot.result = "LOADED" /\ Logical(boot.files) = Logical(FILES)

\* Slot s is the one the next boot tries first, it is complete, and RAM knows
\* its generation.
SlotWins(s) ==
  /\ s \in Slots
  /\ FirstSlot(NoFault) = s
  /\ fs_header_is_valid(header[s])
  /\ header[s].checksum = table[s]
  /\ fs_header_generation(header[s]) = g_active_generation

\* While the volume is persistent, whatever call is in progress, the active slot
\* is the one the next boot tries first, through the wrap of the generation
\* counter and the change from unprotected to protected headers
\* (fs_generation_is_newer and the slot order of fs_load_from_disk).
ActiveSlotWins == g_backend_status = "PERSISTENT" => SlotWins(g_active_slot)

\* The files in RAM can always be held and written (unique valid names, sizes below
\* the limit, no more extents than records), and after fs_init none is hidden behind
\* a name that fs_find and fs_file_at withhold, the virtual log or a self-test
\* artifact: stale ones were renamed to a recovery name that was free.
FilesAreSound ==
  /\ WellFormed(FILES) /\ Fits(FILES)
  /\ call.pc = "idle" =>
       \A i \in InUse(FILES) : /\ FILES[i].name # SystemLogName
                               /\ ~fs_file_is_self_test_artifact(FILES[i])

\* A commit is only begun on a disk the next boot would trust, on a blank one,
\* or by the explicit upgrade: rejected media are preserved for recovery.
RejectedMediaPreserved ==
  [][call.pc = "table" /\ table' # table =>
       NextBoot.result \in {"LOADED", "BLANK"} \/ call.who = "upgrade"]_vars

\* A mutation that is rolled back in RAM is not on the disk either, so the next
\* boot does not resurrect it (FS_SYNC_FAILED against FS_SYNC_UNCERTAIN).
RolledBackIsNotDurable ==
  [][(/\ call.who = "op" /\ call'.pc = "idle"
      /\ FILES' = call.undo /\ FILES' # FILES) =>
        Durable' = Logical(call.undo)]_vars
=============================================================================
