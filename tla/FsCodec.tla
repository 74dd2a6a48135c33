------------------------------ MODULE FsCodec ------------------------------
(***************************************************************************)
(* The loops of kernel/fs.c that write and read the record table, step by   *)
(* step as the C code runs them, beside the declarative definitions of      *)
(* FsExtents that the rest of the project uses.  The state machine writes   *)
(* one file array to a table and then damages single fields of it, as       *)
(* failing media would, so that the decoders meet valid, stale and          *)
(* malformed tables.                                                        *)
(***************************************************************************)
EXTENDS FsExtents

CONSTANTS InitialFiles,   \* the file arrays that are encoded
          MaxDamage       \* bound: how many fields of a table are damaged

ASSUME CodecAssumption ==
  /\ InitialFiles \subseteq FileArray
  /\ \A files \in InitialFiles : WellFormed(files)
  /\ MaxDamage \in Nat

VARIABLES files,    \* the array that was encoded
          table,    \* the table on the medium
          damage    \* how many fields have been damaged so far

tableVars == <<files, table, damage>>

----------------------------------------------------------------------------
(* fs_serialize as the loop over FILES that it is. *)

\* The continuation records from copied bytes on, written from record d.
RECURSIVE WriteContinuations(_, _, _, _)
WriteContinuations(t, d, data, copied) ==
  IF copied >= Len(data) THEN t
  ELSE LET left == Len(data) - copied
           chunk == IF left > FS_DISK_DATA_BYTES THEN FS_DISK_DATA_BYTES ELSE left
           record == [in_use |-> FS_DISK_RECORD_CONTINUATION, name |-> NoName,
                      size |-> chunk,
                      data |-> [j \in 1 .. FS_DISK_DATA_BYTES |->
                                  IF j <= chunk THEN data[copied + j] ELSE 0]]
       IN  WriteContinuations([t EXCEPT ![d] = record], d + 1, data, copied + chunk)

\* The loop from FILES[i] with d - 1 records written; "full" is its false.
RECURSIVE SerializeFrom(_, _, _, _)
SerializeFrom(fs, i, d, t) ==
  IF i > FS_MAX_FILES THEN [full |-> FALSE, table |-> t]
  ELSE IF ~fs[i].in_use THEN SerializeFrom(fs, i + 1, d, t)
  ELSE LET size == Len(fs[i].data)
           record_count == fs_disk_records_needed(size)
           chunk == IF size > FS_DISK_DATA_BYTES THEN FS_DISK_DATA_BYTES ELSE size
           head == [in_use |-> FS_DISK_RECORD_HEAD, name |-> fs[i].name,
                    size |-> size,
                    data |-> [j \in 1 .. FS_DISK_DATA_BYTES |->
                                IF j <= chunk THEN fs[i].data[j] ELSE 0]]
       IN  IF record_count > FS_MAX_FILES - (d - 1)
           THEN [full |-> TRUE, table |-> t]
           ELSE SerializeFrom(fs, i + 1, d + record_count,
                  WriteContinuations([t EXCEPT ![d] = head], d + 1, fs[i].data, chunk))

SerializeLoop(fs) == SerializeFrom(fs, 1, 1, BlankTable)

----------------------------------------------------------------------------
(* fs_deserialize_current as its two passes. *)

\* Mutant: continuation sizes and names are not checked.
PartsKindOnly(t, d, part, needed, remaining) ==
  \A p \in part .. needed - 1 : t[d + p].in_use = FS_DISK_RECORD_CONTINUATION

\* The continuations from part on, remaining bytes still expected.
RECURSIVE PartsAreValid(_, _, _, _, _)
PartsAreValid(t, d, part, needed, remaining) ==
  IF part >= needed THEN remaining = 0
  ELSE LET expected == IF remaining > FS_DISK_DATA_BYTES
                       THEN FS_DISK_DATA_BYTES ELSE remaining
       IN  /\ fs_disk_continuation_is_valid(t[d + part], expected)
           /\ PartsAreValid(t, d, part + 1, needed, remaining - expected)

\* The validation pass from record d on.
RECURSIVE ValidateFrom(_, _)
ValidateFrom(t, d) ==
  IF d > FS_MAX_FILES THEN TRUE
  ELSE IF t[d].in_use = 0 THEN ValidateFrom(t, d + 1)
  ELSE LET needed == fs_disk_records_needed(t[d].size)
           remaining == IF t[d].size > FS_DISK_DATA_BYTES
                        THEN t[d].size - FS_DISK_DATA_BYTES ELSE 0
       IN  /\ IsHead(t, d)
           /\ t[d].size < FS_MAX_FILE_SIZE
           /\ NameIsFresh(t, d)
           /\ needed <= FS_MAX_FILES - (d - 1)
           /\ PartsAreValid(t, d, 1, needed, remaining)
           /\ ValidateFrom(t, d + needed)

\* The bytes of a chain, appended part by part.
RECURSIVE CopyParts(_, _, _, _)
CopyParts(t, d, part, needed) ==
  IF part >= needed THEN <<>>
  ELSE LET size == t[d + part].size
           chunk == IF part = 0 /\ size > FS_DISK_DATA_BYTES
                    THEN FS_DISK_DATA_BYTES ELSE size
       IN  SubSeq(t[d + part].data, 1, chunk) \o CopyParts(t, d, part + 1, needed)

\* The copying pass from record d on, into FILES[n] onwards.
RECURSIVE CopyFrom(_, _, _, _)
CopyFrom(t, d, n, fs) ==
  IF d > FS_MAX_FILES THEN fs
  ELSE IF t[d].in_use = 0 THEN CopyFrom(t, d + 1, n, fs)
  ELSE LET needed == fs_disk_records_needed(t[d].size)
           file == [in_use |-> TRUE, name |-> t[d].name,
                    data |-> CopyParts(t, d, 0, needed)]
       IN  CopyFrom(t, d + needed, n + 1, [fs EXCEPT ![n] = file])

DeserializeLoop(t) == CopyFrom(t, 1, 1, [n \in FileIndex |-> ClearedFile])

----------------------------------------------------------------------------
(* Encode once, then damage single fields. *)

TableInit ==
  /\ files \in InitialFiles
  /\ table = SerializeLoop(files).table
  /\ damage = 0

Damage(r) ==
  /\ damage < MaxDamage
  /\ damage' = damage + 1
  /\ \/ \E v \in 0 .. 3 : table' = [table EXCEPT ![r].in_use = v]
     \/ \E v \in Names \cup {NoName} : table' = [table EXCEPT ![r].name = v]
     \/ \E v \in 0 .. FS_MAX_FILE_SIZE : table' = [table EXCEPT ![r].size = v]
     \/ \E b \in 1 .. FS_DISK_DATA_BYTES, v \in Bytes :
          table' = [table EXCEPT ![r].data[b] = v]
  /\ UNCHANGED files

TableNext == \E r \in FileIndex : Damage(r)

----------------------------------------------------------------------------
(* Properties *)

\* The loops compute what the declarative definitions say.  The encoder runs out
\* of records exactly when the extents outnumber them and otherwise builds the
\* table of fs_serialize; on any table, damaged or not, the validation pass
\* accepts exactly the tables made of disjoint complete chains, and the copying
\* pass then yields the files of those chains (the index bookkeeping and early
\* returns of fs_serialize and fs_deserialize_current).
LoopsAgree ==
  LET loop == SerializeLoop(files)
  IN  /\ loop.full <=> ~Fits(files)
      /\ ~loop.full => loop.table = fs_serialize(files)
      /\ ValidateFrom(table, 1) <=> CurrentTableIsValid(table)
      /\ CurrentTableIsValid(table) =>
           DeserializeLoop(table) = fs_deserialize_current(table)

\* A table that fs_serialize wrote is accepted on the next boot and yields the same
\* named contents.  Whatever table a decoder accepts, damaged or not, of the current
\* layout or of the one record per file of versions 1 to 4, gives files the kernel
\* can hold and write again without losing or changing one, so the first commit
\* after the mount cannot run out of records.
RoundTrip ==
  /\ damage = 0 /\ Fits(files) =>
       /\ CurrentTableIsValid(table)
       /\ Logical(fs_deserialize_current(table)) = Logical(files)
  /\ CurrentTableIsValid(table) => IsRewritable(fs_deserialize_current(table))
  /\ LegacyTableIsValid(table) => IsRewritable(fs_deserialize_legacy(table))
=============================================================================
