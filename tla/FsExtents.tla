----------------------------- MODULE FsExtents -----------------------------
(***************************************************************************)
(* The on-disk record format of kernel/fs.c: how the file array FILES is    *)
(* laid out as a table of fixed-size records (a head and its continuations) *)
(* and how a table is validated and read back.                              *)
(*                                                                         *)
(* File sizes are sequence lengths, bytes are members of a small set that   *)
(* contains 0, and a file name is a model value.  NoName is the empty name, *)
(* which fs_is_valid_name rejects; every member of Names is a valid name.   *)
(***************************************************************************)
EXTENDS Integers, Sequences, FiniteSets

CONSTANTS FS_MAX_FILES,        \* records in a table, and files in FILES
          FS_MAX_FILE_SIZE,    \* a file is strictly shorter than this
          FS_DISK_DATA_BYTES,  \* data bytes in one record
          Names,               \* the valid file names
          NoName,              \* the empty name
          Bytes                \* the byte values

ASSUME ExtentsAssumption ==
  /\ FS_MAX_FILES \in Nat \ {0}
  /\ FS_MAX_FILE_SIZE \in Nat \ {0}
  /\ FS_DISK_DATA_BYTES \in Nat \ {0}
  /\ FS_DISK_DATA_BYTES <= FS_MAX_FILE_SIZE
  /\ NoName \notin Names
  /\ Bytes \subseteq Nat
  /\ 0 \in Bytes

FS_DISK_RECORD_HEAD == 1
FS_DISK_RECORD_CONTINUATION == 2

FileIndex == 1 .. FS_MAX_FILES

\* struct fs_file; the byte count is the length of data.
File == [in_use : BOOLEAN, name : Names \cup {NoName}, data : Seq(Bytes)]

\* struct fs_disk_record.  in_use is a byte: 3 stands for every other value.
Record == [in_use : 0 .. 3, name : Names \cup {NoName}, size : Nat,
           data : [1 .. FS_DISK_DATA_BYTES -> Bytes]]

Table == [FileIndex -> Record]

FileArray == [FileIndex -> File]

\* fs_clear leaves exactly this file behind.
ClearedFile == [in_use |-> FALSE, name |-> NoName, data |-> <<>>]

BlankRecord == [in_use |-> 0, name |-> NoName, size |-> 0,
                data |-> [b \in 1 .. FS_DISK_DATA_BYTES |-> 0]]

BlankTable == [r \in FileIndex |-> BlankRecord]

fs_is_valid_name(name) == name \in Names

----------------------------------------------------------------------------
(* The encoder. *)

\* The number of records a file of this size occupies; an empty file has one.
fs_disk_records_needed(size) ==
  IF size = 0 THEN 1
  ELSE (size + FS_DISK_DATA_BYTES - 1) \div FS_DISK_DATA_BYTES

\* The bytes part number part (from 1) of a file of this size holds.
ChunkSize(size, part) ==
  LET left == size - (part - 1) * FS_DISK_DATA_BYTES
  IN  IF left > FS_DISK_DATA_BYTES THEN FS_DISK_DATA_BYTES ELSE left

\* Every (file, part) pair the encoder emits a record for.
Extents(files) ==
  {e \in FileIndex \X (1 .. FS_MAX_FILE_SIZE) :
     /\ files[e[1]].in_use
     /\ e[2] <= fs_disk_records_needed(Len(files[e[1]].data))}

\* The extents written before extent e: disk_index counts them.
ExtentsBefore(files, e) ==
  {d \in Extents(files) : d[1] < e[1] \/ (d[1] = e[1] /\ d[2] < e[2])}

disk_index(files, e) == 1 + Cardinality(ExtentsBefore(files, e))

\* The record that holds part number part of a file, zero padded.
DiskRecord(file, part) ==
  LET size == Len(file.data)
      first == (part - 1) * FS_DISK_DATA_BYTES
      data == [b \in 1 .. FS_DISK_DATA_BYTES |->
                 IF first + b \in DOMAIN file.data THEN file.data[first + b] ELSE 0]
  IN  IF part = 1
      THEN [in_use |-> FS_DISK_RECORD_HEAD, name |-> file.name,
            size |-> size, data |-> data]
      ELSE [in_use |-> FS_DISK_RECORD_CONTINUATION, name |-> NoName,
            size |-> ChunkSize(size, part), data |-> data]

\* fs_serialize returns false exactly when the extents outnumber the records.
Fits(files) == Cardinality(Extents(files)) <= FS_MAX_FILES

\* The table fs_serialize builds from files that fit.
fs_serialize(files) ==
  [r \in FileIndex |->
     IF \E e \in Extents(files) : disk_index(files, e) = r
     THEN LET e == CHOOSE e \in Extents(files) : disk_index(files, e) = r
          IN  DiskRecord(files[e[1]], e[2])
     ELSE BlankRecord]

----------------------------------------------------------------------------
(* The decoder of the current format (version 5). *)

IsHead(table, r) == table[r].in_use = FS_DISK_RECORD_HEAD

Heads(table) == {r \in FileIndex : IsHead(table, r)}

\* The records of the chain whose head is record h.
Chain(table, h) == h .. h + fs_disk_records_needed(table[h].size) - 1

\* Checks both decoders make of a head against the heads before it.
NameIsFresh(table, r) ==
  /\ fs_is_valid_name(table[r].name)
  /\ \A p \in 1 .. r - 1 : IsHead(table, p) => table[p].name # table[r].name

fs_disk_continuation_is_valid(record, expected_size) ==
  /\ record.in_use = FS_DISK_RECORD_CONTINUATION
  /\ record.size = expected_size
  /\ record.name = NoName

\* A head the validation loop accepts together with its continuations.
ChainIsValid(table, h) ==
  /\ table[h].size < FS_MAX_FILE_SIZE
  /\ NameIsFresh(table, h)
  /\ Chain(table, h) \subseteq FileIndex
  /\ \A r \in Chain(table, h) \ {h} :
       fs_disk_continuation_is_valid(table[r], ChunkSize(table[h].size, r - h + 1))

\* The validation loop of fs_deserialize_current: heads are met in order, each
\* skips over its own chain, and whatever is met between chains must be unused.
CurrentTableIsValid(table) ==
  /\ \A h \in Heads(table) : ChainIsValid(table, h)
  /\ \A r \in FileIndex :
       table[r].in_use # 0 => \E h \in Heads(table) : r \in Chain(table, h)

\* Mutant: every part is read from the head record.
FileOfHeadOnly(table, h) ==
  [in_use |-> TRUE, name |-> table[h].name,
   data |-> [b \in 1 .. table[h].size |->
               table[h].data[((b - 1) % FS_DISK_DATA_BYTES) + 1]]]

\* The file whose head is record h of a valid table.
FileOfChain(table, h) ==
  [in_use |-> TRUE, name |-> table[h].name,
   data |-> [b \in 1 .. table[h].size |->
               table[h + (b - 1) \div FS_DISK_DATA_BYTES]
                 .data[((b - 1) % FS_DISK_DATA_BYTES) + 1]]]

\* Record h is the n-th head of the table in record order.
IsNthHead(table, h, n) == Cardinality({g \in Heads(table) : g < h}) = n - 1

\* FILES after fs_deserialize_current: the files in head order, compacted.
fs_deserialize_current(table) ==
  [n \in FileIndex |->
     IF \E h \in Heads(table) : IsNthHead(table, h, n)
     THEN FileOfChain(table, CHOOSE h \in Heads(table) : IsNthHead(table, h, n))
     ELSE ClearedFile]

----------------------------------------------------------------------------
(* The decoder of versions 1 to 4: one record per file, in place, and the
   byte after the contents is a terminating zero inside the record. *)

LegacyTableIsValid(table) ==
  \A r \in FileIndex :
    table[r].in_use # 0 =>
      /\ IsHead(table, r)
      /\ table[r].size < FS_DISK_DATA_BYTES
      /\ table[r].data[table[r].size + 1] = 0
      /\ NameIsFresh(table, r)

fs_deserialize_legacy(table) ==
  [r \in FileIndex |->
     IF table[r].in_use = 0 THEN ClearedFile
     ELSE [in_use |-> TRUE, name |-> table[r].name,
           data |-> [b \in 1 .. table[r].size |-> table[r].data[b]]]]

----------------------------------------------------------------------------
(* What a user of the volume sees: the set of named contents. *)

InUse(files) == {i \in FileIndex : files[i].in_use}

Logical(files) == {<<files[i].name, files[i].data>> : i \in InUse(files)}

NamesAreUnique(files) ==
  \A i, j \in InUse(files) : files[i].name = files[j].name => i = j

\* A file array the kernel can hold: valid unique names, bounded sizes, and
\* every unused slot as fs_clear left it.
WellFormed(files) ==
  /\ files \in FileArray
  /\ NamesAreUnique(files)
  /\ \A i \in FileIndex : IF files[i].in_use
                          THEN /\ files[i].name \in Names
                               /\ Len(files[i].data) < FS_MAX_FILE_SIZE
                          ELSE files[i] = ClearedFile

\* These files can be held and written again, and come back as they were.
IsRewritable(fs) ==
  /\ WellFormed(fs)
  /\ Fits(fs)
  /\ CurrentTableIsValid(fs_serialize(fs))
  /\ Logical(fs_deserialize_current(fs_serialize(fs))) = Logical(fs)
=============================================================================
