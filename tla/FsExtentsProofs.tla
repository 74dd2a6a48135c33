-------------------------- MODULE FsExtentsProofs --------------------------
(* Facts about the record format of kernel/fs.c that hold for every table
   size, record size and set of names. *)
EXTENDS FsExtents, FiniteSetTheorems, TLAPS

\* A nonempty set of natural numbers has a least member.
LEMMA LeastMember ==
  ASSUME NEW S \in SUBSET Nat, S # {}
  PROVE  \E x \in S : \A y \in S : x <= y
<1> DEFINE R == {ss \in Nat \X Nat : ss[1] < ss[2]}
<1>1. IsWellFoundedOn(R, Nat)
  BY NatLessThanWellFounded, Zenon DEF OpToRel
<1>2. \A x, y \in Nat : <<y, x>> \in R <=> y < x
  OBVIOUS
<1> HIDE DEF R
<1>3. PICK x \in S : \A y \in S : ~ (<<y, x>> \in R)
  BY <1>1, WFMin
<1>4. ASSUME NEW y \in S PROVE x <= y
  <2>1. ~ (y < x)
    BY <1>2, <1>3
  <2> QED
    BY <2>1
<1> QED
  BY <1>4

\* A part of a file that the encoder emits begins inside the file, or the file
\* is empty and the part is its head (fs_disk_records_needed).
LEMMA PartStartsInside ==
  ASSUME NEW size \in Nat, NEW part \in Nat \ {0},
         part <= fs_disk_records_needed(size)
  PROVE  part = 1 \/ (part - 1) * FS_DISK_DATA_BYTES < size
BY ExtentsAssumption DEF fs_disk_records_needed

\* The size field of an emitted record is a number (fs_serialize's chunk).
LEMMA ChunkSizeType ==
  ASSUME NEW size \in Nat, NEW part \in Nat \ {0},
         part <= fs_disk_records_needed(size)
  PROVE  ChunkSize(size, part) \in Nat
<1>1. (part - 1) * FS_DISK_DATA_BYTES \in Nat
  BY ExtentsAssumption
<1>2. part = 1 \/ (part - 1) * FS_DISK_DATA_BYTES < size
  BY PartStartsInside
<1>3. part = 1 => (part - 1) * FS_DISK_DATA_BYTES = 0
  BY ExtentsAssumption
<1>4. size - (part - 1) * FS_DISK_DATA_BYTES \in Nat
  BY <1>1, <1>2, <1>3
<1> QED
  BY <1>4, ExtentsAssumption DEF ChunkSize

\* The records the encoder emits are records.
LEMMA DiskRecordType ==
  ASSUME NEW file \in File, NEW part \in Nat \ {0}, file.name \in Names \cup {NoName},
         part <= fs_disk_records_needed(Len(file.data))
  PROVE  DiskRecord(file, part) \in Record
<1> DEFINE data == [b \in 1 .. FS_DISK_DATA_BYTES |->
                      IF (part - 1) * FS_DISK_DATA_BYTES + b \in DOMAIN file.data
                      THEN file.data[(part - 1) * FS_DISK_DATA_BYTES + b] ELSE 0]
<1>1. file.data \in Seq(Bytes) /\ Len(file.data) \in Nat
  BY DEF File
<1>2. data \in [1 .. FS_DISK_DATA_BYTES -> Bytes]
  <2>1. ASSUME NEW b \in 1 .. FS_DISK_DATA_BYTES
        PROVE  (IF (part - 1) * FS_DISK_DATA_BYTES + b \in DOMAIN file.data
                THEN file.data[(part - 1) * FS_DISK_DATA_BYTES + b] ELSE 0) \in Bytes
    BY <1>1, ExtentsAssumption
  <2> QED
    BY <2>1
<1>3. ChunkSize(Len(file.data), part) \in Nat
  BY <1>1, ChunkSizeType
<1> QED
  BY <1>1, <1>2, <1>3
     DEF DiskRecord, Record, FS_DISK_RECORD_HEAD, FS_DISK_RECORD_CONTINUATION

\* A blank record and a blank table have their types.
LEMMA BlankTableType == BlankRecord \in Record /\ BlankTable \in Table
<1>1. [b \in 1 .. FS_DISK_DATA_BYTES |-> 0] \in [1 .. FS_DISK_DATA_BYTES -> Bytes]
  BY ExtentsAssumption
<1>2. BlankRecord \in Record
  BY <1>1 DEF BlankRecord, Record
<1> QED
  BY <1>2 DEF BlankTable, Table

\* fs_serialize builds a table.
LEMMA SerializeType ==
  ASSUME NEW files \in FileArray
  PROVE  fs_serialize(files) \in Table
<1>1. ASSUME NEW r \in FileIndex
      PROVE  (IF \E e \in Extents(files) : disk_index(files, e) = r
              THEN LET e == CHOOSE e \in Extents(files) : disk_index(files, e) = r
                   IN  DiskRecord(files[e[1]], e[2])
              ELSE BlankRecord) \in Record
  <2>1. CASE \E e \in Extents(files) : disk_index(files, e) = r
    <3> DEFINE e == CHOOSE e \in Extents(files) : disk_index(files, e) = r
    <3>1. e \in Extents(files)
      BY <2>1
    <3> HIDE DEF e
    <3>2. /\ e[1] \in FileIndex /\ e[2] \in Nat \ {0}
          /\ e[2] <= fs_disk_records_needed(Len(files[e[1]].data))
      BY <3>1, ExtentsAssumption DEF Extents
    <3>3. files[e[1]] \in File
      BY <3>2 DEF FileArray
    <3>4. DiskRecord(files[e[1]], e[2]) \in Record
      BY <3>2, <3>3, DiskRecordType DEF File
    <3> QED
      BY <2>1, <3>4 DEF e
  <2>2. CASE ~ \E e \in Extents(files) : disk_index(files, e) = r
    BY <2>2, BlankTableType
  <2> QED
    BY <2>1, <2>2
<1> QED
  BY <1>1 DEF fs_serialize, Table

\* The file read from a valid chain is a file: every byte comes from a record of
\* the chain, none from beyond the table (fs_deserialize_current).
LEMMA FileOfChainType ==
  ASSUME NEW table \in Table, NEW h \in FileIndex, ChainIsValid(table, h)
  PROVE  FileOfChain(table, h) \in File
<1> DEFINE size == table[h].size
<1>1. table[h] \in Record /\ size \in Nat /\ table[h].name \in Names \cup {NoName}
  BY DEF Table, Record
<1>2. ASSUME NEW b \in 1 .. size
      PROVE  table[h + (b - 1) \div FS_DISK_DATA_BYTES]
               .data[((b - 1) % FS_DISK_DATA_BYTES) + 1] \in Bytes
  <2>1. /\ (b - 1) \div FS_DISK_DATA_BYTES \in Nat
        /\ (b - 1) \div FS_DISK_DATA_BYTES
             <= (size + FS_DISK_DATA_BYTES - 1) \div FS_DISK_DATA_BYTES - 1
        /\ ((b - 1) % FS_DISK_DATA_BYTES) + 1 \in 1 .. FS_DISK_DATA_BYTES
    BY <1>1, ExtentsAssumption
  <2>2. h + (b - 1) \div FS_DISK_DATA_BYTES \in Chain(table, h)
    <3>1. fs_disk_records_needed(size)
            = (size + FS_DISK_DATA_BYTES - 1) \div FS_DISK_DATA_BYTES
      BY <1>1 DEF fs_disk_records_needed
    <3>2. /\ (size + FS_DISK_DATA_BYTES - 1) \div FS_DISK_DATA_BYTES \in Int
          /\ h \in Int
      BY <1>1, ExtentsAssumption DEF FileIndex
    <3> QED
      BY <2>1, <3>1, <3>2 DEF Chain
  <2>3. h + (b - 1) \div FS_DISK_DATA_BYTES \in FileIndex
    BY <2>2 DEF ChainIsValid
  <2>4. table[h + (b - 1) \div FS_DISK_DATA_BYTES] \in Record
    BY <2>3 DEF Table
  <2> QED
    BY <2>1, <2>4 DEF Record
<1>3. [b \in 1 .. size |-> table[h + (b - 1) \div FS_DISK_DATA_BYTES]
                             .data[((b - 1) % FS_DISK_DATA_BYTES) + 1]] \in Seq(Bytes)
  BY <1>1, <1>2
<1> QED
  BY <1>1, <1>3 DEF FileOfChain, File

LEMMA ClearedFileType == ClearedFile \in File
BY DEF ClearedFile, File

\* An accepted table of the current format yields a file array.
LEMMA DeserializeCurrentType ==
  ASSUME NEW table \in Table, CurrentTableIsValid(table)
  PROVE  fs_deserialize_current(table) \in FileArray
<1>1. ASSUME NEW n \in FileIndex
      PROVE  fs_deserialize_current(table)[n] \in File
  <2>1. CASE \E h \in Heads(table) : IsNthHead(table, h, n)
    <3> DEFINE h == CHOOSE h \in Heads(table) : IsNthHead(table, h, n)
    <3>1. h \in Heads(table)
      BY <2>1
    <3> HIDE DEF h
    <3>2. h \in FileIndex /\ ChainIsValid(table, h)
      BY <3>1 DEF Heads, CurrentTableIsValid
    <3>3. FileOfChain(table, h) \in File
      BY <3>2, FileOfChainType
    <3> QED
      BY <2>1, <3>3 DEF fs_deserialize_current, h
  <2>2. CASE ~ \E h \in Heads(table) : IsNthHead(table, h, n)
    BY <2>2, ClearedFileType DEF fs_deserialize_current
  <2> QED
    BY <2>1, <2>2
<1>2. fs_deserialize_current(table) = [n \in FileIndex |-> fs_deserialize_current(table)[n]]
  BY DEF fs_deserialize_current
<1> QED
  BY <1>1, <1>2 DEF FileArray

\* An accepted table of versions 1 to 4 yields a file array.
LEMMA DeserializeLegacyType ==
  ASSUME NEW table \in Table, LegacyTableIsValid(table)
  PROVE  fs_deserialize_legacy(table) \in FileArray
<1>1. ASSUME NEW r \in FileIndex
      PROVE  fs_deserialize_legacy(table)[r] \in File
  <2>1. table[r] \in Record
    BY DEF Table
  <2>2. CASE table[r].in_use = 0
    BY <2>2, ClearedFileType DEF fs_deserialize_legacy
  <2>3. CASE table[r].in_use # 0
    <3>1. table[r].size \in Nat /\ table[r].size < FS_DISK_DATA_BYTES
      BY <2>1, <2>3 DEF LegacyTableIsValid, Record
    <3>2. ASSUME NEW b \in 1 .. table[r].size PROVE table[r].data[b] \in Bytes
      BY <2>1, <3>1, ExtentsAssumption DEF Record
    <3>3. [b \in 1 .. table[r].size |-> table[r].data[b]] \in Seq(Bytes)
      BY <3>1, <3>2
    <3> QED
      BY <2>1, <2>3, <3>3 DEF fs_deserialize_legacy, File, Record
  <2> QED
    BY <2>2, <2>3
<1>2. fs_deserialize_legacy(table) = [r \in FileIndex |-> fs_deserialize_legacy(table)[r]]
  BY DEF fs_deserialize_legacy
<1> QED
  BY <1>1, <1>2 DEF FileArray

----------------------------------------------------------------------------
(* The records of a file array *)

\* A file occupies at least one record, at most one per byte, and its last
\* record is the one its last byte is in.
LEMMA NeededBounds ==
  ASSUME NEW size \in Nat
  PROVE  /\ fs_disk_records_needed(size) \in Nat \ {0}
         /\ size <= fs_disk_records_needed(size) * FS_DISK_DATA_BYTES
         /\ size < FS_MAX_FILE_SIZE => fs_disk_records_needed(size) <= FS_MAX_FILE_SIZE
         /\ size <= FS_DISK_DATA_BYTES => fs_disk_records_needed(size) = 1
<1>1. CASE size = 0
  BY <1>1, ExtentsAssumption DEF fs_disk_records_needed
<1>2. CASE size # 0
  <2> DEFINE d == FS_DISK_DATA_BYTES
             n == (size + d - 1) \div d
  <2>1. d \in Nat \ {0}
    BY ExtentsAssumption
  <2>2. n = fs_disk_records_needed(size)
    BY <1>2 DEF fs_disk_records_needed
  <2> HIDE DEF d
  <2>3. n \in Int /\ n * d <= size + d - 1 /\ size + d - 1 < n * d + d
    BY <2>1
  <2> HIDE DEF n
  <2>4. n >= 1
    <3>1. SUFFICES ASSUME n <= 0 PROVE FALSE
      BY <2>3
    <3>2. n * d <= 0
      BY <2>1, <2>3, <3>1
    <3> QED
      BY <1>2, <2>1, <2>3, <3>2
  <2>5. size <= n * d
    BY <2>1, <2>3
  <2>6. n <= size
    <3>1. SUFFICES ASSUME n >= size + 1 PROVE FALSE
      BY <2>3
    <3>2. (n - 1) * d >= size * d
      BY <2>1, <2>3, <3>1
    <3>3. size * d >= size
      BY <2>1
    <3>4. (n - 1) * d = n * d - d
      BY <2>1, <2>3
    <3> QED
      BY <2>1, <2>3, <3>2, <3>3, <3>4
  <2>7. size <= d => n = 1
    <3>1. SUFFICES ASSUME size <= d, n >= 2 PROVE FALSE
      BY <2>3, <2>4
    <3>2. n * d >= 2 * d
      BY <2>1, <2>3, <3>1
    <3> QED
      BY <2>1, <2>3, <3>1, <3>2
  <2> QED
    BY <2>2, <2>3, <2>4, <2>5, <2>6, <2>7, ExtentsAssumption DEF d
<1> QED
  BY <1>1, <1>2

\* The number of records of a file.
Parts(file) == fs_disk_records_needed(Len(file.data))

LEMMA PartsType ==
  ASSUME NEW files, WellFormed(files), NEW i \in InUse(files)
  PROVE  /\ files[i] \in File /\ Len(files[i].data) \in Nat
         /\ Parts(files[i]) \in Nat \ {0}
         /\ Parts(files[i]) <= FS_MAX_FILE_SIZE
         /\ i \in FileIndex /\ files[i].name \in Names
         /\ Len(files[i].data) < FS_MAX_FILE_SIZE
<1>1. /\ i \in FileIndex /\ files[i] \in File /\ Len(files[i].data) < FS_MAX_FILE_SIZE
      /\ files[i].name \in Names
  BY DEF WellFormed, InUse, FileArray
<1>2. Len(files[i].data) \in Nat
  BY <1>1 DEF File
<1> QED
  BY <1>1, <1>2, NeededBounds DEF Parts

\* The encoder emits every part of every file in use.
LEMMA ExtentIff ==
  ASSUME NEW files, WellFormed(files), NEW i, NEW p
  PROVE  <<i, p>> \in Extents(files) <=> i \in InUse(files) /\ p \in 1 .. Parts(files[i])
<1>1. CASE i \in InUse(files)
  BY <1>1, PartsType, ExtentsAssumption DEF Extents, Parts, InUse
<1>2. CASE i \notin InUse(files)
  BY <1>2 DEF Extents, InUse
<1> QED
  BY <1>1, <1>2

LEMMA ExtentShape ==
  ASSUME NEW files, NEW e \in Extents(files)
  PROVE  /\ e = <<e[1], e[2]>> /\ e[1] \in FileIndex /\ e[1] \in Nat
         /\ e[2] \in Nat /\ files[e[1]].in_use
BY DEF Extents, FileIndex

LEMMA ExtentsFinite ==
  ASSUME NEW files
  PROVE  IsFiniteSet(Extents(files)) /\ Cardinality(Extents(files)) \in Nat
<1>1. IsFiniteSet(FileIndex) /\ IsFiniteSet(1 .. FS_MAX_FILE_SIZE)
  BY FS_Interval, ExtentsAssumption DEF FileIndex
<1>2. IsFiniteSet(FileIndex \X (1 .. FS_MAX_FILE_SIZE))
  BY <1>1, FS_Product
<1>3. Extents(files) \in SUBSET (FileIndex \X (1 .. FS_MAX_FILE_SIZE))
  BY DEF Extents
<1>4. IsFiniteSet(Extents(files))
  BY <1>2, <1>3, FS_Subset
<1> QED
  BY <1>4, FS_CardinalityType

\* A record's index counts the records before it: it is at most the number of
\* extents, and a later extent has a larger one.
LEMMA IndexType ==
  ASSUME NEW files, NEW e \in Extents(files)
  PROVE  /\ IsFiniteSet(ExtentsBefore(files, e))
         /\ Cardinality(ExtentsBefore(files, e)) \in Nat
         /\ disk_index(files, e) \in 1 .. Cardinality(Extents(files))
<1> DEFINE S == Extents(files)
           B == ExtentsBefore(files, e)
<1>1. IsFiniteSet(S) /\ Cardinality(S) \in Nat
  BY ExtentsFinite
<1>2. B \in SUBSET (S \ {e})
  BY ExtentShape DEF ExtentsBefore
<1>3. IsFiniteSet(S \ {e}) /\ Cardinality(S \ {e}) = Cardinality(S) - 1
  BY <1>1, FS_RemoveElement
<1> HIDE DEF B
<1>4. IsFiniteSet(B) /\ Cardinality(B) <= Cardinality(S \ {e})
  BY <1>2, <1>3, FS_Subset
<1>5. Cardinality(B) \in Nat
  BY <1>4, FS_CardinalityType
<1> QED
  BY <1>1, <1>3, <1>4, <1>5 DEF B, disk_index

LEMMA IndexIncreasing ==
  ASSUME NEW files, NEW e \in Extents(files), NEW d \in ExtentsBefore(files, e)
  PROVE  disk_index(files, d) < disk_index(files, e)
<1> DEFINE B == ExtentsBefore(files, d)
           C == ExtentsBefore(files, e)
<1>1. d \in Extents(files)
  BY DEF ExtentsBefore
<1>2. /\ IsFiniteSet(B) /\ Cardinality(B) \in Nat
      /\ IsFiniteSet(C) /\ Cardinality(C) \in Nat
  BY <1>1, IndexType
<1>3. d \notin B
  BY <1>1, ExtentShape DEF ExtentsBefore
<1>4. B \cup {d} \in SUBSET C
  <2>1. ASSUME NEW x \in B PROVE x \in C
    <3>1. x \in Extents(files)
      BY DEF ExtentsBefore
    <3> QED
      BY <1>1, <3>1, ExtentShape DEF ExtentsBefore
  <2> QED
    BY <2>1
<1> HIDE DEF B, C
<1>5. Cardinality(B \cup {d}) = Cardinality(B) + 1
  BY <1>2, <1>3, FS_AddElement
<1>6. Cardinality(B \cup {d}) <= Cardinality(C)
  BY <1>2, <1>4, FS_Subset
<1> QED
  BY <1>2, <1>5, <1>6 DEF B, C, disk_index

LEMMA IndexInjective ==
  ASSUME NEW files, NEW d \in Extents(files), NEW e \in Extents(files),
         disk_index(files, d) = disk_index(files, e)
  PROVE  d = e
<1>1. d \in ExtentsBefore(files, e) \/ e \in ExtentsBefore(files, d) \/ d = e
  <2>1. /\ d = <<d[1], d[2]>> /\ d[1] \in Nat /\ d[2] \in Nat
        /\ e = <<e[1], e[2]>> /\ e[1] \in Nat /\ e[2] \in Nat
    BY ExtentShape
  <2>2. \/ d[1] < e[1] \/ e[1] < d[1]
        \/ d[1] = e[1] /\ (d[2] < e[2] \/ e[2] < d[2] \/ d[2] = e[2])
    BY <2>1
  <2> QED
    BY <2>1, <2>2 DEF ExtentsBefore
<1>2. disk_index(files, d) \in Int /\ disk_index(files, e) \in Int
  BY IndexType
<1> QED
  BY <1>1, <1>2, IndexIncreasing

\* The records of one file are consecutive.
LEMMA IndexInChain ==
  ASSUME NEW files, WellFormed(files), NEW i \in InUse(files),
         NEW p \in 1 .. Parts(files[i])
  PROVE  disk_index(files, <<i, p>>) = disk_index(files, <<i, 1>>) + p - 1
<1> DEFINE first == <<i, 1>>
           e == <<i, p>>
           A == ExtentsBefore(files, first)
           B == {i} \X (1 .. p - 1)
           C == ExtentsBefore(files, e)
<1>0. i \in Nat /\ p \in Nat /\ Parts(files[i]) \in Nat \ {0}
  BY PartsType DEF FileIndex
<1>1. first \in Extents(files) /\ e \in Extents(files)
  BY <1>0, ExtentIff
<1>2. IsFiniteSet(A) /\ Cardinality(A) \in Nat
  BY <1>1, IndexType
<1>3. IsFiniteSet(B) /\ Cardinality(B) = p - 1
  <2>1. IsFiniteSet({i}) /\ Cardinality({i}) = 1
    BY FS_Singleton
  <2> DEFINE q == p - 1
  <2>a. q \in Int /\ 1 \in Int /\ q >= 0
    BY <1>0
  <2> HIDE DEF q
  <2>b. IsFiniteSet(1 .. q) /\ Cardinality(1 .. q) = IF 1 > q THEN 0 ELSE q - 1 + 1
    BY <2>a, FS_Interval
  <2>c. Cardinality(1 .. q) = q
    BY <2>a, <2>b
  <2>2. IsFiniteSet(1 .. p - 1) /\ Cardinality(1 .. p - 1) = p - 1
    BY <2>b, <2>c DEF q
  <2>3. IsFiniteSet(B) /\ Cardinality(B) = 1 * (p - 1)
    BY <2>1, <2>2, FS_Product
  <2> QED
    BY <1>0, <2>3
<1>4. A \cap B = {}
  BY <1>0 DEF ExtentsBefore
<1>5. C = A \cup B
  <2>1. ASSUME NEW x \in C PROVE x \in A \cup B
    <3>1. /\ x \in Extents(files) /\ x = <<x[1], x[2]>> /\ x[1] \in Nat /\ x[2] \in Nat
          /\ x[1] < i \/ (x[1] = i /\ x[2] < p)
      BY ExtentShape DEF ExtentsBefore
    <3>2. x[1] = i => x[2] \in 1 .. Parts(files[i])
      BY <3>1, ExtentIff
    <3> QED
      BY <1>0, <3>1, <3>2 DEF ExtentsBefore
  <2>2. ASSUME NEW x \in A PROVE x \in C
    <3>1. /\ x \in Extents(files) /\ x = <<x[1], x[2]>> /\ x[1] \in Nat /\ x[2] \in Nat
          /\ x[1] < i \/ (x[1] = i /\ x[2] < 1)
      BY ExtentShape DEF ExtentsBefore
    <3> QED
      BY <1>0, <3>1 DEF ExtentsBefore
  <2>3. ASSUME NEW x \in B PROVE x \in C
    <3>1. PICK q \in 1 .. p - 1 : x = <<i, q>>
      OBVIOUS
    <3>2. x \in Extents(files)
      BY <1>0, <3>1, ExtentIff
    <3> QED
      BY <1>0, <3>1, <3>2 DEF ExtentsBefore
  <2> QED
    BY <2>1, <2>2, <2>3
<1> HIDE DEF A, B, C
<1>6. Cardinality(C) = Cardinality(A) + Cardinality(B) - Cardinality(A \cap B)
  BY <1>2, <1>3, <1>5, FS_Union
<1>7. Cardinality(A \cap B) = 0
  BY <1>4, FS_EmptySet
<1> QED
  BY <1>0, <1>2, <1>3, <1>6, <1>7 DEF A, C, disk_index

----------------------------------------------------------------------------
(* What fs_serialize writes is read back *)

\* The record of an extent is where its index says, and no other is used.
LEMMA SerializeAt ==
  ASSUME NEW files, Fits(files), NEW e \in Extents(files)
  PROVE  /\ disk_index(files, e) \in FileIndex
         /\ fs_serialize(files)[disk_index(files, e)] = DiskRecord(files[e[1]], e[2])
<1> DEFINE r == disk_index(files, e)
           chosen == CHOOSE d \in Extents(files) : disk_index(files, d) = r
<1>1. r \in FileIndex
  BY IndexType, ExtentsFinite, ExtentsAssumption DEF Fits, FileIndex
<1>2. \E d \in Extents(files) : disk_index(files, d) = r
  OBVIOUS
<1>3. chosen \in Extents(files) /\ disk_index(files, chosen) = r
  BY <1>2
<1>4. fs_serialize(files)[r] = DiskRecord(files[chosen[1]], chosen[2])
  BY <1>1, <1>2 DEF fs_serialize
<1> HIDE DEF r, chosen
<1>5. chosen = e
  BY <1>3, IndexInjective DEF r
<1> QED
  BY <1>1, <1>4, <1>5 DEF r

LEMMA SerializeElse ==
  ASSUME NEW files, NEW r \in FileIndex, fs_serialize(files)[r].in_use # 0
  PROVE  \E e \in Extents(files) : disk_index(files, e) = r
BY DEF fs_serialize, BlankRecord

\* Where the head of file i goes.
HeadOf(files, i) == disk_index(files, <<i, 1>>)

LEMMA ChainWritten ==
  ASSUME NEW files, WellFormed(files), Fits(files), NEW i \in InUse(files),
         NEW p \in 1 .. Parts(files[i])
  PROVE  /\ HeadOf(files, i) \in FileIndex /\ HeadOf(files, i) \in Nat
         /\ HeadOf(files, i) + p - 1 \in FileIndex
         /\ fs_serialize(files)[HeadOf(files, i) + p - 1] = DiskRecord(files[i], p)
<1>0. p \in Nat /\ 1 \in 1 .. Parts(files[i])
  BY PartsType
<1>1. <<i, p>> \in Extents(files) /\ <<i, 1>> \in Extents(files)
  BY <1>0, ExtentIff
<1>2. disk_index(files, <<i, p>>) = HeadOf(files, i) + p - 1
  BY IndexInChain DEF HeadOf
<1>3. /\ disk_index(files, <<i, p>>) \in FileIndex
      /\ fs_serialize(files)[disk_index(files, <<i, p>>)] = DiskRecord(files[i], p)
      /\ disk_index(files, <<i, 1>>) \in FileIndex
  BY <1>1, SerializeAt
<1> QED
  BY <1>2, <1>3 DEF HeadOf, FileIndex

LEMMA HeadWritten ==
  ASSUME NEW files, WellFormed(files), Fits(files), NEW i \in InUse(files)
  PROVE  LET t == fs_serialize(files)
             h == HeadOf(files, i)
         IN  /\ h \in Heads(t) /\ h \in FileIndex /\ h \in Nat
             /\ t[h].name = files[i].name
             /\ t[h].size = Len(files[i].data)
<1>1. 1 \in 1 .. Parts(files[i])
  BY PartsType
<1>2. /\ HeadOf(files, i) \in FileIndex /\ HeadOf(files, i) \in Nat
      /\ fs_serialize(files)[HeadOf(files, i) + 1 - 1] = DiskRecord(files[i], 1)
  BY <1>1, ChainWritten
<1>3. fs_serialize(files)[HeadOf(files, i)] = DiskRecord(files[i], 1)
  BY <1>2
<1>4. /\ DiskRecord(files[i], 1).in_use = FS_DISK_RECORD_HEAD
      /\ DiskRecord(files[i], 1).name = files[i].name
      /\ DiskRecord(files[i], 1).size = Len(files[i].data)
  BY DEF DiskRecord
<1> QED
  BY <1>2, <1>3, <1>4 DEF Heads, IsHead

\* A record in use is record r of the chain of one file.
LEMMA UsedRecord ==
  ASSUME NEW files, WellFormed(files), Fits(files),
         NEW r \in FileIndex, fs_serialize(files)[r].in_use # 0
  PROVE  \E i \in InUse(files) : \E p \in 1 .. Parts(files[i]) :
           /\ r = HeadOf(files, i) + p - 1
           /\ fs_serialize(files)[r] = DiskRecord(files[i], p)
<1>1. PICK e \in Extents(files) : disk_index(files, e) = r
  BY SerializeElse
<1>2. e = <<e[1], e[2]>>
  BY ExtentShape
<1>3. e[1] \in InUse(files) /\ e[2] \in 1 .. Parts(files[e[1]])
  BY <1>1, <1>2, ExtentIff
<1>4. r = HeadOf(files, e[1]) + e[2] - 1
  BY <1>1, <1>2, <1>3, IndexInChain DEF HeadOf
<1>5. fs_serialize(files)[r] = DiskRecord(files[e[1]], e[2])
  BY <1>1, SerializeAt
<1> QED
  BY <1>3, <1>4, <1>5

LEMMA HeadsAreOfFiles ==
  ASSUME NEW files, WellFormed(files), Fits(files), NEW h \in Heads(fs_serialize(files))
  PROVE  \E i \in InUse(files) : h = HeadOf(files, i)
<1>1. h \in FileIndex /\ fs_serialize(files)[h].in_use = 1
  BY DEF Heads, IsHead, FS_DISK_RECORD_HEAD
<1>2. PICK i \in InUse(files) : \E p \in 1 .. Parts(files[i]) :
        /\ h = HeadOf(files, i) + p - 1
        /\ fs_serialize(files)[h] = DiskRecord(files[i], p)
  BY <1>1, UsedRecord
<1>3. PICK p \in 1 .. Parts(files[i]) :
        /\ h = HeadOf(files, i) + p - 1
        /\ fs_serialize(files)[h] = DiskRecord(files[i], p)
  BY <1>2
<1>4. p = 1
  BY <1>1, <1>3 DEF DiskRecord, FS_DISK_RECORD_CONTINUATION
<1>5. HeadOf(files, i) \in Nat
  BY HeadWritten
<1> QED
  BY <1>3, <1>4, <1>5

\* Each chain is accepted by the validation loop.
LEMMA WrittenChainIsValid ==
  ASSUME NEW files, WellFormed(files), Fits(files), NEW i \in InUse(files)
  PROVE  ChainIsValid(fs_serialize(files), HeadOf(files, i))
<1> DEFINE t == fs_serialize(files)
           h == HeadOf(files, i)
           n == Parts(files[i])
<1>1. /\ h \in Heads(t) /\ h \in FileIndex /\ h \in Nat
      /\ t[h].name = files[i].name /\ t[h].size = Len(files[i].data)
  BY HeadWritten
<1>2. /\ n \in Nat \ {0} /\ files[i].name \in Names
      /\ Len(files[i].data) \in Nat /\ Len(files[i].data) < FS_MAX_FILE_SIZE
  BY PartsType
<1>3. \A p \in 1 .. n : h + p - 1 \in FileIndex /\ t[h + p - 1] = DiskRecord(files[i], p)
  BY ChainWritten
<1>4. Chain(t, h) = h .. h + n - 1
  BY <1>1 DEF Chain, Parts
<1>5. ASSUME NEW p \in 1 .. h - 1, IsHead(t, p) PROVE t[p].name # t[h].name
  <2>1. p \in Heads(t)
    BY <1>1, <1>5, ExtentsAssumption DEF Heads, FileIndex
  <2>2. PICK j \in InUse(files) : p = HeadOf(files, j)
    BY <2>1, HeadsAreOfFiles
  <2>3. t[p].name = files[j].name
    BY <2>2, HeadWritten
  <2>4. j # i
    BY <1>1, <2>2
  <2> QED
    BY <1>1, <2>3, <2>4 DEF WellFormed, NamesAreUnique
<1> HIDE DEF t, h, n
<1>6. Chain(t, h) \subseteq FileIndex
  <2>1. ASSUME NEW r \in h .. h + n - 1 PROVE r \in FileIndex
    <3>1. r - h + 1 \in 1 .. n /\ h + (r - h + 1) - 1 = r
      BY <1>1, <1>2
    <3> QED
      BY <1>3, <3>1
  <2> QED
    BY <1>4, <2>1
<1>7. ASSUME NEW r \in Chain(t, h) \ {h}
      PROVE  fs_disk_continuation_is_valid(t[r], ChunkSize(t[h].size, r - h + 1))
  <2>1. r - h + 1 \in 1 .. n /\ h + (r - h + 1) - 1 = r /\ r - h + 1 # 1
    BY <1>1, <1>2, <1>4
  <2>2. t[r] = DiskRecord(files[i], r - h + 1)
    BY <1>3, <2>1
  <2> DEFINE q == r - h + 1
  <2>3. q # 1 /\ t[r] = DiskRecord(files[i], q)
    BY <2>1, <2>2
  <2> HIDE DEF q
  <2>4. t[r] = [in_use |-> FS_DISK_RECORD_CONTINUATION, name |-> NoName,
                size |-> ChunkSize(Len(files[i].data), q), data |-> t[r].data]
    BY <2>3 DEF DiskRecord
  <2>5. fs_disk_continuation_is_valid(t[r], ChunkSize(t[h].size, q))
    BY <1>1, <2>4 DEF fs_disk_continuation_is_valid
  <2> QED
    BY <2>5 DEF q
<1>8. NameIsFresh(t, h)
  BY <1>1, <1>2, <1>5 DEF NameIsFresh, fs_is_valid_name
<1> QED
  BY <1>1, <1>2, <1>6, <1>7, <1>8 DEF ChainIsValid, t, h

LEMMA WrittenTableIsValid ==
  ASSUME NEW files, WellFormed(files), Fits(files)
  PROVE  CurrentTableIsValid(fs_serialize(files))
<1> DEFINE t == fs_serialize(files)
<1>1. ASSUME NEW h \in Heads(t) PROVE ChainIsValid(t, h)
  BY HeadsAreOfFiles, WrittenChainIsValid
<1>2. ASSUME NEW r \in FileIndex, t[r].in_use # 0
      PROVE  \E h \in Heads(t) : r \in Chain(t, h)
  <2>1. PICK i \in InUse(files) : \E p \in 1 .. Parts(files[i]) :
          r = HeadOf(files, i) + p - 1
    BY <1>2, UsedRecord
  <2>2. PICK p \in 1 .. Parts(files[i]) : r = HeadOf(files, i) + p - 1
    BY <2>1
  <2> DEFINE h == HeadOf(files, i)
             n == Parts(files[i])
  <2>3. h \in Heads(t) /\ h \in Nat /\ t[h].size = Len(files[i].data)
    BY HeadWritten
  <2>4. n \in Nat \ {0}
    BY PartsType
  <2>5. Chain(t, h) = h .. h + n - 1
    BY <2>3 DEF Chain, Parts
  <2> HIDE DEF h, n, t
  <2>6. r \in Chain(t, h)
    BY <2>2, <2>3, <2>4, <2>5 DEF h, n
  <2> QED
    BY <2>3, <2>6
<1> QED
  BY <1>1, <1>2 DEF CurrentTableIsValid

\* The byte c of part p of a file.
LEMMA DiskRecordData ==
  ASSUME NEW file, NEW p, NEW c \in 1 .. FS_DISK_DATA_BYTES,
         (p - 1) * FS_DISK_DATA_BYTES + c \in DOMAIN file.data
  PROVE  DiskRecord(file, p).data[c] = file.data[(p - 1) * FS_DISK_DATA_BYTES + c]
BY DEF DiskRecord

\* Where byte b of a file is: a part and a place in it.
LEMMA BytePlace ==
  ASSUME NEW size \in Nat, NEW b \in 1 .. size
  PROVE  LET q == (b - 1) \div FS_DISK_DATA_BYTES
             c == ((b - 1) % FS_DISK_DATA_BYTES) + 1
         IN  /\ q \in Nat /\ q + 1 \in 1 .. fs_disk_records_needed(size)
             /\ c \in 1 .. FS_DISK_DATA_BYTES
             /\ q * FS_DISK_DATA_BYTES + c = b
<1> DEFINE d == FS_DISK_DATA_BYTES
           q == (b - 1) \div d
           c == ((b - 1) % d) + 1
           n == fs_disk_records_needed(size)
<1>1. d \in Nat \ {0} /\ b \in Nat /\ b >= 1 /\ b <= size
  BY ExtentsAssumption
<1>2. n \in Nat \ {0} /\ size <= n * d
  BY NeededBounds
<1> HIDE DEF d, n
<1>3. q \in Nat /\ c \in 1 .. d /\ q * d + c = b
  BY <1>1
<1> HIDE DEF q, c
<1>4. q + 1 <= n
  <2>1. SUFFICES ASSUME q >= n PROVE FALSE
    BY <1>2, <1>3
  <2>2. q * d >= n * d
    BY <1>1, <1>2, <1>3, <2>1
  <2> QED
    BY <1>1, <1>2, <1>3, <2>2
<1> QED
  BY <1>2, <1>3, <1>4 DEF d, q, c, n

LEMMA FileOfWrittenChain ==
  ASSUME NEW files, WellFormed(files), Fits(files), NEW i \in InUse(files)
  PROVE  FileOfChain(fs_serialize(files), HeadOf(files, i)) = files[i]
<1> DEFINE t == fs_serialize(files)
           h == HeadOf(files, i)
           data == files[i].data
           size == Len(data)
           d == FS_DISK_DATA_BYTES
<1>1. /\ h \in Nat /\ t[h].name = files[i].name /\ t[h].size = size
  BY HeadWritten
<1>2. files[i] \in File /\ size \in Nat /\ files[i].in_use
  BY PartsType DEF InUse
<1>3. data \in Seq(Bytes) /\ DOMAIN data = 1 .. size
  BY <1>2 DEF File
<1>4. ASSUME NEW b \in 1 .. size
      PROVE  t[h + (b - 1) \div d].data[((b - 1) % d) + 1] = data[b]
  <2> DEFINE q == (b - 1) \div d
             c == ((b - 1) % d) + 1
  <2>1. /\ q \in Nat /\ q + 1 \in 1 .. Parts(files[i])
        /\ c \in 1 .. d /\ q * d + c = b
    BY <1>2, BytePlace DEF Parts
  <2> HIDE DEF q, c
  <2>2. t[h + (q + 1) - 1] = DiskRecord(files[i], q + 1)
    BY <2>1, ChainWritten
  <2>3. h + (q + 1) - 1 = h + q /\ (q + 1) - 1 = q
    BY <1>1, <2>1
  <2> DEFINE part == q + 1
  <2>4. t[h + q] = DiskRecord(files[i], part) /\ part - 1 = q
    BY <2>2, <2>3
  <2> HIDE DEF part, t, h
  <2>5. (part - 1) * d + c = b
    BY <2>1, <2>4
  <2>6. DiskRecord(files[i], part).data[c] = data[(part - 1) * d + c]
    BY <1>3, <2>1, <2>5, DiskRecordData
  <2>7. t[h + q].data[c] = data[b]
    BY <2>4, <2>5, <2>6
  <2> QED
    BY <2>7 DEF q, c
<1>5. [b \in 1 .. size |-> t[h + (b - 1) \div d].data[((b - 1) % d) + 1]] = data
  <2> DEFINE Read(b) == t[h + (b - 1) \div d].data[((b - 1) % d) + 1]
  <2>1. \A b \in 1 .. size : Read(b) = data[b]
    BY <1>4
  <2> HIDE DEF Read
  <2>2. data = [b \in 1 .. size |-> data[b]]
    BY <1>3
  <2>3. [b \in 1 .. size |-> Read(b)] = [b \in 1 .. size |-> data[b]]
    BY <2>1, Zenon
  <2>4. [b \in 1 .. size |-> Read(b)] = data
    BY <2>2, <2>3, Zenon
  <2> QED
    BY <2>4, Zenon DEF Read
<1>6. FileOfChain(t, h) = [in_use |-> TRUE, name |-> files[i].name, data |-> data]
  BY <1>1, <1>5 DEF FileOfChain
<1> HIDE DEF t, h
<1> QED
  BY <1>2, <1>6 DEF File, t, h

----------------------------------------------------------------------------
(* What fs_deserialize_current makes of any table it accepts *)

HeadsBelow(table, h) == {g \in Heads(table) : g < h}

LEMMA HeadsFinite ==
  ASSUME NEW table, NEW h \in Heads(table)
  PROVE  /\ h \in FileIndex /\ h \in Nat
         /\ IsFiniteSet(HeadsBelow(table, h))
         /\ Cardinality(HeadsBelow(table, h)) \in Nat
         /\ Cardinality(HeadsBelow(table, h)) < FS_MAX_FILES
<1>1. IsFiniteSet(FileIndex) /\ Cardinality(FileIndex) = FS_MAX_FILES
  BY FS_Interval, ExtentsAssumption DEF FileIndex
<1>2. h \in FileIndex /\ h \in Nat
  BY DEF Heads, FileIndex
<1>3. IsFiniteSet(FileIndex \ {h}) /\ Cardinality(FileIndex \ {h}) = FS_MAX_FILES - 1
  BY <1>1, <1>2, FS_RemoveElement
<1> DEFINE B == HeadsBelow(table, h)
<1>4. B \in SUBSET (FileIndex \ {h})
  BY <1>2 DEF HeadsBelow, Heads
<1> HIDE DEF B
<1>5. IsFiniteSet(B) /\ Cardinality(B) <= Cardinality(FileIndex \ {h})
  BY <1>3, <1>4, FS_Subset
<1>6. Cardinality(B) \in Nat
  BY <1>5, FS_CardinalityType
<1> QED
  BY <1>2, <1>3, <1>5, <1>6, ExtentsAssumption DEF B

LEMMA RankIncreasing ==
  ASSUME NEW table, NEW h \in Heads(table), NEW g \in Heads(table), g < h
  PROVE  Cardinality(HeadsBelow(table, g)) < Cardinality(HeadsBelow(table, h))
<1> DEFINE B == HeadsBelow(table, g)
           C == HeadsBelow(table, h)
<1>1. /\ g \in Nat /\ h \in Nat
      /\ IsFiniteSet(B) /\ Cardinality(B) \in Nat
      /\ IsFiniteSet(C) /\ Cardinality(C) \in Nat
  BY HeadsFinite
<1>2. g \notin B
  BY <1>1 DEF HeadsBelow
<1>3. B \cup {g} \in SUBSET C
  <2>1. \A x \in Heads(table) : x \in Nat
    BY HeadsFinite
  <2>2. ASSUME NEW x \in B PROVE x \in C
    <3>1. x \in Heads(table) /\ x < g
      BY DEF HeadsBelow
    <3>2. x < h
      BY <1>1, <2>1, <3>1
    <3> QED
      BY <3>1, <3>2 DEF HeadsBelow
  <2>3. g \in C
    BY DEF HeadsBelow
  <2> QED
    BY <2>2, <2>3
<1> HIDE DEF B, C
<1>4. Cardinality(B \cup {g}) = Cardinality(B) + 1
  BY <1>1, <1>2, FS_AddElement
<1>5. Cardinality(B \cup {g}) <= Cardinality(C)
  BY <1>1, <1>3, FS_Subset
<1> QED
  BY <1>1, <1>4, <1>5 DEF B, C

\* Different heads have different ranks.
LEMMA NthHeadUnique ==
  ASSUME NEW table, NEW n \in Nat, NEW h \in Heads(table), NEW g \in Heads(table),
         IsNthHead(table, h, n), IsNthHead(table, g, n)
  PROVE  g = h
<1>1. /\ g \in Nat /\ h \in Nat
      /\ Cardinality(HeadsBelow(table, g)) \in Nat
      /\ Cardinality(HeadsBelow(table, h)) \in Nat
  BY HeadsFinite
<1>2. Cardinality(HeadsBelow(table, g)) = Cardinality(HeadsBelow(table, h))
  BY DEF IsNthHead, HeadsBelow
<1> QED
  BY <1>1, <1>2, RankIncreasing

\* Every head is decoded, at its rank.
LEMMA HeadIsDecoded ==
  ASSUME NEW table, NEW h \in Heads(table)
  PROVE  \E n \in FileIndex :
           /\ IsNthHead(table, h, n)
           /\ fs_deserialize_current(table)[n] = FileOfChain(table, h)
<1> DEFINE c == Cardinality(HeadsBelow(table, h))
           n == c + 1
<1>a. c \in Nat /\ c < FS_MAX_FILES
  BY HeadsFinite
<1>b. IsNthHead(table, h, n) <=> c = n - 1
  BY DEF IsNthHead, HeadsBelow
<1> HIDE DEF c
<1>1. n \in FileIndex /\ n \in Nat /\ IsNthHead(table, h, n)
  BY <1>a, <1>b, ExtentsAssumption DEF FileIndex
<1> HIDE DEF n
<1> DEFINE g == CHOOSE g \in Heads(table) : IsNthHead(table, g, n)
<1>2. g \in Heads(table) /\ IsNthHead(table, g, n)
  BY <1>1
<1>3. fs_deserialize_current(table)[n] = FileOfChain(table, g)
  BY <1>1 DEF fs_deserialize_current
<1> HIDE DEF g
<1>4. g = h
  BY <1>1, <1>2, NthHeadUnique
<1> QED
  BY <1>1, <1>3, <1>4

\* Every decoded file is that of a head, and the rest is cleared.
LEMMA DecodedIsHead ==
  ASSUME NEW table, NEW n \in FileIndex
  PROVE  \/ /\ fs_deserialize_current(table)[n] = ClearedFile
         \/ \E h \in Heads(table) :
              /\ IsNthHead(table, h, n)
              /\ fs_deserialize_current(table)[n] = FileOfChain(table, h)
<1>1. CASE \E h \in Heads(table) : IsNthHead(table, h, n)
  <2> DEFINE g == CHOOSE g \in Heads(table) : IsNthHead(table, g, n)
  <2>1. g \in Heads(table) /\ IsNthHead(table, g, n)
    BY <1>1
  <2>2. fs_deserialize_current(table)[n] = FileOfChain(table, g)
    BY <1>1 DEF fs_deserialize_current
  <2> QED
    BY <2>1, <2>2
<1>2. CASE ~ \E h \in Heads(table) : IsNthHead(table, h, n)
  BY <1>2 DEF fs_deserialize_current
<1> QED
  BY <1>1, <1>2

LEMMA LogicalDecoded ==
  ASSUME NEW table
  PROVE  Logical(fs_deserialize_current(table))
           = {<<FileOfChain(table, h).name, FileOfChain(table, h).data>> : h \in Heads(table)}
<1> DEFINE files == fs_deserialize_current(table)
<1>1. ASSUME NEW h \in Heads(table)
      PROVE  <<FileOfChain(table, h).name, FileOfChain(table, h).data>> \in Logical(files)
  <2>1. PICK n \in FileIndex : files[n] = FileOfChain(table, h)
    BY HeadIsDecoded
  <2>2. files[n].in_use
    BY <2>1 DEF FileOfChain
  <2> HIDE DEF files
  <2> QED
    BY <2>1, <2>2 DEF Logical, InUse
<1>2. ASSUME NEW x \in Logical(files)
      PROVE  \E h \in Heads(table) :
               x = <<FileOfChain(table, h).name, FileOfChain(table, h).data>>
  <2>1. PICK n \in InUse(files) : x = <<files[n].name, files[n].data>>
    BY DEF Logical
  <2>2. n \in FileIndex /\ files[n].in_use
    BY DEF InUse
  <2>3. files[n] # ClearedFile
    BY <2>2 DEF ClearedFile
  <2>4. PICK h \in Heads(table) : files[n] = FileOfChain(table, h)
    BY <2>2, <2>3, DecodedIsHead
  <2> QED
    BY <2>1, <2>4
<1> HIDE DEF files
<1> QED
  BY <1>1, <1>2 DEF files

\* The chains of an accepted table do not overlap.
LEMMA ChainsDisjoint ==
  ASSUME NEW table \in Table, CurrentTableIsValid(table),
         NEW g \in Heads(table), NEW h \in Heads(table),
         NEW r \in Chain(table, g) \cap Chain(table, h)
  PROVE  g = h
<1>1. ASSUME NEW a \in Heads(table), NEW b \in Heads(table), a < b,
             r \in Chain(table, a), r \in Chain(table, b)
      PROVE  FALSE
  <2> DEFINE n == fs_disk_records_needed(table[a].size)
  <2>1. a \in FileIndex /\ a \in Nat /\ b \in Nat
    BY HeadsFinite
  <2>2. n \in Nat \ {0}
    BY <2>1, NeededBounds DEF Table, Record
  <2>3. r \in a .. a + n - 1 /\ r >= b /\ r \in Int
    BY <1>1, <2>1 DEF Chain
  <2> HIDE DEF n
  <2>4. b \in a .. a + n - 1 /\ b # a
    BY <1>1, <2>1, <2>2, <2>3
  <2>5. b \in Chain(table, a) \ {a}
    BY <2>4 DEF Chain, n
  <2>6. table[b].in_use = FS_DISK_RECORD_CONTINUATION
    BY <2>5 DEF CurrentTableIsValid, ChainIsValid, fs_disk_continuation_is_valid
  <2>7. table[b].in_use = FS_DISK_RECORD_HEAD
    BY DEF Heads, IsHead
  <2> QED
    BY <2>6, <2>7 DEF FS_DISK_RECORD_HEAD, FS_DISK_RECORD_CONTINUATION
<1>2. g \in Nat /\ h \in Nat
  BY HeadsFinite
<1> QED
  BY <1>1, <1>2

\* Two heads of an accepted table have different names.
LEMMA HeadNamesUnique ==
  ASSUME NEW table, CurrentTableIsValid(table), NEW g \in Heads(table), NEW h \in Heads(table),
         table[g].name = table[h].name
  PROVE  g = h
<1>1. ASSUME NEW a \in Heads(table), NEW b \in Heads(table), a < b PROVE table[a].name # table[b].name
  <2>1. a \in Nat /\ b \in Nat /\ a \in FileIndex
    BY HeadsFinite
  <2>2. NameIsFresh(table, b)
    BY DEF CurrentTableIsValid, ChainIsValid
  <2>3. a \in 1 .. b - 1 /\ IsHead(table, a)
    BY <1>1, <2>1 DEF Heads, FileIndex
  <2> QED
    BY <2>2, <2>3 DEF NameIsFresh
<1>2. g \in Nat /\ h \in Nat
  BY HeadsFinite
<1> QED
  BY <1>1, <1>2

\* A file read from a head, in terms of the head.
LEMMA FileOfHead ==
  ASSUME NEW table \in Table, CurrentTableIsValid(table), NEW h \in Heads(table)
  PROVE  LET file == FileOfChain(table, h)
         IN  /\ file \in File /\ file.in_use
             /\ file.name = table[h].name /\ file.name \in Names
             /\ Len(file.data) = table[h].size /\ Len(file.data) < FS_MAX_FILE_SIZE
<1>1. h \in FileIndex /\ ChainIsValid(table, h)
  BY HeadsFinite DEF CurrentTableIsValid
<1>2. FileOfChain(table, h) \in File
  BY <1>1, FileOfChainType
<1>3. table[h].size \in Nat
  BY <1>1 DEF Table, Record
<1>4. table[h].size < FS_MAX_FILE_SIZE /\ table[h].name \in Names
  BY <1>1 DEF ChainIsValid, NameIsFresh, fs_is_valid_name
<1>5. Len(FileOfChain(table, h).data) = table[h].size
  BY <1>3 DEF FileOfChain
<1>6. FileOfChain(table, h).in_use /\ FileOfChain(table, h).name = table[h].name
  BY DEF FileOfChain
<1> QED
  BY <1>2, <1>4, <1>5, <1>6

\* The head file n of the decoded array was read from.
LEMMA DecodedInUse ==
  ASSUME NEW table, NEW n \in InUse(fs_deserialize_current(table))
  PROVE  /\ n \in FileIndex /\ n \in Nat
         /\ \E h \in Heads(table) :
              /\ IsNthHead(table, h, n)
              /\ fs_deserialize_current(table)[n] = FileOfChain(table, h)
<1>1. n \in FileIndex /\ n \in Nat /\ fs_deserialize_current(table)[n].in_use
  BY DEF InUse, FileIndex
<1>2. fs_deserialize_current(table)[n] # ClearedFile
  BY <1>1 DEF ClearedFile
<1> QED
  BY <1>1, <1>2, DecodedIsHead

LEMMA DecodedWellFormed ==
  ASSUME NEW table \in Table, CurrentTableIsValid(table)
  PROVE  WellFormed(fs_deserialize_current(table))
<1> DEFINE files == fs_deserialize_current(table)
<1>1. files \in FileArray
  BY DeserializeCurrentType
<1>2. ASSUME NEW n \in InUse(files), NEW m \in InUse(files), files[n].name = files[m].name
      PROVE  n = m
  <2>1. PICK h \in Heads(table) : IsNthHead(table, h, n) /\ files[n] = FileOfChain(table, h)
    BY DecodedInUse
  <2>2. PICK g \in Heads(table) : IsNthHead(table, g, m) /\ files[m] = FileOfChain(table, g)
    BY DecodedInUse
  <2>3. h = g
    BY <1>2, <2>1, <2>2, FileOfHead, HeadNamesUnique
  <2>4. n \in Nat /\ m \in Nat
    BY DecodedInUse
  <2>5. n - 1 = m - 1
    BY <2>1, <2>2, <2>3 DEF IsNthHead
  <2> QED
    BY <2>4, <2>5
<1>3. ASSUME NEW n \in FileIndex
      PROVE  IF files[n].in_use
             THEN files[n].name \in Names /\ Len(files[n].data) < FS_MAX_FILE_SIZE
             ELSE files[n] = ClearedFile
  <2>1. CASE files[n] = ClearedFile
    BY <2>1 DEF ClearedFile
  <2>2. ASSUME NEW h \in Heads(table), files[n] = FileOfChain(table, h)
        PROVE  /\ files[n].in_use /\ files[n].name \in Names
               /\ Len(files[n].data) < FS_MAX_FILE_SIZE
    BY <2>2, FileOfHead
  <2> QED
    BY <2>1, <2>2, DecodedIsHead
<1> HIDE DEF files
<1> QED
  BY <1>1, <1>2, <1>3 DEF WellFormed, NamesAreUnique, files

\* Files fit in a table when their extents have different records to go to.
LEMMA FitsByInjection ==
  ASSUME NEW files, NEW f \in [Extents(files) -> FileIndex],
         \A d, e \in Extents(files) : f[d] = f[e] => d = e
  PROVE  Fits(files)
<1>1. IsFiniteSet(FileIndex) /\ Cardinality(FileIndex) = FS_MAX_FILES
  BY FS_Interval, ExtentsAssumption DEF FileIndex
<1>2. f \in Injection(Extents(files), FileIndex)
  BY DEF Injection, IsInjective
<1>3. Cardinality(Extents(files)) <= Cardinality(FileIndex)
  BY <1>1, <1>2, FS_Injection
<1> QED
  BY <1>1, <1>3 DEF Fits

LEMMA DecodedFits ==
  ASSUME NEW table \in Table, CurrentTableIsValid(table)
  PROVE  Fits(fs_deserialize_current(table))
<1> DEFINE files == fs_deserialize_current(table)
           HeadAt(n) == CHOOSE h \in Heads(table) : IsNthHead(table, h, n)
           f == [e \in Extents(files) |-> HeadAt(e[1]) + e[2] - 1]
<1>1. WellFormed(files)
  BY DecodedWellFormed
<1>2. ASSUME NEW e \in Extents(files)
      PROVE  /\ HeadAt(e[1]) \in Heads(table) /\ IsNthHead(table, HeadAt(e[1]), e[1])
             /\ HeadAt(e[1]) \in Nat /\ e[1] \in Nat /\ e[2] \in Nat /\ e = <<e[1], e[2]>>
             /\ HeadAt(e[1]) + e[2] - 1 \in Chain(table, HeadAt(e[1]))
  <2>1. e = <<e[1], e[2]>>
    BY ExtentShape
  <2>2. e[1] \in InUse(files) /\ e[2] \in 1 .. Parts(files[e[1]])
    BY <1>1, <2>1, ExtentIff
  <2>3. PICK h \in Heads(table) : IsNthHead(table, h, e[1]) /\ files[e[1]] = FileOfChain(table, h)
    BY <2>2, DecodedInUse
  <2>4. HeadAt(e[1]) \in Heads(table) /\ IsNthHead(table, HeadAt(e[1]), e[1])
    BY <2>3
  <2> HIDE DEF HeadAt, files
  <2>5. e[1] \in Nat
    BY ExtentShape
  <2>6. HeadAt(e[1]) = h
    BY <2>3, <2>4, <2>5, NthHeadUnique
  <2>7. Parts(files[e[1]]) = fs_disk_records_needed(table[h].size)
    BY <2>3, FileOfHead DEF Parts
  <2>8. h \in Nat /\ Parts(files[e[1]]) \in Nat
    BY <1>1, <2>2, HeadsFinite, PartsType
  <2>9. h + e[2] - 1 \in Chain(table, h)
    BY <2>2, <2>7, <2>8 DEF Chain
  <2> QED
    BY <2>1, <2>2, <2>4, <2>5, <2>6, <2>8, <2>9
<1> HIDE DEF HeadAt, files
<1>3. f \in [Extents(files) -> FileIndex]
  <2>1. ASSUME NEW e \in Extents(files) PROVE HeadAt(e[1]) + e[2] - 1 \in FileIndex
    BY <1>2 DEF CurrentTableIsValid, ChainIsValid
  <2> QED
    BY <2>1
<1>4. ASSUME NEW d \in Extents(files), NEW e \in Extents(files), f[d] = f[e] PROVE d = e
  <2>1. HeadAt(d[1]) + d[2] - 1 = HeadAt(e[1]) + e[2] - 1
    BY <1>4
  <2> DEFINE h == HeadAt(e[1])
             g == HeadAt(d[1])
  <2>2. h \in Heads(table) /\ g \in Heads(table)
    BY <1>2
  <2>3. h + e[2] - 1 \in Chain(table, h) /\ h + e[2] - 1 \in Chain(table, g)
    BY <1>2, <2>1
  <2> HIDE DEF h, g
  <2>4. g = h
    BY <2>2, <2>3, ChainsDisjoint
  <2>5. d[1] - 1 = e[1] - 1
    BY <1>2, <2>4 DEF IsNthHead, g, h
  <2>6. d[2] = e[2] /\ d[1] = e[1]
    BY <1>2, <2>1, <2>4, <2>5 DEF g, h
  <2> QED
    BY <1>2, <2>6
<1> HIDE DEF f
<1> QED
  BY <1>3, <1>4, FitsByInjection DEF files

\* Files of one record each always fit.
LEMMA SmallFilesFit ==
  ASSUME NEW files, WellFormed(files),
         \A i \in InUse(files) : Len(files[i].data) <= FS_DISK_DATA_BYTES
  PROVE  Fits(files)
<1> DEFINE f == [e \in Extents(files) |-> e[1]]
<1>1. ASSUME NEW e \in Extents(files) PROVE e = <<e[1], 1>> /\ e[1] \in FileIndex
  <2>1. e = <<e[1], e[2]>>
    BY ExtentShape
  <2>2. e[1] \in InUse(files) /\ e[2] \in 1 .. Parts(files[e[1]])
    BY <2>1, ExtentIff
  <2>3. Parts(files[e[1]]) = 1
    BY <2>2, PartsType, NeededBounds DEF Parts
  <2> QED
    BY <2>1, <2>2, <2>3 DEF InUse
<1>2. f \in [Extents(files) -> FileIndex]
  BY <1>1
<1>3. ASSUME NEW d \in Extents(files), NEW e \in Extents(files), f[d] = f[e] PROVE d = e
  <2>1. d[1] = e[1]
    BY <1>3
  <2> QED
    BY <1>1, <2>1
<1> HIDE DEF f
<1> QED
  BY <1>2, <1>3, FitsByInjection

\* Files fit when each takes no more records than one that fits.
LEMMA FewerExtentsFit ==
  ASSUME NEW files, NEW old, Fits(old), Extents(files) \subseteq Extents(old)
  PROVE  Fits(files)
<1>1. IsFiniteSet(Extents(old)) /\ Cardinality(Extents(old)) \in Nat
  BY ExtentsFinite
<1>2. Cardinality(Extents(files)) <= Cardinality(Extents(old))
  BY <1>1, FS_Subset
<1>3. Cardinality(Extents(files)) \in Nat
  BY ExtentsFinite
<1> QED
  BY <1>1, <1>2, <1>3, ExtentsAssumption DEF Fits

\* A file read from a record of versions 1 to 4.
LEMMA LegacyInUse ==
  ASSUME NEW table \in Table, LegacyTableIsValid(table), NEW r \in FileIndex,
         table[r].in_use # 0
  PROVE  LET file == fs_deserialize_legacy(table)[r]
         IN  /\ IsHead(table, r) /\ NameIsFresh(table, r)
             /\ file.in_use /\ file.name = table[r].name /\ file.name \in Names
             /\ Len(file.data) \in Nat /\ Len(file.data) < FS_DISK_DATA_BYTES
<1>1. table[r].size \in Nat
  BY DEF Table, Record
<1>2. /\ IsHead(table, r) /\ table[r].size < FS_DISK_DATA_BYTES /\ NameIsFresh(table, r)
  BY DEF LegacyTableIsValid
<1>3. fs_deserialize_legacy(table)[r]
        = [in_use |-> TRUE, name |-> table[r].name,
           data |-> [b \in 1 .. table[r].size |-> table[r].data[b]]]
  BY DEF fs_deserialize_legacy
<1>4. Len([b \in 1 .. table[r].size |-> table[r].data[b]]) = table[r].size
  BY <1>1
<1> QED
  BY <1>1, <1>2, <1>3, <1>4 DEF NameIsFresh, fs_is_valid_name

LEMMA LegacyWellFormed ==
  ASSUME NEW table \in Table, LegacyTableIsValid(table)
  PROVE  /\ WellFormed(fs_deserialize_legacy(table))
         /\ Fits(fs_deserialize_legacy(table))
         /\ \A i \in InUse(fs_deserialize_legacy(table)) :
              Len(fs_deserialize_legacy(table)[i].data) < FS_DISK_DATA_BYTES
<1> DEFINE files == fs_deserialize_legacy(table)
<1>1. files \in FileArray
  BY DeserializeLegacyType
<1>2. ASSUME NEW r \in FileIndex
      PROVE  \/ files[r] = ClearedFile
             \/ /\ IsHead(table, r) /\ NameIsFresh(table, r)
                /\ files[r].in_use /\ files[r].name = table[r].name /\ files[r].name \in Names
                /\ Len(files[r].data) \in Nat /\ Len(files[r].data) < FS_DISK_DATA_BYTES
  <2>1. CASE table[r].in_use = 0
    BY <2>1 DEF fs_deserialize_legacy
  <2>2. CASE table[r].in_use # 0
    BY <2>2, LegacyInUse
  <2> QED
    BY <2>1, <2>2
<1> HIDE DEF files
<1>3. ASSUME NEW r \in InUse(files)
      PROVE  /\ r \in FileIndex /\ r \in Nat /\ IsHead(table, r) /\ NameIsFresh(table, r)
             /\ files[r].name = table[r].name
             /\ Len(files[r].data) \in Nat /\ Len(files[r].data) < FS_DISK_DATA_BYTES
  BY <1>2 DEF InUse, ClearedFile, FileIndex
<1>4. ASSUME NEW r \in InUse(files), NEW s \in InUse(files), r < s
      PROVE  files[r].name # files[s].name
  <2>1. r \in 1 .. s - 1
    BY <1>3, <1>4 DEF FileIndex
  <2>2. \A p \in 1 .. s - 1 : IsHead(table, p) => table[p].name # table[s].name
    BY <1>3 DEF NameIsFresh
  <2> QED
    BY <1>3, <2>1, <2>2
<1>5. NamesAreUnique(files)
  BY <1>3, <1>4 DEF NamesAreUnique
<1>6. WellFormed(files)
  <2>1. ASSUME NEW i \in FileIndex
        PROVE  IF files[i].in_use
               THEN files[i].name \in Names /\ Len(files[i].data) < FS_MAX_FILE_SIZE
               ELSE files[i] = ClearedFile
    <3>1. CASE files[i] = ClearedFile
      BY <3>1 DEF ClearedFile
    <3>2. CASE /\ files[i].in_use /\ files[i].name \in Names
               /\ Len(files[i].data) \in Nat /\ Len(files[i].data) < FS_DISK_DATA_BYTES
      BY <3>2, ExtentsAssumption
    <3> QED
      BY <1>2, <3>1, <3>2
  <2> QED
    BY <1>1, <1>5, <2>1 DEF WellFormed
<1>7. Fits(files)
  BY <1>3, <1>6, SmallFilesFit, ExtentsAssumption
<1> QED
  BY <1>3, <1>6, <1>7 DEF files

\* A file array that the kernel can hold and that fits comes back from the disk
\* as it was: the validation loop accepts the table fs_serialize built and
\* fs_deserialize_current finds the same named contents, byte for byte, for
\* every record size and every mix of file sizes.
THEOREM WrittenIsReadBack ==
  ASSUME NEW files, WellFormed(files), Fits(files)
  PROVE  IsRewritable(files)
<1> DEFINE t == fs_serialize(files)
<1>1. CurrentTableIsValid(t)
  BY WrittenTableIsValid
<1>2. Logical(fs_deserialize_current(t))
        = {<<FileOfChain(t, h).name, FileOfChain(t, h).data>> : h \in Heads(t)}
  BY LogicalDecoded
<1>3. ASSUME NEW h \in Heads(t)
      PROVE  <<FileOfChain(t, h).name, FileOfChain(t, h).data>> \in Logical(files)
  <2>1. PICK i \in InUse(files) : h = HeadOf(files, i)
    BY HeadsAreOfFiles
  <2>2. FileOfChain(t, h) = files[i]
    BY <2>1, FileOfWrittenChain
  <2> QED
    BY <2>2 DEF Logical
<1>4. ASSUME NEW i \in InUse(files)
      PROVE  \E h \in Heads(t) : <<files[i].name, files[i].data>>
                                   = <<FileOfChain(t, h).name, FileOfChain(t, h).data>>
  <2>1. HeadOf(files, i) \in Heads(t)
    BY HeadWritten
  <2>2. FileOfChain(t, HeadOf(files, i)) = files[i]
    BY FileOfWrittenChain
  <2> QED
    BY <2>1, <2>2
<1> HIDE DEF t
<1>5. Logical(fs_deserialize_current(t)) = Logical(files)
  BY <1>2, <1>3, <1>4 DEF Logical
<1> QED
  BY <1>1, <1>5 DEF IsRewritable, t

\* Whatever table either decoder accepts, intact or damaged, of the current
\* layout or of versions 1 to 4, gives files the kernel can hold and write again
\* without running out of records and without losing or changing one, so the
\* first commit after a mount cannot fail for want of room.
THEOREM AcceptedIsRewritable ==
  ASSUME NEW table \in Table
  PROVE  /\ CurrentTableIsValid(table) => IsRewritable(fs_deserialize_current(table))
         /\ LegacyTableIsValid(table) => IsRewritable(fs_deserialize_legacy(table))
<1>1. CurrentTableIsValid(table) => WellFormed(fs_deserialize_current(table))
                                    /\ Fits(fs_deserialize_current(table))
  BY DecodedWellFormed, DecodedFits
<1>2. LegacyTableIsValid(table) => WellFormed(fs_deserialize_legacy(table))
                                   /\ Fits(fs_deserialize_legacy(table))
  BY LegacyWellFormed
<1> QED
  BY <1>1, <1>2, WrittenIsReadBack
=============================================================================
