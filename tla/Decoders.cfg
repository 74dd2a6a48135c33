SPECIFICATION Spec
CONSTANTS
  Names = {a, b}
  NoName = NoName
  Bytes = {0, 1}
  FS_MAX_FILES = 3
  FS_MAX_FILE_SIZE = 4
  FS_DISK_DATA_BYTES = 2
  InitialFiles <- MCInitialFiles
  MaxDamage = 2
  HTTP_CLIENT_MAX_HEADER_BYTES = 16
  HTTP_CLIENT_MAX_CHUNK_LINE_BYTES = 2
  HTTP_CLIENT_MAX_TRAILER_BYTES = 5
  HTTP_CLIENT_MAX_CHUNK_FRAMING_BYTES = 13
  HTTP_CLIENT_MAX_INFORMATIONAL_RESPONSES = 1
  NETWORK_URL_CAPACITY = 9
  BodyCapacity = 1
  MaxBody = 17
  MaxEnd = 6
  MaxLocation = 4
  Bases = 2
INVARIANTS
  LoopsAgree
  RoundTrip
  ProgressIsHonest
  ChunksComeOutWhole
  AllowanceSuffices
  FieldOrderIsIrrelevant
  RedirectsResolve
CHECK_DEADLOCK FALSE
