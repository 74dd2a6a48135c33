CONSTANTS
  FS_MAX_FILES = 3
  FS_MAX_FILE_SIZE = 4
  FS_DISK_DATA_BYTES = 2
  Names <- MCNames
  NoName = ""
  Bytes = {0, 1}
  GenerationModulus = 4
  SystemLogName = "system.log"
  ManagedNames = {"browser.elf"}
  SelfTestScratch = "__fs_self_test__"
  SelfTestRenamed = "__fs_self_renamed__"
  SelfTestPayload <- MCPayload
  RecoveredTestNames <- MCRecoveredTestNames
  RecoveredLogNames <- MCRecoveredLogNames
  Seeds <- MCSeeds
  InitialDisks <- MCAllDisks
  CallNames = {"a", "browser.elf", "__fs_self_test__"}
  Payloads <- MCLongContents
SPECIFICATION Spec
INVARIANTS
  TypeOK
  PersistentMeansDurable
  ActiveSlotWins
  FilesAreSound
PROPERTIES
  RolledBackIsNotDurable
  RejectedMediaPreserved
  ImplementsAtomicSnapshot
