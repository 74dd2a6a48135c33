SPECIFICATION Spec
CHECK_DEADLOCK FALSE
CONSTANTS
  GRAIN = 2
  HEADER = 2
  SIZE_MAX = 1000
  PAGE_SIZE = 4
  SPAN = 4
  ALLOCATION = 3
  ADDRESS_SPACE = 2
  PAGING_USER_BASE = 128
  PAGING_USER_LIMIT = 144
  SYSTEM_RESERVED_LOW_MEMORY_BYTES = 1
  KERNEL_HEAP_MAX_BYTES = 320
  Processes = {1, 2}
  Machines <- MCMachines
  TASK = 2
  STACK_SIZE = 4
  IMAGE_PAGES = 1
  APP_USER_STACK_SIZE = 2
  APP_MEMORY_ARENA_BASE = 134
  APP_MEMORY_ARENA_LIMIT = 137
  APP_MEMORY_RECORD_CAPACITY = 3
  APP_MEMORY_RECORDS_PER_PROCESS = 2
  APP_MEMORY_MAP_MAX = 8
  APP_MEMORY_PROCESS_MAX = 2
  ByteCounts = {3, 8, 9}
  PIXELS = 10
INVARIANTS
  HeapIsWhole
  MappingsMatchRecords
  GuardsAreInStacks
