CONSTANTS
  APP_WINDOW_CAPACITY = 2
  APP_WINDOWS_PER_PROCESS = 2
  APP_INPUT_QUEUE_CAPACITY = 1
  KeyRingSize = 1
  HandleMax = 2
  ZOrderMax = 4
  ProcessIdMax = 2
  RightButton = TRUE
SPECIFICATION Spec
INVARIANTS
  NothingDangles
  KeysBelongToFocus
PROPERTIES
  CloseRequestKept
  NoFocusStealing
