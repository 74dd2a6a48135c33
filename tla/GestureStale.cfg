CONSTANTS
  APP_WINDOW_CAPACITY = 1
  APP_WINDOWS_PER_PROCESS = 1
  APP_INPUT_QUEUE_CAPACITY = 1
  KeyRingSize = 1
  HandleMax = 2
  ZOrderMax = 4
  ProcessIdMax = 1
  RightButton = FALSE
SPECIFICATION Spec
INVARIANT GestureEndsAtRelease
