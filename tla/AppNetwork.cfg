SPECIFICATION Spec
CONSTANTS
  Urls = {"u", "v"}
  LiteralUrls = {"v"}
  NETWORK_HTTP_REDIRECT_LIMIT = 1
  TIMEOUT = 1
  CHUNKS = 1
  HTTP_HANDLE_MAX = 2
  Processes = {1, 2}
  APP_HANDLE_MAX = 2
  CloseMayFail = TRUE
INVARIANTS
  BusyHasOneOwner
  InputHasALiveBuffer
  BackendIsNeverOrphaned
  OwnerSeesItsRequest
PROPERTY
  EveryRequestEnds
