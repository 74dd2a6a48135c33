CONSTANTS
  SeqMod = 16
  InitialSequence = 14
  PeerInitialSequence = 15
  PeerBytes = 3
  ClientBytes = 3
  TCP_CLIENT_MAX_SEGMENT_DATA = 2
  receive_capacity = 2
  retransmit_ms = 1
  operation_timeout_ms = 3
  max_retries = 1
  TCP_CLIENT_CLOCK_STALL_SERVICE_LIMIT = 2
SPECIFICATION FairSpec
INVARIANTS
  StreamsAreExact
  SuccessMeansDelivered
PROPERTY EveryOperationEnds
