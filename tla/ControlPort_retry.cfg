SPECIFICATION Spec
CONSTANTS
  NumTransfers = 2
  MaxLength = 1
  Requests <- AllRequests
  NoSetup = NoSetup
  RxBufferSize = 1
  HostRequests <- Retries
  Sequenced = FALSE
  MaxAnswer = 1
  EventQueueSize = 8
  MaxEarlyTimeouts = 1
  MaxResets = 1
  None = None
PROPERTIES
  Recovers
