SPECIFICATION Spec
CONSTANTS
  NumTransfers = 1
  MaxLength = 2
  Requests <- AllRequests
  NoSetup = NoSetup
  RxBufferSize = 1
  HostRequests <- Overlong
  Sequenced = FALSE
  MaxAnswer = 2
  EventQueueSize = 3
  MaxEarlyTimeouts = 1
  MaxResets = 0
  None = None
INVARIANTS
  RxBufferBounded
  OneOutcome
