SPECIFICATION Spec
CONSTANTS
  NumTransfers = 2
  MaxLength = 2
  Requests <- AllRequests
  NoSetup = NoSetup
  RxBufferSize = 2
  HostRequests <- Polite
  Sequenced = FALSE
  MaxAnswer = 2
  EventQueueSize = 4
  MaxEarlyTimeouts = 0
  MaxResets = 0
  None = None
INVARIANTS
  TypeOK
  SetupNeverDropped
  AnswersIntact
  NoStrayStall
PROPERTIES
  AddressChangesAfterStatus
  Answered
  CommandsServed
