SPECIFICATION Spec
CONSTANTS
  NumTransfers = 3
  MaxLength = 1
  Requests <- Kinds
  NoSetup = NoSetup
  BulkEndpoints = {1}
  TargetRequests <- AllRequests
  NumPackets = 3
  EventQueueSize = 4
  IrqQueueSize = 3
  ControlQueueSize = 1
  PacketBufferSize = 2
  Patient = TRUE
  Careful = TRUE
  MaxResets = 0
  MaxSessions = 1
  None = None
INVARIANTS
  TypeOK
  NeverStuck
PROPERTIES
  EventsDelivered
