SPECIFICATION Spec
CONSTANTS
  NumTransfers = 2
  MaxLength = 1
  Requests <- Kinds
  NoSetup = NoSetup
  BulkEndpoints = {1}
  TargetRequests <- ControlOnly
  NumPackets = 0
  EventQueueSize = 9
  IrqQueueSize = 5
  ControlQueueSize = 3
  PacketBufferSize = 4
  Patient = FALSE
  Careful = TRUE
  MaxResets = 1
  MaxSessions = 2
  None = None
PROPERTIES
  VerbsAnswered
  EventsDelivered
