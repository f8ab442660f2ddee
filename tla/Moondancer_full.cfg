SPECIFICATION Spec
CONSTANTS
  NumTransfers = 3
  MaxLength = 1
  Requests <- Kinds
  NoSetup = NoSetup
  BulkEndpoints = {1}
  TargetRequests <- ControlOnly
  NumPackets = 0
  EventQueueSize = 4
  IrqQueueSize = 2
  ControlQueueSize = 1
  PacketBufferSize = 4
  Patient = FALSE
  Careful = TRUE
  MaxResets = 1
  MaxSessions = 1
  None = None
INVARIANTS
  StopsOnlyWhenFull
CHECK_DEADLOCK FALSE
