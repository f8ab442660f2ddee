SPECIFICATION Spec
CONSTANTS
  NumTransfers = 3
  MaxLength = 3
  Requests <- AllRequests
  NoSetup = NoSetup
  RxBufferSize = 2
  AcmRequests <- SerialPort
  HalRequests <- HalTests
  AcmShortRequests <- PortServed
  HalShortRequests <- ShortTests
  SpeedRequests <- Enumeration
  NumPackets = 3
  NumShortPackets = 2
  TestSize = 2
  MaxResets = 1
INVARIANTS
  TypeOK
  DataExact
  CommandObeyed
  NeverHalted
PROPERTIES
  Served
  Recovers
