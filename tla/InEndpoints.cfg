SPECIFICATION Spec
CONSTANTS
  Endpoints = {1, 2}
  PacketSize <- Sizes
  Payloads <- SplitByClient
  NumWrites = 3
  Addresses = {1, 2}
  MaxResets = 1
  Late = FALSE
  None = None
INVARIANTS
  TypeOK
  SinglePacket
  Delivered
PROPERTIES
  AddressAfterAnswer
  Enumerates
  CallsReturn
CHECK_DEADLOCK FALSE
