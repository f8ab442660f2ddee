SPECIFICATION Spec
CONSTANTS
  Words = 8
  TimeModulus = 2
  MaxSize = 3
  NumPackets = 2
  MaxCaptures = 2
  ByteOf <- DistinctBytes
  None = None
INVARIANTS
  TypeOK
  OverflowsOnlyWhenTight
PROPERTIES
  PacketsLogged
VIEW View
