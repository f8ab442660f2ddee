SPECIFICATION StagesSpec
CONSTANTS
  Depth = 4
  OutDepth = 4
  OutMsb = 4
  RingWords = 2
  NumWords = 2
  None = None
  DepthBits = 2
  Skewed = TRUE
INVARIANTS
  EveryStrobeCounts
  CrossingSound
PROPERTIES
  WordsQueued
  BytesQueued
  EverythingLeaves
