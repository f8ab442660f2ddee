SPECIFICATION Spec
CONSTANTS
  DeviceTables <- AllDevices
  Lengths = {9, 18, 64, 255}
  Values = {0, 1, 22, 512, 1024, 1025}
  MaxCallBytes = 12
  MaxCommandSize = 1024
INVARIANTS
  DescriptorsConsistent
  TransferEnds
  ListedVerbsAnswer
