\* Kernels of one, two and three blocks, the last one empty in between.
SPECIFICATION FairSpec
CONSTANTS
  FileLengths = {100, 512, 1100, 1534}
  Ports = {1, 2}
  FaultSets <- AllFaultSets
INVARIANTS
  TypeOK
  InOrder
  OneConversation
PROPERTIES
  Implements
  BootpOpenReturns
  ReliableDelivers
