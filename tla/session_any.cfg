\* Three configurations that differ in everything, two boots.
SPECIFICATION Spec
CONSTANTS
  Configs <- AnyConfigs
  Machines <- Quadra
  RefNums = {1, 2}
  MaxBooterFiles = 2
  MaxUfsFds = 3
  MaxBoots = 3
  MaxDepth = 3
INVARIANTS
  TypeOK
  KernelEntrySafe
  StopHonoured
  StackDiscipline
  IdleIsQuiet
