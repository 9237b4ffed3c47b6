\* Seven kernels of every format, two boots, blocks aligned and not.
SPECIFICATION Spec
CONSTANTS
  Kernels <- AllKernels
  Blocks = {1048576, 3000002}
  MaxMem = 4200000
  MaxBoots = 2
INVARIANTS
  TypeOK
  LoadFits
  BufferLayout
  NothingOverwritten
  SymbolsFound
  EntryRight
