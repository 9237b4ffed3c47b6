\* Expected to fail: the second boot counts from where the first one loaded.
SPECIFICATION Spec
CONSTANTS
  Kernels <- OneKernel
  Blocks = {1048576, 3000002}
  MaxMem = 4200000
  MaxBoots = 2
INVARIANT
  RefusedOnlyWhenShort
