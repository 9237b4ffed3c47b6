\* MacOS kernels, every screen, three boots: resources, the monitor, progress.
SPECIFICATION FairSpec
CONSTANTS
  Configs <- MacConfigs
  Machines <- Screens
  RefNums = {1, 2}
  MaxBooterFiles = 2
  MaxUfsFds = 2
  MaxBoots = 3
  MaxDepth = 2
INVARIANTS
  BuffersOwned
  FilesReleased
  MonitorRestored
PROPERTIES
  BootEnds
  AutobootDecided
