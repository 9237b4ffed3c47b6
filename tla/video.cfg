SPECIFICATION Spec
CONSTANTS
    Machines <- MCMachines
    Configs  <- MCConfigs
    MaxBoots = 2
INVARIANTS
    SizeAsAsked
    MonitorRestored
    KernelToldRight
