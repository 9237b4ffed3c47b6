SPECIFICATION Spec
CONSTANTS
    Checks <- MCChecks
    Texts <- MCTexts
    Width <- MCWidth
    OnByDefault <- MCOnByDefault
    Machines <- MCMachines
    Numbers <- MCNumbers
    Files <- MCFiles
    MaxSteps = 5
INVARIANTS
    ShownIsStored
    RelaunchRestores
    DerivedAgree
