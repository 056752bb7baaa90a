SPECIFICATION Spec
CONSTANTS
    Id = {a, b}
    Kernel = {k}
    GenerationLimit = 3
    Board = "s905x5m"
    NoId = NoId
    Disks <- MCDisks
    AssemblyRecords <- MCRecords
    AssemblyFlags <- MCFlags
    MaxReadFaults = 0
    MaxOutages = 1
PROPERTY ImplementsLedger
