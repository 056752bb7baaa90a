SPECIFICATION Spec
CONSTANTS
    Id = {a, b}
    Kernel = {k}
    GenerationLimit = 3
    Board = "cx3576"
    NoId = NoId
    Disks <- OneDisk
    AssemblyRecords <- MCRecords
    AssemblyFlags <- MCFlags
    MaxReadFaults = 0
    MaxOutages = 1
INVARIANT TrialBudget
PROPERTIES RecordsSurvive InactiveOnly ImplementsLedger
