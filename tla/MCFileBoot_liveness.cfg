SPECIFICATION FairSpec
CONSTANTS
    Id = {a, b}
    Kernel = {k}
    GenerationLimit = 2
    Board = "s905x5m"
    NoId = NoId
    Disks <- OneDisk
    AssemblyRecords <- MCRecords
    AssemblyFlags <- MCFlags
    MaxReadFaults = 1
    MaxOutages = 1
INVARIANT TrialBudget
PROPERTIES Settles CandidateResolved
