CONSTANTS
    Thread <- TwoThreads
    Asks <- TheirModes
    MinCpus <- Lowest
    MaxCpus <- Highest
    Modes <- TwoModes
    Longer <- LongName
    Files <- SmallFiles
    MaxErrors = 1
    Starter = "looper"
    Balanced = "balanced"
SPECIFICATION HalSpec
INVARIANTS
    LoneCallApplies
    ConfigAsWritten
