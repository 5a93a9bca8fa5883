CONSTANTS
    Design = 4
    LCTrigger = 3
SPECIFICATION LCSpec
INVARIANTS
    CapacityRestored
    NeverGrows
PROPERTY
    LowestKept
