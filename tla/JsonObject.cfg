CONSTANTS
    Keys <- ThreeKeys
    Leaf = {"x"}
    Hashes <- AtTheEnds
    InitSize = 2
    ListSize = 1
    MaxOwned = 2
    MaxLength = 3
SPECIFICATION Spec
INVARIANTS
    RefsExact
    LoopVisitsAll
PROPERTY
    RefinesOrderedMap
