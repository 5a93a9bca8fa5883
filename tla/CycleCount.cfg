CONSTANTS
    Full = 4
    Trigger = 2
    Limit = 4
SPECIFICATION Spec
INVARIANTS
    GaugeRestored
    NeverBack
    LagBounded
PROPERTY
    FileKept
