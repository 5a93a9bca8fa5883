CONSTANTS
    LedColors <- AmberAndRed
    LcdColors <- Greys
    Flashes <- Blinking
    Devices <- LedsAndDisplays
    MaxFaults = 2
SPECIFICATION Spec
INVARIANTS
    LedShowsPriority
    PersistenceFollows
    BrighterIsBrighter
