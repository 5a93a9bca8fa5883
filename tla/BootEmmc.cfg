CONSTANTS
    mmcblk0 = mmcblk0
    sda = sda
    sdb = sdb
    tz = tz
    abl = abl
    Xbl = xbl
    LunList <- EmmcLuns
    Parts = {tz, abl}
    LunOf <- EmmcLunOf
    IsUfs = FALSE
    HasXbl = FALSE
    Damage = {"none", "prim_crc", "prim_entries", "sec_crc", "sec_entries", "sec_signature"}
    Faults = {{"crash", "io", "sync"}, {"power", "short", "io", "crash"}}
    Policy = "restart"
SPECIFICATION FairSpec
INVARIANTS
    BootedWhole
    ReadyForUpdate
    FinalizedAgree
    CoherentBoot
    SuccessIsDurable
PROPERTIES
    NeverUnacceptable
    EventuallyFinalized
