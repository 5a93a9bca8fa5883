CONSTANTS
    mmcblk0 = mmcblk0
    sda = sda
    sdb = sdb
    tz = tz
    abl = abl
    Xbl = xbl
    LunList <- UfsLuns
    Parts = {tz, abl}
    LunOf <- UfsLunOf
    IsUfs = TRUE
    HasXbl = TRUE
    Damage = {"none", "prim_crc", "prim_entries", "sec_crc", "sec_entries", "sec_signature"}
    Faults = {{"crash", "io"}}
    Policy = "forward"
SPECIFICATION Spec
INVARIANT
    IInv
PROPERTIES
    NoRollback
    RefinesFailsafe
