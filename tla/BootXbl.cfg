CONSTANTS
    mmcblk0 = mmcblk0
    sda = sda
    sdb = sdb
    tz = tz
    abl = abl
    Xbl = xbl
    LunList <- UfsOneLun
    Parts = {tz}
    LunOf <- UfsOneLunOf
    IsUfs = TRUE
    HasXbl = TRUE
    Damage = {"none"}
    Faults = {{"io"}}
    Policy = "restart"
SPECIFICATION Spec
INVARIANT
    ReadyForUpdate
