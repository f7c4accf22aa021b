SPECIFICATION Spec
CONSTANTS
    Slots = {1, 2, 3}
    Length <- MCLength
    PageSize = 2
    MaxChanges = 3
    MaxDirFaults = 2
    Lockers = {t1, t2}
    OFFSET_MAX = 2
    MaxSetlk = 3
    MaxLockFaults = 1
    Users = {t1, t2}
    CacheModes = {"plain", "kernel_cache", "auto_cache"}
    MaxVer = 2
    MaxCalls = 4
    MaxDataFaults = 1
    Callers = {t1, t2}
    CallOps = {"access", "fsync", "getxattr", "bmap", "statfs", "readlink", "lk",
               "permission", "getattr"}
    MaxLacking = 2
INVARIANTS ListingComplete LocksTrue GetlkTrue  
SYMMETRY Symm
CHECK_DEADLOCK FALSE
