SPECIFICATION Spec
CONSTANTS
    Names = {a, b}
    HiddenNames <- Hidden
    MaxNode = 3
    Tasks = {t1, t2}
    Ops = {"lookup", "revalidate", "mknod", "mkdir", "rmdir", "rename"}
    MaxObj = 3
    MaxLookup = 2
    MaxFaults = 1
INVARIANTS
    TreeTrue
PROPERTIES
    EntriesTrue
SYMMETRY Symm
CHECK_DEADLOCK FALSE
