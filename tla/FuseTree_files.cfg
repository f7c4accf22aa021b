SPECIFICATION Spec
CONSTANTS
    Names = {a, b}
    HiddenNames <- Hidden
    MaxNode = 3
    Tasks = {t1, t2}
    Ops = {"lookup", "create", "open", "unlink", "link", "rename"}
    MaxObj = 3
    MaxLookup = 2
    MaxFaults = 1
INVARIANTS
    LookupsBalanced
    PathsTrue
    OpensBalanced
PROPERTIES
    OnlyCancelAborts
    FilesInUseStay
SYMMETRY Symm
CHECK_DEADLOCK FALSE
