SPECIFICATION Spec
CONSTANTS
    Threads = {t1}
    Paths <- MCFewPaths
    Catalogs <- MCChangingCatalogs
    Attrs <- MCAttrs
    AttrWidth <- MCAttrWidth
    entry_size = 18
    catalog_len = 4
    INT_MAX = 32767
    MaxFds = 1
    Garbage <- MCGarbage
    Junk <- MCJunk
    ReadMayFail = FALSE
    FillerMayFail = FALSE
INVARIANTS
    ProbesInRange
PROPERTIES
    ImplementsService
    SearchAdvances
    EveryRequestEnds
