SPECIFICATION StaticSpec
CONSTANTS
    Threads = {t1}
    Paths <- MCPaths
    Catalogs <- MCAnyCatalogs
    Attrs <- MCAttrs
    AttrWidth <- MCAttrWidth
    entry_size = 18
    catalog_len = 6
    INT_MAX = 32767
    MaxFds = 1
    Garbage <- MCGarbage
    Junk <- MCJunk
    ReadMayFail = FALSE
    FillerMayFail = TRUE
INVARIANTS
    AnswersCorrect
