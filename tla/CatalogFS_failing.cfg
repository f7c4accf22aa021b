SPECIFICATION StaticSpec
CONSTANTS
    Threads = {t1, t2}
    Paths <- MCFewPaths
    Catalogs <- MCFailingCatalogs
    Attrs <- MCAttrs
    AttrWidth <- MCAttrWidth
    entry_size = 18
    catalog_len = 5
    INT_MAX = 63
    MaxFds = 2
    Garbage <- MCGarbage
    Junk <- MCJunk
    ReadMayFail = TRUE
    FillerMayFail = TRUE
INVARIANTS
    TypeOK
    AnswersTruthful
CHECK_DEADLOCK FALSE
