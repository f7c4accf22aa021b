SPECIFICATION Spec
CONSTANTS
    Attrs <- MCAttrs
    AttrWidth <- MCAttrWidth
    Trees <- MCQuietTrees
    OldCatalogs <- MCOldCatalogs
    GarbageNodes <- MCGarbageNodes
    DTypeKnown = TRUE
    MayFail = FALSE
    MaxEdits = 0
    catalog_len = 6
INVARIANTS
    EveryPathFound
