SPECIFICATION Spec
CONSTANTS
    Attrs <- MCAttrs
    AttrWidth <- MCAttrWidth
    Trees <- MCEditedTrees
    OldCatalogs <- MCOldCatalogs
    GarbageNodes <- MCGarbageNodes
    DTypeKnown = TRUE
    MayFail = TRUE
    MaxEdits = 2
    catalog_len = 1
INVARIANTS
    LayoutKept
PROPERTIES
    Terminates
