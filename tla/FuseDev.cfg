SPECIFICATION Spec
CONSTANTS
    Tasks = {t1}
    Servers = {s1, s2}
    Kinds = {"call", "flush", "readpages", "release", "forget"}
    MaxReq = 3
    FUSE_MAX_BACKGROUND = 2
INVARIANTS
    ListsSound
    CopiesOwned
    AnswersGenuine
    CountsTrue
PROPERTIES
    EndedTwiceOnlyInWindow
    CallsReturnAfterAbort
    KilledCallsReturn
CHECK_DEADLOCK FALSE
