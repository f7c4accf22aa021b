SPECIFICATION MCSpec
CONSTANTS
    Files <- MCFiles
    MinLens <- MCMinLens
    Daemons = {"d1", "d2"}
    Commands = {"k1"}
    Settings <- MCSettings
INVARIANTS
    
    
    ConnsCounted
PROPERTIES
    MountsGivenMinlen
    StartsAndStopsEnd
CHECK_DEADLOCK FALSE
