SPECIFICATION Spec
CONSTANTS
    MaxWorker = 3
    MaxIdle = 1
    Loads <- MCLoads
    MaxFaults = 1
INVARIANTS  InterruptsKept
CHECK_DEADLOCK FALSE
PROPERTIES EveryRequestRead 
