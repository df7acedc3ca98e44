SPECIFICATION FairSpec
CONSTANTS
    Flags = {}
INVARIANTS TypeOK RunningIsStarted WaiterIsServed
PROPERTY StopCompletes
