SPECIFICATION FairSpec
CONSTANTS
    Servers = {s1}
    PortClasses = {1}
    TryingWords = {"AUTH"}
    CommandSet = {"cmdStop"}
    Reconnects = {FALSE,TRUE}
    Faults = {"EXIT","TUNNEL","VERIFICATION_FAILED"}
    LogLines = {"COMPLETED"}
    MaxCopies = 1
    MaxPipe = 2
    MaxShots = 1
    NoTemplate = NoTemplate
INVARIANT TimeoutLeavesNothing
PROPERTIES ConnectedIsWatched CrashNoticed AttemptDecided
