SPECIFICATION FairSpec
CONSTANTS
    Procs = {p1, p2, p3}
    None = None
    MaxStops = 2
    MaxDeaf = 1
INVARIANTS TypeOK AliveIsReachable
PROPERTY Recovers
