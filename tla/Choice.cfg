SPECIFICATION Spec
CONSTANTS
    Names = {a, b, c}
    Blank = Blank
    Undefined = Undefined
    MaxServers = 2
    MaxLogins = 2
INVARIANTS TypeOK ShowsWhatConnects MapRowIsServer MenuNamesServers ShowsOldIp
PROPERTY KeepsNamedServer
