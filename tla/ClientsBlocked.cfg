SPECIFICATION BlockedSpec
CONSTANTS
    Clients = {g1}
    Ports = 3
    Nodes = 1
    Acts = {"timeout","connect"}
    MaxUp = 1
    MaxDown = 2
PROPERTY EveryPortTried
