SPECIFICATION Spec
CONSTANTS
    Clients = {g1,g2}
    Ports = 2
    Nodes = 1
    Acts = {"timeout","disconnect"}
    MaxUp = 1
    MaxDown = 3
PROPERTY DisconnectHolds
SYMMETRY Symmetry
