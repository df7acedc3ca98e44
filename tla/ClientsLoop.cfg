SPECIFICATION Spec
CONSTANTS
    Clients = {g1}
    Ports = 2
    Nodes = 2
    Acts = {"timeout","connect","retry","bind","fail","stop","report","crash","disconnect","reject","quit","choose","logout","wifi"}
    MaxUp = 1
    MaxDown = 1
INVARIANTS TypeOK MirrorsManager LoopOnlyWhileDown 
