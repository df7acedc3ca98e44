SPECIFICATION Spec
CONSTANTS
    Servers = {s1}
    PortClasses = {1}
    TryingWords = {"AUTH","RESOLVE"}
    CommandSet = {"cmdStop","cmdNetdown","cmdKillRunningOpenvpn"}
    Reconnects = {FALSE,TRUE}
    Faults = {"RIGHTS","EXEC","CONFIG","ERROR","FATAL","FATAL_TUN","VERIFICATION_FAILED","TEMPLATE","EXIT"}
    LogLines = {"LINK_REMOTE","COMPLETED","TUN_ERROR"}
    MaxCopies = 1
    MaxPipe = 1
    MaxShots = 1
    NoTemplate = NoTemplate
PROPERTIES ImplementsContract CommandsAnswered
