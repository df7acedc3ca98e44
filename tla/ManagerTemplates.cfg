SPECIFICATION Spec
CONSTANTS
    Servers = {s1,s2}
    PortClasses = {1}
    TryingWords = {"AUTH"}
    CommandSet = {}
    Reconnects = {FALSE}
    Faults = {"TEMPLATE"}
    LogLines = {"BIND_FAILED"}
    MaxCopies = 1
    MaxPipe = 1
    MaxShots = 1
    NoTemplate = NoTemplate
INVARIANTS TypeOK TemplateOfServer
PROPERTY LaunchServesTarget
