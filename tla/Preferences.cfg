SPECIFICATION Spec
CONSTANTS
    Boxes = {"fixDNS", "startup", "logging"}
    DnsFields = {"dns1"}
    Own = {"own"}
    Files = {"absent", "entry", "foreign"}
    Helpers = {"up", "netdown"}
    MaxEntries = 2
INVARIANTS TypeOK BoxesShowStored EntryIffStartup OwnEntryIsUsed TunnelHasNameServers
