SPECIFICATION Spec
CONSTANTS
    n1 = n1  n2 = n2  brace = brace  h1 = h1  h2 = h2
    HostKey = HostKey  PortKey = PortKey  DefaultName = DefaultName  NoName = NoName
    s1 = s1  s2 = s2  NoSecret = NoSecret  ArgHost = ArgHost
    Names = {n1, n2, brace, HostKey, PortKey, DefaultName}
    Hosts = {h1, h2, ArgHost, HostKey}
    Braces <- BracesIn
    ArgPort = 9
    MaxSources = 3
    MaxPort = 90
    FaultSettings = {TRUE, FALSE}
    Secrets = {s1}
    ExpiryDays = {1}
    DefaultDays = 1
    MaxDays = 1
    MaxNow = 0
    Requests <- ListRequests
    EditedFiles <- Edits
INVARIANTS ListWellFormed DefaultResolves FileHoldsList CreatedIsListed
