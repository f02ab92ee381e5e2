\* One client is enough.
SPECIFICATION Spec
CONSTANTS
    Clients = {c1}
    Loop = Loop
    Nobody = Nobody
    NoLine = NoLine
    GET = GET
    Uris <- MCUris
    Requests <- MCRequests
    Port80 <- MCPort80
    Slash <- MCSlash
    ZeroHosts <- MCZeroHosts
    Servers <- MCServers
    Own <- MCOwn
    MaxLines = 2
INVARIANT MalformedSurvived
CHECK_DEADLOCK FALSE
