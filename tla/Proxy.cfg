\* Two clients, every kind of request line, and the connection to itself.
SPECIFICATION FairSpec
CONSTANTS
    Clients = {c1, c2}
    Loop = Loop
    Nobody = Nobody
    NoLine = NoLine
    GET = GET
    Uris <- MCUris
    Requests <- MCRequests
    Port80 <- MCPort80
    Slash <- MCSlash
    ZeroHosts <- MCZeroHosts
    Servers <- MCServers
    Own <- MCOwn
    MaxLines = 2
INVARIANTS
    TypeOK
    NoDescriptorLeak
    OwnAnswer
PROPERTIES
    ServerSpec
    EachServed
\* The proxy may end, and waits for itself for ever when it is asked to.
CHECK_DEADLOCK FALSE
