\* Two clients, one page, one program, every kind of request.
SPECIFICATION FairSpec
CONSTANTS
    Conn = {c1, c2}
    Nobody = Nobody
    Pages = {page}
    Programs = {adder}
    Uris <- MCUris
    NoWord = NoWord
    Requests <- MCRequests
    Header = Header
    Blank = Blank
    MaxLines = 3
    MaxSize = 1
INVARIANTS
    TypeOK
    ChildReaped
    OwnAnswerComplete
PROPERTIES
    ServerSpec
    EachServed
\* The server may end, or spin for ever, or have nobody left to serve.
CHECK_DEADLOCK FALSE
