\* Every response of up to five bytes, over a buffer that holds two lines.
SPECIFICATION FairSpec
CONSTANTS
    Byte = {a, NL, NUL}
    NL = NL
    NUL = NUL
    RIO_BUFSIZE = 4
    BUFFER_SIZE = 3
    MaxInput = 5
INVARIANTS
    TypeOK
    Transparent
PROPERTIES
    LinesSpec
    Relayed
\* One response is relayed.
CHECK_DEADLOCK FALSE
