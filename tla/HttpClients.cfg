SPECIFICATION FairSpec
CONSTANTS
    Conns = {c1, c2}
    Requests <- AllRequests
    Together <- PlainRequests
    HeapBlocks = 3
    OutBuf = 6
    MaxHeaders = 4
    NoConn = NoConn
CHECK_DEADLOCK FALSE
INVARIANT TypeOK
INVARIANT OwnReply
INVARIANT OwnBody
INVARIANT BodyFits
PROPERTY ServiceSpec
PROPERTY Served
