SPECIFICATION Spec
CONSTANTS
    Conns = {c1, c2}
    Requests <- AllRequests
    Together <- AllRequests
    HeapBlocks = 8
    OutBuf = 6
    MaxHeaders = 4
    NoConn = NoConn
CHECK_DEADLOCK FALSE
INVARIANT OwnReply
