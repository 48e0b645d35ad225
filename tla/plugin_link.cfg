SPECIFICATION LinkSpec
CONSTANTS
    ToRecv <- MCToRecv
    ToSend <- MCToSend
    StreamIndex = 1
    Chunks = {1, 40, 65536}
    Tears = {0, 3, 9}
    MaxWritten = 2
    MaxConns = 2
INVARIANT ArrivesWhole
CHECK_DEADLOCK FALSE
