SPECIFICATION Spec
CONSTANTS
    Clients = {"inline"}
    Whole = {"inline"}
    Requests <- MCRequests
    ReadSizes <- MCReadSizes
    MAX_BUFFER_LENGTH = 32
    INT_MAX = 127
    MaxReserve = 64
    MaxBuffered = 8
INVARIANT FedBytesKept
