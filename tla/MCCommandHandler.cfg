SPECIFICATION Spec
CONSTANTS
    Clients = {"bulk", "whole", "pieces"}
    Whole = {"bulk", "whole"}
    Requests <- MCRequests
    ReadSizes <- MCReadSizes
    MAX_BUFFER_LENGTH = 32
    INT_MAX = 127
    MaxReserve = 64
    MaxBuffered = 8
INVARIANTS
    ParserInv
    ExecutesWhatWasSent
    FedBytesKept
    MultiBulkInv
