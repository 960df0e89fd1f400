SPECIFICATION FairSpec
CONSTANTS
    Workers = 3
    Sessions = {s1, s2, s3}
    NoSession = NoSession
    ReplyLength = 2
    SendSizes = {0, 1, 2}
INVARIANTS
    TypeOK
    SessionInv
    KeepsAccepting
    RoundRobin
PROPERTY StopsWhenSignalled
