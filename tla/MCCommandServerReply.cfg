SPECIFICATION Spec
CONSTANTS
    Workers = 2
    Sessions = {s1, s2, s3}
    NoSession = NoSession
    ReplyLength = 2
    SendSizes = {0, 1, 2}
INVARIANT RepliesIntact
