SPECIFICATION FairSpec
CONSTANTS
    NoThread = NoThread
    k1 = k1
    k2 = k2
    empty = empty
    v1 = v1
    broken = broken
    toggle = toggle
    failing = failing
    fatal = fatal
    dying = dying
    Keys <- OneKey
    Values <- OneValue
    EmptyValue = empty
    NotFound = NotFound
    Scripts = {}
    Loadable = {}
    Fatal = {}
    JsResult <- MCJsResult
    Throw = Throw
    Crash = Crash
    Threads = {t1, t2, t3}
PROPERTY EveryCallAnswered
