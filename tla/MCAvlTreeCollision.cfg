SPECIFICATION Spec
CONSTANTS
    NoThread = NoThread
    k1 = k1
    k2 = k2
    k3 = k3
    empty = empty
    v1 = v1
    broken = broken
    toggle = toggle
    failing = failing
    fatal = fatal
    dying = dying
    Keys <- MCKeys
    Values <- MCValues
    EmptyValue = empty
    NotFound = NotFound
    Scripts <- MCScripts
    Loadable <- MCLoadable
    Fatal <- MCFatal
    JsResult <- MCJsResult
    Throw = Throw
    Crash = Crash
    Threads = {t1, t2}
    NodeIds = {n1, n2}
    NoNode = NoNode
    Hash <- CollidingHash
INVARIANT GetAnswersItsKey
