SPECIFICATION Spec
CONSTANTS
    Threads = {t1, t2}
    NoThread = NoThread
    Connections = {c1, c2}
    NoConnection = NoConnection
    Strings = {"a", "b"}
    Keys = {"a", "b"}
    Values = {"a", "b"}
    Scripts = {"a", "b"}
    EmptyValue = "a"
    NotFound = NotFound
    Loadable = {"a"}
    Fatal = {}
    JsResult <- Replaces
    Throw = Throw
    Crash = Crash
    ClientRequests <- DbRequests
    NoRequest = NoRequest
SYMMETRY Symmetry
INVARIANTS
    ServingInv
    IInv
PROPERTIES
    HashService
    TreeService
