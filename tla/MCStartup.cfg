SPECIFICATION Spec
CONSTANTS
    Servers = {s1, s2, s3, s4}
    s1 = s1
    s2 = s2
    s3 = s3
    s4 = s4
    NoServer = NoServer
    AnyHost = "0.0.0.0"
    Host <- SomeHosts
    Port <- SamePort
    Removable <- OwnFiles
SYMMETRY Symmetry
INVARIANTS
    StartupInv
    SocketKept
PROPERTY FailsForLiveServerOnly
