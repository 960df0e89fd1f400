SPECIFICATION Spec
CONSTANTS
    CommandLines <- SomeCommandLines
    ConfigFiles <- SomeConfigFiles
    Verbosity <- Vs
    Unreadable = Unreadable
    NotANumber = NotANumber
    NoDefault = NoDefault
    MaxWorkers = 64
INVARIANTS
    Precedence
    MostVerboseCounts
    ServesAsAsked
    IInv
