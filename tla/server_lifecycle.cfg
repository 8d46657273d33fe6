\* Two connections of one client against a limit of two in a window of a
\* minute, which is four ticks of 15 s; srv.Shutdown takes two ticks at most.
CONSTANTS
    Reqs = {r1, r2}
    Limit = 2
    Window = 4
    ShutdownTicks = 2
    Faults = TRUE
SPECIFICATION FairServerSpec
INVARIANTS
    ServerTypeOK
    RateTypeOK
    AtMostTwiceLimit
    KeyExpires
    ResourcesOutliveRequests
    NoEarlyCut
PROPERTIES
    RefusalEnds
    SignalObeyed
    ImplementsLimiter
