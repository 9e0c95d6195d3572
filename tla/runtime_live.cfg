SPECIFICATION FairSpec
CONSTANTS
    Device = {d1}
    Client = {c1}
    Main = main
    Runner = {r1, r2}
    None = none
    MaxVersion = 1
    Operations = {"start", "stop", "restart", "delete"}
    CtxExpires = FALSE
PROPERTIES
    StartMeansCollecting
    EveryCallReturns
    CancelledCollectorEnds
    SweepsComplete
