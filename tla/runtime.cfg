SPECIFICATION Spec
CONSTANTS
    Device = {d1}
    Client = {c1, c2}
    Main = main
    Runner = {r1, r2}
    None = none
    MaxVersion = 2
    Operations = {"start", "stop", "restart", "delete"}
    CtxExpires = TRUE
SYMMETRY Symmetry
INVARIANTS
    TypeOK
    OneCollectorPerDevice
    NotPendingIsCurrent
PROPERTIES
    StopMeansStopped
    LeaseSpec
