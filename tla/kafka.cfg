SPECIFICATION FairSpec
CONSTANTS
    Client = {c1}
    Main = main
    Reconnect = reconnect
    Producer = {p1, p2}
    None = none
    QueueCapacity = 1
INVARIANTS
    TypeOK
    
    OffIsEmpty
    NoLostWakeup
PROPERTIES
    QueueMoves
    StartRecovers
    StopReturns
