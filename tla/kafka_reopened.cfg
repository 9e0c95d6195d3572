SPECIFICATION Spec
CONSTANTS
    Client = {c1}
    Main = main
    Reconnect = reconnect
    Producer = {p1, p2, p3}
    None = none
    QueueCapacity = 1
INVARIANT OnlineIsEnabled
