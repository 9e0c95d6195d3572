SPECIFICATION FairSpec
CONSTANTS
    Run = run
    Spawned = {g1, g2}
    Probe = {h1, h2}
    MaxRetries = 2
    MaxLate = 1
INVARIANTS
    TypeOK
    SingleReconnect
    NeverAbandoned
    NoLeak
PROPERTIES
    Recovers
    AllGoroutinesEnd
