SPECIFICATION Spec
CONSTANTS
    Run = run
    Spawned = {g1}
    Probe = {h1}
    MaxRetries = 1
    MaxLate = 1
INVARIANT StopClosesConnection
