SPECIFICATION PublisherSpec
CONSTANTS
    Tag = {t1, t2}
    Value = {v1, v2}
    None = none
    Lost = lost
    Empty = empty
    Message <- MCMessage
    Capacity = 2
    Policies <- MCPolicies
    LongAgo = 1
SYMMETRY Symmetry
INVARIANTS
    NoLostWake
    ChangesAddUp
    
PROPERTIES
    RefinesFifo
    FullOnTime
