SPECIFICATION CollectorSpec
CONSTANTS
    AddrSpace = 9
    ByteBits = 2
    MaxRegisters = 4
    MaxCoils = 3
    None = none
    Plans <- MCPlans
    Devices <- MCDevices
    Memories <- MCMemories
    Missing = {0, 1}
INVARIANTS
    ReadsAreSound
    EachPointOnce
    NoReadToSpare
    ValuesAreTrue
