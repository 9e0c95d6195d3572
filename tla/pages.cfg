SPECIFICATION Spec
CONSTANTS
    Tag = {1, 2}
    None = none
    MaxPoints = 3
    Queries <- MCQueries
    MaxStale = 1
INVARIANTS
    AlwaysOpens
    EveryDeviceCanPush
    ShownIsAsked
    ButtonsComeBack
PROPERTIES
    DeletesWhatWasSeen
