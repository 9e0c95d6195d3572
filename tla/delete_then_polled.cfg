SPECIFICATION Spec
CONSTANTS
    Device = {d1}
    Client = {c1, c2}
    Main = main
    Runner = {r1, r2}
    None = none
    MaxVersion = 1
    Operations = {"start","delete"}
    CtxExpires = FALSE
SYMMETRY Symmetry
INVARIANT DeletedIsNotPolled
