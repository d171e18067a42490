SPECIFICATION MC_Spec
CONSTANTS
    b1 = b1
    b2 = b2
    Modes <- MC_TwoModes
    NoMode = "none"
    Geometry <- MC_Geometry
    Placeholder = "full"
    Buffers <- MC_TwoBuffers
    OtherReader = TRUE
SYMMETRY MC_Symmetry
INVARIANTS
    TypeOK
    StopIsFinal
    GopIntact
    OneSpawn
    NoOrphan
