SPECIFICATION Spec
CONSTANTS
    b1 = b1
    b2 = b2
    Modes <- MC_OneMode
    NoMode = "none"
    Geometry <- MC_Geometry
    Placeholder = "full"
    Buffers <- MC_OneBuffer
    OtherReader = FALSE
INVARIANTS
    PlaceholderScheduled
