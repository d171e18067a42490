SPECIFICATION MC_OneSession
CONSTANTS
    b1 = b1
    b2 = b2
    Modes <- MC_TwoModes
    NoMode = "none"
    Geometry <- MC_SameGeometry
    Placeholder = "full"
    Buffers <- MC_OneBuffer
    OtherReader = FALSE
PROPERTIES
    LiveReturns
