SPECIFICATION MC_Spec
CONSTANTS
    c1 = c1
    c2 = c2
    Callers <- MC_Callers
    NoCaller = NoCaller
    Kinds <- MC_AllKinds
    Bytes <- MC_Bytes
    Sentinel <- MC_Sentinel
    MaxCommands = 4
    MaxFrames = 1
    Chunks = 1
    Options <- MC_Options
SYMMETRY MC_Symmetry
INVARIANTS
    CommandTypes
    SuccessIsOwn
    TimeoutMeansSilence
    ReadsOwn
    EdidUnseen
    ReadyIsPresented
    Thawed
    MatchedIsSettled
    OwnLockIsLatched
    OnlyCscStrays
