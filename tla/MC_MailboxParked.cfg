SPECIFICATION Spec
CONSTANTS
    c1 = c1
    c2 = c2
    Callers <- MC_Callers
    NoCaller = NoCaller
    Kinds <- MC_Shorts
    Bytes <- MC_Bytes
    Sentinel <- MC_Sentinel
    MaxCommands = 4
    MaxFrames = 2
SYMMETRY MC_Symmetry
INVARIANTS
    CompletionIsOwn
