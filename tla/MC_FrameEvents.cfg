SPECIFICATION Spec
CONSTANTS
    s1 = s1
    s2 = s2
    isr = isr
    poller = poller
    Slots <- MC_Slots
    NoSlot = NoSlot
    Contexts <- MC_Contexts
    Isr = isr
    NoContext = NoContext
    FifoSize = 3
    MaxFrames = 3
SYMMETRY MC_Symmetry
INVARIANTS
    TypeOK
    SnapshotIntact
    NoLostWakeup
    FlushIsFinal
PROPERTIES
    FramesInOrder
    ReleasedWhenConsumed
