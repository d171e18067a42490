SPECIFICATION MC_Spec
CHECK_DEADLOCK FALSE
CONSTANTS
    Active <- MC_Active
    Triples <- MC_Triples
    Found = {0, 1}
    MaxCalls = 3
    MaxCommands = 1
    Slots = 2
    Layouts <- MC_Layouts
    MaxFrames = 3
    MaxBuffers = 1
    MaxFormats = 3
    RingSize = 2
    EventWords = {1, 2}
    MaxEvents = 4
INVARIANTS
    PartTypes
    NoPoison
    LumaWhole
    NothingFromBefore
    KindFitsPlanes
    NoLeak
    IsrMapped
    MasterHasBuffers
    UsersHaveDevice
    CapturePrecedesFree
    DumpIsNewest
    NoLostUpdate
    ReportsLegal
    MirrorsHardware
PROPERTIES
    DeliveredOnce
    RotationInOrder
    RecordedOnce
