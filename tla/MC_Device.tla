------------------------------ MODULE MC_Device ------------------------------
(***************************************************************************)
(* Small instances of four components that share no state: raw delivery,   *)
(* the life of the device, the event watcher and the settings.  A          *)
(* behaviour belongs to one of them, chosen initially (part); the          *)
(* variables of the others stay 0, the settings in a state the driver      *)
(* starts in.  So one run explores every component by itself.              *)
(***************************************************************************)
EXTENDS Settings

CONSTANTS
    Slots, Layouts, MaxFrames, MaxBuffers, MaxFormats,              \* Raw
    RingSize, EventWords, MaxEvents                                 \* Watch

(* Raw delivery has slots and layouts, and "h264" is not a raw layout.     *)
ASSUME RawAssumption ==
    /\ Slots \in Nat \ {0} /\ MaxFrames \in Nat /\ MaxBuffers \in Nat
    /\ MaxFormats \in Nat
    /\ Layouts # {} /\ {"h264", "none"} \cap Layouts = {}

(* The ring has entries, and an event is a word that is not zero.          *)
ASSUME WatchAssumption ==
    /\ RingSize \in Nat \ {0} /\ MaxEvents \in Nat
    /\ EventWords \subseteq Nat \ {0}

MC_Layouts == {"YU12", "NV12"}
MC_Active == {"input", "gop"}
MC_Triples == {[reg |-> "x80", shift |-> 1, width |-> 1]}

VARIABLES
    part,
    card, slot, running, cardRaw, raw, layout, size, saved, pending, app,
    planes, queued, next, w, out, got, lapped, resized, behind, base,
    tries,                                                          \* Raw
    lcOpt, lcPhase, lcTodo, held, master, intx, armed, fw, listed, reader,
    watcher, on, nosg, monitor, lcRunning, lcLate,                  \* Life
    ewEvent, posted, autoAck, pc, last, ring, head, count, seen, log,
    own                                                             \* Watch

Raw == INSTANCE RawDelivery WITH
    Slots <- Slots, Layouts <- Layouts, MaxFrames <- MaxFrames,
    MaxBuffers <- MaxBuffers, MaxCalls <- MaxFormats, given <- got
Life == INSTANCE Lifecycle WITH
    opt <- lcOpt, phase <- lcPhase, todo <- lcTodo, running <- lcRunning,
    late <- lcLate
Watch == INSTANCE EventWatch WITH
    RingSize <- RingSize, Words <- EventWords, MaxEvents <- MaxEvents,
    event <- ewEvent

rawVars == <<card, slot, running, cardRaw, raw, layout, size, saved, pending,
             app, planes, queued, next, w, out, got, lapped, resized, behind,
             base, tries>>
lifeVars == <<lcOpt, lcPhase, lcTodo, held, master, intx, armed, fw, listed,
              reader, watcher, on, nosg, monitor, lcRunning, lcLate>>
watchVars == <<ewEvent, posted, autoAck, pc, last, ring, head, count, seen,
               log, own>>

NoRaw ==
    /\ card = 0 /\ slot = 0 /\ running = 0 /\ cardRaw = 0 /\ raw = 0
    /\ layout = 0 /\ size = 0 /\ saved = 0 /\ pending = 0 /\ app = 0
    /\ planes = 0 /\ queued = 0 /\ next = 0 /\ w = 0 /\ out = 0 /\ got = 0
    /\ lapped = 0 /\ resized = 0 /\ behind = 0 /\ base = 0 /\ tries = 0
NoLife ==
    /\ lcOpt = 0 /\ lcPhase = 0 /\ lcTodo = 0 /\ held = 0 /\ master = 0
    /\ intx = 0 /\ armed = 0 /\ fw = 0 /\ listed = 0 /\ reader = 0
    /\ watcher = 0 /\ on = 0 /\ nosg = 0 /\ monitor = 0 /\ lcRunning = 0
    /\ lcLate = 0
NoWatch ==
    /\ ewEvent = 0 /\ posted = 0 /\ autoAck = 0 /\ pc = 0 /\ last = 0
    /\ ring = 0 /\ head = 0 /\ count = 0 /\ seen = 0 /\ log = 0 /\ own = 0
NoSet ==
    /\ Init /\ elgato = FALSE /\ allow = FALSE
    /\ word = [r \in Words |-> 0]

MC_Init ==
    \/ /\ part = "raw" /\ Raw!Init
       /\ NoLife /\ NoWatch /\ NoSet
    \/ /\ part = "life" /\ Life!Init
       /\ NoRaw /\ NoWatch /\ NoSet
    \/ /\ part = "watch" /\ Watch!Init
       /\ NoRaw /\ NoLife /\ NoSet
    \/ /\ part = "set" /\ Init
       /\ NoRaw /\ NoLife /\ NoWatch

MC_Next ==
    \/ /\ part = "raw" /\ Raw!Next
       /\ UNCHANGED <<part, lifeVars, watchVars, vars>>
    \/ /\ part = "life" /\ Life!Next
       /\ UNCHANGED <<part, rawVars, watchVars, vars>>
    \/ /\ part = "watch" /\ Watch!Next
       /\ UNCHANGED <<part, rawVars, lifeVars, vars>>
    \/ /\ part = "set" /\ Next
       /\ UNCHANGED <<part, rawVars, lifeVars, watchVars>>

MC_Spec == MC_Init /\ [][MC_Next]_<<part, rawVars, lifeVars,
                                     watchVars, vars>>

-----------------------------------------------------------------------------
(* The types of each component.                                            *)
PartTypes ==
    /\ part = "raw" => Raw!TypeOK
    /\ part = "life" => Life!TypeOK
    /\ part = "watch" => Watch!TypeOK
    /\ TypeOK

(* M239: a delivered picture shows no sentinel.                            *)
NoPoison == part = "raw" => Raw!NoPoison
(* M222, M229: the luma plane delivered is one picture.                    *)
LumaWhole == part = "raw" => Raw!LumaWhole
(* A new pipeline delivers nothing from before it.                         *)
NothingFromBefore == part = "raw" => Raw!NothingFromBefore
(* Delivered buffers have the planes of their format.                      *)
KindFitsPlanes == part = "raw" => Raw!KindFitsPlanes
(* A raw picture is delivered once.                                        *)
DeliveredOnce == Raw!DeliveredOnce
(* M223: raw pictures are delivered in the order they were taken.          *)
RotationInOrder == Raw!RotationInOrder
(* What the device holds is released (mz0380-pci.c, mz0380-dma.c).         *)
NoLeak == part = "life" => Life!NoLeak
(* The interrupt handler always finds the BARs mapped.                     *)
IsrMapped == part = "life" => Life!IsrMapped
(* A card that may write memory has buffers to write to, unless one of two *)
(* parameters asks for bus mastering without them.                         *)
MasterHasBuffers == part = "life" => Life!MasterHasBuffers
(* Whoever can reach the device finds it there.                            *)
UsersHaveDevice == part = "life" => Life!UsersHaveDevice
(* Captures end before what they use is freed.                             *)
CapturePrecedesFree == part = "life" => Life!CapturePrecedesFree

(* The dump of the event ring is its newest entries (proc-debug.c).        *)
DumpIsNewest == part = "watch" => Watch!DumpIsNewest
(* One posted event is recorded once.                                      *)
RecordedOnce == Watch!RecordedOnce
=============================================================================
