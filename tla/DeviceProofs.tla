---------------------------- MODULE DeviceProofs -----------------------------
(***************************************************************************)
(* The properties that the run of MC_Device checks of raw delivery, of the *)
(* life of the device and of the event watcher, and the types of all four  *)
(* parts, proved for every value of their constants.  A behaviour is of    *)
(* one part and leaves the variables of the others alone, so the inductive *)
(* invariant of each part carries over as it is; that of the watcher is    *)
(* stated and proved here.                                                 *)
(***************************************************************************)
EXTENDS MC_Device, SettingsProofs, SequenceTheorems, TLAPS

RawP == INSTANCE RawDeliveryProofs WITH
    Slots <- Slots, Layouts <- Layouts, MaxFrames <- MaxFrames,
    MaxBuffers <- MaxBuffers, MaxCalls <- MaxFormats, given <- got
LifeP == INSTANCE LifecycleProofs WITH
    opt <- lcOpt, phase <- lcPhase, todo <- lcTodo, running <- lcRunning,
    late <- lcLate

allVars == <<part, rawVars, lifeVars, watchVars, vars>>

LEMMA OnePart ==
  ASSUME [MC_Next]_allVars
  PROVE  /\ part' = part
         /\ (part = "raw" /\ Raw!Next) \/ UNCHANGED rawVars
         /\ (part = "life" /\ Life!Next) \/ UNCHANGED lifeVars
         /\ (part = "watch" /\ Watch!Next) \/ UNCHANGED watchVars
BY DEF MC_Next, allVars

-----------------------------------------------------------------------------
(***************************************************************************)
(* Raw delivery.  Raw and RawP instantiate the same definitions, so their  *)
(* initial states, steps and properties are the same.                      *)
(***************************************************************************)
LEMMA RawSizes == RawP!Sizes
BY RawAssumption DEF RawP!Sizes, RawP!H264, RawP!None

LEMMA RawInit == ASSUME Raw!Init PROVE RawP!Init
BY DEF Raw!Init, RawP!Init, Raw!SlotIds, RawP!SlotIds, Raw!Blank, RawP!Blank,
   Raw!Cells, RawP!Cells, Raw!Last, RawP!Last, Raw!Poison, RawP!Poison,
   Raw!None, RawP!None, Raw!Idle, RawP!Idle, Raw!H264, RawP!H264

LEMMA RawStep == ASSUME Raw!Next PROVE RawP!Next
<1> USE DEF Raw!SlotIds, RawP!SlotIds, Raw!Last, RawP!Last, Raw!Cells, RawP!Cells,
       Raw!Sentinels, RawP!Sentinels, Raw!Luma, RawP!Luma, Raw!Chroma, RawP!Chroma,
       Raw!Poison, RawP!Poison, Raw!Clear, RawP!Clear, Raw!H264, RawP!H264,
       Raw!None, RawP!None, Raw!Blank, RawP!Blank, Raw!Idle, RawP!Idle,
       Raw!IsRaw, RawP!IsRaw, Raw!formatVars, RawP!formatVars,
       Raw!appVars, RawP!appVars, Raw!cardVars, RawP!cardVars,
       Raw!Geometries, RawP!Geometries, Raw!SentinelsOf, RawP!SentinelsOf,
       Raw!Landed, RawP!Landed, Raw!Repoisoned, RawP!Repoisoned,
       Raw!Reads, RawP!Reads, Raw!Strays, RawP!Strays, Raw!Fits, RawP!Fits
<1>1. CASE Raw!CardBegin \/ Raw!CardWrite
  BY <1>1 DEF Raw!CardBegin, RawP!CardBegin, Raw!CardWrite, RawP!CardWrite,
     Raw!Armed, RawP!Armed, RawP!Next
<1>2. CASE Raw!Worker
  BY <1>2 DEF Raw!Worker, RawP!Worker, Raw!workerFrame, RawP!workerFrame,
     Raw!DeliverEncoded, RawP!DeliverEncoded, Raw!Scan, RawP!Scan,
     Raw!TakeGone, RawP!TakeGone, Raw!TakeDrop, RawP!TakeDrop,
     Raw!TakeSave, RawP!TakeSave, Raw!Arm, RawP!Arm, Raw!Copy, RawP!Copy,
     Raw!Torn, RawP!Torn, Raw!Deliver, RawP!Deliver, Raw!Restored, RawP!Restored,
     Raw!Ready, RawP!Ready, Raw!Filled, RawP!Filled,
     Raw!ChromaFilled, RawP!ChromaFilled, Raw!FirstReady, RawP!FirstReady,
     Raw!Rotated, RawP!Rotated, Raw!End, RawP!End, Raw!ChromaAt, RawP!ChromaAt,
     Raw!Shown, RawP!Shown, RawP!Next
<1>3. CASE Raw!Ioctl
  BY <1>3 DEF Raw!Ioctl, RawP!Ioctl, Raw!TryBegin, RawP!TryBegin,
     Raw!TryEnd, RawP!TryEnd, Raw!SetFormat, RawP!SetFormat, Raw!Busy, RawP!Busy,
     Raw!formatFrame, RawP!formatFrame, RawP!Next
<1>4. CASE Raw!Application
  BY <1>4 DEF Raw!Application, RawP!Application, Raw!appFrame, RawP!appFrame,
     Raw!RequestBuffers, RawP!RequestBuffers, Raw!FreeBuffers, RawP!FreeBuffers,
     Raw!QueueBuffer, RawP!QueueBuffer, Raw!Attach, RawP!Attach,
     Raw!Restart, RawP!Restart, Raw!Poisoned, RawP!Poisoned,
     Raw!PostProc, RawP!PostProc, Raw!StopBegin, RawP!StopBegin,
     Raw!StopEnd, RawP!StopEnd, RawP!Next
<1> QED
  BY <1>1, <1>2, <1>3, <1>4 DEF Raw!Next

RawInv == part = "raw" => RawP!IInv

LEMMA RawKept ==
  ASSUME RawInv, [MC_Next]_allVars, part = "raw"
  PROVE  RawP!IInv /\ [RawP!Next]_(RawP!vars) /\ RawP!IInv'
<1>1. RawP!IInv
  BY DEF RawInv
<1>2. [RawP!Next]_(RawP!vars)
  BY OnePart, RawStep DEF RawP!vars, rawVars
<1> QED
  BY <1>1, <1>2, RawSizes, RawP!StepInv

(* In every reachable state of raw delivery, a slot the card has not come  *)
(* round to is blank, being written, or one whole picture, and the worker  *)
(* holds a picture not yet handed out (see RawDeliveryProofs).             *)
THEOREM RawInductive == MC_Spec => []RawInv
<1>1. MC_Init => RawInv
  BY RawInit, RawSizes, RawP!InitInv DEF MC_Init, RawInv
<1>2. RawInv /\ [MC_Next]_allVars => RawInv'
  BY OnePart, RawKept DEF RawInv
<1> QED
  BY <1>1, <1>2, PTL DEF MC_Spec, allVars

(* M239: a delivered picture shows a sentinel only when a format ioctl     *)
(* moved the layout between the copy and the restore, or the geometry      *)
(* since the slot was armed (mz0380_raw_probe_sentinel_restore).           *)
THEOREM SentinelsAreRestored == MC_Spec => []NoPoison
<1>1. RawInv => NoPoison
  BY RawP!Safe DEF RawInv, NoPoison, Raw!NoPoison, RawP!NoPoison, Raw!RawOut,
     RawP!RawOut, Raw!Cells, RawP!Cells, Raw!Last, RawP!Last, Raw!Poison, RawP!Poison
<1> QED
  BY <1>1, RawInductive, PTL

(* M222, M229: the luma plane delivered is one picture, unless the card    *)
(* came round to the slot while it was wanted, or a format ioctl moved the *)
(* geometry by which it is judged (mz0380_raw_deliver_slot).               *)
THEOREM LumaIsOnePicture == MC_Spec => []LumaWhole
<1>1. RawInv => LumaWhole
  BY RawP!Safe DEF RawInv, LumaWhole, Raw!LumaWhole, RawP!LumaWhole, Raw!RawOut,
     RawP!RawOut, Raw!Luma, RawP!Luma, Raw!Clear, RawP!Clear
<1> QED
  BY <1>1, RawInductive, PTL

(* A new pipeline delivers no picture of an older one: the slots are       *)
(* poisoned before the card gets them (mz0380_raw_probe_program_bufs).     *)
(* Slots the card lapped, or judged by a moved geometry, are excepted.     *)
THEOREM SlotsAreFresh == MC_Spec => []NothingFromBefore
<1>1. RawInv => NothingFromBefore
  BY RawP!Safe DEF RawInv, NothingFromBefore, Raw!NothingFromBefore,
     RawP!NothingFromBefore, Raw!RawOut, RawP!RawOut
<1> QED
  BY <1>1, RawInductive, PTL

(* Buffers are delivered in the format their planes were sized for, as     *)
(* S_FMT refuses a change while buffers exist, unless a TRY_FMT was at     *)
(* work (mz0380_queue_setup, mz0380_s_fmt).                                *)
THEOREM KindsFit == MC_Spec => []KindFitsPlanes
<1>1. RawInv => KindFitsPlanes
  BY RawP!Safe DEF RawInv, KindFitsPlanes, Raw!KindFitsPlanes, RawP!KindFitsPlanes,
     Raw!RawOut, RawP!RawOut
<1> QED
  BY <1>1, RawInductive, PTL

(* A picture is handed out once: taking a slot arms it, and it is not      *)
(* ready again before the card filled it (mz0380_raw_deliver_slot), with   *)
(* the same exceptions.                                                    *)
THEOREM PicturesGoOutOnce == MC_Spec => DeliveredOnce
<1>1. RawInv /\ [MC_Next]_allVars
        => [out' # out /\ out'.kind \in Layouts /\ w.s \notin lapped
               /\ ~out'.resized
              => Raw!Shown \notin got]_(Raw!vars)
  BY OnePart, RawKept, RawSizes, RawP!OnceEach
     DEF rawVars, Raw!vars, Raw!Shown, RawP!Shown
<1> QED
  BY <1>1, RawInductive, PTL DEF MC_Spec, allVars, DeliveredOnce, Raw!DeliveredOnce

(* M223: pictures go out in the order the card wrote them, if since the    *)
(* restart none was dropped or overwritten and the geometry did not move,  *)
(* and raw_next_slot was 0 then (mz0380_drain_raw_deliver).                *)
THEOREM PicturesGoOutInOrder == MC_Spec => RotationInOrder
<1>1. RawInv /\ [MC_Next]_allVars
        => [got' # got /\ ~behind'
              => \A g \in got : g <= base \/ g < Raw!Shown]_(Raw!vars)
  BY OnePart, RawKept, RawSizes, RawP!InOrder
     DEF rawVars, Raw!vars, Raw!Shown, RawP!Shown
<1> QED
  BY <1>1, RawInductive, PTL
     DEF MC_Spec, allVars, RotationInOrder, Raw!RotationInOrder

-----------------------------------------------------------------------------
(***************************************************************************)
(* The life of the device.                                                 *)
(***************************************************************************)
LEMMA LifeInit == ASSUME Life!Init PROVE LifeP!Init
BY DEF Life!Init, LifeP!Init, Life!Options, LifeP!Options

(* The steps and the lists made of them are the same.                      *)
LEMMA LifeLists ==
  /\ \A r : Life!Get(r) = LifeP!Get(r) /\ Life!Free(r) = LifeP!Free(r)
  /\ \A f : Life!Call(f) = LifeP!Call(f)
  /\ \A r : Life!Failure(r) = LifeP!Failure(r)
  /\ \A steps : Life!Ends(steps) = LifeP!Ends(steps)
  /\ Life!Probe = LifeP!Probe /\ Life!Remove = LifeP!Remove
  /\ Life!Resources = LifeP!Resources
BY DEF Life!Get, LifeP!Get, Life!Free, LifeP!Free, Life!Call, LifeP!Call,
   Life!Failure, LifeP!Failure, Life!Ends, LifeP!Ends, Life!Probe, LifeP!Probe,
   Life!Remove, LifeP!Remove, Life!Resources, LifeP!Resources, Life!Bars,
   LifeP!Bars, Life!Buffers, LifeP!Buffers, Life!IrqRelease, LifeP!IrqRelease,
   Life!Unregister, LifeP!Unregister, Life!FailDisable, LifeP!FailDisable,
   Life!DmaTeardown, LifeP!DmaTeardown, Life!FailDma, LifeP!FailDma,
   Life!CardSetup, LifeP!CardSetup, Life!Dma, LifeP!Dma, Life!Quiesce,
   LifeP!Quiesce, Life!Release, LifeP!Release, Life!NoDma, LifeP!NoDma

LEMMA LifeStep == ASSUME Life!Next PROVE LifeP!Next
<1> USE LifeLists
    DEF Life!Step, LifeP!Step, Life!userVars, LifeP!userVars, Life!captureVars,
        LifeP!captureVars, Life!userFrame, LifeP!userFrame
<1>1. CASE \E r \in Life!Resources : Life!Acquire(r) \/ Life!AcquireFails(r) \/ Life!GiveBack(r)
  BY <1>1 DEF Life!Acquire, LifeP!Acquire, Life!AcquireFails, LifeP!AcquireFails,
     Life!GiveBack, LifeP!GiveBack, LifeP!Driver, LifeP!Next
<1>2. CASE \/ Life!Firmware \/ Life!FirmwareRelease \/ Life!ArmDma \/ Life!Disarm
           \/ Life!ClearMaster \/ Life!Bind \/ Life!BusMaster
  BY <1>2 DEF Life!Firmware, LifeP!Firmware, Life!FirmwareRelease,
     LifeP!FirmwareRelease, Life!ArmDma, LifeP!ArmDma, Life!Disarm, LifeP!Disarm,
     Life!ClearMaster, LifeP!ClearMaster, Life!Bind, LifeP!Bind, Life!BusMaster,
     LifeP!BusMaster, Life!EscapeHatch, LifeP!EscapeHatch, LifeP!Driver, LifeP!Next
<1>3. CASE Life!ListDel \/ Life!WatchStop \/ Life!NosgStop \/ Life!DmaStop
  BY <1>3 DEF Life!ListDel, LifeP!ListDel, Life!WatchStop, LifeP!WatchStop,
     Life!NosgStop, LifeP!NosgStop, Life!DmaStop, LifeP!DmaStop, LifeP!Driver, LifeP!Next
<1>4. CASE Life!BindRequest \/ Life!UnbindRequest
  BY <1>4 DEF Life!BindRequest, LifeP!BindRequest, Life!UnbindRequest,
     LifeP!UnbindRequest, LifeP!Next
<1>5. CASE Life!ProcEnter \/ Life!ProcWatch \/ Life!ProcLeave
  BY <1>5 DEF Life!ProcEnter, LifeP!ProcEnter, Life!ProcWatch, LifeP!ProcWatch,
     Life!ProcLeave, LifeP!ProcLeave, LifeP!Next
<1>6. CASE Life!StreamOn \/ Life!StreamOff
  BY <1>6 DEF Life!StreamOn, LifeP!StreamOn, Life!StreamOff, LifeP!StreamOff,
     Life!Stopped, LifeP!Stopped, LifeP!Next
<1> QED
  BY <1>1, <1>2, <1>3, <1>4, <1>5, <1>6 DEF Life!Next, Life!Driver

LifeInv == part = "life" => LifeP!IInv

LEMMA LifeKept ==
  ASSUME LifeInv, [MC_Next]_allVars, part = "life"
  PROVE  LifeP!IInv'
<1>1. LifeP!IInv
  BY DEF LifeInv
<1>2. [LifeP!Next]_(LifeP!vars)
  BY OnePart, LifeStep DEF LifeP!vars, lifeVars
<1> QED
  BY <1>1, <1>2, LifeP!StepInv

(* In every reachable state of the life of the device, the steps a handler *)
(* has still to do give back what is held, or lead to a device that has    *)
(* what its users need (see LifecycleProofs).                              *)
THEOREM LifeInductive == MC_Spec => []LifeInv
<1>1. MC_Init => LifeInv
  BY LifeInit, LifeP!InitInv DEF MC_Init, LifeInv
<1>2. LifeInv /\ [MC_Next]_allVars => LifeInv'
  BY OnePart, LifeKept DEF LifeInv
<1> QED
  BY <1>1, <1>2, PTL DEF MC_Spec, allVars

(* A probe that failed at any of its steps, and a removal, leave nothing   *)
(* behind: no memory, region, vector or node, no bus mastering, no thread  *)
(* (the error paths of mz0380_initdev, and mz0380_finidev).                *)
THEOREM NothingIsLeaked == MC_Spec => []NoLeak
<1>1. LifeInv => NoLeak
  BY LifeP!Safe DEF LifeInv, NoLeak, Life!NoLeak, LifeP!NoLeak
<1> QED
  BY <1>1, LifeInductive, PTL

(* M84: the registers the interrupt handler reads are mapped while it can  *)
(* be called, on every error path (mz0380_irq_release before the unmap).   *)
THEOREM InterruptsAreMapped == MC_Spec => []IsrMapped
<1>1. LifeInv => IsrMapped
  BY LifeP!Safe DEF LifeInv, IsrMapped, Life!IsrMapped, LifeP!IsrMapped, Life!Bars, LifeP!Bars
<1> QED
  BY <1>1, LifeInductive, PTL

(* The card is told to stop before any buffer it knows is freed, and       *)
(* masters the bus for no other buffers (mz0380_dma_teardown), but where   *)
(* the user asks for bus mastering without them (dma_handshake, or         *)
(* allow_bus_master without enable_dma).                                   *)
THEOREM MastersHaveBuffers == MC_Spec => []MasterHasBuffers
<1>1. LifeInv => MasterHasBuffers
  BY LifeP!Safe DEF LifeInv, MasterHasBuffers, Life!MasterHasBuffers,
     LifeP!MasterHasBuffers, Life!Buffers, LifeP!Buffers, Life!EscapeHatch,
     LifeP!EscapeHatch
<1> QED
  BY <1>1, LifeInductive, PTL

(* A procfs handler, and the watcher it started, find the device and its   *)
(* registers (the list of mz0380_finidev and the kthread_stop after it).   *)
THEOREM UsersFindTheDevice == MC_Spec => []UsersHaveDevice
<1>1. LifeInv => UsersHaveDevice
  BY LifeP!Safe DEF LifeInv, UsersHaveDevice, Life!UsersHaveDevice,
     LifeP!UsersHaveDevice, Life!Bars, LifeP!Bars
<1> QED
  BY <1>1, LifeInductive, PTL

(* The threads of a capture begun before the removal end before what they  *)
(* use is freed, whenever the application came (mz0380_finidev).           *)
THEOREM CapturesEndInTime == MC_Spec => []CapturePrecedesFree
<1>1. LifeInv => CapturePrecedesFree
  BY LifeP!Safe DEF LifeInv, CapturePrecedesFree, Life!CapturePrecedesFree,
     LifeP!CapturePrecedesFree, Life!Bars, LifeP!Bars
<1> QED
  BY <1>1, LifeInductive, PTL

-----------------------------------------------------------------------------
(***************************************************************************)
(* The event watcher.  Its proofs are here in full.  First, positions in   *)
(* the ring.                                                               *)
(***************************************************************************)
LEMMA ModLow ==
  ASSUME NEW a \in Nat, NEW n \in Nat, a < n
  PROVE  a % n = a
OBVIOUS

LEMMA ModHigh ==
  ASSUME NEW a \in Nat, NEW n \in Nat, n <= a, a < n + n
  PROVE  a % n = a - n
OBVIOUS

LEMMA SubSeqPlaces ==
  ASSUME NEW S, NEW s \in Seq(S), NEW m \in Int, NEW n \in Int,
         \A i \in m..n : s[i] \in S
  PROVE  SubSeq(s, m, n) = [i \in 1..n - m + 1 |-> s[m + i - 1]]
<1> DEFINE q == SubSeq(s, m, n)
<1>1. q \in Seq(S) /\ Len(q) = IF m <= n THEN n - m + 1 ELSE 0
  BY SubSeqProperties
<1>2. \A i \in 1..n - m + 1 : q[i] = s[m + i - 1]
  BY SubSeqProperties
<1> HIDE DEF q
<1>3. q = [i \in 1..Len(q) |-> q[i]]
  BY <1>1
<1>4. 1..Len(q) = 1..n - m + 1
  BY <1>1
<1> QED
  BY <1>2, <1>3, <1>4 DEF q

(* Where the k-th newest record is, the newest being the first.            *)
Place(k) == IF k <= head THEN head - k ELSE head - k + RingSize

(***************************************************************************)
(* The inductive invariant of the watcher.                                 *)
(***************************************************************************)

(* The ring holds the newest records, counted from head backwards.         *)
RingIsNewest ==
  /\ log \in Seq(0..MaxEvents)
  /\ seen = Len(log)
  /\ count = IF seen < RingSize THEN seen ELSE RingSize
  /\ \A k \in 1..count : ring[Place(k)] = log[seen - k + 1]

(* An event that this run of the thread has recorded is one it remembers   *)
(* and is not about to record again.                                       *)
WatchFresh ==
  /\ ewEvent = Watch!Nothing \/ (ewEvent.word \in EventWords /\ ewEvent.id \in 1..posted)
  /\ ewEvent # Watch!Nothing /\ ewEvent.id <= own => ewEvent.word = last /\ pc = "sample"

WatchIInv == Watch!TypeOK /\ RingIsNewest /\ WatchFresh

(* Events have words that are not zero, and the ring has room.             *)
WatchSizes == RingSize \in Nat \ {0} /\ MaxEvents \in Nat /\ EventWords \subseteq Nat \ {0}

LEMMA WatchInitInv == ASSUME WatchSizes, Watch!Init PROVE WatchIInv
<1> USE DEF WatchSizes, Watch!Init
<1>1. Watch!TypeOK
  BY DEF Watch!TypeOK, Watch!Nothing
<1>2. RingIsNewest
  BY DEF RingIsNewest
<1>3. WatchFresh
  BY DEF WatchFresh
<1> QED
  BY <1>1, <1>2, <1>3 DEF WatchIInv

(* A record goes to the head, and makes every other one a place older.     *)
LEMMA WatchPlaces ==
  ASSUME WatchSizes, Watch!TypeOK, RingIsNewest, Watch!Recorded
  PROVE  /\ head' = IF head + 1 = RingSize THEN 0 ELSE head + 1
         /\ Place(1)' = head
         /\ \A k \in 1..RingSize - 1 : Place(k + 1)' = Place(k) /\ Place(k) # head
         /\ \A k \in 1..RingSize : Place(k) \in 0..RingSize - 1
<1>1. head' = IF head + 1 = RingSize THEN 0 ELSE head + 1
  <2>1. head + 1 \in Nat /\ RingSize \in Nat /\ head + 1 <= RingSize
        /\ head' = (head + 1) % RingSize
    BY DEF Watch!Recorded, Watch!TypeOK, WatchSizes
  <2>2. CASE head + 1 < RingSize
    BY <2>1, <2>2, ModLow
  <2>3. CASE head + 1 = RingSize
    <3>1. RingSize % RingSize = RingSize - RingSize
      BY ModHigh DEF WatchSizes
    <3> QED
      BY <2>1, <2>3, <3>1
  <2> QED
    BY <2>1, <2>2, <2>3
<1> QED
  BY <1>1 DEF Place, Watch!TypeOK, WatchSizes

LEMMA WatchNewest ==
  ASSUME WatchSizes, Watch!TypeOK, RingIsNewest, Watch!Recorded, ewEvent.id \in 0..MaxEvents
  PROVE  RingIsNewest'
<1>1. /\ log' \in Seq(0..MaxEvents) /\ Len(log') = Len(log) + 1
      /\ log'[Len(log) + 1] = ewEvent.id
      /\ \A i \in 1..Len(log) : log'[i] = log[i]
  BY DEF Watch!Recorded, RingIsNewest
<1>2. seen \in Nat /\ count \in 0..RingSize /\ count <= seen
  BY DEF RingIsNewest, Watch!TypeOK, WatchSizes
<1>3. seen' = Len(log') /\ seen' = seen + 1
  BY <1>1 DEF Watch!Recorded, RingIsNewest
<1>4. count' = IF seen' < RingSize THEN seen' ELSE RingSize
  BY <1>2, <1>3 DEF Watch!Recorded, RingIsNewest, WatchSizes
<1>5. ASSUME NEW k \in 1..count' PROVE ring'[Place(k)'] = log'[seen' - k + 1]
  <2>1. CASE k = 1
    BY <1>1, <1>2, <1>3, <2>1, WatchPlaces DEF Watch!Recorded, Watch!TypeOK, RingIsNewest
  <2>2. CASE k # 1
    <3>1. k - 1 \in 1..count /\ k - 1 \in 1..RingSize - 1 /\ (k - 1) + 1 = k
      BY <1>2, <2>2 DEF Watch!Recorded, WatchSizes
    <3>2. Place(k)' = Place(k - 1) /\ Place(k - 1) # head
      BY <3>1, WatchPlaces
    <3>3. ring'[Place(k)'] = ring[Place(k - 1)]
      BY <3>1, <3>2, WatchPlaces DEF Watch!Recorded, Watch!TypeOK, WatchSizes
    <3>4. ring[Place(k - 1)] = log[seen - k + 2]
      <4>1. ring[Place(k - 1)] = log[seen - (k - 1) + 1]
        BY <3>1 DEF RingIsNewest
      <4>2. seen - (k - 1) + 1 = seen - k + 2
        BY <1>2
      <4> QED
        BY <4>1, <4>2
    <3>5. log[seen - k + 2] = log'[seen' - k + 1]
      <4>1. seen' - k + 1 = seen - k + 2 /\ seen - k + 2 \in 1..Len(log)
        BY <1>2, <1>3, <2>2, <3>1 DEF RingIsNewest
      <4> QED
        BY <1>1, <4>1
    <3> QED
      BY <3>3, <3>4, <3>5
  <2> QED
    BY <2>1, <2>2
<1> QED
  BY <1>1, <1>3, <1>4, <1>5 DEF RingIsNewest

LEMMA WatchStepInv == ASSUME WatchSizes, WatchIInv, [Watch!Next]_(Watch!vars)
                    PROVE  WatchIInv'
<1> USE DEF WatchSizes, WatchIInv
<1>1. CASE Watch!Post
  BY <1>1 DEF Watch!Post, Watch!TypeOK, RingIsNewest, WatchFresh, Place, Watch!Nothing, Watch!ringVars
<1>2. CASE Watch!Consume
  BY <1>2 DEF Watch!Consume, Watch!TypeOK, RingIsNewest, WatchFresh, Place, Watch!Nothing, Watch!ringVars
<1>3. CASE Watch!Sample
  BY <1>3 DEF Watch!Sample, Watch!TypeOK, RingIsNewest, WatchFresh, Place, Watch!Nothing, Watch!ringVars
<1>4. CASE Watch!Record
  <2>1. CASE ewEvent = Watch!Nothing
    BY <1>4, <2>1 DEF Watch!Record, Watch!Seen, Watch!TypeOK, RingIsNewest, WatchFresh, Place, Watch!Nothing, Watch!ringVars
  <2>2. CASE ewEvent # Watch!Nothing
    <3>1. Watch!Recorded /\ ewEvent.id \in 1..posted
      BY <1>4, <2>2 DEF Watch!Record, WatchFresh
    <3>2. RingIsNewest'
      BY <3>1, WatchNewest DEF Watch!TypeOK
    <3>3. head' \in 0..RingSize - 1
      <4>1. head' = IF head + 1 = RingSize THEN 0 ELSE head + 1
        BY <3>1, WatchPlaces
      <4> QED
        BY <4>1 DEF Watch!TypeOK
    <3>4. Watch!TypeOK'
      BY <1>4, <2>2, <3>1, <3>3 DEF Watch!Record, Watch!Recorded, Watch!Seen, Watch!TypeOK, WatchFresh, Watch!Nothing
    <3>5. WatchFresh'
      BY <1>4, <2>2, <3>1 DEF Watch!Record, Watch!Seen, WatchFresh, Watch!Nothing, Watch!TypeOK
    <3> QED
      BY <3>2, <3>4, <3>5
  <2> QED
    BY <2>1, <2>2
<1>5. CASE Watch!Clear
  BY <1>5 DEF Watch!Clear, Watch!TypeOK, RingIsNewest, WatchFresh, Place, Watch!Nothing, Watch!ringVars
<1>6. CASE Watch!Restart
  BY <1>6 DEF Watch!Restart, Watch!TypeOK, RingIsNewest, WatchFresh, Place, Watch!Nothing, Watch!ringVars
<1>7. CASE UNCHANGED Watch!vars
  BY <1>7 DEF Watch!vars, Watch!TypeOK, RingIsNewest, WatchFresh, Place, Watch!Nothing, Watch!ringVars
<1> QED
  BY <1>1, <1>2, <1>3, <1>4, <1>5, <1>6, <1>7 DEF Watch!Next

LEMMA WatchDumpNewest == ASSUME WatchSizes, WatchIInv PROVE Watch!DumpIsNewest
<1>1. seen = Len(log) /\ count = IF seen < RingSize THEN seen ELSE RingSize
  BY DEF WatchIInv, RingIsNewest
<1>2. seen \in Nat /\ count \in 0..RingSize /\ count <= seen /\ head \in 0..RingSize - 1
  BY DEF WatchIInv, RingIsNewest, Watch!TypeOK, WatchSizes
<1>3. ASSUME NEW i \in 1..count
      PROVE  ring[(head - count + i - 1 + RingSize) % RingSize]
                = log[i + (seen - count + 1) - 1]
  <2> DEFINE k == count - i + 1
             a == head - count + i - 1 + RingSize
  <2>1. k \in 1..count /\ a \in Nat /\ a < RingSize + RingSize
    BY <1>2 DEF WatchSizes
  <2>2. a % RingSize = Place(k)
    <3>1. CASE a < RingSize
      <4>1. a % RingSize = a
        BY <2>1, <3>1, ModLow DEF WatchSizes
      <4>2. a = Place(k)
        BY <1>2, <3>1 DEF Place, WatchSizes
      <4> QED
        BY <4>1, <4>2
    <3>2. CASE RingSize <= a
      <4>1. a % RingSize = a - RingSize
        BY <2>1, <3>2, ModHigh DEF WatchSizes
      <4>2. a - RingSize = Place(k)
        BY <1>2, <3>2 DEF Place, WatchSizes
      <4> QED
        BY <4>1, <4>2
    <3> QED
      BY <2>1, <3>1, <3>2 DEF WatchSizes
  <2>3. ring[Place(k)] = log[seen - k + 1]
    BY <2>1 DEF WatchIInv, RingIsNewest
  <2>4. seen - k + 1 = i + (seen - count + 1) - 1
    BY <1>2
  <2> QED
    BY <2>2, <2>3, <2>4
<1>4. SubSeq(log, seen - count + 1, seen)
         = [i \in 1..count |-> log[i + (seen - count + 1) - 1]]
  <2> DEFINE m == seen - count + 1
  <2>1. log \in Seq(0..MaxEvents) /\ m \in Int /\ seen \in Int /\ m <= seen + 1
    BY <1>2 DEF WatchIInv, RingIsNewest
  <2>2. SubSeq(log, m, seen) = [i \in 1..seen - m + 1 |-> log[m + i - 1]]
    <3>1. \A i \in m..seen : log[i] \in 0..MaxEvents
      <4> SUFFICES ASSUME NEW i \in m..seen PROVE log[i] \in 0..MaxEvents
        OBVIOUS
      <4>1. count \in Nat /\ count <= seen /\ seen \in Nat
        BY <1>2 DEF WatchSizes
      <4>2. i \in 1..Len(log)
        BY <1>1, <4>1
      <4>3. log \in Seq(0..MaxEvents)
        BY <2>1
      <4> HIDE DEF m
      <4> QED
        BY <4>2, <4>3, ElementOfSeq
    <3> QED
      BY <2>1, <3>1, SubSeqPlaces
  <2>3. seen - m + 1 = count
    BY <1>2
  <2>4. \A i \in 1..count : m + i - 1 = i + m - 1
    BY <1>2
  <2> QED
    BY <2>2, <2>3, <2>4
<1>5. Watch!Dump = SubSeq(log, seen - count + 1, seen)
  BY <1>3, <1>4 DEF Watch!Dump
<1> QED
  BY <1>1, <1>5 DEF Watch!DumpIsNewest

(* The thread records only what is newer than its last record.             *)
LEMMA WatchRecordsNewer ==
  ASSUME WatchSizes, WatchIInv, Watch!Next, seen' > seen
  PROVE  ewEvent.id > own
<1>1. Watch!Record /\ ewEvent # Watch!Nothing
  BY DEF Watch!Next, Watch!Post, Watch!Consume, Watch!Sample, Watch!Record, Watch!Clear,
     Watch!Restart, Watch!ringVars, WatchIInv, RingIsNewest, Watch!TypeOK, WatchSizes
<1> QED
  BY <1>1 DEF Watch!Record, WatchIInv, WatchFresh, Watch!TypeOK, WatchSizes

LEMMA WatchRoom == WatchSizes
BY WatchAssumption DEF WatchSizes

WatchInv == part = "watch" => WatchIInv

LEMMA WatchKept ==
  ASSUME WatchInv, [MC_Next]_allVars, part = "watch"
  PROVE  WatchIInv /\ [Watch!Next]_(Watch!vars) /\ WatchIInv'
<1>1. WatchIInv
  BY DEF WatchInv
<1>2. [Watch!Next]_(Watch!vars)
  BY OnePart DEF Watch!vars, watchVars
<1> QED
  BY <1>1, <1>2, WatchRoom, WatchStepInv

(* The ring holds the newest records, counted backwards from head, and a   *)
(* recorded event is one the thread remembers (WatchIInv).                 *)
THEOREM WatchInductive == MC_Spec => []WatchInv
<1>1. MC_Init => WatchInv
  BY WatchRoom, WatchInitInv DEF MC_Init, WatchInv
<1>2. WatchInv /\ [MC_Next]_allVars => WatchInv'
  BY OnePart, WatchKept DEF WatchInv
<1> QED
  BY <1>1, <1>2, PTL DEF MC_Spec, allVars

(* mz0380-events prints the newest records, oldest first, for a ring of    *)
(* any size (mz0380_dump_events).                                          *)
THEOREM DumpsAreNewest == MC_Spec => []DumpIsNewest
<1>1. WatchInv => DumpIsNewest
  BY WatchRoom, WatchDumpNewest DEF WatchInv, DumpIsNewest
<1> QED
  BY <1>1, WatchInductive, PTL

(* However often the word is sampled and whoever consumes it meanwhile,    *)
(* one event makes one record of a run of the watcher.                     *)
THEOREM EventsAreRecordedOnce == MC_Spec => RecordedOnce
<1>1. WatchInv /\ [MC_Next]_allVars
        => [seen' > seen => ewEvent.id > own]_(Watch!vars)
  <2> SUFFICES ASSUME WatchInv, [MC_Next]_allVars, ~UNCHANGED Watch!vars, seen' > seen
               PROVE  ewEvent.id > own
    OBVIOUS
  <2>1. part = "watch" /\ Watch!Next
    BY OnePart DEF watchVars, Watch!vars
  <2> QED
    BY <2>1, WatchKept, WatchRoom, WatchRecordsNewer
<1> QED
  BY <1>1, WatchInductive, PTL DEF MC_Spec, allVars, RecordedOnce, Watch!RecordedOnce
-----------------------------------------------------------------------------
(***************************************************************************)
(* The settings, and the types of all four parts.                          *)
(***************************************************************************)
LEMMA SetSpec == MC_Spec => Spec
<1>1. MC_Init => Init
  BY DEF MC_Init, NoSet
<1>2. [MC_Next]_allVars => [Next]_vars
  BY DEF MC_Next, allVars
<1> QED
  BY <1>1, <1>2, PTL DEF MC_Spec, Spec, allVars

(* No step of any part leads out of the states it is written for; and the  *)
(* lock of the settings is held by the one caller that is past it.         *)
THEOREM PartsAreTyped == MC_Spec => []PartTypes
<1>1. RawInv => (part = "raw" => Raw!TypeOK)
  <2>1. /\ Raw!SlotIds = RawP!SlotIds /\ Raw!Cells = RawP!Cells
        /\ Raw!Values = RawP!Values /\ Raw!Geometries = RawP!Geometries
    BY DEF Raw!Geometries, RawP!Geometries, Raw!SlotIds, RawP!SlotIds,
       Raw!Cells, RawP!Cells, Raw!Values, RawP!Values, Raw!Last, RawP!Last,
       Raw!Poison, RawP!Poison, Raw!Clear, RawP!Clear
  <2>2. Raw!TypeOK <=> RawP!TypeOK
    BY <2>1, Zenon DEF Raw!TypeOK, RawP!TypeOK
  <2> QED
    BY <2>2, RawP!Safe DEF RawInv
<1>2. LifeInv => (part = "life" => Life!TypeOK)
  BY LifeP!Safe, LifeLists
     DEF LifeInv, Life!TypeOK, LifeP!TypeOK, Life!Options, LifeP!Options
<1>3. WatchInv => (part = "watch" => Watch!TypeOK)
  BY DEF WatchInv, WatchIInv
<1>4. RawInv /\ LifeInv /\ WatchInv /\ TypeOK => PartTypes
  BY <1>1, <1>2, <1>3 DEF PartTypes
<1> QED
  BY <1>4, SetSpec, TypeCorrect, RawInductive, LifeInductive, WatchInductive, PTL
=============================================================================
