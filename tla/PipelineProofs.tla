--------------------------- MODULE PipelineProofs ---------------------------
(***************************************************************************)
(* Proofs about Pipeline, for every set of modes, geometries and buffers,  *)
(* any number of sessions and with or without a second reader.             *)
(***************************************************************************)
EXTENDS Pipeline, TLAPS

(* The named actions, grouped by actor.                                    *)
Environment == SourceChange \/ Stall \/ SetFormat \/ QueryBegin \/ QueryEnd
               \/ QueueBuffer
StreamOnStep ==
  \/ AttachPublish \/ AttachHold \/ AttachRefused \/ ReplaceStop
  \/ ReplaceFlush \/ FreshBegin \/ FreshPlaceholder \/ FreshRefused
  \/ FreshMeasured \/ CheckRefused \/ FreshStart \/ FreshStarted \/ FreshFailed
StreamOffStep ==
  StreamOff \/ OffMonitor \/ OffPlaceholder \/ OffDetach \/ OffReturn
Drain == (\E a \in AccessUnits : DrainStart(a)) \/ DrainFinish

LEMMA NextCases ==
  ASSUME [Next]_vars
  PROVE  \/ Environment \/ StreamOnStep \/ StreamOffStep \/ Start
         \/ Monitor \/ NoSignal \/ Drain \/ UNCHANGED vars
BY DEF Next, User, UserWork, Environment, StreamOnStep, StreamOffStep, Drain

-----------------------------------------------------------------------------
(***************************************************************************)
(* The inductive invariant.                                                *)
(***************************************************************************)

(* The parts of TypeOK.                                                    *)
SignalType ==
  /\ source \in Signals /\ detected \in Signals /\ lastGood \in Signals
  /\ pipeMode \in Signals /\ live \in Signals
  /\ capture \in Geometries /\ pipeGeom \in Geometries

DeviceFlags ==
  /\ encoder \in BOOLEAN /\ fresh \in BOOLEAN
  /\ running \in BOOLEAN /\ pending \in BOOLEAN /\ startFailed \in BOOLEAN
  /\ accepting \in BOOLEAN

SessionFlags ==
  /\ streaming \in BOOLEAN /\ recovering \in BOOLEAN /\ active \in BOOLEAN
  /\ waiting \in BOOLEAN /\ chain \in BOOLEAN
  /\ recQueued \in BOOLEAN /\ was \in BOOLEAN /\ nsQueued \in BOOLEAN

StageType ==
  /\ start \in {"none", "spawn", "arm", "commit", "unwind", "flush", "ok",
                 "failed"}
  /\ start # "none" <=> upc = "starting" \/ rpc = "starting"
  /\ spawned \in 0..2
  /\ upc \in {"off", "attach", "flush", "fresh", "check", "starting", "on",
               "cancel", "quiet", "detach", "sync"}
  /\ qpc \in {"idle", "measuring"}
  /\ rpc \in {"idle", "lock", "lost", "show", "mark", "query", "match",
               "starting", "rearm"}
  /\ npc \in {"idle", "copy", "tail"}
  /\ dpc \in {"idle", "lock", "deliver", "switch", "cancel", "done"}
  /\ au \in AccessUnits

BufferType ==
  /\ queued \subseteq Buffers /\ nsBuf \subseteq Buffers /\ dBuf \subseteq Buffers
  /\ queued \cap (nsBuf \cup dBuf) = {} /\ nsBuf \cap dBuf = {}

LEMMA TypeParts ==
  SignalType /\ DeviceFlags /\ SessionFlags /\ StageType /\ BufferType => TypeOK
BY DEF TypeOK, SignalType, DeviceFlags, SessionFlags, StageType, BufferType

(* Who may be at work in which part of a session: the monitor until it was *)
(* cancelled, the placeholder a little longer, the drain worker until the  *)
(* application waited for it; and a start that failed has shut the worker  *)
(* out and waited for it too.                                              *)
Session ==
  /\ streaming <=> upc \in {"attach", "starting", "on"}
  /\ recQueued \/ rpc # "idle" \/ active => upc \in {"on", "cancel"}
  /\ nsQueued \/ npc # "idle" \/ recovering => upc \in {"on", "cancel", "quiet"}
  /\ dpc # "idle" => upc \notin {"off", "flush", "fresh", "check"}
  /\ nsBuf # {} => npc = "copy"
  /\ dBuf # {} => DrainHolds
  /\ start \in {"flush", "failed"} => ~accepting
  /\ start = "failed" => dpc = "idle"

(* The SET_VICs of a session: whoever may still start the pipeline, the    *)
(* application or the monitor, finds that nobody has done so before.       *)
Spent ==
  /\ spawned <= 1
  /\ upc \in {"attach", "fresh", "check"} \/ start = "spawn" => spawned = 0
  /\ start = "ok" => running
  /\ /\ upc = "on" \/ (upc = "cancel" /\ rpc # "idle")
     /\ ~running /\ ~startFailed /\ rpc # "starting"
     => spawned = 0

(* What stands between a picture without its IDR and the application: the  *)
(* gate, a stall, or the placeholder.  The placeholder ends only behind a  *)
(* delivered IDR, and its copy excludes the drain worker's.                *)
Gate ==
  /\ streaming /\ ~chain => waiting \/ ~fresh \/ active
  /\ npc = "copy" => ~DrainHolds
  /\ npc = "copy" /\ streaming => active
  /\ dpc = "switch" => chain
  /\ dpc = "deliver" /\ au = "dep" => chain

IInv ==
  /\ SignalType /\ DeviceFlags /\ SessionFlags /\ StageType /\ BufferType
  /\ Session /\ Spent /\ Gate /\ NoOrphan

LEMMA InitInv == Init => IInv
<1> SUFFICES ASSUME Init PROVE IInv
  OBVIOUS
<1> USE DEF Init
<1>1. SignalType /\ StageType /\ BufferType
  BY DEF SignalType, StageType, BufferType, Signals, Geometries, AccessUnits
<1>2. DeviceFlags /\ SessionFlags
  BY Zenon DEF DeviceFlags, SessionFlags
<1>3. Session /\ Spent /\ Gate /\ NoOrphan
  BY DEF Session, Spent, Gate, NoOrphan, DrainHolds
<1> QED
  BY <1>1, <1>2, <1>3 DEF IInv

-----------------------------------------------------------------------------
(***************************************************************************)
(* Each part is preserved by every step.                                   *)
(***************************************************************************)

(* What was measured, negotiated or programmed is a mode and a frame size. *)
LEMMA StepSignalType == IInv /\ [Next]_vars => SignalType'
<1> SUFFICES ASSUME IInv, [Next]_vars PROVE SignalType'
  OBVIOUS
<1> USE DEF IInv, SignalType, Measured, StartBegin, Signals, Geometries,
   envVars, sigVars, pipeVars, flagVars, recVars, nsVars, drainVars
<1>1. CASE Environment
  BY <1>1, PipelineAssumption DEF Environment, SourceChange, Stall,
     SetFormat, QueryBegin, QueryEnd, QueueBuffer
<1>2. CASE StreamOnStep
  BY <1>2, PipelineAssumption DEF StreamOnStep, AttachPublish, AttachHold,
     AttachRefused, ReplaceStop, ReplaceFlush, FreshBegin, FreshPlaceholder,
     FreshRefused, FreshMeasured, CheckRefused, FreshStart, FreshStarted,
     FreshFailed
<1>3. CASE StreamOffStep
  BY <1>3, PipelineAssumption DEF StreamOffStep, StreamOff, OffMonitor,
     OffPlaceholder, OffDetach, OffReturn
<1>4. CASE Start
  BY <1>4, PipelineAssumption DEF Start, StartSpawn, StartArm, StartCommit,
     StartUnwind, StartFlush
<1>5. CASE Monitor
  BY <1>5, PipelineAssumption DEF Monitor, RecRun, RecLock, RecActivate,
     RecShow, RecMark, RecQuery, RecMismatch, RecValidated, RecStart,
     RecStarted, RecRearm
<1>6. CASE NoSignal
  BY <1>6, PipelineAssumption DEF NoSignal, NsRun, NsDone, NsTail
<1>7. CASE Drain
  BY <1>7, PipelineAssumption DEF Drain, DrainFinish, DrainDetached,
     DrainReject, DrainStarved, DrainTake, DrainDeliver, DrainSwitch,
     DrainDone, DrainStart
<1>8. CASE UNCHANGED vars
  BY <1>8 DEF vars
<1> QED
  BY NextCases, <1>1, <1>2, <1>3, <1>4, <1>5, <1>6, <1>7, <1>8

(* The flags of the pipeline.                                              *)
LEMMA StepDeviceFlags == DeviceFlags /\ [Next]_vars => DeviceFlags'
<1> SUFFICES ASSUME DeviceFlags, [Next]_vars PROVE DeviceFlags'
  OBVIOUS
<1> USE DEF DeviceFlags, StopCard, StartBegin, Judge, envVars, sigVars,
   pipeVars, flagVars, recVars, nsVars, drainVars
<1>1. CASE Environment
  <2>1. CASE SourceChange
    BY <2>1, Zenon DEF SourceChange
  <2>2. CASE Stall
    BY <2>2, Zenon DEF Stall
  <2>3. CASE SetFormat
    BY <2>3, Zenon DEF SetFormat
  <2>4. CASE QueryBegin
    BY <2>4, Zenon DEF QueryBegin
  <2>5. CASE QueryEnd
    BY <2>5, Zenon DEF QueryEnd
  <2>6. CASE QueueBuffer
    BY <2>6, Zenon DEF QueueBuffer
  <2> QED
    BY <1>1, <2>1, <2>2, <2>3, <2>4, <2>5, <2>6 DEF Environment
<1>2. CASE StreamOnStep
  <2>1. CASE AttachPublish
    BY <2>1, Zenon DEF AttachPublish
  <2>2. CASE AttachHold
    BY <2>2, Zenon DEF AttachHold
  <2>3. CASE AttachRefused
    BY <2>3, Zenon DEF AttachRefused
  <2>4. CASE ReplaceStop
    BY <2>4, Zenon DEF ReplaceStop
  <2>5. CASE ReplaceFlush
    BY <2>5, Zenon DEF ReplaceFlush
  <2>6. CASE FreshBegin
    BY <2>6, Zenon DEF FreshBegin
  <2>7. CASE FreshPlaceholder
    BY <2>7, Zenon DEF FreshPlaceholder
  <2>8. CASE FreshRefused
    BY <2>8, Zenon DEF FreshRefused
  <2>9. CASE FreshMeasured
    BY <2>9, Zenon DEF FreshMeasured
  <2>10. CASE CheckRefused
    BY <2>10, Zenon DEF CheckRefused
  <2>11. CASE FreshStart
    BY <2>11, Zenon DEF FreshStart
  <2>12. CASE FreshStarted
    BY <2>12, Zenon DEF FreshStarted
  <2>13. CASE FreshFailed
    BY <2>13, Zenon DEF FreshFailed
  <2> QED
    BY <1>2, <2>1, <2>2, <2>3, <2>4, <2>5, <2>6, <2>7, <2>8, <2>9, <2>10,
       <2>11, <2>12, <2>13 DEF StreamOnStep
<1>3. CASE StreamOffStep
  <2>1. CASE StreamOff
    BY <2>1, Zenon DEF StreamOff
  <2>2. CASE OffMonitor
    BY <2>2, Zenon DEF OffMonitor
  <2>3. CASE OffPlaceholder
    BY <2>3, Zenon DEF OffPlaceholder
  <2>4. CASE OffDetach
    BY <2>4, Zenon DEF OffDetach
  <2>5. CASE OffReturn
    BY <2>5, Zenon DEF OffReturn
  <2> QED
    BY <1>3, <2>1, <2>2, <2>3, <2>4, <2>5 DEF StreamOffStep
<1>4. CASE Start
  <2>1. CASE StartSpawn
    BY <2>1, Zenon DEF StartSpawn
  <2>2. CASE StartArm
    BY <2>2, Zenon DEF StartArm
  <2>3. CASE StartCommit
    BY <2>3, Zenon DEF StartCommit
  <2>4. CASE StartUnwind
    BY <2>4, Zenon DEF StartUnwind
  <2>5. CASE StartFlush
    BY <2>5, Zenon DEF StartFlush
  <2> QED
    BY <1>4, <2>1, <2>2, <2>3, <2>4, <2>5 DEF Start
<1>5. CASE Monitor
  <2>1. CASE RecRun
    BY <2>1, Zenon DEF RecRun
  <2>2. CASE RecLock
    BY <2>2, Zenon DEF RecLock
  <2>3. CASE RecActivate
    BY <2>3, Zenon DEF RecActivate
  <2>4. CASE RecShow
    BY <2>4, Zenon DEF RecShow
  <2>5. CASE RecMark
    BY <2>5, Zenon DEF RecMark
  <2>6. CASE RecQuery
    BY <2>6, Zenon DEF RecQuery
  <2>7. CASE RecMismatch
    BY <2>7, Zenon DEF RecMismatch
  <2>8. CASE RecValidated
    BY <2>8, Zenon DEF RecValidated
  <2>9. CASE RecStart
    BY <2>9, Zenon DEF RecStart
  <2>10. CASE RecStarted
    BY <2>10, Zenon DEF RecStarted
  <2>11. CASE RecRearm
    BY <2>11, Zenon DEF RecRearm
  <2> QED
    BY <1>5, <2>1, <2>2, <2>3, <2>4, <2>5, <2>6, <2>7, <2>8, <2>9, <2>10,
       <2>11 DEF Monitor
<1>6. CASE NoSignal
  <2>1. CASE NsRun
    BY <2>1, Zenon DEF NsRun
  <2>2. CASE NsDone
    BY <2>2, Zenon DEF NsDone
  <2>3. CASE NsTail
    BY <2>3, Zenon DEF NsTail
  <2> QED
    BY <1>6, <2>1, <2>2, <2>3 DEF NoSignal
<1>7. CASE Drain
  <2>1. CASE DrainDetached
    BY <2>1, Zenon DEF DrainDetached
  <2>2. CASE DrainReject
    BY <2>2, Zenon DEF DrainReject
  <2>3. CASE DrainStarved
    BY <2>3, Zenon DEF DrainStarved
  <2>4. CASE DrainTake
    BY <2>4, Zenon DEF DrainTake
  <2>5. CASE DrainDeliver
    BY <2>5, Zenon DEF DrainDeliver
  <2>6. CASE DrainSwitch
    BY <2>6, Zenon DEF DrainSwitch
  <2>7. CASE DrainDone
    BY <2>7, Zenon DEF DrainDone
  <2>8. CASE (\E a \in AccessUnits : DrainStart(a))
    BY <2>8, Zenon DEF DrainStart
  <2> QED
    BY <1>7, <2>1, <2>2, <2>3, <2>4, <2>5, <2>6, <2>7, <2>8 DEF Drain,
       DrainFinish
<1>8. CASE UNCHANGED vars
  BY <1>8 DEF vars
<1> QED
  BY NextCases, <1>1, <1>2, <1>3, <1>4, <1>5, <1>6, <1>7, <1>8

(* The flags of the session and of its work items.                         *)
LEMMA StepSessionFlags == SessionFlags /\ [Next]_vars => SessionFlags'
<1> SUFFICES ASSUME SessionFlags, [Next]_vars PROVE SessionFlags'
  OBVIOUS
<1> USE DEF SessionFlags, StopCard, StartBegin, Judge, envVars, sigVars,
   pipeVars, flagVars, recVars, nsVars, drainVars
<1>1. CASE Environment
  <2>1. CASE SourceChange
    BY <2>1, Zenon DEF SourceChange
  <2>2. CASE Stall
    BY <2>2, Zenon DEF Stall
  <2>3. CASE SetFormat
    BY <2>3, Zenon DEF SetFormat
  <2>4. CASE QueryBegin
    BY <2>4, Zenon DEF QueryBegin
  <2>5. CASE QueryEnd
    BY <2>5, Zenon DEF QueryEnd
  <2>6. CASE QueueBuffer
    BY <2>6, Zenon DEF QueueBuffer
  <2> QED
    BY <1>1, <2>1, <2>2, <2>3, <2>4, <2>5, <2>6 DEF Environment
<1>2. CASE StreamOnStep
  <2>1. CASE AttachPublish
    BY <2>1, Zenon DEF AttachPublish
  <2>2. CASE AttachHold
    BY <2>2, Zenon DEF AttachHold
  <2>3. CASE AttachRefused
    BY <2>3, Zenon DEF AttachRefused
  <2>4. CASE ReplaceStop
    BY <2>4, Zenon DEF ReplaceStop
  <2>5. CASE ReplaceFlush
    BY <2>5, Zenon DEF ReplaceFlush
  <2>6. CASE FreshBegin
    BY <2>6, Zenon DEF FreshBegin
  <2>7. CASE FreshPlaceholder
    BY <2>7, Zenon DEF FreshPlaceholder
  <2>8. CASE FreshRefused
    BY <2>8, Zenon DEF FreshRefused
  <2>9. CASE FreshMeasured
    BY <2>9, Zenon DEF FreshMeasured
  <2>10. CASE CheckRefused
    BY <2>10, Zenon DEF CheckRefused
  <2>11. CASE FreshStart
    BY <2>11, Zenon DEF FreshStart
  <2>12. CASE FreshStarted
    BY <2>12, Zenon DEF FreshStarted
  <2>13. CASE FreshFailed
    BY <2>13, Zenon DEF FreshFailed
  <2> QED
    BY <1>2, <2>1, <2>2, <2>3, <2>4, <2>5, <2>6, <2>7, <2>8, <2>9, <2>10,
       <2>11, <2>12, <2>13 DEF StreamOnStep
<1>3. CASE StreamOffStep
  <2>1. CASE StreamOff
    BY <2>1, Zenon DEF StreamOff
  <2>2. CASE OffMonitor
    BY <2>2, Zenon DEF OffMonitor
  <2>3. CASE OffPlaceholder
    BY <2>3, Zenon DEF OffPlaceholder
  <2>4. CASE OffDetach
    BY <2>4, Zenon DEF OffDetach
  <2>5. CASE OffReturn
    BY <2>5, Zenon DEF OffReturn
  <2> QED
    BY <1>3, <2>1, <2>2, <2>3, <2>4, <2>5 DEF StreamOffStep
<1>4. CASE Start
  <2>1. CASE StartSpawn
    BY <2>1, Zenon DEF StartSpawn
  <2>2. CASE StartArm
    BY <2>2, Zenon DEF StartArm
  <2>3. CASE StartCommit
    BY <2>3, Zenon DEF StartCommit
  <2>4. CASE StartUnwind
    BY <2>4, Zenon DEF StartUnwind
  <2>5. CASE StartFlush
    BY <2>5, Zenon DEF StartFlush
  <2> QED
    BY <1>4, <2>1, <2>2, <2>3, <2>4, <2>5 DEF Start
<1>5. CASE Monitor
  <2>1. CASE RecRun
    BY <2>1, Zenon DEF RecRun
  <2>2. CASE RecLock
    BY <2>2, Zenon DEF RecLock
  <2>3. CASE RecActivate
    BY <2>3, Zenon DEF RecActivate
  <2>4. CASE RecShow
    BY <2>4, Zenon DEF RecShow
  <2>5. CASE RecMark
    BY <2>5, Zenon DEF RecMark
  <2>6. CASE RecQuery
    BY <2>6, Zenon DEF RecQuery
  <2>7. CASE RecMismatch
    BY <2>7, Zenon DEF RecMismatch
  <2>8. CASE RecValidated
    BY <2>8, Zenon DEF RecValidated
  <2>9. CASE RecStart
    BY <2>9, Zenon DEF RecStart
  <2>10. CASE RecStarted
    BY <2>10, Zenon DEF RecStarted
  <2>11. CASE RecRearm
    BY <2>11, Zenon DEF RecRearm
  <2> QED
    BY <1>5, <2>1, <2>2, <2>3, <2>4, <2>5, <2>6, <2>7, <2>8, <2>9, <2>10,
       <2>11 DEF Monitor
<1>6. CASE NoSignal
  <2>1. CASE NsRun
    BY <2>1, Zenon DEF NsRun
  <2>2. CASE NsDone
    BY <2>2, Zenon DEF NsDone
  <2>3. CASE NsTail
    BY <2>3, Zenon DEF NsTail
  <2> QED
    BY <1>6, <2>1, <2>2, <2>3 DEF NoSignal
<1>7. CASE Drain
  <2>1. CASE DrainDetached
    BY <2>1, Zenon DEF DrainDetached
  <2>2. CASE DrainReject
    BY <2>2, Zenon DEF DrainReject
  <2>3. CASE DrainStarved
    BY <2>3, Zenon DEF DrainStarved
  <2>4. CASE DrainTake
    BY <2>4, Zenon DEF DrainTake
  <2>5. CASE DrainDeliver
    BY <2>5, Zenon DEF DrainDeliver
  <2>6. CASE DrainSwitch
    BY <2>6, Zenon DEF DrainSwitch
  <2>7. CASE DrainDone
    BY <2>7, Zenon DEF DrainDone
  <2>8. CASE (\E a \in AccessUnits : DrainStart(a))
    BY <2>8, Zenon DEF DrainStart
  <2> QED
    BY <1>7, <2>1, <2>2, <2>3, <2>4, <2>5, <2>6, <2>7, <2>8 DEF Drain,
       DrainFinish
<1>8. CASE UNCHANGED vars
  BY <1>8 DEF vars
<1> QED
  BY NextCases, <1>1, <1>2, <1>3, <1>4, <1>5, <1>6, <1>7, <1>8

(* Where everyone is; a start belongs to the caller that waits for it.     *)
LEMMA StepStageType == IInv /\ [Next]_vars => StageType'
<1> SUFFICES ASSUME IInv, [Next]_vars PROVE StageType'
  OBVIOUS
<1> USE DEF IInv, StageType, Session, StartBegin, Judge, Refuse, AccessUnits,
   envVars, sigVars, pipeVars, flagVars, recVars, nsVars, drainVars
<1>1. CASE Environment
  BY <1>1 DEF Environment, SourceChange, Stall, SetFormat, QueryBegin,
     QueryEnd, QueueBuffer
<1>2. CASE StreamOnStep
  BY <1>2 DEF StreamOnStep, AttachPublish, AttachHold, AttachRefused,
     ReplaceStop, ReplaceFlush, FreshBegin, FreshPlaceholder, FreshRefused,
     FreshMeasured, CheckRefused, FreshStart, FreshStarted, FreshFailed
<1>3. CASE StreamOffStep
  BY <1>3 DEF StreamOffStep, StreamOff, OffMonitor, OffPlaceholder,
     OffDetach, OffReturn
<1>4. CASE Start
  BY <1>4 DEF Start, StartSpawn, StartArm, StartCommit, StartUnwind,
     StartFlush
<1>5. CASE Monitor
  <2>1. CASE RecRun
    BY <2>1 DEF RecRun
  <2>2. CASE RecLock
    BY <2>2 DEF RecLock
  <2>3. CASE RecActivate
    BY <2>3 DEF RecActivate
  <2>4. CASE RecShow
    BY <2>4 DEF RecShow
  <2>5. CASE RecMark
    BY <2>5 DEF RecMark
  <2>6. CASE RecQuery
    BY <2>6 DEF RecQuery
  <2>7. CASE RecMismatch \/ RecValidated
    BY <2>7 DEF RecMismatch, RecValidated
  <2>8. CASE RecStart \/ RecStarted \/ RecRearm
    BY <2>8 DEF RecStart, RecStarted, RecRearm
  <2> QED
    BY <1>5, <2>1, <2>2, <2>3, <2>4, <2>5, <2>6, <2>7, <2>8 DEF Monitor
<1>6. CASE NoSignal
  BY <1>6 DEF NoSignal, NsRun, NsDone, NsTail
<1>7. CASE Drain
  BY <1>7 DEF Drain, DrainFinish, DrainDetached, DrainReject, DrainStarved,
     DrainTake, DrainDeliver, DrainSwitch, DrainDone, DrainStart
<1>8. CASE UNCHANGED vars
  BY <1>8 DEF vars
<1> QED
  BY NextCases, <1>1, <1>2, <1>3, <1>4, <1>5, <1>6, <1>7, <1>8

(* A buffer is taken off the list by the one who fills it.                 *)
LEMMA StepBufferType == IInv /\ [Next]_vars => BufferType'
<1> SUFFICES ASSUME IInv, [Next]_vars PROVE BufferType'
  OBVIOUS
<1> USE DEF IInv, BufferType, Judge, Refuse, envVars, sigVars, pipeVars,
   flagVars, recVars, nsVars, drainVars
<1>1. CASE Environment
  BY <1>1 DEF Environment, SourceChange, Stall, SetFormat, QueryBegin,
     QueryEnd, QueueBuffer
<1>2. CASE StreamOnStep
  BY <1>2 DEF StreamOnStep, AttachPublish, AttachHold, AttachRefused,
     ReplaceStop, ReplaceFlush, FreshBegin, FreshPlaceholder, FreshRefused,
     FreshMeasured, CheckRefused, FreshStart, FreshStarted, FreshFailed
<1>3. CASE StreamOffStep
  BY <1>3 DEF StreamOffStep, StreamOff, OffMonitor, OffPlaceholder,
     OffDetach, OffReturn
<1>4. CASE Start
  BY <1>4 DEF Start, StartSpawn, StartArm, StartCommit, StartUnwind,
     StartFlush
<1>5. CASE Monitor
  BY <1>5 DEF Monitor, RecRun, RecLock, RecActivate, RecShow, RecMark,
     RecQuery, RecMismatch, RecValidated, RecStart, RecStarted, RecRearm
<1>6. CASE NoSignal
  BY <1>6 DEF NoSignal, NsRun, NsDone, NsTail
<1>7. CASE Drain
  BY <1>7 DEF Drain, DrainFinish, DrainDetached, DrainReject, DrainStarved,
     DrainTake, DrainDeliver, DrainSwitch, DrainDone, DrainStart
<1>8. CASE UNCHANGED vars
  BY <1>8 DEF vars
<1> QED
  BY NextCases, <1>1, <1>2, <1>3, <1>4, <1>5, <1>6, <1>7, <1>8

(* Work items are queued and run only between the end of STREAMON and      *)
(* their cancellation, and the drain worker is waited for in the end.      *)
LEMMA StepSession == IInv /\ [Next]_vars => Session'
<1> SUFFICES ASSUME IInv, [Next]_vars PROVE Session'
  OBVIOUS
<1> USE DEF IInv, StageType, Session, StopCard, StartBegin, Judge, Refuse,
   DrainHolds, envVars, sigVars, pipeVars, flagVars, recVars, nsVars,
   drainVars
<1>1. CASE Environment
  BY <1>1 DEF Environment, SourceChange, Stall, SetFormat, QueryBegin,
     QueryEnd, QueueBuffer
<1>2. CASE StreamOnStep
  BY <1>2 DEF StreamOnStep, AttachPublish, AttachHold, AttachRefused,
     ReplaceStop, ReplaceFlush, FreshBegin, FreshPlaceholder, FreshRefused,
     FreshMeasured, CheckRefused, FreshStart, FreshStarted, FreshFailed
<1>3. CASE StreamOffStep
  <2>1. CASE StreamOff
    BY <2>1 DEF StreamOff
  <2>2. CASE OffMonitor
    BY <2>2 DEF OffMonitor
  <2>3. CASE OffPlaceholder
    BY <2>3 DEF OffPlaceholder
  <2>4. CASE OffDetach
    BY <2>4 DEF OffDetach
  <2>5. CASE OffReturn
    BY <2>5 DEF OffReturn
  <2> QED
    BY <1>3, <2>1, <2>2, <2>3, <2>4, <2>5 DEF StreamOffStep
<1>4. CASE Start
  BY <1>4 DEF Start, StartSpawn, StartArm, StartCommit, StartUnwind,
     StartFlush
<1>5. CASE Monitor
  <2>1. CASE RecRun
    BY <2>1 DEF RecRun
  <2>2. CASE RecLock
    BY <2>2 DEF RecLock
  <2>3. CASE RecActivate
    BY <2>3 DEF RecActivate
  <2>4. CASE RecShow
    BY <2>4 DEF RecShow
  <2>5. CASE RecMark
    BY <2>5 DEF RecMark
  <2>6. CASE RecQuery
    BY <2>6 DEF RecQuery
  <2>7. CASE RecMismatch \/ RecValidated
    BY <2>7 DEF RecMismatch, RecValidated
  <2>8. CASE RecStart \/ RecStarted
    BY <2>8 DEF RecStart, RecStarted
  <2>9. CASE RecRearm
    BY <2>9 DEF RecRearm
  <2> QED
    BY <1>5, <2>1, <2>2, <2>3, <2>4, <2>5, <2>6, <2>7, <2>8, <2>9 DEF Monitor
<1>6. CASE NoSignal
  <2>1. CASE NsRun
    BY <2>1 DEF NsRun
  <2>2. CASE NsDone
    BY <2>2 DEF NsDone
  <2>3. CASE NsTail
    BY <2>3 DEF NsTail
  <2> QED
    BY <1>6, <2>1, <2>2, <2>3 DEF NoSignal
<1>7. CASE Drain
  <2>1. CASE DrainDetached
    BY <2>1 DEF DrainDetached
  <2>2. CASE DrainReject
    BY <2>2 DEF DrainReject
  <2>3. CASE DrainStarved
    BY <2>3 DEF DrainStarved
  <2>4. CASE DrainTake
    BY <2>4 DEF DrainTake
  <2>5. CASE DrainDeliver
    BY <2>5 DEF DrainDeliver
  <2>6. CASE DrainSwitch
    BY <2>6 DEF DrainSwitch
  <2>7. CASE DrainDone
    BY <2>7 DEF DrainDone
  <2>8. CASE (\E a \in AccessUnits : DrainStart(a))
    BY <2>8 DEF DrainStart
  <2> QED
    BY <1>7, <2>1, <2>2, <2>3, <2>4, <2>5, <2>6, <2>7, <2>8 DEF Drain,
       DrainFinish
<1>8. CASE UNCHANGED vars
  BY <1>8 DEF vars
<1> QED
  BY NextCases, <1>1, <1>2, <1>3, <1>4, <1>5, <1>6, <1>7, <1>8

(* The monitor starts the pipeline only where STREAMON did not, and once.  *)
LEMMA StepSpent == IInv /\ [Next]_vars => Spent'
<1> SUFFICES ASSUME IInv, [Next]_vars PROVE Spent'
  OBVIOUS
<1> USE DEF IInv, StageType, Session, Spent, StopCard, StartBegin, Refuse,
   envVars, sigVars, pipeVars, flagVars, recVars, nsVars, drainVars
<1>1. CASE Environment
  BY <1>1 DEF Environment, SourceChange, Stall, SetFormat, QueryBegin,
     QueryEnd, QueueBuffer
<1>2. CASE StreamOnStep
  <2>1. CASE AttachPublish \/ AttachHold \/ AttachRefused
    BY <2>1 DEF AttachPublish, AttachHold, AttachRefused
  <2>2. CASE ReplaceStop \/ ReplaceFlush \/ FreshBegin
    BY <2>2 DEF ReplaceStop, ReplaceFlush, FreshBegin
  <2>3. CASE FreshPlaceholder \/ FreshRefused \/ FreshMeasured \/ CheckRefused
    BY <2>3 DEF FreshPlaceholder, FreshRefused, FreshMeasured, CheckRefused
  <2>4. CASE FreshStart \/ FreshStarted \/ FreshFailed
    BY <2>4 DEF FreshStart, FreshStarted, FreshFailed
  <2> QED
    BY <1>2, <2>1, <2>2, <2>3, <2>4 DEF StreamOnStep
<1>3. CASE StreamOffStep
  BY <1>3 DEF StreamOffStep, StreamOff, OffMonitor, OffPlaceholder,
     OffDetach, OffReturn
<1>4. CASE Start
  <2>1. CASE StartSpawn
    BY <2>1 DEF StartSpawn
  <2>2. CASE StartArm
    BY <2>2 DEF StartArm
  <2>3. CASE StartCommit
    BY <2>3 DEF StartCommit
  <2>4. CASE StartUnwind
    BY <2>4 DEF StartUnwind
  <2>5. CASE StartFlush
    BY <2>5 DEF StartFlush
  <2> QED
    BY <1>4, <2>1, <2>2, <2>3, <2>4, <2>5 DEF Start
<1>5. CASE Monitor
  <2>1. CASE RecRun \/ RecLock \/ RecActivate \/ RecShow \/ RecMark
             \/ RecQuery \/ RecMismatch \/ RecValidated
    BY <2>1 DEF RecRun, RecLock, RecActivate, RecShow, RecMark, RecQuery,
       RecMismatch, RecValidated
  <2>2. CASE RecStart
    BY <2>2 DEF RecStart
  <2>3. CASE RecStarted
    BY <2>3 DEF RecStarted
  <2>4. CASE RecRearm
    BY <2>4 DEF RecRearm
  <2> QED
    BY <1>5, <2>1, <2>2, <2>3, <2>4 DEF Monitor
<1>6. CASE NoSignal
  BY <1>6 DEF NoSignal, NsRun, NsDone, NsTail
<1>7. CASE Drain
  BY <1>7 DEF Drain, DrainFinish, DrainDetached, DrainReject, DrainStarved,
     DrainTake, DrainDeliver, DrainSwitch, DrainDone, DrainStart
<1>8. CASE UNCHANGED vars
  BY <1>8 DEF vars
<1> QED
  BY NextCases, <1>1, <1>2, <1>3, <1>4, <1>5, <1>6, <1>7, <1>8

(* Whoever breaks the chain of pictures closes the gate, or shows the      *)
(* placeholder, until an IDR is delivered.                                 *)
LEMMA StepGate == IInv /\ [Next]_vars => Gate'
<1> SUFFICES ASSUME IInv, [Next]_vars PROVE Gate'
  OBVIOUS
<1> USE DEF IInv, StageType, DeviceFlags, SessionFlags, Session, Gate,
   StopCard, StartBegin, Judge, Refuse, DrainHolds, envVars, sigVars,
   pipeVars, flagVars, recVars, nsVars, drainVars
<1>1. CASE Environment
  BY <1>1 DEF Environment, SourceChange, Stall, SetFormat, QueryBegin,
     QueryEnd, QueueBuffer
<1>2. CASE StreamOnStep
  <2>1. CASE AttachPublish \/ AttachHold \/ AttachRefused
    BY <2>1 DEF AttachPublish, AttachHold, AttachRefused
  <2>2. CASE ReplaceStop \/ ReplaceFlush \/ FreshBegin
    BY <2>2 DEF ReplaceStop, ReplaceFlush, FreshBegin
  <2>3. CASE FreshPlaceholder \/ FreshRefused \/ FreshMeasured \/ CheckRefused
    BY <2>3 DEF FreshPlaceholder, FreshRefused, FreshMeasured, CheckRefused
  <2>4. CASE FreshStart \/ FreshStarted \/ FreshFailed
    BY <2>4 DEF FreshStart, FreshStarted, FreshFailed
  <2> QED
    BY <1>2, <2>1, <2>2, <2>3, <2>4 DEF StreamOnStep
<1>3. CASE StreamOffStep
  BY <1>3 DEF StreamOffStep, StreamOff, OffMonitor, OffPlaceholder,
     OffDetach, OffReturn
<1>4. CASE Start
  BY <1>4 DEF Start, StartSpawn, StartArm, StartCommit, StartUnwind,
     StartFlush
<1>5. CASE Monitor
  <2>1. CASE RecRun \/ RecLock \/ RecActivate \/ RecShow
    BY <2>1 DEF RecRun, RecLock, RecActivate, RecShow
  <2>2. CASE RecMark
    BY <2>2 DEF RecMark
  <2>3. CASE RecQuery
    BY <2>3 DEF RecQuery
  <2>4. CASE RecMismatch \/ RecValidated
    BY <2>4 DEF RecMismatch, RecValidated
  <2>5. CASE RecStart \/ RecStarted \/ RecRearm
    BY <2>5 DEF RecStart, RecStarted, RecRearm
  <2> QED
    BY <1>5, <2>1, <2>2, <2>3, <2>4, <2>5 DEF Monitor
<1>6. CASE NoSignal
  <2>1. CASE NsRun
    BY <2>1 DEF NsRun
  <2>2. CASE NsDone
    BY <2>2 DEF NsDone
  <2>3. CASE NsTail
    BY <2>3 DEF NsTail
  <2> QED
    BY <1>6, <2>1, <2>2, <2>3 DEF NoSignal
<1>7. CASE Drain
  <2>1. CASE DrainDetached
    BY <2>1 DEF DrainDetached
  <2>2. CASE DrainReject
    BY <2>2 DEF DrainReject, Withheld, Accepted
  <2>3. CASE DrainStarved
    BY <2>3 DEF DrainStarved, Withheld, Accepted
  <2>4. CASE DrainTake
    BY <2>4 DEF DrainTake, Withheld, Accepted
  <2>5. CASE DrainDeliver
    BY <2>5 DEF DrainDeliver
  <2>6. CASE DrainSwitch
    BY <2>6 DEF DrainSwitch
  <2>7. CASE DrainDone
    BY <2>7 DEF DrainDone
  <2>8. CASE (\E a \in AccessUnits : DrainStart(a))
    BY <2>8 DEF DrainStart
  <2> QED
    BY <1>7, <2>1, <2>2, <2>3, <2>4, <2>5, <2>6, <2>7, <2>8 DEF Drain,
       DrainFinish
<1>8. CASE UNCHANGED vars
  BY <1>8 DEF vars
<1> QED
  BY NextCases, <1>1, <1>2, <1>3, <1>4, <1>5, <1>6, <1>7, <1>8

(* A stop finds either the running pipeline or no encoder.                 *)
LEMMA StepNoOrphan == IInv /\ [Next]_vars => NoOrphan'
<1> SUFFICES ASSUME IInv, [Next]_vars PROVE NoOrphan'
  OBVIOUS
<1> USE DEF IInv, StageType, Session, NoOrphan, StopCard, StartBegin,
   envVars, sigVars, pipeVars, flagVars, recVars, nsVars, drainVars
<1>1. CASE Environment
  BY <1>1 DEF Environment, SourceChange, Stall, SetFormat, QueryBegin,
     QueryEnd, QueueBuffer
<1>2. CASE StreamOnStep
  BY <1>2 DEF StreamOnStep, AttachPublish, AttachHold, AttachRefused,
     ReplaceStop, ReplaceFlush, FreshBegin, FreshPlaceholder, FreshRefused,
     FreshMeasured, CheckRefused, FreshStart, FreshStarted, FreshFailed
<1>3. CASE StreamOffStep
  BY <1>3 DEF StreamOffStep, StreamOff, OffMonitor, OffPlaceholder,
     OffDetach, OffReturn
<1>4. CASE Start
  <2>1. CASE StartSpawn
    BY <2>1 DEF StartSpawn
  <2>2. CASE StartArm
    BY <2>2 DEF StartArm
  <2>3. CASE StartCommit
    BY <2>3 DEF StartCommit
  <2>4. CASE StartUnwind
    BY <2>4 DEF StartUnwind
  <2>5. CASE StartFlush
    BY <2>5 DEF StartFlush
  <2> QED
    BY <1>4, <2>1, <2>2, <2>3, <2>4, <2>5 DEF Start
<1>5. CASE Monitor
  BY <1>5 DEF Monitor, RecRun, RecLock, RecActivate, RecShow, RecMark,
     RecQuery, RecMismatch, RecValidated, RecStart, RecStarted, RecRearm
<1>6. CASE NoSignal
  BY <1>6 DEF NoSignal, NsRun, NsDone, NsTail
<1>7. CASE Drain
  BY <1>7 DEF Drain, DrainFinish, DrainDetached, DrainReject, DrainStarved,
     DrainTake, DrainDeliver, DrainSwitch, DrainDone, DrainStart
<1>8. CASE UNCHANGED vars
  BY <1>8 DEF vars
<1> QED
  BY NextCases, <1>1, <1>2, <1>3, <1>4, <1>5, <1>6, <1>7, <1>8

-----------------------------------------------------------------------------
(***************************************************************************)
(* The theorems.                                                           *)
(***************************************************************************)

(* The invariant all the others follow from.                               *)
THEOREM Inductive == Spec => []IInv
<1>1. Init => IInv
  BY InitInv
<1>2. IInv /\ [Next]_vars => IInv'
  BY StepSignalType, StepDeviceFlags, StepSessionFlags, StepStageType,
     StepBufferType, StepSession, StepSpent, StepGate, StepNoOrphan DEF IInv
<1> QED
  BY <1>1, <1>2, PTL DEF Spec

(* Types; a start is under way exactly while a caller of mz0380_dma_start  *)
(* waits for it, and a vb2 buffer is in one place only.                    *)
THEOREM TypeCorrect == Spec => []TypeOK
<1>1. IInv => TypeOK
  BY TypeParts DEF IInv
<1> QED
  BY <1>1, Inductive, PTL

(* Nothing of a session is left when mz0380_stop_streaming returned.       *)
THEOREM StopsAreFinal == Spec => []StopIsFinal
<1>1. IInv => StopIsFinal
  BY DEF IInv, StageType, Session, StopIsFinal, DrainHolds
<1> QED
  BY <1>1, Inductive, PTL

(* mz0380_h264_recovery_accept lets no dependent picture through that its  *)
(* IDR did not precede.                                                    *)
THEOREM GopsStayIntact == Spec => []GopIntact
<1>1. IInv => GopIntact
  BY DEF IInv, Gate, GopIntact
<1> QED
  BY <1>1, Inductive, PTL

(* STREAMON and the monitor together spend one SET_VIC at most.            *)
THEOREM SpawnedOnce == Spec => []OneSpawn
<1>1. IInv => OneSpawn
  BY DEF IInv, Spent, OneSpawn
<1> QED
  BY <1>1, Inductive, PTL

(* Every forked encoder process belongs to the running pipeline or to a    *)
(* start that will stop it (mz0380_dma_start, err_events).                 *)
THEOREM EncodersAreOwned == Spec => []NoOrphan
<1>1. IInv => NoOrphan
  BY DEF IInv
<1> QED
  BY <1>1, Inductive, PTL
=============================================================================
