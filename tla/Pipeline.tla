------------------------------ MODULE Pipeline -------------------------------
(***************************************************************************)
(* The life of the persistent H.264 pipeline, from STREAMON to STREAMOFF   *)
(* and beyond, in the default configuration:                               *)
(*                                                                         *)
(*   - vb2's start_streaming and stop_streaming, called by an application  *)
(*     under queue_lock, and mz0380_dma_start/stop below them;             *)
(*   - the receiver monitor (signal_recovery_work), which shows the NO     *)
(*     SIGNAL placeholder, validates the receiver and starts the pipeline  *)
(*     that could not start without a source;                              *)
(*   - the placeholder work (no_signal_work);                              *)
(*   - the delivery half of the drain worker, which gates live access      *)
(*     units on an IDR and ends the placeholder;                           *)
(*   - ioctls that take no lock of any of these (S_FMT, and the timing     *)
(*     queries of a second reader, under vdev.lock), and the HDMI source   *)
(*     (external).                                                         *)
(*                                                                         *)
(* The node delivers H.264; the hand-over of slots is FrameEvents' part.   *)
(* The monitor exists only between the end of STREAMON and STREAMOFF, so   *)
(* at most one of it and the application is inside mz0380_dma_start.       *)
(***************************************************************************)
EXTENDS Naturals

CONSTANTS
    Modes,          \* timings a source can have
    NoMode,         \* mz0380_no_signal
    Geometry,       \* Geometry[m]: its frame size
    Placeholder,    \* the frame size of the placeholder picture
    Buffers,        \* vb2 buffers
    OtherReader     \* does a second reader query timings meanwhile?

ASSUME PipelineAssumption ==
    /\ NoMode \notin Modes
    /\ DOMAIN Geometry = Modes
    /\ OtherReader \in BOOLEAN

VARIABLES
    \* --- environment ---
    source,         \* what is plugged in
    encoder,        \* an encoder process is alive on the card
    fresh,          \* last_h264_frame_stamp is less than a stall ago
    \* --- the state of the device ---
    detected,       \* detected_timings; signal_locked is detected # NoMode
    lastGood,       \* last_good_timings
    capture,        \* capture.width x capture.height
    running,        \* pipeline_running
    pipeMode,       \* pipeline_source_*; NoMode = matches nothing
    pipeGeom,       \* pipeline_width x pipeline_height
    pending,        \* pipeline_reconfigure_pending
    startFailed,    \* pipeline_start_failed
    accepting,      \* frame_events_accepting: the drain worker may run
    streaming,
    recovering,     \* signal_recovering
    active,         \* no_signal_active
    waiting,        \* h264_waiting_for_idr
    queued,         \* buf_list
    \* --- the actors ---
    upc,            \* the application: where start/stop_streaming is
    start,          \* where mz0380_dma_start is
    qpc,            \* the second reader
    recQueued, rpc, \* signal_recovery_work: queued; where it is
    was, live,      \* its locals was_active and live
    nsQueued, npc, nsBuf,   \* no_signal_work: queued; where; its buffer
    dpc, au, dBuf,  \* the drain worker: where, what it holds, its buffer
    \* --- history ---
    spawned,        \* SET_VICs since STREAMON (2 = more than one)
    chain           \* the last picture delivered continues its GOP

envVars  == <<source, encoder, fresh>>
sigVars  == <<detected, lastGood, capture>>
pipeVars == <<running, pipeMode, pipeGeom, pending, startFailed, accepting,
              start, spawned>>
flagVars == <<streaming, recovering, active, waiting>>
recVars  == <<recQueued, rpc, was, live>>
nsVars   == <<nsQueued, npc, nsBuf>>
drainVars == <<dpc, au, dBuf, chain>>
vars == <<envVars, sigVars, pipeVars, flagVars, queued, upc, qpc, recVars,
          nsVars, drainVars>>

Geometries == {Geometry[m] : m \in Modes} \cup {Placeholder}
Signals == Modes \cup {NoMode}

Init ==
    /\ source \in Signals /\ encoder = FALSE /\ fresh = FALSE
    /\ detected = NoMode /\ lastGood = NoMode /\ capture = Placeholder
    /\ running = FALSE /\ pipeMode = NoMode /\ pipeGeom = Placeholder
    /\ pending = FALSE /\ startFailed = FALSE /\ accepting = FALSE
    /\ start = "none" /\ spawned = 0
    /\ streaming = FALSE /\ recovering = FALSE /\ active = FALSE
    /\ waiting = FALSE /\ queued = {} /\ upc = "off" /\ qpc = "idle"
    /\ recQueued = FALSE /\ rpc = "idle" /\ was = FALSE /\ live = NoMode
    /\ nsQueued = FALSE /\ npc = "idle" /\ nsBuf = {}
    /\ dpc = "idle" /\ au = "dep" /\ dBuf = {} /\ chain = FALSE

-----------------------------------------------------------------------------
(***************************************************************************)
(* The environment, and the ioctls that may run beside everything else.    *)
(***************************************************************************)
SourceChange ==
    /\ source' \in Signals \ {source}
    /\ UNCHANGED <<encoder, fresh, sigVars, pipeVars, flagVars, queued, upc, qpc,
                   recVars, nsVars, drainVars>>

(* No access unit for hotplug_stall_ms.                                    *)
Stall ==
    /\ fresh /\ dpc = "idle"
    /\ fresh' = FALSE /\ chain' = FALSE
    /\ UNCHANGED <<source, encoder, sigVars, pipeVars, flagVars, queued, upc,
                   qpc, recVars, nsVars, dpc, au, dBuf>>

(* S_FMT is clamped to the detected source, streaming or not.  It shares   *)
(* vdev.lock with the queries of the second reader, and nothing with       *)
(* STREAMON and the workers.                                               *)
SetFormat ==
    /\ qpc = "idle"
    /\ capture' \in IF detected = NoMode THEN Geometries
                                         ELSE {Geometry[detected]}
    /\ UNCHANGED <<envVars, detected, lastGood, pipeVars, flagVars, queued, upc,
                   qpc, recVars, nsVars, drainVars>>

(* QUERY_DV_TIMINGS or ENUM_INPUT of a second reader: the streaming and    *)
(* pipeline_running flags are looked at before the measurement, which may  *)
(* wait for another one and takes up to two seconds itself.                *)
QueryBegin ==
    /\ OtherReader /\ qpc = "idle" /\ ~streaming /\ ~running
    /\ qpc' = "measuring"
    /\ UNCHANGED <<envVars, sigVars, pipeVars, flagVars, queued, upc, recVars,
                   nsVars, drainVars>>

(* A measurement finds the source's timings, or nothing stable.            *)
Measured(m) ==
    /\ m \in {source, NoMode}
    /\ detected' = m
    /\ lastGood' = IF m = NoMode THEN lastGood ELSE m

QueryEnd ==
    /\ qpc = "measuring" /\ qpc' = "idle"
    /\ \E m \in Signals : Measured(m)
    /\ UNCHANGED <<envVars, capture, pipeVars, flagVars, queued, upc, recVars,
                   nsVars, drainVars>>

(* QBUF: vb2 hands a buffer the application owns to the driver.            *)
QueueBuffer ==
    /\ upc \in {"off", "on"}
    /\ \E b \in Buffers \ (queued \cup nsBuf \cup dBuf) : queued' = queued \cup {b}
    /\ UNCHANGED <<envVars, sigVars, pipeVars, flagVars, upc, qpc, recVars,
                   nsVars, drainVars>>

-----------------------------------------------------------------------------
(***************************************************************************)
(* mz0380_start_streaming().                                               *)
(***************************************************************************)

(* The error exit: every buffer goes back to vb2.                          *)
Refuse == upc' = "off" /\ queued' = {}

(* A same-geometry application attaches to the running pipeline ...        *)
AttachPublish ==
    /\ upc = "off" /\ running /\ ~pending /\ capture = pipeGeom
    /\ waiting' = TRUE /\ fresh' = TRUE /\ streaming' = TRUE
    /\ spawned' = 0 /\ chain' = FALSE
    /\ upc' = "attach"
    /\ UNCHANGED <<source, encoder, sigVars, running, pipeMode, pipeGeom, pending,
                   startFailed, accepting, start, recovering, active, queued,
                   qpc, recVars, nsVars, dpc, au, dBuf>>

(* ... and is shown the placeholder until the receiver was validated.      *)
AttachHold ==
    /\ upc = "attach"
    /\ recovering' = TRUE /\ active' = TRUE /\ waiting' = TRUE
    /\ nsQueued' = (nsQueued \/ ~active)
    /\ fresh' = TRUE /\ recQueued' = TRUE
    /\ upc' = "on"
    /\ UNCHANGED <<source, encoder, sigVars, pipeVars, streaming, queued, qpc, rpc,
                   was, live, npc, nsBuf, drainVars>>

AttachRefused ==
    /\ upc = "off" /\ running /\ ~pending /\ capture # pipeGeom
    /\ Refuse
    /\ UNCHANGED <<envVars, sigVars, pipeVars, flagVars, qpc, recVars, nsVars,
                   drainVars>>

(* mz0380_dma_stop(): STOP, and the event queue is closed.                 *)
StopCard ==
    /\ encoder' = (encoder /\ ~running) /\ running' = FALSE
    /\ accepting' = FALSE

(* A pending replacement stops the old pipeline first.                     *)
ReplaceStop ==
    /\ upc = "off" /\ running /\ pending
    /\ StopCard /\ streaming' = FALSE /\ active' = FALSE
    /\ waiting' = FALSE /\ recovering' = FALSE
    /\ upc' = "flush"
    /\ UNCHANGED <<source, fresh, sigVars, pipeMode, pipeGeom, pending,
                   startFailed, start, spawned, queued, qpc, recVars, nsVars,
                   drainVars>>

(* ... mz0380_dma_flush_events() waits for the worker.                     *)
ReplaceFlush ==
    /\ upc = "flush" /\ dpc = "idle"
    /\ upc' = "fresh" /\ spawned' = 0
    /\ UNCHANGED <<envVars, sigVars, running, pipeMode, pipeGeom, pending,
                   startFailed, accepting, start, flagVars, queued, qpc,
                   recVars, nsVars, drainVars>>

FreshBegin ==
    /\ upc = "off" /\ ~running
    /\ upc' = "fresh" /\ spawned' = 0
    /\ UNCHANGED <<envVars, sigVars, running, pipeMode, pipeGeom, pending,
                   startFailed, accepting, start, flagVars, queued, qpc,
                   recVars, nsVars, drainVars>>

(* mz0380_start_placeholder_only(), when the lock byte says unlocked or    *)
(* nothing stable was measured.                                            *)
FreshPlaceholder ==
    /\ upc = "fresh" /\ capture = Placeholder
    /\ detected' = NoMode /\ pending' = FALSE /\ startFailed' = FALSE
    /\ streaming' = TRUE /\ active' = TRUE /\ waiting' = TRUE
    /\ nsQueued' = (nsQueued \/ ~active)
    /\ fresh' = TRUE /\ recQueued' = TRUE
    /\ upc' = "on"
    /\ UNCHANGED <<source, encoder, lastGood, capture, running, pipeMode,
                   pipeGeom, accepting, start, spawned, recovering, queued, qpc,
                   rpc, was, live, npc, nsBuf, drainVars>>

FreshRefused ==
    /\ upc = "fresh" /\ capture # Placeholder
    /\ detected' \in {NoMode, detected}
    /\ Refuse
    /\ UNCHANGED <<envVars, lastGood, capture, pipeVars, flagVars, qpc, recVars,
                   nsVars, drainVars>>

(* The receiver is locked: a cached or a new measurement is used, or the   *)
(* last good one if the measurement fails.                                 *)
FreshMeasured ==
    /\ upc = "fresh" /\ upc' = "check"
    /\ \/ detected # NoMode /\ UNCHANGED <<detected, lastGood>>
       \/ source # NoMode /\ Measured(source)
       \/ lastGood # NoMode /\ detected' = lastGood /\ UNCHANGED lastGood
    /\ UNCHANGED <<envVars, capture, pipeVars, flagVars, queued, qpc, recVars,
                   nsVars, drainVars>>

(* There is no scaler: the source must have the negotiated geometry.       *)
Fits(m) == m # NoMode => Geometry[m] = capture

CheckRefused ==
    /\ upc = "check" /\ ~Fits(detected)
    /\ Refuse
    /\ UNCHANGED <<envVars, sigVars, pipeVars, flagVars, qpc, recVars, nsVars,
                   drainVars>>

(* mz0380_dma_start() is entered with what is detected now; it is stored   *)
(* in pipeline_* at the end, and nobody reads those before that.           *)
StartBegin ==
    /\ waiting' = TRUE /\ fresh' = TRUE
    /\ start' = "spawn" /\ pipeMode' = detected /\ pipeGeom' = capture

FreshStart ==
    /\ upc = "check" /\ Fits(detected)
    /\ StartBegin /\ streaming' = TRUE /\ chain' = FALSE
    /\ upc' = "starting"
    /\ UNCHANGED <<source, encoder, sigVars, running, pending, startFailed,
                   accepting, spawned, recovering, active, queued, qpc, recVars,
                   nsVars, dpc, au, dBuf>>

(* Started: mz0380_signal_recovery_start() follows.                        *)
FreshStarted ==
    /\ upc = "starting" /\ start = "ok"
    /\ start' = "none" /\ waiting' = TRUE /\ fresh' = TRUE /\ recQueued' = TRUE
    /\ upc' = "on"
    /\ UNCHANGED <<source, encoder, sigVars, running, pipeMode, pipeGeom, pending,
                   startFailed, accepting, spawned, streaming, recovering,
                   active, queued, qpc, rpc, was, live, nsVars, drainVars>>

FreshFailed ==
    /\ upc = "starting" /\ start = "failed"
    /\ start' = "none" /\ streaming' = FALSE /\ Refuse
    /\ UNCHANGED <<envVars, sigVars, running, pipeMode, pipeGeom, pending,
                   startFailed, accepting, spawned, recovering, active, waiting,
                   qpc, recVars, nsVars, drainVars>>

-----------------------------------------------------------------------------
(***************************************************************************)
(* mz0380_dma_start(), for the application or for the monitor.             *)
(***************************************************************************)

(* The pre-STOP, then SET_VIC, which forks an encoder process even if the  *)
(* command times out; or a failure before it.                              *)
StartSpawn ==
    /\ start = "spawn"
    /\ \/ /\ encoder' = TRUE /\ spawned' = IF spawned = 0 THEN 1 ELSE 2
          /\ start' \in {"arm", "unwind"}
       \/ encoder' = FALSE /\ start' = "unwind" /\ UNCHANGED spawned
    /\ UNCHANGED <<source, fresh, sigVars, running, pipeMode, pipeGeom, pending,
                   startFailed, accepting, flagVars, queued, upc, qpc, recVars,
                   nsVars, drainVars>>

(* The completion queue is opened; the commands up to START follow.        *)
StartArm ==
    /\ start = "arm" /\ dpc = "idle"
    /\ accepting' = TRUE /\ start' \in {"commit", "unwind"}
    /\ UNCHANGED <<envVars, sigVars, running, pipeMode, pipeGeom, pending,
                   startFailed, spawned, flagVars, queued, upc, qpc, recVars,
                   nsVars, drainVars>>

StartCommit ==
    /\ start = "commit" /\ start' = "ok"
    /\ running' = TRUE /\ pending' = FALSE /\ startFailed' = FALSE
    /\ UNCHANGED <<envVars, sigVars, pipeMode, pipeGeom, accepting, spawned,
                   flagVars, queued, upc, qpc, recVars, nsVars, drainVars>>

(* Mutant: the unwind of a failed start owes the card no STOP.             *)
StartUnwind_NoStop ==
    /\ start = "unwind" /\ start' = "flush"
    /\ accepting' = FALSE
    /\ UNCHANGED <<source, encoder, fresh, sigVars, running, pipeMode, pipeGeom, pending,
                   startFailed, spawned, flagVars, queued, upc, qpc, recVars,
                   nsVars, drainVars>>

(* err_events: every failure after SET_VIC owes the card a STOP.           *)
StartUnwind ==
    /\ start = "unwind" /\ start' = "flush"
    /\ encoder' = FALSE /\ accepting' = FALSE
    /\ UNCHANGED <<source, fresh, sigVars, running, pipeMode, pipeGeom, pending,
                   startFailed, spawned, flagVars, queued, upc, qpc, recVars,
                   nsVars, drainVars>>

StartFlush ==
    /\ start = "flush" /\ dpc = "idle" /\ start' = "failed"
    /\ UNCHANGED <<envVars, sigVars, running, pipeMode, pipeGeom, pending,
                   startFailed, accepting, spawned, flagVars, queued, upc, qpc,
                   recVars, nsVars, drainVars>>

Start == StartSpawn \/ StartArm \/ StartCommit \/ StartUnwind \/ StartFlush

-----------------------------------------------------------------------------
(***************************************************************************)
(* mz0380_stop_streaming().                                                *)
(***************************************************************************)
StreamOff ==
    /\ upc = "on"
    /\ streaming' = FALSE /\ upc' = "cancel"
    /\ UNCHANGED <<envVars, sigVars, pipeVars, recovering, active, waiting,
                   queued, qpc, recVars, nsVars, drainVars>>

(* cancel_delayed_work_sync() of the monitor.                              *)
OffMonitor ==
    /\ upc = "cancel" /\ rpc = "idle"
    /\ recQueued' = FALSE /\ active' = FALSE /\ upc' = "quiet"
    /\ UNCHANGED <<envVars, sigVars, pipeVars, streaming, recovering, waiting,
                   queued, qpc, rpc, was, live, nsVars, drainVars>>

(* Mutant: cancel_delayed_work(), which does not wait.                     *)
OffPlaceholder_NoWait ==
    /\ upc = "quiet"
    /\ nsQueued' = FALSE /\ recovering' = FALSE /\ waiting' = FALSE
    /\ upc' = "detach"
    /\ UNCHANGED <<envVars, sigVars, pipeVars, streaming, active, queued, qpc,
                   recVars, npc, nsBuf, drainVars>>

(* mz0380_no_signal_stop(), then the rest of mz0380_signal_recovery_stop().*)
OffPlaceholder ==
    /\ upc = "quiet" /\ npc = "idle"
    /\ nsQueued' = FALSE /\ recovering' = FALSE /\ waiting' = FALSE
    /\ upc' = "detach"
    /\ UNCHANGED <<envVars, sigVars, pipeVars, streaming, active, queued, qpc,
                   recVars, npc, nsBuf, drainVars>>

(* A running pipeline stays; otherwise mz0380_dma_stop().                  *)
OffDetach ==
    /\ upc = "detach" /\ upc' = "sync"
    /\ IF running THEN UNCHANGED <<encoder, running, accepting>> ELSE StopCard
    /\ UNCHANGED <<source, fresh, sigVars, pipeMode, pipeGeom, pending,
                   startFailed, start, spawned, flagVars, queued, qpc, recVars,
                   nsVars, drainVars>>

(* flush_work() or cancel_work_sync() of the drain; all buffers returned.  *)
OffReturn ==
    /\ upc = "sync" /\ dpc = "idle"
    /\ queued' = {} /\ upc' = "off"
    /\ UNCHANGED <<envVars, sigVars, pipeVars, flagVars, qpc, recVars, nsVars,
                   drainVars>>

UserWork ==
    \/ AttachHold \/ ReplaceFlush \/ FreshPlaceholder \/ FreshRefused
    \/ FreshMeasured \/ CheckRefused \/ FreshStart \/ FreshStarted
    \/ FreshFailed \/ OffMonitor \/ OffPlaceholder \/ OffDetach \/ OffReturn

User == UserWork \/ AttachPublish \/ AttachRefused \/ ReplaceStop \/ FreshBegin
        \/ StreamOff

-----------------------------------------------------------------------------
(***************************************************************************)
(* The receiver monitor, mz0380_signal_recovery_work_fn().                 *)
(***************************************************************************)

(* Live access units are evidence enough: no receiver access.              *)
Healthy == running /\ fresh /\ ~recovering /\ ~pending

RecRun ==
    /\ rpc = "idle" /\ recQueued /\ recQueued' = FALSE
    /\ \/ ~streaming /\ recovering' = FALSE /\ UNCHANGED rpc
       \/ streaming /\ UNCHANGED recovering
          /\ rpc' = IF Healthy THEN "rearm" ELSE "lock"
    /\ UNCHANGED <<envVars, sigVars, pipeVars, streaming, active, waiting, queued,
                   upc, qpc, was, live, nsVars, drainVars>>

(* Nothing to recover, or nothing the monitor may do about it.             *)
Settled == ~recovering /\ IF running THEN ~pending ELSE startFailed \/ pending

(* The lock byte: unreadable, unlocked (or locked although the pipeline is *)
(* silent), or locked.                                                     *)
RecLock ==
    /\ rpc = "lock"
    /\ \/ ~streaming /\ rpc' = "idle" /\ UNCHANGED detected
       \/ streaming /\ rpc' = "rearm" /\ UNCHANGED detected
       \/ streaming /\ source = NoMode /\ detected' = NoMode /\ rpc' = "lost"
       \/ /\ streaming /\ source # NoMode /\ UNCHANGED detected
          /\ rpc' = CASE running /\ ~fresh /\ ~recovering -> "lost"
                      [] ~(running /\ ~fresh /\ ~recovering) /\ Settled -> "rearm"
                      [] OTHER -> "query"
    /\ UNCHANGED <<envVars, lastGood, capture, pipeVars, flagVars, queued, upc,
                   qpc, recQueued, was, live, nsVars, drainVars>>

(* mz0380_no_signal_activate() reads no_signal_active ...                  *)
RecActivate ==
    /\ rpc = "lost"
    /\ was' = active /\ rpc' = "show"
    /\ UNCHANGED <<envVars, sigVars, pipeVars, flagVars, queued, upc, qpc,
                   recQueued, live, nsVars, drainVars>>

(* ... and queues the placeholder work only on a transition.               *)
RecShow ==
    /\ rpc = "show"
    /\ active' = TRUE /\ waiting' = TRUE
    /\ nsQueued' = (nsQueued \/ (~was /\ streaming))
    /\ rpc' = "mark" /\ was' = FALSE
    /\ UNCHANGED <<envVars, sigVars, pipeVars, streaming, recovering, queued, upc,
                   qpc, recQueued, live, npc, nsBuf, drainVars>>

(* signal_recovering; behind a silent pipeline the gate is closed again.   *)
RecMark ==
    /\ rpc = "mark"
    /\ recovering' = TRUE
    /\ waiting' = IF running /\ detected # NoMode THEN TRUE ELSE waiting
    /\ rpc' = "rearm"
    /\ UNCHANGED <<envVars, sigVars, pipeVars, streaming, active, queued, upc,
                   qpc, recQueued, was, live, nsVars, drainVars>>

(* One coherent measurement, without the cache.                            *)
RecQuery ==
    /\ rpc = "query"
    /\ \E m \in Signals :
          /\ Measured(m) /\ live' = m
          /\ rpc' = CASE ~streaming -> "idle"
                      [] streaming /\ m = NoMode -> "rearm"
                      [] OTHER -> "match"
    /\ UNCHANGED <<envVars, capture, pipeVars, flagVars, queued, upc, qpc,
                   recQueued, was, nsVars, drainVars>>

(* The source does not fit: NO SIGNAL stays, userspace is told.            *)
RecMismatch ==
    /\ rpc = "match"
    /\ IF running THEN live # pipeMode ELSE Geometry[live] # capture
    /\ pending' = TRUE /\ recovering' = FALSE /\ rpc' = "rearm" /\ live' = NoMode
    /\ UNCHANGED <<envVars, sigVars, running, pipeMode, pipeGeom, startFailed,
                   accepting, start, spawned, streaming, active, waiting,
                   queued, upc, qpc, recQueued, was, nsVars, drainVars>>

(* Mutant: a replacement queued by a transient stays queued.               *)
RecValidated_Latched ==
    /\ rpc = "match" /\ running /\ live = pipeMode
    /\ waiting' = TRUE /\ recovering' = FALSE
    /\ rpc' = "rearm" /\ live' = NoMode
    /\ UNCHANGED <<envVars, sigVars, pipeVars, streaming, active, queued, upc,
                   qpc, recQueued, was, nsVars, drainVars>>

(* The pipeline matches; a replacement queued by a transient is cancelled. *)
RecValidated ==
    /\ rpc = "match" /\ running /\ live = pipeMode
    /\ pending' = FALSE /\ waiting' = TRUE /\ recovering' = FALSE
    /\ rpc' = "rearm" /\ live' = NoMode
    /\ UNCHANGED <<envVars, sigVars, running, pipeMode, pipeGeom, startFailed,
                   accepting, start, spawned, streaming, active, queued, upc,
                   qpc, recQueued, was, nsVars, drainVars>>

(* Mutant: only the first of the two tests of pipeline_start_failed.       *)
RecStart_Again ==
    /\ rpc = "match" /\ ~running /\ Geometry[live] = capture
    /\ StartBegin /\ rpc' = "starting" /\ UNCHANGED recovering
    /\ live' = NoMode
    /\ UNCHANGED <<source, encoder, sigVars, running, pending, startFailed,
                   accepting, spawned, streaming, active, queued, upc, qpc,
                   recQueued, was, nsVars, drainVars>>

(* No pipeline yet: it is started now, unless a start failed before.       *)
RecStart ==
    /\ rpc = "match" /\ ~running /\ Geometry[live] = capture
    /\ IF startFailed
       THEN /\ recovering' = FALSE /\ rpc' = "rearm"
            /\ UNCHANGED <<waiting, fresh, start, pipeMode, pipeGeom>>
       ELSE StartBegin /\ rpc' = "starting" /\ UNCHANGED recovering
    /\ live' = NoMode
    /\ UNCHANGED <<source, encoder, sigVars, running, pending, startFailed,
                   accepting, spawned, streaming, active, queued, upc, qpc,
                   recQueued, was, nsVars, drainVars>>

(* "No automatic respawn will be attempted" after a failure.               *)
RecStarted ==
    /\ rpc = "starting" /\ start \in {"ok", "failed"} /\ start' = "none"
    /\ \/ ~streaming /\ rpc' = "idle" /\ UNCHANGED <<startFailed, recovering>>
       \/ /\ streaming /\ rpc' = "rearm" /\ recovering' = FALSE
          /\ startFailed' = (startFailed \/ start = "failed")
    /\ UNCHANGED <<envVars, sigVars, running, pipeMode, pipeGeom, pending,
                   accepting, spawned, streaming, active, waiting, queued, upc,
                   qpc, recQueued, was, live, nsVars, drainVars>>

(* reschedule_monitor and reschedule_retry differ in their delay only.     *)
RecRearm ==
    /\ rpc = "rearm" /\ rpc' = "idle"
    /\ recQueued' = (recQueued \/ streaming)
    /\ UNCHANGED <<envVars, sigVars, pipeVars, flagVars, queued, upc, qpc, was,
                   live, nsVars, drainVars>>

Monitor == \/ RecRun \/ RecLock \/ RecActivate \/ RecShow \/ RecMark
           \/ RecQuery \/ RecMismatch \/ RecValidated \/ RecStart
           \/ RecStarted \/ RecRearm

-----------------------------------------------------------------------------
(***************************************************************************)
(* mz0380_no_signal_work_fn() and the delivery of                          *)
(* mz0380_drain_h264_snapshot() exclude each other by h264_delivery_lock,  *)
(* held from NsRun to NsDone and from the acceptance to DrainDone.         *)
(***************************************************************************)
DrainHolds == dpc \in {"deliver", "switch", "cancel", "done"}

(* Mutant: the buffer is used, but not taken off the list.                 *)
NsRun_Peek ==
    /\ npc = "idle" /\ nsQueued /\ ~DrainHolds
    /\ nsQueued' = FALSE
    /\ \/ /\ streaming /\ active
          /\ \E b \in queued : nsBuf' = {b}
          /\ npc' = "copy"
       \/ /\ ~(streaming /\ active /\ queued # {})
          /\ npc' = "tail" /\ UNCHANGED nsBuf
    /\ UNCHANGED <<envVars, sigVars, pipeVars, flagVars, queued, upc, qpc,
                   recVars, drainVars>>

NsRun ==
    /\ npc = "idle" /\ nsQueued /\ ~DrainHolds
    /\ nsQueued' = FALSE
    /\ \/ /\ streaming /\ active
          /\ \E b \in queued : nsBuf' = {b} /\ queued' = queued \ {b}
          /\ npc' = "copy"
       \/ /\ ~(streaming /\ active /\ queued # {})
          /\ npc' = "tail" /\ UNCHANGED <<queued, nsBuf>>
    /\ UNCHANGED <<envVars, sigVars, pipeVars, flagVars, upc, qpc, recVars,
                   drainVars>>

(* The placeholder is delivered: whatever follows must start with an IDR.  *)
NsDone ==
    /\ npc = "copy" /\ npc' = "tail"
    /\ nsBuf' = {} /\ chain' = FALSE
    /\ UNCHANGED <<envVars, sigVars, pipeVars, flagVars, queued, upc, qpc,
                   recVars, nsQueued, dpc, au, dBuf>>

NsTail ==
    /\ npc = "tail" /\ npc' = "idle"
    /\ nsQueued' = (nsQueued \/ (streaming /\ active))
    /\ UNCHANGED <<envVars, sigVars, pipeVars, flagVars, queued, upc, qpc,
                   recVars, nsBuf, drainVars>>

NoSignal == NsRun \/ NsDone \/ NsTail

-----------------------------------------------------------------------------
(***************************************************************************)
(* The drain worker and one access unit: an IDR picture, a dependent       *)
(* picture, or parameter sets without a picture.                           *)
(***************************************************************************)
DrainStart(a) ==
    /\ dpc = "idle" /\ accepting /\ encoder
    /\ \/ streaming /\ au' = a /\ dpc' = "lock" /\ UNCHANGED fresh
       \/ /\ ~streaming /\ fresh' = (fresh \/ a # "sets")
          /\ UNCHANGED <<au, dpc>>
    /\ UNCHANGED <<source, encoder, sigVars, pipeVars, flagVars, queued, upc, qpc,
                   recVars, nsVars, dBuf, chain>>

(* While the placeholder is shown only an IDR of a validated, matching     *)
(* pipeline gets through.                                                  *)
Withheld == active /\ (\/ detected = NoMode \/ recovering \/ au # "idr"
                      \/ pending \/ startFailed)

(* Mutant: of the dependent pictures only those after a stall are gated.   *)
Accepted_StallOnly == ~Withheld /\ (au # "dep" \/ fresh)

(* mz0380_h264_recovery_accept().                                          *)
Accepted == ~Withheld /\ (au # "dep" \/ (~waiting /\ fresh))

(* Its effects: a picture renews the stamp, a picture after a stall closes *)
(* the gate.                                                               *)
Judge ==
    /\ dpc = "lock" /\ npc # "copy" /\ streaming
    /\ fresh' = (fresh \/ au # "sets")
    /\ waiting' = (waiting \/ (~Withheld /\ au # "sets" /\ ~fresh))

(* STREAMOFF came first.                                                   *)
DrainDetached ==
    /\ dpc = "lock" /\ npc # "copy" /\ ~streaming
    /\ dpc' = "idle" /\ au' = "dep"
    /\ UNCHANGED <<envVars, sigVars, pipeVars, flagVars, queued, upc, qpc,
                   recVars, nsVars, dBuf, chain>>

DrainReject ==
    /\ Judge /\ ~Accepted
    /\ dpc' = "idle" /\ au' = "dep" /\ chain' = (chain /\ au = "sets")
    /\ UNCHANGED <<source, encoder, sigVars, pipeVars, streaming, recovering,
                   active, queued, upc, qpc, recVars, nsVars, dBuf>>

(* No vb2 buffer is queued: the access unit is lost.                       *)
DrainStarved ==
    /\ Judge /\ Accepted /\ queued = {}
    /\ dpc' = "idle" /\ au' = "dep"
    /\ UNCHANGED <<source, encoder, sigVars, pipeVars, streaming, recovering,
                   active, queued, upc, qpc, recVars, nsVars, dBuf, chain>>

DrainTake ==
    /\ Judge /\ Accepted
    /\ \E b \in queued : dBuf' = {b} /\ queued' = queued \ {b}
    /\ dpc' = "deliver"
    /\ UNCHANGED <<source, encoder, sigVars, pipeVars, streaming, recovering,
                   active, upc, qpc, recVars, nsVars, au, chain>>

(* The copy; a delivered IDR opens the gate, and ends the placeholder if   *)
(* the receiver was validated.                                             *)
DrainDeliver ==
    /\ dpc = "deliver"
    /\ chain' = (chain \/ au = "idr") /\ waiting' = (waiting /\ au # "idr")
    /\ dpc' = IF /\ au = "idr" /\ active /\ detected # NoMode
                 /\ ~recovering /\ ~pending
              THEN "switch" ELSE "done"
    /\ UNCHANGED <<envVars, sigVars, pipeVars, streaming, recovering, active,
                   queued, upc, qpc, recVars, nsVars, au, dBuf>>

(* mz0380_no_signal_deactivate() clears the flag, then cancels the work.   *)
DrainSwitch ==
    /\ dpc = "switch" /\ dpc' = "cancel"
    /\ active' = FALSE
    /\ UNCHANGED <<envVars, sigVars, pipeVars, streaming, recovering, waiting,
                   queued, upc, qpc, recVars, nsVars, au, dBuf, chain>>

(* vb2_buffer_done() and unlock.                                           *)
DrainDone ==
    /\ dpc \in {"cancel", "done"} /\ dpc' = "idle"
    /\ nsQueued' = (nsQueued /\ dpc = "done")
    /\ dBuf' = {} /\ au' = "dep"
    /\ UNCHANGED <<envVars, sigVars, pipeVars, flagVars, queued, upc, qpc,
                   recVars, npc, nsBuf, chain>>

DrainFinish == \/ DrainDetached \/ DrainReject \/ DrainStarved \/ DrainTake
               \/ DrainDeliver \/ DrainSwitch \/ DrainDone

-----------------------------------------------------------------------------
AccessUnits == {"idr", "dep", "sets"}

Next ==
    \/ SourceChange \/ Stall \/ SetFormat \/ QueryBegin \/ QueryEnd \/ QueueBuffer
    \/ User \/ Start \/ Monitor \/ NoSignal
    \/ (\E a \in AccessUnits : DrainStart(a)) \/ DrainFinish

Spec == Init /\ [][Next]_vars

(***************************************************************************)
(* Fairness: work items and calls that were begun go on, and get the mutex *)
(* h264_delivery_lock in turn; the application returns buffers; the lock   *)
(* byte and a measurement of a source that is there succeed in the end; an *)
(* encoder whose source is there produces IDRs again and again; and the    *)
(* placeholder, which rests 120 ms after each of its runs, does not keep   *)
(* the drain worker from every buffer.                                     *)
(***************************************************************************)
Unhindered == npc = "idle" /\ queued # {}

WorkersRun ==
    /\ SF_vars(NoSignal)
    /\ WF_vars(Monitor) /\ SF_vars(RecLock /\ (rpc' # "rearm" \/ Settled))
    /\ SF_vars(RecQuery /\ live' # NoMode)
    /\ SF_vars(DrainFinish) /\ SF_vars(Unhindered /\ DrainFinish)
    /\ SF_vars(Unhindered /\ source = pipeMode /\ DrainStart("idr"))
    /\ WF_vars(QueueBuffer)
    /\ SF_vars(DrainTake /\ au = "idr")

Fairness == WF_vars(UserWork) /\ WF_vars(Start) /\ WorkersRun

LiveSpec == Spec /\ Fairness

-----------------------------------------------------------------------------
(***************************************************************************)
(* Properties.                                                             *)
(***************************************************************************)
(* The type invariant; a start is under way exactly while a caller waits   *)
(* for it, and a buffer is in one place only: queued, with the placeholder *)
(* or with the drain worker.                                               *)
TypeOK ==
    /\ source \in Signals /\ encoder \in BOOLEAN /\ fresh \in BOOLEAN
    /\ detected \in Signals /\ lastGood \in Signals
    /\ capture \in Geometries /\ pipeGeom \in Geometries
    /\ pipeMode \in Signals
    /\ running \in BOOLEAN /\ pending \in BOOLEAN /\ startFailed \in BOOLEAN
    /\ accepting \in BOOLEAN
    /\ start \in {"none", "spawn", "arm", "commit", "unwind", "flush", "ok",
                   "failed"}
    /\ start # "none" <=> upc = "starting" \/ rpc = "starting"
    /\ spawned \in 0..2 /\ chain \in BOOLEAN
    /\ streaming \in BOOLEAN /\ recovering \in BOOLEAN /\ active \in BOOLEAN
    /\ waiting \in BOOLEAN
    /\ queued \subseteq Buffers /\ nsBuf \subseteq Buffers /\ dBuf \subseteq Buffers
    /\ queued \cap (nsBuf \cup dBuf) = {} /\ nsBuf \cap dBuf = {}
    /\ upc \in {"off", "attach", "flush", "fresh", "check", "starting", "on",
                 "cancel", "quiet", "detach", "sync"}
    /\ qpc \in {"idle", "measuring"}
    /\ rpc \in {"idle", "lock", "lost", "show", "mark", "query", "match",
                 "starting", "rearm"}
    /\ recQueued \in BOOLEAN /\ was \in BOOLEAN /\ live \in Signals
    /\ nsQueued \in BOOLEAN /\ npc \in {"idle", "copy", "tail"}
    /\ dpc \in {"idle", "lock", "deliver", "switch", "cancel", "done"}
    /\ au \in AccessUnits

(* STREAMOFF is final: from its return to the next STREAMON nothing of the *)
(* session is left, neither a work item, queued or running, nor a buffer   *)
(* in a worker's hand that would be completed after vb2 took all of them   *)
(* back, nor a flag that would make the next session begin in recovery.    *)
StopIsFinal ==
    upc = "off" =>
        /\ ~streaming /\ ~recQueued /\ rpc = "idle" /\ ~nsQueued /\ npc = "idle"
        /\ nsBuf = {} /\ dBuf = {} /\ ~active /\ ~recovering

(* Dependent pictures are exposed only behind their IDR: since the last    *)
(* delivered IDR no placeholder was shown, no application attached, no     *)
(* stall passed and no picture was withheld, whichever of the monitor, the *)
(* placeholder and the application acted meanwhile.  (A picture lost for   *)
(* lack of a vb2 buffer does not close the gate.)                          *)
GopIntact == dpc = "deliver" /\ au = "dep" => chain

(* "The card wedges for good somewhere in the 8-18 spawn range": a STREAMON*)
(* and everything the monitor does on its behalf spend at most one SET_VIC.*)
OneSpawn == spawned <= 1

(* No encoder process is forgotten: one that was forked belongs to the     *)
(* running pipeline, or to a start that has not returned yet.              *)
NoOrphan == encoder => running \/ start \in {"arm", "commit", "unwind"}

(* "Do not pull an already scheduled placeholder forward": while the NO    *)
(* SIGNAL state lasts its replay is scheduled or under way.                *)
PlaceholderScheduled ==
    active /\ upc = "on" /\ rpc # "mark" /\ dpc # "cancel" =>
        nsQueued \/ npc # "idle"

(* "Present the host IDR until one fresh lock measurement proves that this *)
(* pipeline still matches": a reattached session begins with the           *)
(* placeholder, not with a live picture.                                   *)
AttachValidated == upc = "attach" => ~(dpc = "deliver" /\ au = "idr")

(* "Do not drive the receiver's serialized mailbox-I2C path while video is *)
(* flowing": no query measures while the pipeline delivers.                *)
ReceiverLeftAlone == ~(qpc = "measuring" /\ dpc = "deliver")

(* "Returns to live video": once the source of a running pipeline is back  *)
(* for good and access units arrive, the placeholder ends for good.        *)
LiveReturns ==
    <>[](upc = "on" /\ running /\ source = pipeMode /\ fresh) => <>[](~active)

(* "A stable lock then starts the card pipeline once": a stable source of  *)
(* the negotiated geometry starts the pipeline.                            *)
StableLockStarts ==
    <>[](/\ upc = "on" /\ source # NoMode /\ capture = Geometry[source]
         /\ ~startFailed)
        => <>running
=============================================================================
