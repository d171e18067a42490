----------------------------- MODULE RawDelivery -----------------------------
(***************************************************************************)
(* The uncompressed node.  The card writes raw pictures into a ring of     *)
(* slots and says only that it works; the drain worker looks for a slot    *)
(* that holds a whole picture, takes one for each completion, and uses     *)
(* four sentinels to notice the card writing under its copy.  Beside it    *)
(* run the ioctls that choose what the node delivers: S_FMT and TRY_FMT    *)
(* hold vdev.lock, REQBUFS and STREAMON queue_lock, the worker neither.    *)
(*                                                                         *)
(* A slot is a row of cells in the order the card writes them.  The card   *)
(* (external) clears a slot to black and then fills it; the cells are:     *)
(*   1 luma up to frame/2      2 the sentinel at frame/2                   *)
(*   3 the last luma rows      4 U up to the next sentinel                 *)
(*   5 the sentinel at frame - frame/4 (U)                                 *)
(*   6 V, with the sentinels at frame - frame/16 and frame - 4             *)
(* The card writes pictures of the size its pipeline was started with.     *)
(* The worker finds the sentinels by capture.width and height as they are  *)
(* when it looks, and while no source is known (mz0380_clamp_to_source)    *)
(* the format ioctls move those: size is "full", the card's, or "small", a *)
(* mode whose whole frame lies in cell 1 (1280x720 under 1920x1080).       *)
(***************************************************************************)
EXTENDS Integers, FiniteSets

CONSTANTS
    Slots,          \* MZ0380_STREAM_NR_BUFS
    Layouts,        \* raw fourccs: I420, YV12, NV12
    MaxFrames,      \* bound: pictures the card writes, together ...
    MaxBuffers,     \* bound: vb2 buffers
    MaxCalls        \* bound: ... with the TRY_FMT and S_FMT calls

VARIABLES
    card,       \* what the card is writing: [phase, slot, gen, at]
    slot,       \* slot[s][c]: what cell c holds
    running,    \* pipeline_running
    cardRaw,    \* SET_PREVIEW bit 0: whole pictures, not 16-byte stubs
    raw,        \* deliver_raw
    layout,     \* raw_fourcc
    size,       \* capture.width and capture.height
    saved,      \* TRY_FMT in progress: what it puts back at its end
    pending,    \* pipeline_reconfigure_pending
    app,        \* the streaming application
    planes,     \* its planes: for raw pictures, of what size, in a TRY_FMT?
    queued,     \* buffers in buf_list
    next,       \* raw_next_slot
    w,          \* the drain worker
    out,        \* history: the picture delivered last
    given,      \* history: pictures delivered so far
    lapped,     \* history: slots the card began on when they were not armed
    resized,    \* history: slots the worker handled at another size
    behind,     \* history: rotation and order may have come apart
    base,       \* history: pictures written before this pipeline
    tries       \* TRY_FMT and S_FMT calls so far

vars == <<card, slot, running, cardRaw, raw, layout, size, saved, pending,
          app, planes, queued, next, w, out, given, lapped, resized, behind,
          base, tries>>

SlotIds == 0..Slots - 1
Last == 6
Cells == 1..Last
Sentinels == {2, 5, 6}
Geometries == {"full", "small"}
Luma == 1..3
Chroma == 4..Last
Poison == -1
Clear == 0
H264 == "h264"
None == [kind |-> "none"]
Kind(isRaw, l) == IF isRaw THEN l ELSE H264
IsRaw(kind) == kind # H264

Blank == [c \in Cells |-> Poison]
Idle == [pc |-> "idle", s |-> 0, frame |-> "full", keep |-> Blank,
         dst |-> Blank, at |-> 1, as |-> H264, tried |-> FALSE]

Init ==
    /\ card = [phase |-> "idle", slot |-> 0, gen |-> 0, at |-> 1]
    /\ slot = [s \in SlotIds |-> Blank]
    /\ running = FALSE /\ cardRaw = FALSE
    /\ raw \in BOOLEAN /\ layout = CHOOSE l \in Layouts : TRUE
    /\ size = "full" /\ saved = None /\ pending = FALSE
    /\ app = "idle" /\ queued = 0
    /\ planes = [raw |-> FALSE, size |-> "full", tried |-> FALSE]
    /\ next = 0 /\ w = Idle
    /\ out = None /\ given = {} /\ lapped = {} /\ resized = {}
    /\ behind = FALSE /\ base = 0 /\ tries = 0

formatVars == <<raw, layout, size, saved, pending, tries>>
appVars == <<app, planes>>
cardVars == <<card, running, cardRaw, lapped, base>>

-----------------------------------------------------------------------------
(***************************************************************************)
(* The completeness tests.                                                 *)
(***************************************************************************)
(* mz0380_raw_sentinel_offsets: where the four words are.                  *)
SentinelsOf(z) == IF z = "full" THEN Sentinels ELSE {1}

(* mz0380_raw_probe_frame_landed: no sentinel is poison any more.          *)
Landed(s) == \A c \in SentinelsOf(size) : slot[s][c] # Poison

(* The slot was armed for the card's pictures and not written since.       *)
Armed(s) == \A c \in Sentinels : slot[s][c] = Poison

(* mz0380_raw_probe_frame_filled: a sample of the last rows is not black.  *)
Filled(s) == slot[s][IF size = "full" THEN 3 ELSE 1] # Clear

(* mz0380_raw_probe_chroma_filled: any sample of the chroma is not clear.  *)
ChromaFilled(s) ==
    \E c \in IF size = "full" THEN Chroma ELSE {1} : slot[s][c] # Clear

(* Mutant: the sentinels alone decide, as before M222.                     *)
Ready_Landed == {s \in SlotIds : Landed(s)}

Ready == {s \in SlotIds : Landed(s) /\ Filled(s) /\ ChromaFilled(s)}

(* mz0380_raw_probe_sentinel_repoison: the slot is armed again.            *)
Repoisoned(s) ==
    [slot EXCEPT ![s] = [c \in Cells |->
                            IF c \in SentinelsOf(size) THEN Poison
                                                       ELSE slot[s][c]]]

(* Mutant: the lowest ready slot, as before M223.                          *)
FirstReady_Lowest == CHOOSE s \in Ready : \A t \in Ready : s <= t

(* The first of a set of slots, counting from raw_next_slot.               *)
Rotated(i) == (next + i) % Slots
FirstReady ==
    LET Nearest(i) == /\ Rotated(i) \in Ready
                      /\ \A j \in 0..i - 1 : Rotated(j) \notin Ready
    IN  Rotated(CHOOSE i \in 0..Slots - 1 : Nearest(i))

(* mz0380_raw_frame_bytes is read again by each of these tests, and by     *)
(* save, repoison and restore, without a lock.  History: the slots that    *)
(* were looked at, armed or taken at a size that is not the card's.        *)
Reads(s) ==
    resized' = IF size = "full" THEN resized ELSE resized \cup {s}
Strays == behind \/ size # "full"

-----------------------------------------------------------------------------
(***************************************************************************)
(* The card (external): clear a slot, fill it, go on to the next.          *)
(***************************************************************************)
CardBegin ==
    /\ running /\ cardRaw /\ card.phase = "idle" /\ card.gen < MaxFrames
    /\ card.gen + tries < MaxCalls
    /\ LET s == (card.gen - base) % Slots
           wanted == ~Armed(s) \/ (w.pc # "idle" /\ w.s = s)
       IN  /\ card' = [phase |-> "clear", slot |-> s, gen |-> card.gen + 1,
                       at |-> 1]
           /\ lapped' = IF wanted THEN lapped \cup {s} ELSE lapped \ {s}
           /\ resized' = IF wanted THEN resized ELSE resized \ {s}
           /\ behind' = (behind \/ wanted)
    /\ UNCHANGED <<slot, running, cardRaw, base, formatVars, appVars, queued,
                   next, w, out, given>>

CardWrite ==
    /\ card.phase # "idle"
    /\ slot' = [slot EXCEPT ![card.slot][card.at] =
                    IF card.phase = "clear" THEN Clear ELSE card.gen]
    /\ card' = IF card.at < Last THEN [card EXCEPT !.at = @ + 1]
               ELSE [card EXCEPT !.at = 1,
                        !.phase = IF @ = "clear" THEN "fill" ELSE "idle"]
    /\ UNCHANGED <<running, cardRaw, lapped, base, formatVars, appVars, queued,
                   next, w, out, given, behind, resized>>

-----------------------------------------------------------------------------
(***************************************************************************)
(* The drain worker: mz0380_drain_frame_snapshot for one completion.       *)
(***************************************************************************)
workerFrame == <<cardVars, formatVars, appVars>>

(* An H.264 node: the access unit of the completion goes to the gate, and  *)
(* is delivered or not (FrameEvents and Pipeline have the details).        *)
DeliverEncoded ==
    /\ w.pc = "idle" /\ running /\ ~raw
    /\ app = "streaming" /\ queued > 0
    /\ queued' = queued - 1
    /\ out' = [kind |-> H264, cells |-> Blank, sized |-> planes.raw,
               tried |-> planes.tried \/ saved # None,
               moved |-> FALSE, resized |-> FALSE, lapped |-> FALSE]
    /\ UNCHANGED <<workerFrame, slot, next, w, given, behind, resized>>

(* mz0380_drain_raw_deliver: which slots hold a picture, and the first of  *)
(* them in rotation.  None: a stub completion, nothing happens.            *)
Scan ==
    /\ w.pc = "idle" /\ running /\ raw /\ Ready # {}
    /\ w' = [Idle EXCEPT !.pc = "take", !.s = FirstReady, !.tried = saved # None]
    /\ out' = None
    /\ Reads(FirstReady) /\ behind' = Strays
    /\ UNCHANGED <<workerFrame, slot, queued, next, given>>

(* mz0380_raw_deliver_slot from here.  The slot is looked at again...      *)
TakeGone ==
    /\ w.pc = "take" /\ ~Landed(w.s)
    /\ w' = Idle
    /\ Reads(w.s) /\ behind' = Strays
    /\ UNCHANGED <<workerFrame, slot, queued, next, out, given>>

(* ... and is armed again without delivery when nobody streams, no buffer  *)
(* waits, or the plane is too small (the buffer goes back with an error).  *)
Fits == planes.raw /\ (planes.size = "full" \/ size = "small")

TakeDrop ==
    /\ w.pc = "take" /\ Landed(w.s)
    /\ \/ app # "streaming" \/ queued = 0 \/ ~Fits
    /\ queued' = IF app = "streaming" /\ queued > 0 THEN queued - 1 ELSE queued
    /\ slot' = Repoisoned(w.s)
    /\ w' = Idle /\ Reads(w.s) /\ behind' = TRUE
    /\ UNCHANGED <<workerFrame, next, out, given>>

(* mz0380_raw_probe_sentinel_save, with the buffer in hand.  The size of   *)
(* the copy is what mz0380_raw_frame_bytes said here.                      *)
TakeSave ==
    /\ w.pc = "take" /\ Landed(w.s)
    /\ app = "streaming" /\ queued > 0 /\ Fits
    /\ queued' = queued - 1
    /\ w' = [w EXCEPT !.pc = "arm", !.keep = slot[w.s], !.frame = size]
    /\ Reads(w.s) /\ behind' = Strays
    /\ UNCHANGED <<workerFrame, slot, next, out, given>>

Arm ==
    /\ w.pc = "arm"
    /\ slot' = Repoisoned(w.s)
    /\ w' = [w EXCEPT !.pc = "copy", !.at = 1]
    /\ Reads(w.s) /\ behind' = Strays
    /\ UNCHANGED <<workerFrame, queued, next, out, given>>

(* mz0380_raw_copy_frame: the luma plane, then the chroma in the order of  *)
(* the layout chosen at that moment.  A small frame is a part of cell 1.   *)
End == IF w.frame = "full" THEN Last ELSE 1
ChromaAt == IF w.frame = "full" THEN 4 ELSE 1

Copy ==
    /\ w.pc = "copy"
    /\ w' = [w EXCEPT !.dst[w.at] = slot[w.s][w.at],
                      !.as = IF w.at = ChromaAt THEN layout ELSE @,
                      !.at = IF w.at < End THEN @ + 1 ELSE 1,
                      !.pc = IF w.at < End THEN @ ELSE "verify"]
    /\ UNCHANGED <<workerFrame, slot, queued, next, out, given, behind, resized>>

(* Every sentinel was written again: the copy is torn, the buffer goes     *)
(* back to the head of the list and the slot is left to the card.          *)
Torn ==
    /\ w.pc = "verify" /\ Landed(w.s)
    /\ queued' = queued + 1 /\ w' = Idle
    /\ Reads(w.s) /\ behind' = Strays
    /\ UNCHANGED <<workerFrame, slot, next, out, given>>

(* Mutant: the copy is handed out as it was made.                          *)
Restored_Not == w.dst

(* mz0380_raw_probe_sentinel_restore: a saved chroma byte is put where     *)
(* the layout of now keeps it, which is its place if the copy used it too. *)
(* Words saved at one size and put back at another replace pixels that     *)
(* were good by pixels from elsewhere (here Clear).                        *)
Restored ==
    [c \in Cells |->
        IF c \in SentinelsOf(size) /\ (c \in Luma \/ w.as = layout)
        THEN IF size = w.frame THEN w.keep[c] ELSE Clear
        ELSE w.dst[c]]

(* The picture that was copied.                                            *)
Shown == w.dst[IF w.frame = "full" THEN 3 ELSE 1]

(* Mutant: what the sentinels hid is put back into the slot as well.       *)
Deliver_IntoSlot ==
    /\ w.pc = "verify" /\ ~Landed(w.s)
    /\ Reads(w.s) /\ behind' = Strays
    /\ out' = [kind |-> w.as, cells |-> Restored, sized |-> planes.raw,
               tried |-> w.tried \/ planes.tried, moved |-> w.as # layout,
               resized |-> w.s \in resized', lapped |-> w.s \in lapped]
    /\ slot' = [slot EXCEPT ![w.s] = w.keep]
    /\ given' = given \cup {Shown}
    /\ next' = (w.s + 1) % Slots
    /\ w' = Idle
    /\ UNCHANGED <<workerFrame, queued>>

Deliver ==
    /\ w.pc = "verify" /\ ~Landed(w.s)
    /\ Reads(w.s) /\ behind' = Strays
    /\ out' = [kind |-> w.as, cells |-> Restored, sized |-> planes.raw,
               tried |-> w.tried \/ planes.tried, moved |-> w.as # layout,
               resized |-> w.s \in resized', lapped |-> w.s \in lapped]
    /\ given' = given \cup {Shown}
    /\ next' = (w.s + 1) % Slots
    /\ w' = Idle
    /\ UNCHANGED <<workerFrame, slot, queued>>

Worker == \/ DeliverEncoded \/ Scan \/ TakeGone \/ TakeDrop \/ TakeSave
          \/ Arm \/ Copy \/ Torn \/ Deliver

-----------------------------------------------------------------------------
(***************************************************************************)
(* The format ioctls, under vdev.lock.                                     *)
(***************************************************************************)
formatFrame == <<cardVars, slot, appVars, queued, next, w, out, given, behind,
                 resized>>

(* TRY_FMT answers through the device's own fields: what was asked for is  *)
(* put there, read back by mz0380_fill_pix_format, and taken out again.    *)
TryBegin(kind, z) ==
    /\ saved = None /\ card.gen + tries < MaxCalls
    /\ saved' = [kind |-> "try", raw |-> raw, layout |-> layout, size |-> size]
    /\ raw' = IsRaw(kind)
    /\ layout' = IF IsRaw(kind) THEN kind ELSE layout
    /\ size' = z
    /\ tries' = tries + 1
    /\ UNCHANGED <<formatFrame, pending>>

TryEnd ==
    /\ saved # None
    /\ raw' = saved.raw /\ layout' = saved.layout /\ size' = saved.size
    /\ saved' = None
    /\ UNCHANGED <<formatFrame, pending, tries>>

(* Mutant: S_FMT does not look at the queue.                               *)
Busy_Never == FALSE

(* vb2_is_busy: the queue has buffers.                                     *)
Busy == app # "idle"

(* S_FMT: a raw layout is recorded at once; a change between raw and H.264 *)
(* needs an idle queue (-EBUSY) and a new pipeline.  The geometry is set   *)
(* last, whatever is queued.  (S_DV_TIMINGS sets it in the same way.)      *)
SetFormat(kind, z) ==
    /\ saved = None /\ card.gen + tries < MaxCalls
    /\ layout' = IF IsRaw(kind) THEN kind ELSE layout
    /\ \/ /\ IsRaw(kind) # raw /\ Busy
          /\ UNCHANGED <<raw, pending, size>>
       \/ /\ IsRaw(kind) # raw /\ ~Busy
          /\ raw' = IsRaw(kind) /\ pending' = (pending \/ running) /\ size' = z
       \/ /\ IsRaw(kind) = raw
          /\ size' = z /\ UNCHANGED <<raw, pending>>
    /\ tries' = tries + 1
    /\ UNCHANGED <<formatFrame, saved>>

Ioctl == \/ TryEnd
         \/ \E kind \in Layouts \cup {H264}, z \in Geometries :
                TryBegin(kind, z) \/ SetFormat(kind, z)

-----------------------------------------------------------------------------
(***************************************************************************)
(* The application, under queue_lock.                                      *)
(***************************************************************************)
appFrame == <<raw, layout, size, saved, tries, next, w, given>>

(* REQBUFS: mz0380_queue_setup sizes the planes for the format of now.     *)
RequestBuffers ==
    /\ app = "idle" /\ app' = "ready"
    /\ planes' = [raw |-> raw, size |-> size, tried |-> saved # None]
    /\ UNCHANGED <<appFrame, cardVars, slot, pending, queued, out, behind,
                   resized>>

FreeBuffers ==
    /\ app = "ready" /\ app' = "idle" /\ queued' = 0
    /\ UNCHANGED <<appFrame, cardVars, slot, pending, planes, out, behind,
                   resized>>

(* QBUF: mz0380_buf_prepare refuses a plane smaller than sizeimage.        *)
QueueBuffer ==
    /\ app \in {"ready", "streaming"} /\ queued < MaxBuffers
    /\ raw => Fits
    /\ queued' = queued + 1
    /\ UNCHANGED <<appFrame, cardVars, slot, pending, appVars, out, behind,
                   resized>>

(* STREAMON on a pipeline that still runs only attaches the queue, if the  *)
(* node still has the geometry of the pipeline.                            *)
Attach ==
    /\ app = "ready" /\ running /\ ~pending /\ size = "full"
    /\ app' = "streaming"
    /\ UNCHANGED <<appFrame, cardVars, slot, pending, planes, queued, out, behind,
                   resized>>

(* Mutant: the slots are programmed as they are.                           *)
Poisoned_Not == slot

(* Otherwise the old pipeline is stopped, its completions are flushed (the *)
(* worker is waited for), and mz0380_raw_probe_program_bufs poisons every  *)
(* slot before the card is given them.  A card that is stopped writes no   *)
(* more (external).  The node must have the geometry of the source         *)
(* (strict_geometry), which the new pipeline has: that is "full" now.      *)
Poisoned == [s \in SlotIds |-> Blank]

Restart ==
    /\ app = "ready" /\ ~(running /\ ~pending) /\ w.pc = "idle"
    /\ size = "full"
    /\ app' = "starting"
    /\ running' = FALSE /\ slot' = Poisoned
    /\ card' = [card EXCEPT !.phase = "idle", !.at = 1]
    /\ base' = card.gen /\ lapped' = {} /\ resized' = {} /\ out' = None
    /\ behind' = (next # 0)
    /\ UNCHANGED <<appFrame, cardRaw, pending, planes, queued>>

(* mz0380_stream_post_proc tells the card whether to write whole pictures. *)
PostProc ==
    /\ app = "starting" /\ app' = "streaming"
    /\ running' = TRUE /\ cardRaw' = raw /\ pending' = FALSE
    /\ UNCHANGED <<appFrame, card, lapped, base, slot, planes, queued, out, behind,
                   resized>>

(* STREAMOFF publishes the end, waits for a worker that holds a buffer     *)
(* (flush_work), and returns what is left in the list.                     *)
StopBegin ==
    /\ app = "streaming" /\ app' = "stopping"
    /\ UNCHANGED <<appFrame, cardVars, slot, pending, planes, queued, out, behind,
                   resized>>

StopEnd ==
    /\ app = "stopping" /\ w.pc = "idle"
    /\ app' = "ready" /\ queued' = 0
    /\ UNCHANGED <<appFrame, cardVars, slot, pending, planes, out, behind,
                   resized>>

Application == \/ RequestBuffers \/ FreeBuffers \/ QueueBuffer \/ Attach
               \/ Restart \/ PostProc \/ StopBegin \/ StopEnd

Next == CardBegin \/ CardWrite \/ Worker \/ Ioctl \/ Application

Spec == Init /\ [][Next]_vars

-----------------------------------------------------------------------------
(***************************************************************************)
(* Properties.                                                             *)
(***************************************************************************)
Values == {Poison, Clear} \cup 1..MaxFrames

(* Every variable keeps its type, and the worker's buffer is its own: no   *)
(* more buffers than there are, whoever holds them.                        *)
TypeOK ==
    /\ card.phase \in {"idle", "clear", "fill"} /\ card.slot \in SlotIds
    /\ card.gen \in 0..MaxFrames /\ card.at \in Cells
    /\ slot \in [SlotIds -> [Cells -> Values]]
    /\ {running, cardRaw, raw, pending, behind} \subseteq BOOLEAN
    /\ layout \in Layouts /\ size \in Geometries
    /\ app \in {"idle", "ready", "starting", "streaming", "stopping"}
    /\ planes \in [raw : BOOLEAN, size : Geometries, tried : BOOLEAN]
    /\ queued \in 0..MaxBuffers + 1
    /\ next \in SlotIds /\ w.s \in SlotIds
    /\ w.pc \in {"idle", "take", "arm", "copy", "verify"}
    /\ w.frame \in Geometries
    /\ w.dst \in [Cells -> Values] /\ w.keep \in [Cells -> Values]
    /\ given \subseteq Values /\ lapped \subseteq SlotIds
    /\ resized \subseteq SlotIds
    /\ base \in 0..MaxFrames /\ tries \in 0..MaxCalls

RawOut == out.kind \in Layouts

(* A picture is handed out once: a slot whose picture was delivered is not *)
(* taken again before the card has written another one, provided the slot  *)
(* was armed when the card came to it and no format ioctl had moved the    *)
(* geometry when the worker looked at it, armed it or took it.             *)
DeliveredOnce ==
    [][out' # out /\ out'.kind \in Layouts /\ w.s \notin lapped /\ ~out'.resized
            => Shown \notin given]_vars

(* M239: no delivered picture shows the sentinels, except when S_FMT or    *)
(* TRY_FMT moved the layout between the copy and the restore, or had moved *)
(* the geometry when the slot was last armed, or when this picture was     *)
(* looked at, saved, armed or restored.                                    *)
NoPoison ==
    RawOut /\ ~out.moved /\ ~out.resized
        => \A c \in Cells : out.cells[c] # Poison

(* M222 and M229: unless the card came round to a slot that was not armed, *)
(* or the geometry was moved as above, the luma plane delivered is one     *)
(* picture, not the black of the clear and not a mixture.                  *)
LumaWhole ==
    RawOut /\ ~out.lapped /\ ~out.resized
        => \A c \in Luma : out.cells[c] = out.cells[1] /\ out.cells[c] > Clear

(* M223: taking the slots in rotation delivers pictures in the order they  *)
(* were taken, as long as since the restart none was dropped or            *)
(* overwritten and the worker always saw the card's geometry.  A restart   *)
(* leaves raw_next_slot where it was while the card begins at slot 0, so   *)
(* the pipelines that start with raw_next_slot # 0 are excepted as well.   *)
RotationInOrder ==
    [][given' # given /\ ~behind' => \A g \in given : g <= base \/ g < Shown]_vars

(* A new pipeline never delivers what an older one left in the slots       *)
(* (laps and moved geometry excepted).                                     *)
NothingFromBefore ==
    RawOut /\ ~out.lapped /\ ~out.resized => out.cells[3] > base

(* An H.264 buffer in planes sized for raw pictures, or the reverse, is    *)
(* delivered only if a TRY_FMT was in progress when the planes were sized  *)
(* or the completion was looked at: S_FMT refuses the change while buffers *)
(* exist (-EBUSY).                                                         *)
KindFitsPlanes ==
    out.kind # "none" /\ ~out.tried => (RawOut <=> out.sized)
=============================================================================
