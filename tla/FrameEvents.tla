---------------------------- MODULE FrameEvents -----------------------------
(***************************************************************************)
(* The frame-completion path of the HD60 Pro driver in its default         *)
(* configuration (encoded window-1 delivery, completion interrupts):       *)
(*                                                                         *)
(*   - the card's encoder thread, which writes a bitstream into a window-1 *)
(*     slot only while ENC_STATUS is free, and announces a slot through    *)
(*     one-shot mailbox events (external: the firmware);                   *)
(*   - mz0380_mb_ack_event(), entered by the interrupt handler and by any  *)
(*     command poller, which snapshots the event, queues it and re-arms    *)
(*     the mailbox under event_lock;                                       *)
(*   - the drain worker, which consumes the queued snapshots in batches    *)
(*     and then frees ENC_STATUS;                                          *)
(*   - the stream start and stop paths, which close the queue, synchronise *)
(*     with the worker and reopen it.                                      *)
(*                                                                         *)
(* One action is one step between two points where another of these        *)
(* actors can intervene: a locked section, or one unlocked register or     *)
(* flag access.  The field "frame" of a snapshot, "copied" and "frames"    *)
(* are history: no guard of a driver action reads them.                    *)
(***************************************************************************)
EXTENDS Naturals, Sequences

CONSTANTS
    Slots,        \* the DMA slots programmed by SET_BUF_4
    NoSlot,       \* a token that names no programmed slot
    Contexts,     \* execution contexts that call mz0380_mb_ack_event
    Isr,          \* the one of them that is the interrupt handler
    NoContext,    \* nobody
    FifoSize,     \* MZ0380_FRAME_EVENT_FIFO_SIZE; one cell stays empty
    MaxFrames     \* bound: bitstreams the card encodes in a behaviour

(* Two slots are what the hand-over needs; the driver programs four.       *)
ASSUME SlotsAssumption ==
    /\ NoSlot \notin Slots
    /\ \A s \in Slots : \E t \in Slots : t # s

ASSUME ContextsAssumption == NoContext \notin Contexts /\ Isr \in Contexts

ASSUME SizesAssumption == FifoSize \in Nat /\ FifoSize > 1 /\ MaxFrames \in Nat

VARIABLES
    \* --- the card (external) ---
    running,      \* the producer was started and not yet stopped
    armed,        \* slot whose bitstream DMA is in flight, or NoSlot
    last,         \* slot of the last finished bitstream, or NoSlot
    content,      \* content[s]: number of the bitstream in s, 0 = poison
    frames,       \* bitstreams begun so far
    token,        \* the token registers (BAR0+0x40/0x44)
    event,        \* the EVENT register holds a frame completion
    credit,       \* the card may post its next (one-shot) event
    encBusy,      \* ENC_STATUS # MZ0380_MB_ENC_STAT_FREE
    \* --- mz0380_mb_ack_event() ---
    eventLock,    \* holder of event_lock
    hpc,          \* hpc[c]: where context c is in the handler
    seen,         \* the holder's local "event": was EVENT live under the lock
    snap,         \* the snapshot taken by the holder of event_lock
    \* --- the event queue (frame_event_lock) ---
    accepting,    \* frame_events_accepting
    fifo,         \* frame_events[tail .. head-1]
    scheduled,    \* frame_event_drain_scheduled
    deferred,     \* frame_event_ack_deferred
    \* --- the drain worker ---
    workPending,  \* drain_work is queued
    wpc,          \* where the worker is
    hand,         \* the snapshot being drained: << >> or one element
    handled,      \* the worker's local "handled"
    lastToken,    \* h264_last_token, NoSlot while not valid
    copied,       \* number of the last bitstream consumed
    \* --- the stream start and stop paths ---
    ctl,          \* where the start or stop path is
    resume        \* what follows the flush: "start" or "stop"

cardVars    == <<running, armed, last, content, frames, token>>
mailVars    == <<event, credit>>
handlerVars == <<eventLock, hpc, seen, snap>>
queueVars   == <<accepting, fifo, scheduled, deferred>>
workerVars  == <<workPending, wpc, hand, handled, lastToken, copied>>
ctlVars     == <<ctl, resume>>
vars == <<cardVars, mailVars, encBusy, handlerVars, queueVars, workerVars,
          ctlVars>>

Token == Slots \cup {NoSlot}

(* struct mz0380_frame_event; "frame" is the bitstream that was complete   *)
(* in the slot when the snapshot was taken, 0 when there was none.         *)
FrameEvent == [slot : Token, frame : 0..MaxFrames]

NoEvent == [slot |-> NoSlot, frame |-> 0]

Snapshot ==
    [slot  |-> token,
     frame |-> IF token \in Slots /\ token # armed THEN content[token] ELSE 0]

Init ==
    /\ running = FALSE /\ armed = NoSlot /\ last = NoSlot
    /\ content = [s \in Slots |-> 0] /\ frames = 0 /\ token = NoSlot
    /\ event = FALSE /\ credit = TRUE /\ encBusy = FALSE
    /\ eventLock = NoContext /\ hpc = [c \in Contexts |-> "idle"]
    /\ seen = FALSE /\ snap = NoEvent
    /\ accepting = FALSE /\ fifo = << >> /\ scheduled = FALSE
    /\ deferred = FALSE
    /\ workPending = FALSE /\ wpc = "idle" /\ hand = << >>
    /\ handled = FALSE /\ lastToken = NoSlot /\ copied = 0
    /\ ctl = "off" /\ resume = "stop"

-----------------------------------------------------------------------------
(***************************************************************************)
(* The card.  ENC_STATUS is polled once per frame: free lets the encoder   *)
(* write the next bitstream, busy makes it skip.  Either way it rewrites   *)
(* the token registers, and posts an event if it holds the credit.         *)
(***************************************************************************)
PostEvent == event' = (event \/ credit) /\ credit' = FALSE

(* ENC_STATUS was read free: the DMA of the next bitstream begins.         *)
CardEncode ==
    /\ running /\ armed = NoSlot /\ ~encBusy /\ frames < MaxFrames
    /\ \E s \in Slots \ {last} :
          /\ armed' = s
          /\ content' = [content EXCEPT ![s] = frames + 1]
    /\ frames' = frames + 1
    /\ UNCHANGED <<running, last, token, mailVars, encBusy, handlerVars,
                   queueVars, workerVars, ctlVars>>

(* The bitstream is in host memory: the card marks it busy and says so.    *)
CardComplete ==
    /\ armed # NoSlot
    /\ encBusy' = TRUE /\ last' = armed /\ token' = armed /\ armed' = NoSlot
    /\ PostEvent
    /\ UNCHANGED <<running, content, frames, handlerVars, queueVars,
                   workerVars, ctlVars>>

(* An iteration without a bitstream repeats the last token.  Before the    *)
(* first bitstream of a stream there is none: the nibble is the seed, or   *)
(* names a slot that no DMA has touched yet.                               *)
CardReannounce ==
    /\ running /\ armed = NoSlot
    /\ token' \in IF last = NoSlot THEN Token ELSE {last}
    /\ PostEvent
    /\ UNCHANGED <<running, armed, last, content, frames, encBusy,
                   handlerVars, queueVars, workerVars, ctlVars>>

-----------------------------------------------------------------------------
(***************************************************************************)
(* mz0380_mb_ack_event() and its callers.                                  *)
(***************************************************************************)

(* A caller saw a live EVENT without holding any lock.                     *)
AckEnter(c) ==
    /\ hpc[c] = "idle" /\ event
    /\ hpc' = [hpc EXCEPT ![c] = "enter"]
    /\ UNCHANGED <<cardVars, mailVars, encBusy, eventLock, seen, snap, queueVars,
                   workerVars, ctlVars>>

(* event_lock taken, EVENT read again; a frame event of a stream that      *)
(* looks open is snapshotted before anything is re-armed.                  *)
AckLock(c) ==
    /\ hpc[c] = "enter" /\ eventLock = NoContext
    /\ eventLock' = c /\ seen' = event
    /\ IF event /\ accepting
       THEN hpc' = [hpc EXCEPT ![c] = "queue"] /\ snap' = Snapshot
       ELSE hpc' = [hpc EXCEPT ![c] = "clear"] /\ UNCHANGED snap
    /\ UNCHANGED <<cardVars, mailVars, encBusy, queueVars, workerVars, ctlVars>>

(* Mutant: the full test forgets the cell that stays empty.                *)
FifoFull_OffByOne == Len(fifo) = FifoSize

FifoFull == Len(fifo) = FifoSize - 1

(* An event is dropped when the queue was closed meanwhile or is full.     *)
Dropped == ~accepting \/ FifoFull

(* Mutants: a drop is always acknowledged at once; or the snapshot in the  *)
(* worker's hand is forgotten.                                             *)
AckNowAllowed_Always == TRUE
AckNowAllowed_QueueOnly == fifo = << >>

(* May a dropped event be acknowledged on the spot?  Only if no older      *)
(* snapshot is queued or being copied.                                     *)
AckNowAllowed == ~scheduled /\ fifo = << >>

(* The frame_event_lock section of mz0380_handle_event_snapshot().         *)
AckQueue(c) ==
    /\ hpc[c] = "queue"
    /\ \/ /\ ~Dropped
          /\ fifo' = Append(fifo, snap)
          /\ scheduled' = TRUE
          /\ workPending' = (workPending \/ ~scheduled)
          /\ hpc' = [hpc EXCEPT ![c] = "clear"]
          /\ UNCHANGED deferred
       \/ /\ Dropped /\ AckNowAllowed
          /\ hpc' = [hpc EXCEPT ![c] = "acknow"]
          /\ UNCHANGED <<fifo, scheduled, deferred, workPending>>
       \/ /\ Dropped /\ ~AckNowAllowed
          /\ deferred' = TRUE
          /\ hpc' = [hpc EXCEPT ![c] = "clear"]
          /\ UNCHANGED <<fifo, scheduled, workPending>>
    /\ snap' = NoEvent
    /\ UNCHANGED <<cardVars, mailVars, encBusy, eventLock, seen, accepting,
                   wpc,
                   hand, handled, lastToken, copied, ctlVars>>

(* mz0380_enc_stat_ack() for a dropped event.                              *)
AckNow(c) ==
    /\ hpc[c] = "acknow"
    /\ encBusy' = FALSE
    /\ hpc' = [hpc EXCEPT ![c] = "clear"]
    /\ UNCHANGED <<cardVars, mailVars, eventLock, seen, snap, queueVars, workerVars,
                   ctlVars>>

(* EVENT is zeroed whatever was read from it ...                           *)
AckClear(c) ==
    /\ hpc[c] = "clear"
    /\ event' = FALSE
    /\ hpc' = [hpc EXCEPT ![c] = "bell"]
    /\ UNCHANGED <<cardVars, credit, encBusy, eventLock, seen, snap, queueVars,
                   workerVars, ctlVars>>

(* Mutant: the doorbell that re-arms the card is missing.                  *)
AckBell_NoRearm(c) ==
    /\ hpc[c] = "bell"
    /\ eventLock' = NoContext /\ seen' = FALSE
    /\ hpc' = [hpc EXCEPT ![c] = "idle"]
    /\ UNCHANGED <<cardVars, mailVars, encBusy, snap, queueVars, workerVars,
                   ctlVars>>

(* ... and on the INT_ACK doorbell the card clears EVENT once more and     *)
(* takes its credit back.                                                  *)
AckBell(c) ==
    /\ hpc[c] = "bell"
    /\ event' = FALSE /\ credit' = TRUE
    /\ eventLock' = NoContext /\ seen' = FALSE
    /\ hpc' = [hpc EXCEPT ![c] = "idle"]
    /\ UNCHANGED <<cardVars, encBusy, snap, queueVars, workerVars, ctlVars>>

AckEvent(c) == \/ AckLock(c) \/ AckQueue(c) \/ AckNow(c) \/ AckClear(c)
               \/ AckBell(c)

-----------------------------------------------------------------------------
(***************************************************************************)
(* The drain worker, mz0380_dma_drain_video().                             *)
(***************************************************************************)
WorkerRun ==
    /\ workPending /\ wpc = "idle"
    /\ workPending' = FALSE /\ wpc' = "pop" /\ handled' = FALSE
    /\ UNCHANGED <<cardVars, mailVars, encBusy, handlerVars, queueVars, hand,
                   lastToken, copied, ctlVars>>

(* mz0380_frame_event_pop().                                               *)
WorkerPop ==
    /\ wpc = "pop"
    /\ IF fifo # << >>
       THEN /\ hand' = <<Head(fifo)>> /\ fifo' = Tail(fifo)
            /\ handled' = TRUE /\ wpc' = "drain"
       ELSE wpc' = "take" /\ UNCHANGED <<hand, fifo, handled>>
    /\ UNCHANGED <<cardVars, mailVars, encBusy, handlerVars, accepting,
                   scheduled, deferred, workPending, lastToken, copied,
                   ctlVars>>

(* Mutant: repeated announcements are not recognised.                      *)
Repeated_Never(slot) == FALSE

(* A token equal to the last consumed one is a repeated announcement.      *)
Repeated(slot) == slot = lastToken

(* The early returns of mz0380_drain_h264_snapshot(): no such slot, a      *)
(* repeated token, a slot still poisoned, or a header not yet complete.    *)
WorkerSkip ==
    /\ wpc = "drain"
    /\ LET s == hand[1].slot IN
          \/ s \notin Slots
          \/ Repeated(s)
          \/ s \in Slots /\ content[s] = 0
          \/ s \in Slots /\ armed = s
    /\ hand' = << >> /\ wpc' = "pop"
    /\ UNCHANGED <<cardVars, mailVars, encBusy, handlerVars, queueVars,
                   workPending, handled, lastToken, copied, ctlVars>>

(* The header checks passed: the token is consumed and its copy begins.    *)
(* The header lands before the payload does, so a slot whose DMA is still  *)
(* in flight (armed = s) can pass them too.                                *)
WorkerAccept ==
    /\ wpc = "drain"
    /\ LET s == hand[1].slot IN
          /\ s \in Slots /\ ~Repeated(s) /\ content[s] # 0
          /\ lastToken' = s
    /\ wpc' = "copy"
    /\ UNCHANGED <<cardVars, mailVars, encBusy, handlerVars, queueVars,
                   workPending, hand, handled, copied, ctlVars>>

(* The access unit has been read out of the slot (copied to a vb2 buffer,  *)
(* or parsed and discarded: which of the two is Pipeline's to say).         *)
WorkerCopied ==
    /\ wpc = "copy"
    /\ copied' = content[hand[1].slot]
    /\ hand' = << >> /\ wpc' = "pop"
    /\ UNCHANGED <<cardVars, mailVars, encBusy, handlerVars, queueVars,
                   workPending, handled, lastToken, ctlVars>>

(* Collect an acknowledgement deferred by a drop; the re-poisoning of the  *)
(* dropped raw slots that follows does not touch the window-1 slots.       *)
WorkerTake ==
    /\ wpc = "take"
    /\ handled' = (handled \/ deferred)
    /\ deferred' = FALSE
    /\ wpc' = "final"
    /\ UNCHANGED <<cardVars, mailVars, encBusy, handlerVars, accepting, fifo,
                   scheduled, workPending, hand, lastToken, copied, ctlVars>>

(* Mutant: the worker ends its batch without a last look at the queue.     *)
BatchDone_Unchecked == TRUE

(* Nothing arrived since the batch was drained.                            *)
BatchDone == fifo = << >> /\ ~deferred

(* The last look at the queue and the ENC_STATUS acknowledgement are one   *)
(* section under event_lock and frame_event_lock.                          *)
WorkerFinal ==
    /\ wpc = "final" /\ eventLock = NoContext
    /\ IF BatchDone
       THEN /\ scheduled' = FALSE /\ wpc' = "idle"
            /\ encBusy' = (encBusy /\ ~handled)
       ELSE wpc' = "pop" /\ UNCHANGED <<scheduled, encBusy>>
    /\ UNCHANGED <<cardVars, mailVars, handlerVars, accepting, fifo, deferred,
                   workPending, hand, handled, lastToken, copied, ctlVars>>

Worker == \/ WorkerRun \/ WorkerPop \/ WorkerSkip \/ WorkerAccept
          \/ WorkerCopied \/ WorkerTake \/ WorkerFinal

-----------------------------------------------------------------------------
(***************************************************************************)
(* mz0380_dma_flush_events(), called by the start path before it opens the *)
(* queue and by the stop and error paths.                                  *)
(***************************************************************************)
FlushClose ==
    /\ ctl = "close"
    /\ accepting' = FALSE /\ ctl' = "sync"
    /\ UNCHANGED <<cardVars, mailVars, encBusy, handlerVars, fifo, scheduled,
                   deferred, workerVars, resume>>

(* Mutant: cancel_work(), which does not wait for a running worker.        *)
FlushSync_NoWait ==
    /\ ctl = "sync"
    /\ workPending' = FALSE /\ ctl' = "purge"
    /\ UNCHANGED <<cardVars, mailVars, encBusy, handlerVars, queueVars, wpc,
                   hand, handled, lastToken, copied, resume>>

(* cancel_work_sync(): a queued run is cancelled, a running one awaited.   *)
FlushSync ==
    /\ ctl = "sync" /\ wpc = "idle"
    /\ workPending' = FALSE /\ ctl' = "purge"
    /\ UNCHANGED <<cardVars, mailVars, encBusy, handlerVars, queueVars, wpc,
                   hand, handled, lastToken, copied, resume>>

AfterFlush == IF resume = "start" THEN "reset" ELSE "off"

(* The second locked section empties the queue; ctl = "release" remembers  *)
(* that something was thrown away and ENC_STATUS is to be freed.           *)
FlushPurge ==
    /\ ctl = "purge"
    /\ fifo' = << >> /\ scheduled' = FALSE /\ deferred' = FALSE
    /\ ctl' = IF fifo # << >> \/ deferred THEN "release" ELSE AfterFlush
    /\ UNCHANGED <<cardVars, mailVars, encBusy, handlerVars, accepting,
                   workerVars, resume>>

FlushRelease ==
    /\ ctl = "release"
    /\ encBusy' = FALSE /\ ctl' = AfterFlush
    /\ UNCHANGED <<cardVars, mailVars, handlerVars, queueVars, workerVars,
                   resume>>

(***************************************************************************)
(* The parts of mz0380_dma_start_stream() and of the stop path that touch  *)
(* the completion path.                                                    *)
(***************************************************************************)

(* STOP goes out through mz0380_send_command(), whose synchronize_irq()    *)
(* waits for every handler already running; cmd_lock excludes the pollers. *)
StartStop ==
    /\ ctl = "off"
    /\ \A c \in Contexts : hpc[c] = "idle"
    /\ running' = FALSE /\ ctl' = "settle"
    /\ UNCHANGED <<armed, last, content, frames, token, mailVars, encBusy,
                   handlerVars, queueVars, workerVars, resume>>

(* After the settle time the card is quiet.  SET_BUF_4 poisons the slots,  *)
(* and its command drains the event that was still in the mailbox.         *)
StartProgram ==
    /\ ctl = "settle" /\ armed = NoSlot /\ eventLock = NoContext
    /\ content' = [s \in Slots |-> 0]
    /\ event' = FALSE /\ credit' = TRUE
    /\ ctl' = "close" /\ resume' = "start"
    /\ UNCHANGED <<running, armed, last, frames, token, encBusy, handlerVars,
                   queueVars, workerVars>>

(* The second half of mz0380_frame_events_start().                         *)
StartAccept ==
    /\ ctl = "reset"
    /\ fifo' = << >> /\ scheduled' = FALSE /\ deferred' = FALSE
    /\ accepting' = TRUE /\ lastToken' = NoSlot
    /\ ctl' = "free"
    /\ UNCHANGED <<cardVars, mailVars, encBusy, handlerVars, workPending, wpc,
                   hand, handled, copied, resume>>

(* The unconditional ENC_STATUS clear at stream start.                     *)
StartFree ==
    /\ ctl = "free"
    /\ encBusy' = FALSE /\ ctl' = "kick"
    /\ UNCHANGED <<cardVars, mailVars, handlerVars, queueVars, workerVars,
                   resume>>

(* The token registers are seeded and the producer is started.             *)
StartKick ==
    /\ ctl = "kick"
    /\ running' = TRUE /\ last' = NoSlot /\ token' = NoSlot
    /\ ctl' = "on"
    /\ UNCHANGED <<armed, content, frames, mailVars, encBusy, handlerVars,
                   queueVars, workerVars, resume>>

(* STOP (mz0380_dma_stop_stream) or err_events of the start path: both     *)
(* send STOP, which the card obeys at its next frame, and then flush.      *)
Stop ==
    /\ ctl \in {"kick", "on"}
    /\ running' = FALSE
    /\ ctl' = "close" /\ resume' = "stop"
    /\ UNCHANGED <<armed, last, content, frames, token, mailVars, encBusy,
                   handlerVars, queueVars, workerVars>>

Flush == FlushClose \/ FlushSync \/ FlushPurge \/ FlushRelease
Start == StartStop \/ StartProgram \/ StartAccept \/ StartFree \/ StartKick

-----------------------------------------------------------------------------
Next ==
    \/ CardEncode \/ CardComplete \/ CardReannounce
    \/ \E c \in Contexts : AckEnter(c) \/ AckEvent(c)
    \/ Worker
    \/ Flush \/ Start \/ Stop

Spec == Init /\ [][Next]_vars

(***************************************************************************)
(* Fairness.  The card's loop never stops by itself; its MSI reaches the   *)
(* handler; a handler that was entered finishes (interrupts are off); the  *)
(* workqueue runs a queued work item.  Nothing is assumed of the start and *)
(* stop paths, nor of how often a command poller looks at the mailbox.     *)
(***************************************************************************)
Fairness ==
    /\ WF_vars(CardComplete) /\ WF_vars(CardReannounce)
    /\ WF_vars(AckEnter(Isr))
    /\ \A c \in Contexts : WF_vars(AckEvent(c))
    /\ WF_vars(Worker)

LiveSpec == Spec /\ Fairness

-----------------------------------------------------------------------------
(***************************************************************************)
(* Properties.                                                             *)
(***************************************************************************)

CardType ==
    /\ armed \in Token /\ last \in Token /\ token \in Token
    /\ content \in [Slots -> 0..MaxFrames] /\ frames \in 0..MaxFrames

FlagType ==
    /\ running \in BOOLEAN /\ event \in BOOLEAN /\ credit \in BOOLEAN
    /\ encBusy \in BOOLEAN /\ seen \in BOOLEAN /\ accepting \in BOOLEAN
    /\ scheduled \in BOOLEAN /\ deferred \in BOOLEAN
    /\ workPending \in BOOLEAN /\ handled \in BOOLEAN

HandlerType ==
    /\ eventLock \in Contexts \cup {NoContext}
    /\ hpc \in [Contexts -> {"idle", "enter", "queue", "acknow", "clear",
                             "bell"}]
    /\ snap \in FrameEvent

QueueType == fifo \in Seq(FrameEvent) /\ Len(fifo) <= FifoSize - 1

WorkerType ==
    /\ wpc \in {"idle", "pop", "drain", "copy", "take", "final"}
    /\ hand \in Seq(FrameEvent) /\ Len(hand) <= 1
    /\ wpc \in {"drain", "copy"} <=> hand # << >>
    /\ wpc = "copy" => hand[1].slot \in Slots
    /\ lastToken \in Token /\ copied \in 0..MaxFrames

CtlType ==
    /\ ctl \in {"off", "settle", "close", "sync", "purge", "release", "reset",
               "free", "kick", "on"}
    /\ resume \in {"start", "stop"}

(* Every variable stays in its range: the queue uses at most all but one   *)
(* of its cells, and the worker holds a snapshot exactly while it drains   *)
(* one, copying only from a programmed slot.                               *)
TypeOK == CardType /\ FlagType /\ HandlerType /\ QueueType /\ WorkerType /\ CtlType

(* The bitstream a noted completion stands for is still whole in its slot. *)
Intact(e) == e.frame # 0 => content[e.slot] = e.frame /\ armed # e.slot

(* "Do not free the encoder while an older snapshot is queued or being     *)
(* copied: it could immediately reuse and overwrite that token": a         *)
(* bitstream that was complete when its event was snapshotted is neither   *)
(* replaced nor being replaced while its snapshot is queued or drained.    *)
SnapshotIntact ==
    /\ \A i \in DOMAIN hand : Intact(hand[i])
    /\ \A i \in DOMAIN fifo : Intact(fifo[i])

(* No wakeup is lost: whatever is queued, and whatever acknowledgement is  *)
(* deferred, has a worker run queued or in progress, or a flush on its way *)
(* to purge it.                                                            *)
NoLostWakeup ==
    fifo # << >> \/ deferred =>
        workPending \/ wpc # "idle" \/ ctl \in {"close", "sync", "purge"}

(* A flush leaves nothing behind: from its return until the queue is       *)
(* opened again no worker run is queued or in progress (vb2 buffers and    *)
(* DMA memory may go away), nothing is queued, and no acknowledgement is   *)
(* deferred that nobody would send.                                        *)
FlushIsFinal ==
    ctl \in {"off", "settle"} =>
        /\ ~accepting /\ fifo = << >> /\ ~deferred /\ ~scheduled
        /\ ~workPending /\ wpc = "idle" /\ hand = << >>

(* However often the card repeats or anticipates a token, and across       *)
(* restarts that reuse the same slots, bitstreams are consumed in the      *)
(* order they were encoded and none is consumed twice.                     *)
FramesInOrder ==
    [][wpc = "copy" /\ wpc' # "copy" => copied' > copied]_<<wpc, copied>>

(* "mz0380_mb_ack_event() takes the frame/token snapshot before it clears   *)
(* EVENT, so this cannot discard a late frame completion": an EVENT that   *)
(* is cleared is the one the clearing context read under event_lock.       *)
ClearedEventWasRead ==
    [][\A c \in Contexts :
          hpc[c] = "clear" /\ hpc'[c] = "bell" /\ event => seen]_<<hpc, event>>

(* Slots change hands as FrameHandoff says: ENC_STATUS is lowered only     *)
(* when no noted completion waits for its copy.                            *)
Handoff == INSTANCE FrameHandoff WITH
    Completion <- FrameEvent, busy <- encBusy, owed <- hand \o fifo
ReleasedWhenConsumed == Handoff!HandoffSpec

(* The encoder never stays blocked while the stream is open: a bitstream   *)
(* the card handed over is acknowledged even if the event announcing it    *)
(* was dropped, or wiped out of the mailbox by a second acknowledger.      *)
(* Two premises stand for timing: the worker catches up with the queue     *)
(* again and again, and command pollers do not poll for ever.              *)
WorkerCatchesUp == []<>(wpc = "idle")
PollersRest == \A c \in Contexts \ {Isr} : <>[](hpc[c] = "idle")
EncoderReleased ==
    WorkerCatchesUp /\ PollersRest =>
        [](encBusy /\ ctl = "on" => <>(~encBusy \/ ctl # "on"))
=============================================================================
