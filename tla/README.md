# TLA+ models of the HD60 Pro (MZ0380) Linux driver

This directory holds TLA+ modules translated from the C sources of the driver
(`src/src/mz0380-*.c`), the TLC configurations that check small instances of
them, and TLAPS proofs for instances of any size. File and line numbers below
refer to the repository. `PROJECT.json` lists for every definition the lines it
stands for, for every property a mutation of the code that breaks it, and the
hazards the properties are aimed at.

## 1. The system

The card is an ARM computer behind a PCIe endpoint. The host talks to it
through a few mailbox registers in BAR0 (command words, STATUS, a one-shot
EVENT word with a credit that a doorbell gives back) and receives access units
in DMA slots. The card announces a finished slot by an event, and ENC_STATUS
says who owns the slots. An MST3367 receiver on the card digitises HDMI; it is
reached by register-read and register-write commands over the same mailbox.

| Part | Source | State it keeps | Operations | Interacts by |
|---|---|---|---|---|
| mailbox command engine | `mailbox.c` | `cmd_lock`, `cmd_complete`, `cmd_last_param` | `send_command`, `send_command_reply`, `periph_read/write`, `card_init` | BAR0 words; shares EVENT with the interrupt handler |
| interrupt handler, frame-event queue | `dma.c` | `event_lock`, `frame_events[]`, `frame_events_accepting`, `frame_event_drain_scheduled`, `frame_event_ack_deferred` | `isr`, `mb_ack_event`, `handle_event_snapshot`, `frame_events_start`, `dma_flush_events` | schedules `drain_work` |
| drain worker | `dma-drain.c` | `h264_last_token`, parameter-set cache, `h264_waiting_for_idr` | `dma_drain_video`, `drain_h264_snapshot`, raw snapshots | takes vb2 buffers, frees ENC_STATUS |
| raw delivery | `dma-drain.c`, `dma-extent.c` | raw slots with sentinels, `raw_next_slot`, `deliver_raw`, `raw_fourcc`, `capture.width/height` | landed/filled tests, rotation, copy with torn-frame check, re-poisoning | the drain worker; the format ioctls move its fields |
| stream start/stop | `dma-stream.c` | `pipeline_running`, `pipeline_*` | `dma_start`, `dma_stop` | mailbox commands |
| vb2 queue | `vb2.c` | `buf_list`, `streaming` | `start_streaming`, `stop_streaming`, `buf_queue` | called by V4L2 under `queue_lock` |
| placeholder | `no-signal.c` | `no_signal_active`, `no_signal_work` | activate, deactivate, stop, work | `h264_delivery_lock` |
| receiver monitor, timings | `signal.c` | `signal_locked`, `detected_timings`, `last_good_timings`, `signal_recovering`, `pipeline_reconfigure_pending`, `pipeline_start_failed` | `signal_recovery_work_fn`, `query_dv_timings` | starts the pipeline, shows the placeholder |
| V4L2 ioctls | `video.c` | `capture`, controls | S_FMT, QUERY_DV_TIMINGS, controls | `dev->lock` only |
| receiver | `mst3367*.c` | `mst3367_lock`, `mst3367_ready`, `gpio_dir_invert`; in the chip: bank selector, HPD, freeze bit | bring-up, EDID, HPD, measure, commit of a mode, watch, diagnostics | mailbox; sets `signal_locked` |
| probe, remove, buffers, firmware | `pci.c`, `dma.c`, `fw.c`, `cards.c` | regions, vectors, banks of buffers, bus mastering, the device list | acquire, unwind, release | against procfs, watcher, application, shared interrupt line |
| settings | `controls-read.c`, `controls-write.c`, `proc.c` | words of BAR5, cached values, candidate fields, `ctrl_lock` | adopt at probe, read-modify-write with read-back | V4L2 controls and procfs change the same words |
| event watcher | `proc-debug.c` | event ring under `event_lock`, `event_auto_ack` | sample, record, clear, dump | consumes the EVENT word beside the interrupt handler |
| nosg capture, poll drain | `dma-nosg.c`, `dma-drain.c` | kthreads | diagnostic captures | start and stop the pipeline themselves |
| procfs dumps, snapshot, parameters, audio | `proc*.c`, `snapshot.c`, `params-*.c`, `audio.c` | none | print registers; scaffold without transport | mailbox |

What makes it hard:

* one EVENT word is consumed by an interrupt handler and by every polling
  command, and clearing it is not atomic with reading it;
* the event's meaning (a slot, a reply) has to be snapshotted before the card
  is re-armed, and the slot must not be given back while any older snapshot of
  it is queued or being copied;
* the queue drops when full, repeats announcements, and is closed, flushed and
  reopened while handlers and worker run;
* the pipeline outlives STREAMOFF, so an application can attach to it; the
  monitor may start it on an application's behalf; ioctls run beside both;
* a raw slot has no completion of its own: the host judges it by four sentinel
  bytes, while the card writes and the format ioctls move the layout and the
  geometry from which the places of those bytes are computed;
* every command to the receiver may fail, with or without its effect, in the
  middle of an operation that froze its output or hid it from the source;
* probe acquires some fifteen things, each of which may fail, and remove gives
  them back under a procfs reader, a watcher thread and a running capture;
* a failed start owes the card a STOP, and starts are a scarce resource: the
  card wedges after some 8-18 encoder processes.

What makes each part correct: a command gets its own answer or a timeout;
completions are consumed once, in order, before their slot is given back;
nothing survives a flush or a STREAMOFF; a viewer never gets a dependent picture
without its IDR; live video comes back when its source does; no encoder process
is forgotten, and none is spawned needlessly; a raw picture is whole, delivered
once and in order; an EDID is never written under the eyes of the source, and no
error leaves the output frozen; what probe acquired is released once, in an order
in which nobody uses what is gone; no change of a setting undoes another.

The configuration modelled by `FrameEvents` and `Pipeline` is the default one
(H.264 delivery: `h264_probe`, `persistent_h264`, `stop_on_streamoff`,
`enc_stat_ack_on`, `win_seq`, `stream_without_signal`, `hotplug_recovery`,
`strict_geometry` on; `raw_bank_probe`, `stream_nosg` off; `poll_drain_ms = 0`),
with DMA armed. `RawDelivery` has the node that delivers either kind, and
`Lifecycle` every combination of the parameters it names.

## 2. Modules

| Module | What it is |
|---|---|
| `FrameHandoff` | abstract: card and host own the slots in turns |
| `FrameEvents` | the frame-completion path: card, `mb_ack_event`, queue, drain worker, flush, start and stop; implements `FrameHandoff` |
| `FrameEventsProofs` | TLAPS proofs about `FrameEvents` |
| `Mailbox` | command transactions and peripheral reads against interrupt handler and card |
| `Pipeline` | STREAMON to STREAMOFF: vb2, `dma_start`/`dma_stop`, monitor, placeholder, delivery, ioctls, source |
| `RawDelivery` | raw slots: card, drain worker, format ioctls, buffers |
| `Lifecycle` | probe, unwinding and remove against the users of the device |
| `EventWatch` | the watcher of EVENT and its ring |
| `Receiver` | the operations on the MST3367, command by command |
| `Settings` | the seven settings in BAR5 |
| `PipelineProofs`, `RawDeliveryProofs`, `LifecycleProofs`, `ReceiverProofs`, `SettingsProofs` | TLAPS proofs about the module of that name |
| `CommandsProofs` | proofs about `Mailbox`; carries those about `Receiver` over to `MC_Commands` |
| `DeviceProofs` | carries the proofs about the parts over to `MC_Device`, where TLC checks the same properties; holds those about `EventWatch` |
| `MC_FrameEvents`, `MC_Mailbox`, `MC_Pipeline` | small instances; the configurations differ in constants and properties |
| `MC_Commands` | extends `MC_Mailbox` and instantiates `Receiver` beside it; a behaviour belongs to one of the two (`part`) |
| `MC_PipelineSessions` | two instances of `Pipeline` in one run, chosen initially (`profile`) |
| `MC_Device` | extends `Settings` and instantiates `RawDelivery`, `Lifecycle` and `EventWatch` beside it; a behaviour belongs to one of the four (`part`), the variables of the other three rest |

`MC_Device` and `MC_Commands` are disjoint unions and not compositions: their
parts share no state. Their contact with the rest is inside each of them:
`RawDelivery` has the start of a pipeline, `Lifecycle` the capture that remove
must end, `EventWatch` the others that consume the event, and `Receiver`, for
which a command is a step that succeeds or fails, the callers that note the lock.
The constants of the parts are constants of the union, with the assumptions
`RawAssumption`, `WatchAssumption` and `ReceiverAssumption`, which TLC evaluates.

An action is what one actor does between two points where another can
intervene: one locked section, or one unlocked access to a shared word. Names
follow the functions; `PROJECT.json` gives the lines.

### FrameEvents

State: the card's side (`armed`, `last`, `content`, `token`, `event`, `credit`,
`encBusy`), `event_lock` and each acknowledging context's place in
`mz0380_mb_ack_event()` (`hpc`, `seen`, `snap`), the queue under
`frame_event_lock`, the worker (`wpc`, `hand`, `handled`), and the start/stop
path (`ctl`). `frame` in a snapshot, `copied` and `frames` are history.

The card is external: it writes a bitstream only while ENC_STATUS is free, never
into the slot it filled last, announces it, and repeats the announcement at
every pass; before the first bitstream the token nibble may name any slot. The
worker's header check may succeed on a slot whose DMA is still under way
(`WorkerAccept`), as the header lands first.

Abstracted: the 64-cell ring is a sequence with one cell always empty, kernel
timing, the contents of access units. Stop paths send STOP through the mailbox,
which is here the single effect it has (`running' = FALSE`).

### Mailbox

State: the card's job and its parked event bits (msi() delivers every
accumulated bit when it has the credit, see `RE_FINDINGS.md:2875-2878`), the
BAR0 words, `cmd_lock`, `event_lock`, `cmd_complete`, `cmd_last_param`, the
interrupt handler, and a record per caller. Three kinds of command: `short`,
`wide` (the tenth argument lies in STATUS, so only the event tells) and `read`
(`mz0380_periph_read`: a sentinel is pre-loaded, the byte lands after the
completion, and the transaction is repeated once with the inverse sentinel).

Abstracted: a reply is the number of the command it answers. The card answers a
command before its own time is up or never; but the event that signals the
completion of an answered command (`owed`, `CardSignal`) may come any time later.
`TrailEnd` is the end of the trailing window (ten polls of 300-500 us), and it
ends whatever the card has still to signal, so a CMD_DONE of a command that STATUS
completed may arrive during the next call and complete that one. The history
variable `strayed` is set when that happens and reset by the next drain. A call
that times out leaves the card idle, and `CardIgnore` ends a command that is never
answered at any time.

`SuccessIsOwn` exempts the calls during which a completion strayed, since nothing
in the protocol or the code tells a stray completion from the right one;
`TimeoutMeansSilence` exempts them only for wide commands, which have no other
sign of completion than the event whose credit the stray one took; `ReadsOwn`
exempts nothing.

The drain's second condition (INT_FLAG set with EVENT still empty) acknowledges an
event a moment before the model's drain would see it, and is not distinguished.
Commands sent with a zero timeout (the pre-STOP, START) are not in the model: they
post no completion that anything waits for, and the pre-STOP is followed by a
settle time of 1.9 s.

### Pipeline

State: the device flags under their names in the code (`recovering`, `active`,
`waiting`, `pending`, `startFailed`, `accepting`, ...), and where each actor
is: the application inside start/stop_streaming (`upc`), `mz0380_dma_start`
(`start`), the monitor (`rpc`), the placeholder work (`npc`), the delivery half
of the drain worker (`dpc`), and a second reader that queries timings (`qpc`).
The application and the monitor cannot be in `mz0380_dma_start` together: the
monitor is started at the end of STREAMON and awaited by STREAMOFF.

Abstracted:

* an access unit is an IDR picture, a dependent picture, or parameter sets;
* time is one bit, `fresh` (an access unit arrived less than `hotplug_stall_ms`
  ago), cleared by `Stall`;
* a measurement finds the present source or nothing stable; cached timings are
  one of the outcomes;
* which of the queued buffers is taken does not matter (FIFO order is left out);
* the card obeys STOP; SET_VIC may have forked a process even if it timed out;
* `pipeline_*` are stored at the end of a start and modelled at its beginning,
  since nobody reads them in between;
* S_FMT is clamped to the detected source and shares `vdev.lock` with the
  queries;
* left out here: S_FMT switching between raw and H.264 and the sizes of planes
  (`RawDelivery`), the nosg branch (`Lifecycle` has its thread).

### RawDelivery

State: what the card is writing (`card`), the slots as rows of six cells in the
order the card writes them (three hold sentinels, one the last luma rows), the
fields that choose the format (`raw` is `deliver_raw`, `layout` is `raw_fourcc`,
`size` is `capture.width/height`, `saved` the copies TRY_FMT keeps), the
application and its plane sizes, the worker (`w`) between its unlocked accesses to
the slot. The card (external) clears a slot to black, fills it, and goes on to the
next one without waiting for anybody.

`mz0380_raw_probe_frame_landed`, `_filled` and `_chroma_filled` are `Landed`,
`Filled` and `ChromaFilled`; save, re-poison, copy, test and restore are one
action each. Abstracted: a picture is its number in every cell; the copy goes
cell by cell; the sentinel at `frame - frame/16` shares a cell with the last one.

The geometry is the card's ("full", the source's mode when the pipeline was
started) or "small", a mode of which a whole frame lies in the first cell. TRY_FMT
moves it for the time of its answer, S_FMT (and S_DV_TIMINGS in the same way) for
good, as long as no source is known to clamp them. `mz0380_raw_frame_bytes` is
read again, without a lock, by every test and by save, re-poison and restore, so
each of these steps finds the sentinels where the geometry of that moment puts
them (`SentinelsOf`). Within one step the geometry is read once. A geometry larger
than the pipeline's is left out: modes end at the 1080-line frame the raw slots are
sized for, and a larger frame is refused against a plane that was sized for the
smaller one. "small" stands for 1280x720: the planes of an H.264 node (618240
bytes, `video.c:281`) are too small for a raw frame of either size, which is part
of `Fits`; a 480-line frame would fit them and is left out.

History variables name the behaviours that the code does not defend against, and
the properties exempt: `lapped`, slots the card came round to before they were
armed again; `resized`, slots the worker looked at, armed or took by another
geometry than the card's, until the card begins on them anew; `behind`, the
rotation may have come apart, because a picture was dropped, the geometry had
moved when the worker looked, or the pipeline started with `raw_next_slot # 0`
(a restart does not reset it, while the card begins at slot 0). The record `out`
of a delivered buffer says in `lapped` and `resized` whether its slot was one of
those when it was delivered, and in `moved` and `tried` whether a TRY_FMT or S_FMT
moved the layout fields during the delivery.

### Lifecycle

A handler (`mz0380_initdev`, `mz0380_finidev`) is the list of steps it has still
to do. `Get(r)` acquires or fails, and `Failure(r)` is then what the goto labels
leave to do; `Free(r)` gives back what is held. State: `held`, bus mastering,
INTx, `dma_armed`, `fw_state`, membership of the device list, and the users: a
procfs handler, the event watcher, the application, nosg thread, monitor and
pipeline. A STREAMON after `dma_stop` and before the node is gone is possible
(`late`): what it starts outlives the removal, and `CapturePrecedesFree` exempts
it. Binding again after that is not considered. The parameters are `enable_dma`,
`allow_bus_master`, `dma_handshake`, `enable_video`, `enable_audio`,
`stream_nosg`, and whether one of those is set that demand the raw banks (`raw`: a
failure to allocate them ends the set-up of DMA, and is done without otherwise),
in every combination. With `enable_dma=0` and `allow_bus_master=1` the probe sets
bus mastering without any buffers (`EscapeHatch`, `BusMaster`, `pci.c:247-250`),
and with `dma_handshake` before them: `MasterHasBuffers` exempts these two by
name.

### EventWatch

The thread samples EVENT without a lock, takes `cmd_lock` when it sees a word it
did not see last, reads again, records, and acknowledges if asked to. The card
posts and others consume at any moment. An event that repeats the word recorded
last, and comes before the thread saw EVENT empty, is not recorded: the property
says once at most, not once.

### Receiver

`mst3367_lock` is held for the whole of an operation, so operations do not
interleave; what is hard is the error paths. An operation is a list of items.
`Command` executes the first one, or lets it fail with or without its effect, and
a failure leads to the next `Catch` (a goto label, or an error that is forgotten)
or to the end. `Decide` are the driver's own decisions: which branch the data
take is nondeterministic. The chip (external) ignores writes while in reset,
answers writes in the selected bank, and pins obey only while they are outputs,
which depends on a polarity the driver must find out (`right`).

Three things happen without the lock: a caller of `read_signal` stores its verdict
in `signal_locked` (`Note`), STREAMON stores a lock from an earlier measurement
when the source is silent (`Borrow`; so does, in effect, a caller of `read_signal`
that is late until after a reset), and i2cscan asks for a new bring-up (`Scan`).
All three may come at any moment of an operation. Callers test `mst3367_ready`
before they wait for the lock and not again under it, hence `once` in the guards
of the operations; the HPD pulse does not test it at all.

History: `found`, a mode was found at some time; `borrowed`, since the last
bring-up `signal_locked` was set for a mode found before it or from the cache;
`down`, the last request to present the sink failed; `stuck`, a write of the
freeze bit itself failed; `stray`, operations that wrote in a bank they did not
select.

### Settings

Every setting is a field of a word. Words have two bits, ranges are scaled to
that; what counts is which values lie below, inside and above the range and
whether a word has bits of somebody else. `Call`, `Lock`, `Refuse`, `Begin`,
`Write` are the stations of a request by probe, V4L2 or procfs; `Candidate` and
`CandidateEnd` are the two stores of a candidate field, which take no lock. The
words' own writer is the lock's holder only; the card does not change them. The
model is for boards whose words are known (`elgato`) and for others, which adopt
nothing at probe.

History: `given`, each word as its writers left it field by field; `forced`,
settings procfs gave a number of its own, which nobody compares with the range;
`strayed`, words a candidate field was written in.

## 3. Runs

All runs use two workers; sizes are distinct states.

| Run | Instance | Shows |
|---|---|---|
| `frame_events` | 2 slots, interrupt handler + 1 poller, queue of 2 events, 3 bitstreams; 1.6 M | `TypeOK`, `SnapshotIntact`, `NoLostWakeup`, `FlushIsFinal`, `FramesInOrder`, and `ReleasedWhenConsumed` (refinement of `FrameHandoff`) |
| `frame_events_live` | queue of 1, 2 bitstreams, fairness | `EncoderReleased` |
| `frame_events_wipe` | as `frame_events` | `ClearedEventWasRead` is violated |
| `commands`, mailbox | 2 callers + interrupt handler, 4 commands of 3 kinds, the two sentinels as byte values, 1 frame completion; 0.8 M | `SuccessIsOwn`, `TimeoutMeansSilence`, `ReadsOwn` |
| `commands`, receiver | EDID of one chunk, both parameters on or both off, any number of operations; 1.6 M | `EdidUnseen`, `ReadyIsPresented`, `Thawed`, `MatchedIsSettled`, `OwnLockIsLatched`, `OnlyCscStrays` |
| `mailbox_parked` | short commands, 2 frame completions | `CompletionIsOwn` is violated |
| `pipeline` | two instances: 2 modes of different geometry and 1 buffer, or 1 mode, 2 buffers and a second reader; 2.7 M together | `TypeOK`, `StopIsFinal`, `GopIntact`, `OneSpawn`, `NoOrphan` |
| `pipeline_live` | one session, 2 modes, access units with a picture, fairness of the workers; 91 k | `LiveReturns` |
| `device`, raw | 2 slots, 2 layouts (YU12, NV12), 3 pictures, 1 buffer, 2 geometries, 3 pictures and ioctls together | `NoPoison`, `LumaWhole`, `NothingFromBefore`, `KindFitsPlanes`, `DeliveredOnce`, `RotationInOrder` |
| `device`, life | every combination of parameters, any number of bindings | `NoLeak`, `IsrMapped`, `MasterHasBuffers`, `UsersHaveDevice`, `CapturePrecedesFree` |
| `device`, watch | ring of 2, words 1 and 2, 4 events and restarts | `DumpIsNewest`, `RecordedOnce` |
| `device`, set | input select and GOP, one candidate triple in the GOP word, words 0 or 1 at probe, 3 requests, 1 command | `NoLostUpdate`, `ReportsLegal`, `MirrorsHardware` |
| `pipeline_splash`, `_attach`, `_query`, `_stable` | see findings | one violated property each |

Bounds, and why they are enough. Two slots are the fewest that can change hands;
the card never reuses the last one, so more slots only delay reuse. A third
bitstream is needed for one slot to be filled, copied, and filled again while an
old announcement is queued. A queue of two overflows while the worker holds a
third snapshot. Restarts of the stream are not bounded. Four commands let two
callers make two each, or one caller repeat a read; a call is begun only when
two numbers are left, so that a read can always repeat, and `AtRest` marks the
end of the behaviour. One frame completion is enough to take the card's credit
while a command completes. Only the
sentinels are worth having as byte values: any other value is told from either
of them at once. Two modes let the source change under a running
pipeline and come back; sessions are unbounded, except in `pipeline_live`, where
the application stays (`MC_OneSession`), as the property speaks of one. Late
completions need no bound of their own: each belongs to one of the four commands.
Symmetry is used only in runs without liveness properties, over slots, callers
or buffers.

`device` (1.7 M states; `PartTypes` is the type invariant of the part that runs).
Two raw slots let the card be in one while the worker is in the other, and come
round; with three pictures a slot is filled, taken, filled again, and taken again;
two layouts are enough for the copy and the restore to disagree (they differ in
where the chroma sentinels lie; YV12 only swaps the planes); one smaller geometry
puts sentinels where the card's has none, and the reverse. A ring of two wraps
with the third record. Of the settings, one shares its word with bits that are the
card's (the input select) and one fills its word; the one candidate field overlaps
the latter, and a third request is needed to see what the second left behind. The
write gate may be open from the start, so that one command suffices. The theorems
about `Settings` have no such bounds.

`commands` (2.4 M states; `CommandTypes` is the type invariant of the part that
runs). Chunks of the EDID after the first meet the same state as the first. Of
the four combinations of the parameters of `Receiver` two give each parameter both
values; the theorems about `Receiver` are for any set of combinations. Nothing else
is bounded there.

Deadlock is checked in every run but `device`, where every part with a bound
(pictures, events, requests) stops when it is used up. In `Lifecycle`, which has
none, a step is always possible by the shape of the actions: a handler that is not
finished can always go on, save for `ListDel` and `Bind`, which wait for a procfs
reader that can always leave.

### Fairness

`FrameEvents`: the card's loop runs (weak fairness on completing a DMA and on
re-announcing), its interrupt reaches the handler, a handler that was entered
finishes since it runs with interrupts off, and the workqueue runs a queued
item. Nothing is assumed of start, stop, or of command pollers. `EncoderReleased`
has two premises that stand for timing the model does not have: the worker
catches up with the queue again and again, and pollers do not poll for ever.

`Pipeline`: calls and work items that were begun go on (`pipeline_live` needs
this of the workers only, `WorkersRun`); waiting for
`h264_delivery_lock` ends (strong fairness, a kernel mutex is handed over in
turn); the application returns buffers; the lock byte and a measurement of a
source that is present succeed in the end; an encoder whose source is present
produces IDRs again and again; and the placeholder, which rests after every run
of its work, leaves the drain worker a buffer again and again. Nothing is
assumed of the source, of S_FMT, of STREAMON or of STREAMOFF. The other modules
state safety only and assume nothing.

## 4. Findings

Each is a statement of a comment or document that the code does not keep, with a
run in which TLC exhibits the interleaving.

1. `mailbox.c:185-189` says that reading the token snapshot before clearing EVENT
   means a late completion cannot be discarded. `mb_ack_event` clears EVENT also
   when it read nothing under the lock (127-132). `frame_events_live` shows that
   the card's next announcement repairs it.
2. `mailbox.c:185-187` drains a stale event before a new command is assigned; a
   bit parked in the card is out of reach of that drain. The acknowledgement that
   returns the credit (the handler's, that of a trailing window, or, as in the
   trace, the drain's own of a frame completion) lets the card's next event
   deliver it, and it completes the new command.
3. `no-signal.c:147-151` relies on a replay being scheduled while
   `no_signal_active` is set; activate's read (131) and write (133) of the flag
   are not atomic with deactivate (155-160).
4. `vb2.c:132-138` promises the placeholder until the receiver was validated;
   `streaming` is set (130) before the placeholder is activated (139).
5. `signal.c:414-421` keeps the receiver alone while video flows; the test (423)
   is not repeated when the measurement (432) runs.
6. `README.md:375`: "A stable lock then starts the card pipeline once"; the
   shortcut at `signal.c:265-269` includes `pipeline_reconfigure_pending`, so
   after an unfitting source the monitor no longer measures.

Met while modelling, without a run of their own; where a property meets the
case, it exempts it by name:

* a command that STATUS completed may be signalled after the trailing window of
  its call has ended, and that completion then ends the wait of the next call
  (`strayed`, `mailbox.c:299-316`);
* TRY_FMT and S_FMT move the geometry that the drain worker computes the places
  of the sentinels from, in the middle of a delivery (`resized`,
  `dma-extent.c:147`);
* `mst3367.c:846` says that a physical reset "requires the latch pulse", but
  `signal_locked` is stored after the lock was released (`signal.c:105`) and from a
  cached measurement (`vb2.c:190-192`), while i2cscan (`mst3367-bitbang.c:265`)
  lets a bring-up reset the receiver in between; the next commit of a mode then
  skips the pulse (`borrowed`, `mst3367-signal.c:201-208`);
* a restart leaves `raw_next_slot` where it was while the card begins at slot 0,
  so the first pictures may go out of order (`behind`);
* a raw copy is dropped as torn only if every sentinel was written again, while
  the comment at `dma-drain.c:607-616` says that a frame is discarded if the card
  wrote into the slot during the copy. A card that comes round to a slot that is
  still waiting (`lapped`) can be under way in it without having reached the last
  sentinel, and the picture delivered is mixed;
* `apply_csc_mode` writes in whatever bank an earlier failed operation left when
  the colour space is cached (`OnlyCscStrays` exempts it by name);
* INTx is unmasked as soon as the vectors are allocated, before the handler is
  requested, while the comment at `pci.c:184-190` says "once an ISR exists";
  `Lifecycle` keeps `intx` as the code does, and no property needs it;
* TRY_FMT answers through `deliver_raw` and `raw_fourcc`, and REQBUFS, which
  holds another lock, may size its planes for the tried format (`tried`);
* a STREAMON between `dma_stop` and the removal of the node starts a capture
  that nobody stops (`late`, `pci.c:291`).

## 5. Proofs

Every theorem holds for all values of the constants that satisfy the named
assumptions. The pattern is the same throughout: none of the safety invariants is
inductive as it stands, so each proof module strengthens them to an `IInv`, a
conjunction of named parts, proves that it holds initially and is preserved (a
lemma per part, in it a step per action that can disturb the part), and reads the
properties off it. TLC checked every `IInv` on the small instances before it was
proved.

### FrameEventsProofs

From `SlotsAssumption`, `ContextsAssumption`, `SizesAssumption`; for any set of
slots and contexts, any size of the queue and any number of bitstreams.
`TypeCorrect`, `Inductive`; the invariants `SnapshotsStayIntact`, `WakeupsKept`,
`FlushesAreFinal`; the refinement `ImplementsHandoff`; and, for the action
property `FramesInOrder`, `Ordered` and `ConsumedInOrder`.

`SnapshotIntact` needs to know why the card cannot overwrite: either the slot is
the last one it filled, which it never picks, or ENC_STATUS is busy and no DMA is
under way (`Safe`). That in turn holds because ENC_STATUS is lowered only by an
owner who owes nothing: the worker at the end of a batch, a handler that drops an
event with no drain scheduled (`AckNowInv`), and the start path, at which time the
queue is shut and no handler is past its test of it (`ShutInv`, `LockInv`).
`ScheduledInv` ties the scheduled flag to worker, work item and queue; `FlushInv`
says what each stage of the flush has achieved; `RestInv` and `TokenInv` relate
token, slots and a card at rest.

`FramesInOrder` speaks of one step, the end of a copy, and needs a second
invariant on top (`FrameOrder`). Bitstreams are numbered and each is in one slot
(`NumberInv`). The snapshot in the worker's hand, the queue, the snapshot a
handler is about to queue and the token registers form one line, along which the
bitstreams are in order (`OrderInv`). It stays in order when the card writes into
a slot again, although a token of that slot might still wait in the line, because
the card begins a bitstream only when ENC_STATUS is free, and then everything in
the line names the slot it finished last (`TurnInv`). `AheadInv` says that what
waits is newer than what was consumed, unless it repeats the last token; that is
where the worker's test against `h264_last_token` is needed, and why forgetting
that token is harmless only once the slots are poisoned. The lemma `Moves` reduces
the twenty-six actions to the six things a step can do to the line.

### CommandsProofs: the mailbox

`CommandsProofs` extends `MC_Commands`, which is a `Mailbox` that may rest
(`MailboxRuns`). From `MailboxAssumption`; for any set of callers, values of registers, and bounds
on commands and frame completions. `TypeCorrect`, `Inductive`, `RepliesArePaired`
(`SuccessIsOwn`), `NoAnswerIsLost` (`TimeoutMeansSilence`), `ReadsAreOwn`
(`ReadsOwn`).

`Locks` gives `cmd_lock` and `event_lock` their owners, `Numbered` makes the job
of the card the command of the one caller that is polling. `Peripheral` says what
PARAM3 can hold from the doorbell of a read on: the sentinel or the register's
value, which may coincide with the first sentinel but then not with the second.
While no frame completion was announced,
nothing is parked in the card but the completion of a command, and the card has
its credit exactly while EVENT is empty (`Credit`). The other parts are about
such a card (`Calm`) and a call during which no completion of an older command
strayed in; a streaming card and a stray completion both break the pairing, as
section 4 shows. The mailbox is empty from the drain to
the doorbell (`Drained`), whatever trace of a completion a poller can see
afterwards is of its own command (`Traces`), and a poller whose command was
answered sees one (`Visible`), whichever of poller and interrupt handler consumed
the event. `Visible` needs `Calm` only of a wide command, since the answer of
another one is seen in STATUS; `TimeoutMeansSilence` exempts as much. `ReadsOwn`
does not rest on any of this: the sentinels tell a byte that has landed.

### PipelineProofs

From the assumptions of `Pipeline`; for any number of buffers, modes, pictures
and measurements. `TypeCorrect`, `Inductive`, `StopsAreFinal` (`StopIsFinal`),
`GopsStayIntact` (`GopIntact`), `SpawnedOnce` (`OneSpawn`), `EncodersAreOwned`
(`NoOrphan`).

`Session` says what each stage of STREAMON and STREAMOFF excludes: application
and monitor are never in `mz0380_dma_start` together, a stop that was published
leaves no start behind, and the buffers are returned when the drain worker and
the placeholder are out. `Spent` relates the attempt of a session to the outcome
of its SET_VIC. `Gate` relates `waiting` to the group of pictures the consumer
has: who is past the gate test, under which lock, and with what access unit.
`NoOrphan` is inductive with them.

### RawDeliveryProofs, LifecycleProofs, ReceiverProofs, DeviceProofs

`RawDeliveryProofs` and `LifecycleProofs` hold the inductive invariants of their
modules and lemmas for their steps, `DeviceProofs` the theorems and what concerns
the event watcher: `MC_Device` runs one part at a time, so each invariant carries
over to it (`OnePart`), under `RawAssumption` (at least one slot; layouts that are
not H.264) and `WatchAssumption` (a ring with at least one entry; event words that
are not zero). `PartsAreTyped` (`PartTypes`) puts the types of all four together,
those of the settings by `TypeCorrect` of `SettingsProofs`, since `MC_Device` is a
`Settings` that may rest. In the same way `ReceiverProofs` holds the invariant of the receiver
and its lemmas, and `CommandsProofs` the theorems.

Raw delivery, for any number of slots, pictures, buffers, ioctls and layouts:
`RawInductive`, `SentinelsAreRestored` (`NoPoison`), `LumaIsOnePicture`
(`LumaWhole`), `SlotsAreFresh` (`NothingFromBefore`), `KindsFit`
(`KindFitsPlanes`), `PicturesGoOutOnce` (`DeliveredOnce`), `PicturesGoOutInOrder`
(`RotationInOrder`). A slot that the card did not come round to while it was
wanted and that the worker did not touch by another geometry (it is not `Spoilt`,
that is `lapped` or `resized`) is blank, in the card's hands, or one whole picture
(`Sound`), and what a test of the worker finds in it is the whole of it (`Whole`);
the card writes a slot from its first cell to its last (`Written`), which is what
makes the last sentinel a test for all of them; the number of a picture determines
its slot (`Home`, `Mine`), and the rotation stands at the oldest picture that
waits (`Rotation`). The proof found that `LumaWhole` and `NothingFromBefore`, as
they were stated before, failed for a single slot: they exempted a slot the card
came round to when they were evaluated and not when the picture was delivered, so
that arming the slot again ended the exemption too early. They now use `lapped`
and `resized` of `out`.

Event watcher, for a ring of any size, any words and any number of events:
`WatchInductive`, `DumpsAreNewest` (`DumpIsNewest`), `EventsAreRecordedOnce`
(`RecordedOnce`). `Newest` says at which index of the ring each of the newest
records is, on both sides of the wrap, `Fresh` which event the thread remembers.

Life of the device: `LifeInductive`, `NothingIsLeaked` (`NoLeak`),
`InterruptsAreMapped` (`IsrMapped`), `MastersHaveBuffers` (`MasterHasBuffers`),
`UsersFindTheDevice` (`UsersHaveDevice`, of procfs handlers and the watcher),
`CapturesEndInTime` (`CapturePrecedesFree`). `Lifecycle` has no constants, so
TLC's run visits all of its states and the theorems add the reason. None of the
properties is inductive, because a step of a handler is right or wrong by what the
list of steps still to do makes of it. `Handling` says it: a handler that will
bind the device (`Going`) is still acquiring what every path needs (`Opening`) or
has it and looks ahead to steps that may be left out by the options but keep their
order (`Ahead`: bus mastering after the buffers or, without DMA, by the escape
hatch, nothing acquired after the node but audio); any other one, a failed probe
or a removal, is `Closing`: it acquires nothing, it gives back all that is held,
and in the right order, each named by `Before` (the interrupt before its
registers, disarming before the buffers, the node before what it points to).
`Resting`, `Mastering`, `Using` and `Captured` are what holds of a device nobody
is probing or removing, of the card's mastering of the bus, of the procfs users,
and of captures. That a failure turns an `Ahead` list into a `Closing` one is
shown by one lemma per goto label, from a property of the tail that label leaves
(`Closes`, `Gives`, `Unmakes`).

Receiver, from `ReceiverAssumption` (the EDID is a number of chunks, the module
parameters are on or off): `RxInductive`, `CommandsAreTyped` (`CommandTypes`, with
the mailbox's `TypeCorrect`), `EdidIsLoadedUnseen` (`EdidUnseen`),
`ReadyReceiversArePresented` (`ReadyIsPresented`), `FreezesAreUndone` (`Thawed`),
`MatchedModesAreSettled` (`MatchedIsSettled`), `LocksAreLatched`
(`OwnLockIsLatched`), `BankedWritesLand` (`OnlyCscStrays`). The properties are
about the receiver between operations, so the invariant has to say what the items
still to do will make of it, with every error path among them. `Will` and `Kept`
give that one form: wherever an item needs something, either it holds now and no
item up to there ends it, or an item makes it on the way, nothing after that ends
it, and there is no catch item between the two, by which an error could arrive
without it. `Banked` (the bank of every write), `Power` (the polarity before a
reset and before a look at the bus), `Hidden` (HPD low before the EDID), `Settled`
(hunt over, latch pulsed and freeze undone before a mode is matched) and `Shows`
(HPD high at the end) instantiate it. Three parts are not of that form: the freeze
is undone by one of a few fixed endings (`Undoes`), which a failure after the
freeze bit reaches at its own catch item; a bring-up does not touch HPD before its
last look at the bus (`Revived`), because until then the pins may not be outputs;
and the EDID is loaded once, before the first catch item and never after a failure
(`Once`), so the handler of its error cannot swallow another one. Steps are of
five sorts (`Actions`): the head is done or an error jumps (`Passing`), the head
is replaced by a list (`Splicing`), a signal, lock, watch or diagnostic operation
decides on a new list (`Fetching`), an operation begins, or ends; for the first
two, lemmas over arbitrary lists carry `Will` over (`WillTail`, `WillJump`,
`WillSplice`), and the rest is a look at the items.

### SettingsProofs

From `SettingsAssumption` (the settings are some of the seven, the candidate fields
are fields of any register, shift and width, the words at probe fit), for any
number of requests and commands: `TypeCorrect`, which includes that a
read-modify-write of a valid field stays in its word and that `ctrl_lock` is held
by the one caller past it; `Inductive`; `UpdatesAreKept` (`NoLostUpdate`),
`ReportsAreLegal` (`ReportsLegal`), `CacheMirrors` (`MirrorsHardware`).

`NoLostUpdate` needs that what a request read is still in the word when it writes
(`Fresh`), which holds because only the holder of `ctrl_lock` is between the two
(`Locked`, `OneReader`). `ReportsLegal` needs that requests on their way carry
legal numbers unless they are procfs's (`Asked`), and that nobody asks while the
words are adopted (`Phased`). `MirrorsHardware` needs in addition that no two
settings share a word (`OwnWord`), and what `Put` and `Field` do to each other in
the three ways a field can lie in a word (`PutField`).

### Only model-checked

* Liveness (`EncoderReleased`, `LiveReturns`): out of the prover's reach under
  fairness.

## 6. Not modelled

* Byte-level classification of access units and the parameter-set cache
  (`dma-drain.c`): sequential arithmetic over a buffer the worker owns; better
  served by unit tests over bytes. `Pipeline` takes its verdict as input.
* The polling drain thread (`poll_drain_ms`), the unformatted delivery of
  `h264_probe=0`, the fake frames of `stream_nosg`, and the bounded raw bank probe:
  diagnostics, off by default. `Lifecycle` has the nosg thread's start and join.
* `wscan`, `edidhunt`, `edidburn` and the register dump of the receiver:
  exploration of unknown hardware from procfs.
* Mode matching and timing tables (`mst3367-signal.c`, `video.c`): pure
  functions; their outcomes are choices.
* Answers that arrive after a timeout: the mailbox has no tag by which any
  driver could tell them from the next command's. The late event of a command
  that was answered in time is modelled.
* The order of procfs creation at module load, the device counter, a file
  descriptor that stays open past the removal (V4L2 keeps the node's memory).
* The candidate readers and syncs of `controls-read.c` (dumps; no caller), the
  V4L2 core's own handling of volatile controls: it does not pass a write to
  `s_ctrl` when the control is VOLATILE without EXECUTE_ON_WRITE, so some of the
  requests of `Settings` may not be reachable from a V4L2 caller; the model lets
  all of them through.
* Snapshots, parameters, audio PCM (no transport exists), scripts.

`PROJECT.json` gives each component's state, and under its hazards the ones that
no property covers, with the reason.

## 7. Plan

Done: every safety invariant, action property and refinement that a run checks is
proved as a theorem, for all values of the constants. Liveness is model-checked.

Left, in order of importance:

1. `PollCapture`: the poll drain thread against STREAMOFF.
2. Classification and mode matching as operators over bounded inputs.
