------------------------------ MODULE Lifecycle ------------------------------
(***************************************************************************)
(* Binding and unbinding of one card: mz0380_initdev acquires one thing    *)
(* after another, any of them may fail, and mz0380_finidev gives all of    *)
(* them back while procfs readers, the event watcher, an application and   *)
(* the capture it started still use the device.                            *)
(*                                                                         *)
(* A handler is the list of the steps it has still to do.  Get(r) acquires *)
(* r or fails, and Failure(r) is then what is left to do; Free(r) gives r  *)
(* back if it is held (every release in the code tests that); Call(f) is   *)
(* anything else.                                                          *)
(***************************************************************************)
EXTENDS Naturals, Sequences

VARIABLES
    opt,        \* module parameters and board
    phase,      \* "unbound", "probe", "bound", "remove"
    todo,       \* the steps initdev or finidev has still to do
    held,       \* what the device holds
    master,     \* PCI_COMMAND: bus mastering
    intx,       \* PCI_COMMAND: the INTx line is unmasked
    armed,      \* dma_armed
    fw,         \* fw_state
    listed,     \* on mz0380_devlist
    reader,     \* a procfs handler is inside devlist with the device
    watcher,    \* event_kthread
    on,         \* an application streams
    nosg,       \* nosg_task
    monitor,    \* signal_recovery_work is scheduled
    running,    \* pipeline_running
    late        \* history: STREAMON came after the capture was stopped

vars == <<opt, phase, todo, held, master, intx, armed, fw, listed, reader,
          watcher, on, nosg, monitor, running, late>>

Options == [dma : BOOLEAN, bus : BOOLEAN, handshake : BOOLEAN, raw : BOOLEAN,
            video : BOOLEAN, audio : BOOLEAN, nosg : BOOLEAN]

(* allow_bus_master without enable_dma: "legacy escape hatch: bus-master   *)
(* without DMA setup".                                                     *)
EscapeHatch == opt.bus /\ ~opt.dma

Bars == {"bar0", "bar5"}
Buffers == {"stream", "h264", "sets"}
Resources == {"dev", "pci", "vectors", "isr", "raw", "v4l2", "ctrls", "video",
              "audio"} \cup Bars \cup Buffers

Get(r) == [do |-> "get", what |-> r]
Free(r) == [do |-> "free", what |-> r]
Call(f) == [do |-> "call", what |-> f]

Init ==
    /\ opt \in Options /\ phase = "unbound" /\ todo = <<>> /\ held = {}
    /\ master = FALSE /\ intx = TRUE /\ armed = FALSE /\ fw = "none"
    /\ listed = FALSE /\ reader = FALSE /\ watcher = FALSE
    /\ on = FALSE /\ nosg = FALSE /\ monitor = FALSE /\ running = FALSE
    /\ late = FALSE

captureVars == <<on, nosg, monitor, running, late>>
userVars == <<reader, watcher, captureVars>>

-----------------------------------------------------------------------------
(***************************************************************************)
(* The lists of steps.                                                     *)
(***************************************************************************)
(* Mutant: the vectors are kept.                                           *)
IrqRelease_IsrOnly == <<Free("isr")>>

IrqRelease == <<Free("isr"), Free("vectors")>>

Unregister == <<Free("audio"), Free("video"), Free("ctrls"), Free("v4l2"),
                Free("bar5"), Free("bar0")>>
FailDisable == <<Free("pci"), Free("dev")>>

(* Mutant: the buffers go before the card is told to stop writing.         *)
DmaTeardown_FreeFirst ==
    <<Free("sets"), Free("raw"), Free("h264"), Free("stream"), Call("disarm")>>

DmaTeardown ==
    <<Call("disarm"), Free("sets"), Free("raw"), Free("h264"), Free("stream")>>

(* fail_dma of mz0380_initdev.                                             *)
FailDma == IrqRelease \o DmaTeardown \o <<Call("fw_release")>> \o Unregister
               \o FailDisable

(* mz0380_card_setup after the controls and the receiver, and the binding. *)
CardSetup ==
    (IF opt.video THEN <<Get("v4l2"), Get("ctrls"), Get("video")>> ELSE <<>>)
    \o (IF opt.video /\ opt.audio THEN <<Get("audio")>> ELSE <<>>)
    \o <<Call("bind")>>

Dma == IF opt.dma
       THEN <<Get("vectors"), Get("isr"), Get("stream"), Get("h264"),
              Get("sets"), Get("raw"), Call("arm")>>
       ELSE <<Call("bus_master")>>

Probe == <<Get("dev"), Get("pci"), Get("bar0"), Get("bar5"), Call("firmware")>>
             \o Dma \o CardSetup

(* Mutants of finidev: the node is torn down before the interrupt, as it   *)
(* was before M84; the watcher is stopped while procfs can start another;  *)
(* the thread that polls the buffers is not joined.                        *)
Quiesce == <<Call("watch_stop"), Call("nosg_stop"), Call("dma_stop")>>
Release == DmaTeardown \o <<Call("fw_release"), Call("clear_master")>>
               \o FailDisable
Remove_UnmapFirst ==
    <<Call("list_del")>> \o Quiesce \o Unregister \o IrqRelease \o Release
Remove_WatchFirst ==
    <<Call("watch_stop"), Call("list_del"), Call("nosg_stop"), Call("dma_stop")>>
        \o IrqRelease \o Unregister \o Release
Remove_NoJoin ==
    <<Call("list_del"), Call("watch_stop"), Call("dma_stop")>>
        \o IrqRelease \o Unregister \o Release

Remove ==
    <<Call("list_del")>> \o Quiesce \o IrqRelease \o Unregister \o Release

(* What is left to do when r could not be acquired.  Without interrupt or  *)
(* buffers the probe goes on without streaming; optional raw banks and     *)
(* audio are done without.                                                 *)
NoDma == IrqRelease \o CardSetup

Failure(r) ==
    CASE r = "dev" -> <<>>
      [] r = "pci" -> <<Free("dev")>>
      [] r \in Bars -> <<Free("bar5"), Free("bar0")>> \o FailDisable
      [] r = "vectors" -> CardSetup
      [] r = "isr" -> <<Free("vectors")>> \o CardSetup
      [] r = "stream" -> NoDma
      [] r = "h264" -> <<Free("stream")>> \o NoDma
      [] r = "sets" -> <<Free("h264"), Free("stream")>> \o NoDma
      [] r = "raw" ->
            IF opt.raw
            THEN <<Free("sets"), Free("h264"), Free("stream")>> \o NoDma
            ELSE Tail(todo)
      [] r = "v4l2" -> FailDma
      [] r = "ctrls" -> <<Free("v4l2")>> \o FailDma
      [] r = "video" -> <<Free("ctrls"), Free("v4l2")>> \o FailDma
      [] r = "audio" -> Tail(todo)

-----------------------------------------------------------------------------
(***************************************************************************)
(* The steps.                                                              *)
(***************************************************************************)
Step(s) == todo # <<>> /\ Head(todo) = s

(* pci_enable_device is followed by clear_master and the masking of INTx,  *)
(* and by set_master with dma_handshake; mz0380_irq_request unmasks INTx   *)
(* as soon as it has a vector.                                             *)
Acquire(r) ==
    /\ Step(Get(r))
    /\ held' = held \cup {r}
    /\ todo' = Tail(todo)
    /\ intx' = IF r = "pci" THEN FALSE ELSE intx \/ r = "vectors"
    /\ master' = IF r = "pci" THEN opt.handshake ELSE master
    /\ UNCHANGED <<opt, phase, armed, fw, listed, userVars>>

(* A failed probe ends unbound when nothing is left to do.                 *)
Ends(steps) == IF steps = <<>> THEN "unbound" ELSE phase

AcquireFails(r) ==
    /\ Step(Get(r))
    /\ todo' = Failure(r)
    /\ phase' = Ends(Failure(r))
    /\ UNCHANGED <<opt, held, master, intx, armed, fw, listed, userVars>>

(* pci_disable_device clears bus mastering itself.                         *)
GiveBack(r) ==
    /\ Step(Free(r))
    /\ held' = held \ {r}
    /\ master' = (master /\ r # "pci")
    /\ todo' = Tail(todo)
    /\ phase' = Ends(Tail(todo))
    /\ UNCHANGED <<opt, intx, armed, fw, listed, userVars>>

(* mz0380_firmware_load: a deaf card does not end the probe.               *)
Firmware ==
    /\ Step(Call("firmware")) /\ todo' = Tail(todo)
    /\ fw' \in {"ready", "failed"}
    /\ UNCHANGED <<opt, phase, held, master, intx, armed, listed, userVars>>

FirmwareRelease ==
    /\ Step(Call("fw_release")) /\ todo' = Tail(todo)
    /\ fw' = "none"
    /\ UNCHANGED <<opt, phase, held, master, intx, armed, listed, userVars>>

(* The end of mz0380_dma_setup, and the beginning of mz0380_dma_teardown.  *)
ArmDma ==
    /\ Step(Call("arm")) /\ todo' = Tail(todo)
    /\ master' = TRUE /\ armed' = TRUE
    /\ UNCHANGED <<opt, phase, held, intx, fw, listed, userVars>>

(* Without enable_dma: the escape hatch, if it is open.                    *)
BusMaster ==
    /\ Step(Call("bus_master")) /\ todo' = Tail(todo)
    /\ master' = (master \/ EscapeHatch)
    /\ UNCHANGED <<opt, phase, held, intx, armed, fw, listed, userVars>>

Disarm ==
    /\ Step(Call("disarm")) /\ todo' = Tail(todo)
    /\ master' = (master /\ ~armed) /\ armed' = FALSE
    /\ UNCHANGED <<opt, phase, held, intx, fw, listed, userVars>>

ClearMaster ==
    /\ Step(Call("clear_master")) /\ todo' = Tail(todo)
    /\ master' = FALSE
    /\ UNCHANGED <<opt, phase, held, intx, armed, fw, listed, userVars>>

(* The list is changed under the mutex a procfs handler holds throughout.  *)
Bind ==
    /\ Step(Call("bind")) /\ todo' = <<>> /\ phase' = "bound"
    /\ ~reader /\ listed' = TRUE
    /\ UNCHANGED <<opt, held, master, intx, armed, fw, userVars>>

ListDel ==
    /\ Step(Call("list_del")) /\ todo' = Tail(todo)
    /\ ~reader /\ listed' = FALSE
    /\ UNCHANGED <<opt, phase, held, master, intx, armed, fw, userVars>>

WatchStop ==
    /\ Step(Call("watch_stop")) /\ todo' = Tail(todo)
    /\ watcher' = FALSE
    /\ UNCHANGED <<opt, phase, held, master, intx, armed, fw, listed, reader,
                   captureVars>>

NosgStop ==
    /\ Step(Call("nosg_stop")) /\ todo' = Tail(todo)
    /\ nosg' = FALSE
    /\ UNCHANGED <<opt, phase, held, master, intx, armed, fw, listed, reader,
                   watcher, on, monitor, running, late>>

(* mz0380_dma_stop: no more recovery, then STOP.                           *)
DmaStop ==
    /\ Step(Call("dma_stop")) /\ todo' = Tail(todo)
    /\ monitor' = FALSE /\ running' = FALSE
    /\ UNCHANGED <<opt, phase, held, master, intx, armed, fw, listed, reader,
                   watcher, on, nosg, late>>

Driver ==
    \/ \E r \in Resources : Acquire(r) \/ AcquireFails(r) \/ GiveBack(r)
    \/ Firmware \/ FirmwareRelease \/ ArmDma \/ BusMaster \/ Disarm
    \/ ClearMaster \/ Bind \/ ListDel \/ WatchStop \/ NosgStop \/ DmaStop

(* The bus (external) binds and unbinds; nothing binds twice at once.      *)
BindRequest ==
    /\ phase = "unbound" /\ ~late
    /\ phase' = "probe" /\ todo' = Probe
    /\ UNCHANGED <<opt, held, master, intx, armed, fw, listed, userVars>>

UnbindRequest ==
    /\ phase = "bound"
    /\ phase' = "remove" /\ todo' = Remove
    /\ UNCHANGED <<opt, held, master, intx, armed, fw, listed, userVars>>

-----------------------------------------------------------------------------
(***************************************************************************)
(* The users of the device.                                                *)
(***************************************************************************)
userFrame == <<opt, phase, todo, held, master, intx, armed, fw, listed>>

ProcEnter ==
    /\ listed /\ ~reader /\ reader' = TRUE
    /\ UNCHANGED <<userFrame, watcher, captureVars>>

(* A write to mz0380-events starts or stops the watcher.                   *)
ProcWatch ==
    /\ reader /\ watcher' = ~watcher
    /\ UNCHANGED <<userFrame, reader, captureVars>>

ProcLeave ==
    /\ reader /\ reader' = FALSE
    /\ UNCHANGED <<userFrame, watcher, captureVars>>

(* STREAMON on a registered node needs dma_armed.                          *)
Stopped == phase = "remove" /\ \A i \in 1..Len(todo) : todo[i] # Call("nosg_stop")

StreamOn ==
    /\ "video" \in held /\ ~on /\ armed
    /\ on' = TRUE
    /\ nosg' = opt.nosg
    /\ monitor' = ~opt.nosg /\ running' = (running \/ ~opt.nosg)
    /\ late' = (late \/ Stopped)
    /\ UNCHANGED <<userFrame, reader, watcher>>

(* STREAMOFF joins the thread or the monitor; the pipeline goes on.        *)
StreamOff ==
    /\ on /\ "dev" \in held
    /\ on' = FALSE /\ nosg' = FALSE /\ monitor' = FALSE
    /\ UNCHANGED <<userFrame, reader, watcher, running, late>>

Next == \/ Driver \/ BindRequest \/ UnbindRequest
        \/ ProcEnter \/ ProcWatch \/ ProcLeave \/ StreamOn \/ StreamOff

Spec == Init /\ [][Next]_vars

-----------------------------------------------------------------------------
(***************************************************************************)
(* Properties.                                                             *)
(***************************************************************************)
(* Types; a handler has steps to do exactly while it runs, and the video   *)
(* node exists only with what it was made from.                            *)
TypeOK ==
    /\ opt \in Options /\ phase \in {"unbound", "probe", "bound", "remove"}
    /\ (todo # <<>>) <=> phase \in {"probe", "remove"}
    /\ held \subseteq Resources
    /\ {master, intx, armed, listed, reader, watcher, on, nosg, monitor, running,
        late} \subseteq BOOLEAN
    /\ fw \in {"none", "ready", "failed"}
    /\ "video" \in held => {"dev", "pci", "v4l2", "ctrls"} \subseteq held

(* A probe that failed anywhere, and a removal, leave nothing behind:      *)
(* no memory, region, vector or node, no bus mastering, no thread.         *)
NoLeak ==
    phase = "unbound" =>
        /\ held = {} /\ ~master /\ ~armed /\ ~listed /\ ~reader /\ ~watcher
        /\ fw = "none"
        /\ ~late => ~nosg /\ ~monitor /\ ~running

(* M84: while the interrupt handler can be called on a shared line, the    *)
(* registers it reads are mapped.                                          *)
IsrMapped == "isr" \in held => Bars \subseteq held

(* The card may write to memory only while the buffers it knows exist.     *)
(* Two parameters are exempt by name, under which the card masters the bus *)
(* before or without being given an address: dma_handshake, and            *)
(* allow_bus_master in the place of enable_dma.                            *)
MasterHasBuffers ==
    /\ armed => Buffers \subseteq held
    /\ master /\ ~opt.handshake /\ ~EscapeHatch => armed

(* Whoever reads registers of a listed device finds them mapped: a procfs  *)
(* handler, and the event watcher it may have started.                     *)
UsersHaveDevice == reader \/ watcher => Bars \cup {"dev"} \subseteq held

(* A capture that began before the removal is over when its registers and  *)
(* buffers go.                                                             *)
CapturePrecedesFree ==
    nosg \/ monitor \/ running =>
        late \/ ({"dev", "stream"} \cup Bars \subseteq held)
=============================================================================
