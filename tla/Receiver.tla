------------------------------- MODULE Receiver -------------------------------
(***************************************************************************)
(* The MST3367 receiver.  It is programmed one mailbox command at a time,  *)
(* and mst3367_lock is held for the whole of an operation; what makes an   *)
(* operation hard is that any command of it may fail, with or without its  *)
(* effect (a timeout does not say), that a register means something only   *)
(* in its bank, and that the board pins obey only while they are outputs.  *)
(*                                                                         *)
(* An operation is the list of the items it has still to do.  A command    *)
(* that fails ends the operation at the next "catch" item, or altogether;  *)
(* the code writes that as an early return, goto failed or goto out.       *)
(* The firmware answers a write nobody acknowledged with success; a        *)
(* receiver held in reset swallows writes that way.                        *)
(***************************************************************************)
EXTENDS Integers, Sequences

CONSTANTS
    Chunks,         \* EDID_SIZE / EDID_CHUNK
    Options         \* values of the two module parameters in opt

VARIABLES
    opt,        \* edid_timeout_ms = 0?  mst_win_output?
    op,         \* the operation that holds mst3367_lock, or "idle"
    todo,       \* its items
    failed,     \* ret # 0
    acq,        \* read_signal: acquisition_enabled
    ready,      \* mst3367_ready
    locked,     \* signal_locked
    known,      \* mst_b2_48_valid: the source's colour space was read
    note,       \* a caller of read_signal is about to set signal_locked
    found,      \* a mode was found, now or before a bring-up
    once,       \* mst3367_ready was seen by a caller that waits for the lock
    borrowed,   \* history: signal_locked was set for another mode than one
                \* measured since the reset
    right,      \* gpio_dir_invert is the polarity the board has
    chip,       \* the receiver: alive, bank and the registers of interest
    pin,        \* levels: hpd (active low) and the EDID mux
    output,     \* pins that are outputs
    matched,    \* history: the last operation found a mode
    down,       \* history: the last edid or hpd request failed
    stuck,      \* history: the freeze bit is set and a write of it failed
    stray       \* history: operations that wrote in a bank they did not mean

vars == <<opt, op, todo, failed, acq, ready, locked, known, note, found, once,
          borrowed, right, chip, pin, output, matched, down, stuck, stray>>

Pins == {"hpd", "mux", "reset"}
Banks == {0, 1, 2, 3, 128}
Registers == {"hpd", "auto", "frozen", "latch", "other"}
Blank == [alive |-> FALSE, bank |-> 0, hpd |-> FALSE, auto |-> FALSE,
          frozen |-> FALSE, latched |-> FALSE]

Init ==
    /\ opt \in Options
    /\ op = "idle" /\ todo = <<>> /\ failed = FALSE /\ acq = FALSE
    /\ ready = FALSE /\ locked = FALSE /\ note = FALSE /\ known = FALSE
    /\ found = FALSE /\ once = FALSE /\ borrowed = FALSE
    /\ right \in BOOLEAN /\ chip = Blank
    /\ pin \in [hpd : {0, 1}, mux : {0}] /\ output = Pins
    /\ matched = FALSE /\ down = FALSE /\ stuck = FALSE
    /\ stray = {}

-----------------------------------------------------------------------------
(***************************************************************************)
(* Items: commands to the card, and steps of the driver itself.            *)
(***************************************************************************)
Item(what, arg, val) == [what |-> what, arg |-> arg, val |-> val, try |-> FALSE]
Try(item) == [item EXCEPT !.try = TRUE]
Bank(b) == Item("bank", "none", b)
Write(reg, b, bit) == Item("write", reg, [bank |-> b, bit |-> bit])
Batch(b) == Write("other", b, 0)
Output(p) == Item("output", p, 0)
SetPin(p, level) == Item("pin", p, level)
Read == Item("read", "none", 0)
Step(name) == Item("step", name, 0)
Catch(name) == Item("catch", name, 0)

Commands == {"bank", "write", "output", "pin", "read", "edid"}

(* Mutant: the pin is driven as if it were active high (as before M69).    *)
Hpd_ActiveHigh(on) == <<Bank(0), Write("hpd", 0, on), Output("hpd"),
                        SetPin("hpd", on), Read>>

(* mz0380_mst3367_hpd: the receiver's bit, then the pin, then a sample.    *)
Hpd(on) == <<Bank(0), Write("hpd", 0, on), Output("hpd"),
             SetPin("hpd", 1 - on), Read>>

(* The pin pulses of mz0380_mst3367_reset.                                 *)
Reset == <<Output("hpd"), Output("reset"), SetPin("reset", 0),
           SetPin("reset", 1)>>

InitRegs ==
    <<Bank(0), Write("hpd", 0, 0), SetPin("hpd", 1), Batch(0),
      Bank(1), Batch(1), Bank(2), Batch(2), Bank(0),
      Write("frozen", 0, 0), Write("hpd", 0, 0),
      Bank(2), Batch(2), Bank(0), Write("hpd", 0, 1), Write("auto", 0, 1),
      Bank(2), Batch(2), Bank(128), Batch(128), Bank(0)>>

(* mz0380_mst3367_load_edid: the mux, which is only warned about, the      *)
(* chunks, a read-back that only warns, and the mux again.                 *)
LoadEdid ==
    <<Try(Output("mux")), Try(SetPin("mux", 1))>>
    \o (IF opt.async THEN <<Step("refuse")>>
        ELSE [i \in 1..Chunks |-> Item("edid", "none", i)]
             \o <<Catch("mux"), Try(SetPin("mux", 0))>>)

(* Mutant: HPD rises before the EDID is there.                             *)
Present_HpdFirst == Hpd(0) \o Hpd(1) \o <<Step("edid")>>

(* The card is presented as a sink: HPD falls, the EDID, HPD rises.        *)
Present == Hpd(0) \o <<Step("edid")>> \o Hpd(1)

Bringup ==
    <<Step("unready")>> \o Reset \o <<Bank(0), Step("alive")>>
    \o InitRegs \o Present \o <<Step("ready")>>

Pulse == Hpd(0) \o Hpd(1)

(* One pass of mst3367_measure_once; what comes after the verdict is best  *)
(* effort.                                                                 *)
Measure == <<Bank(0), Read, Try(Bank(2)), Try(Bank(0))>>

(* mst3367_commit_digital_output: what comes before the freeze, ...        *)
Latch == <<Bank(2), Read, Write("latch", 2, 1), Write("latch", 2, 0)>>
(* Mutant: the bank of the latch is still selected.                        *)
Commit_NoBank ==
    (IF locked THEN <<>> ELSE Latch)
    \o (IF opt.windows THEN <<>> ELSE <<Batch(0), Write("frozen", 0, 1)>>)
    \o <<Step("frozen")>>

Commit ==
    (IF locked THEN <<>> ELSE Latch) \o <<Bank(0)>>
    \o (IF opt.windows THEN <<>> ELSE <<Batch(0), Write("frozen", 0, 1)>>)
    \o <<Step("frozen")>>

(* Mutant: an error in the middle leaves the output frozen.                *)
Retime_NoCatch ==
    <<Batch(0), Write("frozen", 0, 0), Step("late"), Batch(0)>>

(* ... and what is undone whatever happens after it.  The Windows block    *)
(* undoes the freeze even when setting it failed.                          *)
Retime ==
    IF opt.windows
    THEN <<Write("frozen", 0, 1), Batch(0), Catch("thaw"),
           Write("frozen", 0, 0)>>
    ELSE <<Batch(0), Catch("thaw"), Write("frozen", 0, 0), Step("late"),
           Batch(0)>>

-----------------------------------------------------------------------------
(***************************************************************************)
(* What a command does to the card when it arrives.                        *)
(***************************************************************************)
Reaches(i) == chip.alive /\ (i.what = "write" => chip.bank = i.val.bank)

Written(i) ==
    IF ~Reaches(i) THEN chip
    ELSE CASE i.arg = "hpd" -> [chip EXCEPT !.hpd = (i.val.bit = 1)]
           [] i.arg = "auto" -> [chip EXCEPT !.auto = (i.val.bit = 1)]
           [] i.arg = "frozen" -> [chip EXCEPT !.frozen = (i.val.bit = 1)]
           [] i.arg = "latch" -> [chip EXCEPT !.latched = @ \/ (i.val.bit = 1)]
           [] OTHER -> chip

Effect(i) ==
    /\ chip' =
         CASE i.what = "bank" /\ chip.alive -> [chip EXCEPT !.bank = i.val]
           [] i.what = "write" -> Written(i)
           [] i.what = "pin" /\ i.arg = "reset" /\ "reset" \in output ->
                [Blank EXCEPT !.alive = (i.val = 1)]
           [] i.what = "output" /\ i.arg = "reset" /\ ~right -> Blank
           [] OTHER -> chip
    /\ pin' = IF i.what = "pin" /\ i.arg # "reset" /\ i.arg \in output
              THEN [pin EXCEPT ![i.arg] = i.val] ELSE pin
    /\ output' = IF i.what # "output" THEN output
                 ELSE IF right THEN output \cup {i.arg} ELSE output \ {i.arg}
    /\ stray' = IF i.what = "write" /\ chip.alive /\ chip.bank # i.val.bank
                THEN stray \cup {op} ELSE stray

NoEffect == UNCHANGED <<chip, pin, output, stray>>

(* Where an error leads: to the next catch item, or to the end.            *)
Caught(list) ==
    LET At == {k \in 1..Len(list) : list[k].what = "catch"}
        first == CHOOSE k \in At : \A j \in At : k <= j
    IN  IF At = {} THEN <<>> ELSE SubSeq(list, first, Len(list))

past == <<found, once, borrowed>>
control == <<op, acq, ready, locked, known, note, right, past>>
history == <<matched, down>>

Command ==
    LET i == Head(todo)
    IN  /\ op # "idle" /\ todo # <<>> /\ i.what \in Commands
        /\ \/ /\ Effect(i) /\ todo' = Tail(todo) /\ UNCHANGED failed
              /\ stuck' = (stuck /\ chip'.frozen)
           \/ /\ Effect(i) \/ NoEffect
              /\ todo' = IF i.try THEN Tail(todo) ELSE Caught(Tail(todo))
              /\ failed' = (failed \/ ~i.try)
              /\ stuck' = (stuck \/ i.arg = "frozen")
        /\ UNCHANGED <<opt, control, history>>

-----------------------------------------------------------------------------
(***************************************************************************)
(* What the driver decides between commands.                               *)
(***************************************************************************)
(* Mutant: AUTO_POSITION is left on when a mode was found.                 *)
AutoPosition_LeaveOn(on) ==
    IF on = 0 THEN {<<>>} ELSE {<<>>, <<Bank(0), Write("auto", 0, on)>>}

(* M74: not while the encoder captures, unless it recovers.  Captures      *)
(* start, recover and stop without the lock: a caller may meet either.     *)
AutoPosition(on) ==
    {<<Bank(0), Write("auto", 0, on)>>} \cup (IF on = 1 THEN {<<>>} ELSE {})

Goes(list) == todo' = list /\ UNCHANGED <<opt, failed, chip, pin, output, stray>>
Rest == Tail(todo)
AtStep(name) ==
    /\ op # "idle" /\ todo # <<>>
    /\ Head(todo).what = "step" /\ Head(todo) = Step(name)
callers == <<op, locked, known, note, right, past, matched, down, stuck>>

(* Mutant: the reset does not invalidate the lock.                         *)
Unready_KeepLock ==
    /\ AtStep("unready") /\ Goes(Rest)
    /\ ready' = FALSE /\ locked' = locked
    /\ borrowed' = FALSE /\ note' = FALSE
    /\ UNCHANGED <<op, acq, known, found, once, right, history, stuck>>

Unready ==
    /\ AtStep("unready") /\ Goes(Rest)
    /\ ready' = FALSE /\ locked' = FALSE
    /\ borrowed' = FALSE /\ note' = FALSE
    /\ UNCHANGED <<op, acq, known, found, once, right, history, stuck>>

(* mst_bus_alive, and again under the other polarity.                      *)
Alive ==
    /\ AtStep("alive") \/ AtStep("again")
    /\ IF chip.alive THEN Goes(Rest) /\ right' = right
       ELSE /\ right' = ~right
            /\ IF AtStep("alive")
               THEN /\ Goes(Reset \o <<Bank(0), Step("again")>> \o Rest)
               ELSE /\ todo' = <<>> /\ failed' = TRUE
                    /\ UNCHANGED <<opt, chip, pin, output, stray>>
    /\ UNCHANGED <<op, acq, ready, locked, known, note, past, history, stuck>>

Ready ==
    /\ AtStep("ready") /\ Goes(Rest) /\ ready' = TRUE /\ once' = TRUE
    /\ UNCHANGED <<op, acq, locked, known, note, found, borrowed, right, history,
                   stuck>>

(* edid_timeout_ms = 0: -EINVAL, at once.                                  *)
Refuse ==
    /\ AtStep("refuse") /\ todo' = Caught(Rest) /\ failed' = TRUE
    /\ UNCHANGED <<opt, chip, pin, output, stray, ready, acq, callers>>

(* A failure to push the EDID or to read a bank is forgotten.              *)
CatchError ==
    /\ op # "idle" /\ todo # <<>> /\ Head(todo).what = "catch"
    /\ todo' = IF Head(todo).arg = "mux" /\ failed
               THEN <<Head(Rest)>> \o Caught(Tail(Rest)) ELSE Rest
    /\ failed' = (failed /\ Head(todo).arg \notin {"edid", "forget"})
    /\ UNCHANGED <<opt, chip, pin, output, stray, ready, acq, callers>>

(* From here an error of the EDID, or of the retiming, has its handler.    *)
Edid ==
    /\ AtStep("edid")
    /\ Goes(LoadEdid \o (IF op = "bringup" THEN <<Catch("edid")>> ELSE <<>>)
                     \o Rest)
    /\ UNCHANGED <<ready, acq, callers>>

Frozen ==
    /\ AtStep("frozen") /\ Goes(Retime \o Rest)
    /\ UNCHANGED <<ready, acq, callers>>

(* 0xb0 is written once more, but only after success.                      *)
Late ==
    /\ AtStep("late") /\ Goes(IF failed THEN Tail(Rest) ELSE Rest)
    /\ UNCHANGED <<ready, acq, callers>>

(* The loop of read_signal: the lock byte was read.  No lock or no usable  *)
(* sample turns acquisition on, once; a mode ends the loop, and so does    *)
(* the deadline.  A receiver held in reset reads as zeroes, so unlocked.   *)
Poll == <<Bank(0), Read, Step("poll")>>

PollUnlocked ==
    /\ AtStep("poll") \/ AtStep("judge")
    /\ \E seek \in IF acq THEN {<<>>} ELSE AutoPosition(1) :
          \/ Goes(seek \o Poll)
          \/ Goes(seek \o <<Step("expire")>>)
    /\ acq' = TRUE
    /\ UNCHANGED <<ready, callers>>

PollLocked ==
    /\ AtStep("poll") /\ chip.alive /\ Goes(Measure \o <<Step("judge")>>)
    /\ UNCHANGED <<ready, acq, callers>>

PollMatched ==
    /\ AtStep("judge") /\ chip.alive
    /\ \E settle \in AutoPosition(0) :
          Goes(settle \o Commit \o <<Step("matched")>>)
    /\ UNCHANGED <<ready, acq, callers>>

Matched ==
    /\ AtStep("matched") /\ todo' = <<>>
    /\ matched' = ~failed
    /\ note' = (note \/ ~failed) /\ found' = (found \/ ~failed)
    /\ UNCHANGED <<opt, failed, chip, pin, output, stray, ready, acq,
                   op, locked, known, once, borrowed, right, down, stuck>>

Expire ==
    /\ AtStep("expire") /\ todo' = <<>> /\ failed' = TRUE
    /\ UNCHANGED <<opt, chip, pin, output, stray, ready, acq, callers>>

(* read_lock: M233, only a receiver without lock is set hunting.           *)
LockRead ==
    /\ AtStep("lock")
    /\ \/ Goes(<<>>)
       \/ \E seek \in AutoPosition(1) : Goes(seek)
    /\ UNCHANGED <<ready, acq, callers>>

(* watch, one iteration: AUTO_POSITION follows the state when it changed.  *)
WatchJudge ==
    /\ AtStep("watch")
    /\ \/ Goes(<<>>)
       \/ \E want \in {0, 1} : \E turn \in AutoPosition(want) : Goes(turn)
    /\ UNCHANGED <<ready, acq, callers>>

(* output_diag reads what it can of banks 2 and 1, and goes back.          *)
Diag ==
    /\ AtStep("diag")
    /\ Goes(<<Bank(2), Step("known"), Try(Bank(0)), Catch("forget"), Bank(1),
              Try(Bank(0))>>)
    /\ UNCHANGED <<ready, acq, callers>>

Known ==
    /\ AtStep("known") /\ Goes(Rest) /\ known' = TRUE
    /\ UNCHANGED <<op, acq, ready, locked, note, past, right, history, stuck>>

Decide == \/ Unready \/ Alive \/ Ready \/ Refuse \/ CatchError \/ Edid
          \/ Frozen \/ Late
          \/ PollUnlocked \/ PollLocked \/ PollMatched \/ Matched \/ Expire
          \/ LockRead \/ WatchJudge \/ Diag \/ Known

-----------------------------------------------------------------------------
(***************************************************************************)
(* The operations: each takes mst3367_lock when it is free.  They test     *)
(* mst3367_ready, and bring the receiver up, before they wait for the lock *)
(* and not again under it, so it may be clear by then (once); only the     *)
(* bring-up itself tests it under the lock.                                *)
(***************************************************************************)
Begin(name, list) ==
    /\ op = "idle" /\ op' = name /\ todo' = list
    /\ failed' = FALSE /\ acq' = FALSE /\ matched' = FALSE
    /\ UNCHANGED <<opt, ready, locked, known, note, past, right, chip, pin,
                   output, down, stuck, stray>>

BeginBringup == ~ready /\ Begin("bringup", Bringup)
BeginReload == once /\ Begin("edid", Present)
BeginPulse == Begin("pulse", Pulse)
BeginSignal == once /\ Begin("signal", Poll)
BeginLock == once /\ Begin("lock", <<Bank(0), Read, Step("lock")>>)

(* A watch, which tests mst3367_ready once for all its iterations, measures *)
(* only a receiver that has lock.                                          *)
BeginWatch ==
    once /\ (\/ Begin("watch", <<Bank(0), Read, Step("watch")>>)
             \/ chip.alive /\ Begin("watch", <<Bank(0), Read>> \o Measure \o <<Step("watch")>>))

BeginDiag == once /\ Begin("diag", <<Bank(0), Read, Step("diag")>>)

(* apply_csc_mode trusts the bank when the colour space is known.          *)
BeginCsc ==
    once /\ Begin("csc", IF known THEN <<Batch(0)>>
                         ELSE <<Bank(2), Read, Bank(0), Batch(0)>>)

BeginColour ==
    once /\ Begin("colour", <<Bank(2), Read, Step("known"), Catch("end"),
                              Try(Bank(0))>>)

BeginRamtest ==
    Begin("ramtest", <<Bank(3), Try(Batch(3)), Read, Try(Batch(3)), Try(Bank(0))>>)

(* The lock is given up.  A bring-up that failed leaves ready clear.       *)
End ==
    /\ op # "idle" /\ todo = <<>> /\ op' = "idle"
    /\ ready' = (ready /\ ~(op = "bringup" /\ failed))
    /\ down' = IF op \in {"edid", "pulse", "bringup"} THEN failed ELSE down
    /\ failed' = FALSE /\ acq' = FALSE
    /\ UNCHANGED <<opt, todo, locked, known, note, past, right, chip, pin,
                   output, matched, stuck, stray>>

(* Without the lock: a caller of read_signal notes the lock, or its loss;  *)
(* a mode of before a bring-up is noted as well, by a caller that is late  *)
(* or by STREAMON, which takes the last good one for a source that is      *)
(* silent just now; i2cscan (on spare pins) asks for a new bring-up.       *)
others == <<opt, op, todo, known, failed, acq, found, once, right, chip, pin,
            output, matched, down, stuck, stray>>

Note ==
    /\ \/ note /\ locked' = TRUE /\ note' = FALSE
       \/ locked' = FALSE /\ note' = note
    /\ UNCHANGED <<others, ready, borrowed>>

Borrow ==
    /\ found /\ locked' = TRUE /\ borrowed' = TRUE
    /\ UNCHANGED <<others, ready, note>>

Scan == ready' = FALSE /\ UNCHANGED <<others, locked, note, borrowed>>

Operation == \/ BeginBringup \/ BeginReload \/ BeginPulse \/ BeginSignal
             \/ BeginLock \/ BeginWatch \/ BeginDiag \/ BeginCsc \/ BeginColour
             \/ BeginRamtest \/ End

Next == Command \/ Decide \/ Operation \/ Note \/ Borrow \/ Scan

Spec == Init /\ [][Next]_vars

-----------------------------------------------------------------------------
(***************************************************************************)
(* Properties.                                                             *)
(***************************************************************************)
Operations == {"bringup", "edid", "pulse", "signal", "lock", "watch", "diag",
               "csc", "colour", "ramtest"}
Seen == pin.hpd = 0 /\ chip.hpd

(* Types; a receiver that is ready answers, or is in a new bring-up.       *)
TypeOK ==
    /\ op \in Operations \cup {"idle"}
    /\ \A k \in 1..Len(todo) : todo[k].what \in Commands \cup {"step", "catch"}
    /\ op = "idle" => todo = <<>> /\ ~failed
    /\ chip.bank \in Banks /\ output \subseteq Pins
    /\ pin \in [hpd : {0, 1}, mux : {0, 1}]
    /\ stray \subseteq Operations
    /\ ready => chip.alive /\ right /\ Pins \ {"mux"} \subseteq output

(* M69: no chunk of the EDID is written while the source sees a sink and   *)
(* may be the master of the DDC bus.                                       *)
EdidUnseen == todo # <<>> /\ Head(todo).what = "edid" => ~Seen /\ pin.hpd = 1

(* A receiver that is ready is presented to the source, unless the last    *)
(* request to do so failed.                                                *)
ReadyIsPresented == op = "idle" /\ ready /\ ~down => Seen

(* The output is left frozen by no error but one of the freeze bit itself. *)
Thawed == op = "idle" /\ chip.frozen => stuck

(* After a mode was found the hunt is over and the output runs.            *)
MatchedIsSettled == op = "idle" /\ matched => ~chip.auto /\ ~chip.frozen

(* "A physical reset invalidates the cached mode and requires the latch    *)
(* pulse": a receiver the driver believes locked had its pulse since it    *)
(* was reset, unless signal_locked was set, since the last bring-up, for a *)
(* mode found before it or from the signal cache.  Those stores take no    *)
(* lock, and after them the sentence may be false (borrowed).              *)
OwnLockIsLatched == locked /\ ~borrowed => chip.latched

(* Every banked write of every error path goes to the bank it is for;      *)
(* apply_csc_mode alone trusts what was selected before.                   *)
OnlyCscStrays == stray \subseteq {"csc"}
=============================================================================
