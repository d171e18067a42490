------------------------------- MODULE Mailbox -------------------------------
(***************************************************************************)
(* Command transactions over the BAR0 mailbox: mz0380_send_command() and   *)
(* mz0380_periph_read(), called from several contexts, against the         *)
(* interrupt handler, which consumes the same one-shot EVENT word, and the *)
(* card (external).                                                        *)
(*                                                                         *)
(* A command is "short" (its completion shows in STATUS, and in EVENT if   *)
(* the card posts one), "wide" (ten arguments: the last one occupies       *)
(* STATUS, so only EVENT tells) or "read" (a short command whose result, a *)
(* byte in PARAM3, lands after the completion).  Commands are numbered in  *)
(* the order they are fired; a register that holds a reply is modelled by  *)
(* the number of the command it answers.  The card answers a command       *)
(* before the caller's time is up or never, but it may signal the          *)
(* completion of an answered command any time later.  "answered",          *)
(* "landed", "want" and "strayed" are history.                             *)
(***************************************************************************)
EXTENDS Naturals

CONSTANTS
    Callers,      \* threads that send commands
    NoCaller,
    Kinds,        \* the kinds of command they send
    Bytes,        \* values a peripheral register can have
    Sentinel,     \* Sentinel[1], Sentinel[2]: pre-loaded into PARAM3
    MaxCommands,  \* bound: commands fired in a behaviour
    MaxFrames     \* bound: frame completions; 0 = the card does not stream

Isr == "isr"
Free == "free"

ASSUME MailboxAssumption ==
    /\ {NoCaller, Isr, Free} \cap Callers = {}
    /\ Kinds \subseteq {"short", "wide", "read"}
    /\ Sentinel \in [1..2 -> Bytes] /\ Sentinel[1] # Sentinel[2]
    /\ MaxCommands \in Nat /\ MaxFrames \in Nat

VARIABLES
    \* --- the card (external) ---
    job,          \* the command being executed, 0 = none
    jobKind,      \* its kind
    owed,         \* the answered command whose completion the card has
                  \* still to signal, 0 = none
    late,         \* << >>, or the byte the I2C proxy still has to store
    parked,       \* event bits that wait for the credit
    credit,       \* msi_enable
    frames,       \* frame completions so far
    \* --- BAR0 ---
    status,       \* "clear", "payload" (PARAM10), or "done"
    reply,        \* command whose reply the PARAM words hold, 0 = arguments
    byte,         \* low byte of PARAM3
    event,        \* the EVENT word, a set of bits
    \* --- shared host state ---
    cmdLock, eventLock,
    complete,     \* cmd_complete
    lastReply,    \* cmd_last_param
    isr,          \* where the interrupt handler is
    \* --- the callers ---
    call,         \* call[c]: the call c is making, see Idle below
    fired,        \* number of the last command fired
    answered,     \* commands the card answered
    landed,       \* commands whose byte the proxy stored
    strayed       \* since the last drain the card signalled the completion
                  \* of a command that is not, or no more, being called

cardVars == <<job, jobKind, owed, late, parked, credit, frames>>
regVars  == <<status, reply, byte, event>>
hostVars == <<cmdLock, eventLock, complete, lastReply, isr>>
histVars == <<fired, answered, landed, strayed>>
vars == <<cardVars, regVars, hostVars, call, histVars>>

(* What a caller is doing: where it is, the kind and number of its         *)
(* command, the CMD_DONE bit it saw before taking event_lock, which of the *)
(* two attempts of a read this is, the outcome, the reply returned (the    *)
(* command it answers), the byte a read returned, and the contents of the  *)
(* register it names (history).                                            *)
Idle == [pc |-> "idle", kind |-> "short", serial |-> 0, cmdDone |-> FALSE,
         attempt |-> 1, result |-> "none", got |-> 0, value |-> Sentinel[1],
         want |-> Sentinel[1]]

(* A previous module life may have left an unacknowledged event behind.    *)
Init ==
    /\ job = 0 /\ jobKind = "short" /\ owed = 0 /\ late = << >>
    /\ parked = {} /\ frames = 0
    /\ event \in {{}, {"cmd"}} /\ credit = (event = {})
    /\ status = "clear" /\ reply = 0 /\ byte = Sentinel[1]
    /\ cmdLock = NoCaller /\ eventLock = Free
    /\ complete = FALSE /\ lastReply = 0 /\ isr = "idle"
    /\ call = [c \in Callers |-> Idle]
    /\ fired = 0 /\ answered = {} /\ landed = {} /\ strayed = FALSE

-----------------------------------------------------------------------------
(***************************************************************************)
(* The card.                                                               *)
(***************************************************************************)

(* msi(): with the credit every accumulated bit is delivered and the       *)
(* credit is spent; without it they stay parked until the next msi().      *)
Post(bit) ==
    IF credit
    THEN event' = parked \cup {bit} /\ parked' = {} /\ credit' = FALSE
    ELSE parked' = parked \cup {bit} /\ UNCHANGED <<event, credit>>

(* The reply is written, and STATUS unless an argument occupies it.        *)
CardReply ==
    /\ job # 0 /\ owed = 0
    /\ reply' = job /\ owed' = job /\ job' = 0
    /\ answered' = answered \cup {job}
    /\ status' = IF jobKind = "wide" THEN status ELSE "done"
    /\ UNCHANGED <<jobKind, late, parked, credit, frames, byte, event,
                   hostVars, call, fired, landed, strayed>>

(* A caller is between the doorbell of the command owed and its return.    *)
Awaited ==
    \E c \in Callers :
        /\ call[c].pc \in {"poll", "pollAck", "pollAck2", "trail", "trailAck",
                           "trailAck2", "snapshot", "copy", "byte", "unlock"}
        /\ call[c].serial = owed

(* The completion event follows, if need be after the caller left, or the  *)
(* next command was fired; some short commands have none.                  *)
CardSignal ==
    /\ owed # 0 /\ owed' = 0
    /\ \/ Post("cmd") /\ strayed' = (strayed \/ ~Awaited)
       \/ /\ owed # fired \/ jobKind # "wide"
          /\ UNCHANGED <<event, parked, credit, strayed>>
    /\ UNCHANGED <<job, jobKind, late, frames, status, reply, byte, hostVars,
                   call, fired, answered, landed>>

(* A command the card discards is never answered.                          *)
CardIgnore ==
    /\ job # 0 /\ job' = 0 /\ late' = << >>
    /\ UNCHANGED <<jobKind, owed, parked, credit, frames, regVars, hostVars,
                   call, histVars>>

(* The I2C proxy stores the result byte after the completion, or is dead.  *)
ProxyStore ==
    /\ late # << >> /\ job = 0
    /\ late' = << >>
    /\ \/ byte' = late[1] /\ landed' = landed \cup {fired}
       \/ UNCHANGED <<byte, landed>>
    /\ UNCHANGED <<job, jobKind, owed, parked, credit, frames, status, reply,
                   event, hostVars, call, fired, answered, strayed>>

FrameDone ==
    /\ frames < MaxFrames /\ frames' = frames + 1
    /\ Post("frame")
    /\ UNCHANGED <<job, jobKind, owed, late, status, reply, byte, hostVars,
                   call, histVars>>

-----------------------------------------------------------------------------
(***************************************************************************)
(* mz0380_mb_ack_event(): under event_lock the event and the reply are     *)
(* read together, then EVENT is cleared and the credit given back.         *)
(***************************************************************************)
AckRead(who) ==
    /\ eventLock = Free /\ eventLock' = who
    /\ IF "cmd" \in event
       THEN complete' = TRUE /\ lastReply' = reply
       ELSE UNCHANGED <<complete, lastReply>>

AckClear(who) ==
    /\ eventLock = who /\ eventLock' = Free
    /\ event' = {} /\ credit' = TRUE

IsrEnter ==
    /\ isr = "idle" /\ event # {}
    /\ isr' = "ack"
    /\ UNCHANGED <<cardVars, regVars, cmdLock, eventLock, complete, lastReply,
                   call, histVars>>

IsrRead ==
    /\ isr = "ack" /\ AckRead(Isr) /\ isr' = "clear"
    /\ UNCHANGED <<cardVars, regVars, cmdLock, call, histVars>>

IsrClear ==
    /\ isr = "clear" /\ AckClear(Isr) /\ isr' = "idle"
    /\ UNCHANGED <<job, jobKind, owed, late, parked, frames, status, reply,
                   byte, cmdLock, complete, lastReply, call, histVars>>

-----------------------------------------------------------------------------
(***************************************************************************)
(* mz0380_send_command_locked().  The labels drainAck, pollAck and         *)
(* trailAck stand before the acknowledgement of an event that the drain,   *)
(* the poll loop or the trailing window saw; the label with "2" is inside. *)
(***************************************************************************)
At(c, l) == call[c].pc = l

(* c goes to l, changing nothing but its own record.                       *)
Goto(c, l) ==
    /\ call' = [call EXCEPT ![c].pc = l]
    /\ UNCHANGED <<cardVars, regVars, hostVars, histVars>>

(* ... and notes an outcome.                                               *)
Conclude(c, r, l) ==
    /\ call' = [call EXCEPT ![c].pc = l, ![c].result = r]
    /\ UNCHANGED <<cardVars, regVars, hostVars, histVars>>

(* Only a read has a register to name.                                     *)
Call(c) ==
    /\ At(c, "idle") /\ cmdLock = NoCaller /\ fired + 2 <= MaxCommands
    /\ cmdLock' = c
    /\ \E k \in Kinds, b \in Bytes :
          /\ k # "read" => b = Sentinel[1]
          /\ call' = [call EXCEPT ![c].pc = "drain", ![c].kind = k, ![c].want = b]
    /\ UNCHANGED <<cardVars, regVars, eventLock, complete, lastReply, isr,
                   histVars>>

(* Mutant: a stale event is left in the mailbox.                           *)
Drain_Keep(c) ==
    /\ At(c, "drain") /\ complete' = FALSE /\ strayed' = FALSE
    /\ call' = [call EXCEPT ![c].pc = "sync"]
    /\ UNCHANGED <<cardVars, regVars, cmdLock, eventLock, lastReply, isr,
                   fired, answered, landed>>

(* A stale event is acknowledged before the new command is assigned.       *)
Drain(c) ==
    /\ At(c, "drain") /\ complete' = FALSE /\ strayed' = FALSE
    /\ call' = [call EXCEPT ![c].pc = IF event # {} THEN "drainAck" ELSE "sync"]
    /\ UNCHANGED <<cardVars, regVars, cmdLock, eventLock, lastReply, isr,
                   fired, answered, landed>>

(* Mutant: handlers that saw the old event are not waited for.             *)
Sync_NoWait(c) == At(c, "sync") /\ Goto(c, "install")

(* synchronize_irq() retires a handler that observed the old event.        *)
Sync(c) == At(c, "sync") /\ isr = "idle" /\ Goto(c, "install")

(* The sentinel a read leaves in PARAM3.                                   *)
Preload(c) == Sentinel[call[c].attempt]

(* The completion latches are cleared, the words written (a wide command's *)
(* last one over STATUS), and the doorbell rung.                           *)
Fire(c) ==
    LET k == call[c].kind IN
    /\ At(c, "install") /\ fired < MaxCommands
    /\ complete' = FALSE /\ reply' = 0
    /\ status' = IF k = "wide" THEN "payload" ELSE "clear"
    /\ byte' = IF k = "read" THEN Preload(c) ELSE byte
    /\ fired' = fired + 1 /\ job' = fired + 1 /\ jobKind' = k
    /\ late' = IF k = "read" THEN <<call[c].want>> ELSE << >>
    /\ call' = [call EXCEPT ![c].pc = "poll", ![c].serial = fired + 1]
    /\ UNCHANGED <<owed, parked, credit, frames, event, cmdLock, eventLock,
                   lastReply, isr, answered, landed, strayed>>

(* The three things the poll loop looks at, in whatever order they become  *)
(* true: the completion flag, STATUS, and a live EVENT.                    *)
PollComplete(c) == At(c, "poll") /\ complete /\ Goto(c, "trail")

PollStatus(c) ==
    At(c, "poll") /\ call[c].kind # "wide" /\ status = "done" /\ Goto(c, "trail")

SeeEvent(c) ==
    /\ At(c, "poll") \/ At(c, "trail")
    /\ event # {}
    /\ call' = [call EXCEPT ![c].cmdDone = "cmd" \in event,
                            ![c].pc = IF @ = "poll" THEN "pollAck" ELSE "trailAck"]
    /\ UNCHANGED <<cardVars, regVars, hostVars, histVars>>

(* Time is up: the card is not at work on the command and has signalled    *)
(* what it answered.                                                       *)
PollTimeout(c) ==
    /\ At(c, "poll") /\ job = 0 /\ owed # fired /\ event = {} /\ ~complete
    /\ call[c].kind # "wide" => status # "done"
    /\ Conclude(c, "timeout", "snapshot")

(* The window for a trailing event is ten polls long.  It ends whatever    *)
(* the card still has to signal; its last poll saw no event.               *)
TrailEnd(c) == At(c, "trail") /\ event = {} /\ Conclude(c, "ok", "snapshot")

CallerAckRead(c) ==
    /\ \E l \in {<<"drainAck", "drainAck2">>, <<"pollAck", "pollAck2">>,
               <<"trailAck", "trailAck2">>} :
          At(c, l[1]) /\ call' = [call EXCEPT ![c].pc = l[2]]
    /\ AckRead(c)
    /\ UNCHANGED <<cardVars, regVars, cmdLock, isr, histVars>>

(* What follows goes by the bit seen before the lock was taken.            *)
CallerAckClear(c) ==
    /\ \/ At(c, "drainAck2") /\ call' = [call EXCEPT ![c].pc = "sync"]
       \/ At(c, "pollAck2") /\ call' = [call EXCEPT ![c].pc =
                                 IF call[c].cmdDone THEN "trail" ELSE "poll"]
       \/ At(c, "trailAck2") /\ ~call[c].cmdDone
          /\ call' = [call EXCEPT ![c].pc = "trail"]
       \/ At(c, "trailAck2") /\ call[c].cmdDone
          /\ call' = [call EXCEPT ![c].pc = "snapshot", ![c].result = "ok"]
    /\ AckClear(c)
    /\ UNCHANGED <<job, jobKind, owed, late, parked, frames, status, reply,
                   byte, cmdLock, complete, lastReply, isr, histVars>>

(* A read goes on to wait for its byte, any other call returns.            *)
AfterSnapshot(c) ==
    IF call[c].kind = "read" /\ call[c].result = "ok" THEN "byte" ELSE "copy"

(* Mutant: a read gives cmd_lock back before its byte has arrived.         *)
SnapshotReply_Unlock(c) ==
    /\ At(c, "snapshot") /\ eventLock = Free
    /\ lastReply' = IF complete THEN lastReply ELSE reply
    /\ cmdLock' = IF AfterSnapshot(c) = "byte" THEN NoCaller ELSE cmdLock
    /\ call' = [call EXCEPT ![c].pc = AfterSnapshot(c)]
    /\ UNCHANGED <<cardVars, regVars, eventLock, complete, isr, histVars>>

(* Without a reply paired with CMD_DONE the live words are taken.          *)
SnapshotReply(c) ==
    /\ At(c, "snapshot") /\ eventLock = Free
    /\ lastReply' = IF complete THEN lastReply ELSE reply
    /\ call' = [call EXCEPT ![c].pc = AfterSnapshot(c)]
    /\ UNCHANGED <<cardVars, regVars, cmdLock, eventLock, complete, isr,
                   histVars>>

(* mz0380_send_command_reply() copies the reply out of the shared words    *)
(* and only then lets the next command in; a wide command has no reply.    *)
CopyReply(c) ==
    /\ At(c, "copy")
    /\ call' = [call EXCEPT ![c].pc = "unlock",
                   ![c].got = IF call[c].kind = "short" THEN lastReply ELSE 0]
    /\ UNCHANGED <<cardVars, regVars, hostVars, histVars>>

(* The locals of the call are gone.                                        *)
Unlock(c) ==
    /\ At(c, "unlock")
    /\ cmdLock' = NoCaller
    /\ call' = [call EXCEPT ![c] = Idle]
    /\ UNCHANGED <<cardVars, regVars, eventLock, complete, lastReply, isr,
                   histVars>>

-----------------------------------------------------------------------------
(***************************************************************************)
(* mz0380_periph_read(): poll the low byte of PARAM3, with cmd_lock held,  *)
(* until the proxy replaced the sentinel; try once more with its inverse.  *)
(***************************************************************************)
ByteSeen(c) ==
    /\ At(c, "byte") /\ byte # Preload(c)
    /\ call' = [call EXCEPT ![c].pc = "unlock", ![c].value = byte]
    /\ UNCHANGED <<cardVars, regVars, hostVars, histVars>>

(* The byte still equals the sentinel when the polls are over.             *)
ByteMissing(c) == At(c, "byte") /\ byte = Preload(c) /\ late = << >>

(* Mutant: one attempt too many.                                           *)
ByteRetry_Thrice(c) ==
    /\ ByteMissing(c) /\ call[c].attempt <= 2
    /\ call' = [call EXCEPT ![c].pc = "drain", ![c].attempt = @ + 1]
    /\ UNCHANGED <<cardVars, regVars, hostVars, histVars>>

ByteRetry(c) ==
    /\ ByteMissing(c) /\ call[c].attempt < 2
    /\ call' = [call EXCEPT ![c].pc = "drain", ![c].attempt = @ + 1]
    /\ UNCHANGED <<cardVars, regVars, hostVars, histVars>>

ByteGiveUp(c) ==
    ByteMissing(c) /\ call[c].attempt = 2 /\ Conclude(c, "timeout", "unlock")

-----------------------------------------------------------------------------
Card == \/ CardReply \/ CardSignal \/ CardIgnore \/ ProxyStore \/ FrameDone

Handler == IsrEnter \/ IsrRead \/ IsrClear

Caller(c) ==
    \/ Call(c) \/ Drain(c) \/ Sync(c) \/ Fire(c)
    \/ PollComplete(c) \/ PollStatus(c) \/ SeeEvent(c) \/ PollTimeout(c)
    \/ TrailEnd(c) \/ CallerAckRead(c) \/ CallerAckClear(c)
    \/ SnapshotReply(c) \/ CopyReply(c) \/ Unlock(c)
    \/ ByteSeen(c) \/ ByteRetry(c) \/ ByteGiveUp(c)

(* The bound on commands is reached and everything has come to rest.       *)
AtRest ==
    /\ fired + 2 > MaxCommands /\ \A c \in Callers : At(c, "idle")
    /\ UNCHANGED vars

Next == Card \/ Handler \/ (\E c \in Callers : Caller(c)) \/ AtRest

Spec == Init /\ [][Next]_vars

-----------------------------------------------------------------------------
(***************************************************************************)
(* Properties.                                                             *)
(***************************************************************************)
Bits == {"cmd", "frame"}
Commands == 0..MaxCommands

(* The type invariant; in particular a read makes two attempts at most.    *)
TypeOK ==
    /\ job \in Commands /\ jobKind \in Kinds \cup {"short"}
    /\ owed \in Commands
    /\ late = << >> \/ \E b \in Bytes : late = <<b>>
    /\ parked \subseteq Bits /\ event \subseteq Bits
    /\ credit \in BOOLEAN /\ frames \in 0..MaxFrames
    /\ status \in {"clear", "payload", "done"}
    /\ reply \in Commands /\ byte \in Bytes
    /\ cmdLock \in Callers \cup {NoCaller}
    /\ eventLock \in Callers \cup {Free, Isr}
    /\ complete \in BOOLEAN /\ lastReply \in Commands
    /\ isr \in {"idle", "ack", "clear"}
    /\ call \in [Callers ->
          [pc : {"idle", "drain", "drainAck", "drainAck2", "sync", "install",
                 "poll", "pollAck", "pollAck2", "trail", "trailAck",
                 "trailAck2", "snapshot", "copy", "byte", "unlock"},
           kind : Kinds \cup {"short"}, serial : Commands,
           cmdDone : BOOLEAN, attempt : 1..2,
           result : {"none", "ok", "timeout"}, got : Commands,
           value : Bytes, want : Bytes]]
    /\ fired \in Commands
    /\ answered \subseteq Commands /\ landed \subseteq Commands
    /\ strayed \in BOOLEAN

(* The call of c is about to return.                                       *)
Returning(c, r) == At(c, "unlock") /\ call[c].result = r

(* "Keep the command reply paired with the same EVENT": a call succeeds    *)
(* only if the card answered this very command, and the reply it returns   *)
(* is the answer to it, whoever consumed the event, and whatever event was *)
(* in the mailbox before.  Two cases are exempt by name: a completion of   *)
(* an earlier command that the card signals after this call's drain looked *)
(* (the trailing window of that command was too short for it), and a card  *)
(* that streams, whose frame completions let completion bits park (see     *)
(* CompletionIsOwn).                                                       *)
SuccessIsOwn ==
    \A c \in Callers :
        Returning(c, "ok") /\ frames = 0 /\ ~strayed =>
            /\ call[c].serial \in answered
            /\ call[c].kind = "short" => call[c].got = call[c].serial

(* No answer is lost between the pollers and the interrupt handler: a call *)
(* times out only if the card did not answer it.  A read may also have     *)
(* missed a byte, but not two: "no byte can equal both values, so a        *)
(* legitimate 0xa5/0x5a reply is not misreported as a timeout".  (A wide   *)
(* command, which has EVENT only, is exempt where SuccessIsOwn exempts     *)
(* every kind: something else took the credit from its completion.)        *)
TimeoutMeansSilence ==
    \A c \in Callers :
        Returning(c, "timeout") /\ (call[c].kind = "wide" => frames = 0 /\ ~strayed) =>
            \/ call[c].serial \notin answered
            \/ call[c].kind = "read" /\ ~({call[c].serial - 1, call[c].serial} \subseteq landed)

(* A read returns the contents of the register it named, although the byte *)
(* arrives after the completion and frame events or stray completions may  *)
(* complete the command ahead of its time.                                 *)
ReadsOwn ==
    \A c \in Callers :
        Returning(c, "ok") /\ call[c].kind = "read" => call[c].value = call[c].want

(* "Drain a stale unacked event ... before assigning a new command to      *)
(* cmd_complete": unless an older completion was signalled after the drain *)
(* looked, the flag a poller waits for is set by the completion of its own *)
(* command, never by that of an older one.                                 *)
CompletionIsOwn ==
    \A c \in Callers :
        At(c, "poll") /\ complete /\ ~strayed => call[c].serial \in answered
=============================================================================
