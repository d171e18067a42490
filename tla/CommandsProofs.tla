---------------------------- MODULE CommandsProofs ---------------------------
(***************************************************************************)
(* Proofs about the two parts of MC_Commands.  Mailbox: for any number of  *)
(* callers, every register value and every bound on the commands and frame *)
(* completions; MC_Commands is a Mailbox that may rest, so what is proved  *)
(* of Spec holds of its run.  Receiver: a behaviour of it leaves the       *)
(* mailbox alone, so the inductive invariant of ReceiverProofs carries     *)
(* over as it is, for an EDID of any number of chunks and any values of    *)
(* the parameters.                                                         *)
(***************************************************************************)
EXTENDS MC_Commands, Sequences, TLAPS

RxP == INSTANCE ReceiverProofs

allVars == <<part, rxVars, vars>>

(***************************************************************************)
(* The inductive invariant.                                                *)
(***************************************************************************)

(* The parts of TypeOK.                                                    *)
CardType ==
    /\ job \in Commands /\ jobKind \in Kinds \cup {"short"}
    /\ owed \in Commands
    /\ late = << >> \/ \E b \in Bytes : late = <<b>>
    /\ parked \subseteq Bits /\ event \subseteq Bits
    /\ credit \in BOOLEAN /\ frames \in 0..MaxFrames
    /\ status \in {"clear", "payload", "done"}
    /\ reply \in Commands /\ byte \in Bytes

HostType ==
    /\ cmdLock \in Callers \cup {NoCaller}
    /\ eventLock \in Callers \cup {Free, Isr}
    /\ complete \in BOOLEAN /\ lastReply \in Commands
    /\ isr \in {"idle", "ack", "clear"}
    /\ fired \in Commands
    /\ answered \subseteq Commands /\ landed \subseteq Commands
    /\ strayed \in BOOLEAN

Labels == {"idle", "drain", "drainAck", "drainAck2", "sync", "install",
           "poll", "pollAck", "pollAck2", "trail", "trailAck", "trailAck2",
           "snapshot", "copy", "byte", "unlock"}

CallRecord ==
    [pc : Labels, kind : Kinds \cup {"short"}, serial : Commands,
     cmdDone : BOOLEAN, attempt : 1..2, result : {"none", "ok", "timeout"},
     got : Commands, value : Bytes, want : Bytes]

CallType == call \in [Callers -> CallRecord]

(* The stages of a call: its command is not fired yet, the card may be at  *)
(* work on it, and a read's byte may be on its way.                        *)
Preparing(c) == call[c].pc \in {"drain", "drainAck", "drainAck2", "sync", "install"}
Acking(c) == call[c].pc \in {"pollAck", "pollAck2", "trailAck", "trailAck2"}
Working(c) == Acking(c) \/ call[c].pc \in {"poll", "trail"}
Loaded(c) == Working(c) \/ call[c].pc \in {"snapshot", "copy", "byte"}

(* cmd_lock and event_lock have the owners the control states say.         *)
Locks ==
    /\ \A c \in Callers :
          /\ ~At(c, "idle") => cmdLock = c
          /\ call[c].pc \in {"drainAck2", "pollAck2", "trailAck2"} <=> eventLock = c
    /\ isr = "clear" <=> eventLock = Isr

(* Commands are numbered in order; the one the card works on is the last;  *)
(* the one whose completion it owes is answered.                           *)
Numbered ==
    /\ job \in {0, fired}
    /\ job # 0 => job \notin answered
    /\ owed # 0 => owed \in answered /\ (owed = fired => reply = owed)
    /\ \A n \in answered \cup landed : n <= fired
    /\ \A c \in Callers : Loaded(c) =>
          /\ call[c].serial = fired /\ fired > 0 /\ jobKind = call[c].kind

(* The contents of PARAM3 from the doorbell of a read until its byte was   *)
(* accepted: the sentinel, then the value of the register, which may be    *)
(* the sentinel itself; and what the first attempt of two says of it.      *)
Peripheral ==
    \A c \in Callers :
        /\ Loaded(c) /\ call[c].kind = "read" =>
              /\ byte \in {Preload(c), call[c].want}
              /\ late \in {<< >>, <<call[c].want>>}
              /\ fired \in landed => byte = call[c].want
              /\ call[c].attempt = 2 /\ fired - 1 \in landed
                    => call[c].want = Sentinel[1]
        /\ Preparing(c) /\ call[c].attempt = 2 =>
              /\ call[c].kind = "read" /\ late = << >>
              /\ fired \in landed => call[c].want = Sentinel[1]
              /\ call[c].serial = fired
        /\ At(c, "byte") => call[c].kind = "read" /\ call[c].result = "ok"
        /\ At(c, "copy") => ~(call[c].kind = "read" /\ call[c].result = "ok")
        /\ At(c, "idle") => call[c].attempt = 1

(* The reply in the mailbox is the answer to the command of c, and the     *)
(* card has signalled it.                                                  *)
Own(c) == call[c].serial \in answered /\ reply = call[c].serial
Settled(c) == Own(c) /\ owed # fired

(* While the card does not stream, the credit is out exactly while an      *)
(* event is in the mailbox.                                                *)
Credit ==
    frames = 0 =>
        /\ parked \subseteq {"cmd"} /\ event \subseteq {"cmd"}
        /\ credit <=> event = {}

(* The rest is about a card that does not stream and has not signalled an  *)
(* older completion since the drain.                                       *)
Calm == frames = 0 /\ ~strayed

(* From the drain to the doorbell the mailbox is empty.                    *)
Drained ==
    Calm => \A c \in Callers :
        /\ call[c].pc \in {"sync", "install"} => event = {}
        /\ At(c, "install") => isr = "idle"

(* Every trace of a completion that a poller can see is of its own         *)
(* command, and was left behind after the card was done with it.           *)
Traces ==
    Calm => \A c \in Callers :
        /\ Loaded(c) /\ event # {} => Settled(c)
        /\ Working(c) =>
              /\ isr # "idle" \/ Acking(c) => Settled(c)
              /\ At(c, "trail") \/ status = "done" => Own(c)
              /\ eventLock # Free /\ event # {} => complete
        /\ Loaded(c) /\ complete => Settled(c) /\ lastReply = call[c].serial
        /\ call[c].pc \in {"snapshot", "copy", "byte"} /\ call[c].result = "ok"
              => Own(c)
        /\ At(c, "copy") /\ call[c].result = "ok" => lastReply = call[c].serial

(* A poller can see that it was answered, or will; one whose time is up    *)
(* was not.                                                                *)
Visible ==
    \A c \in Callers :
        /\ Working(c) /\ call[c].serial \in answered =>
              IF call[c].kind = "wide"
              THEN Calm => owed = fired \/ event # {} \/ complete
              ELSE status = "done"
        /\ call[c].pc \in {"snapshot", "copy"} /\ call[c].result = "timeout"
              => /\ job = 0
                 /\ (call[c].kind = "wide" => Calm) => call[c].serial \notin answered

(* The outcome of a call that is about to return; what the three           *)
(* properties say, and why it remains true until then.                     *)
Outcome ==
    /\ SuccessIsOwn /\ ReadsOwn
    /\ \A c \in Callers : Returning(c, "timeout") =>
          /\ call[c].serial = fired
          /\ \/ /\ job = 0
                /\ (call[c].kind = "wide" => Calm) => call[c].serial \notin answered
             \/ /\ call[c].kind = "read" /\ late = << >>
                /\ ~({fired - 1, fired} \subseteq landed)

IInv ==
    /\ CardType /\ HostType /\ CallType /\ Locks /\ Numbered /\ Peripheral
    /\ Credit /\ Drained /\ Traces /\ Visible /\ Outcome

-----------------------------------------------------------------------------
(***************************************************************************)
(* What the constants are, and the record of a call.                       *)
(***************************************************************************)
LEMMA Bounds == MaxCommands \in Nat /\ MaxFrames \in Nat
BY MailboxAssumption

LEMMA Names ==
  /\ NoCaller \notin Callers /\ Isr \notin Callers /\ Free \notin Callers
  /\ Isr # Free
BY MailboxAssumption DEF Isr, Free

LEMMA Sentinels ==
  Sentinel[1] \in Bytes /\ Sentinel[2] \in Bytes /\ Sentinel[1] # Sentinel[2]
BY MailboxAssumption

LEMMA Updated ==
  ASSUME CallType, NEW c \in Callers, NEW r \in CallRecord,
         call' = [call EXCEPT ![c] = r]
  PROVE  CallType'
BY DEF CallType

LEMMA Field ==
  ASSUME NEW r \in CallRecord, NEW l \in Labels
  PROVE  /\ [r EXCEPT !.pc = l] \in CallRecord
         /\ \A v \in {"ok", "timeout"} : [r EXCEPT !.pc = l, !.result = v] \in CallRecord
         /\ \A v \in BOOLEAN : [r EXCEPT !.pc = l, !.cmdDone = v] \in CallRecord
         /\ \A v \in Commands : [r EXCEPT !.pc = l, !.serial = v] \in CallRecord
         /\ \A v \in Commands : [r EXCEPT !.pc = l, !.got = v] \in CallRecord
         /\ \A v \in Bytes : [r EXCEPT !.pc = l, !.value = v] \in CallRecord
         /\ \A v \in 1..2 : [r EXCEPT !.pc = l, !.attempt = v] \in CallRecord
<1> USE DEF CallRecord
<1>1. [r EXCEPT !.pc = l] \in CallRecord
  OBVIOUS
<1>2. \A v \in {"ok", "timeout"} : [r EXCEPT !.pc = l, !.result = v] \in CallRecord
  OBVIOUS
<1>3. \A v \in BOOLEAN : [r EXCEPT !.pc = l, !.cmdDone = v] \in CallRecord
  OBVIOUS
<1>4. \A v \in Commands : [r EXCEPT !.pc = l, !.serial = v] \in CallRecord
  OBVIOUS
<1>5. \A v \in Commands : [r EXCEPT !.pc = l, !.got = v] \in CallRecord
  OBVIOUS
<1>6. \A v \in Bytes : [r EXCEPT !.pc = l, !.value = v] \in CallRecord
  OBVIOUS
<1>7. \A v \in 1..2 : [r EXCEPT !.pc = l, !.attempt = v] \in CallRecord
  OBVIOUS
<1> QED
  BY <1>1, <1>2, <1>3, <1>4, <1>5, <1>6, <1>7

LEMMA Begun ==
  ASSUME NEW r \in CallRecord, NEW l \in Labels, NEW k \in Kinds, NEW b \in Bytes
  PROVE  [r EXCEPT !.pc = l, !.kind = k, !.want = b] \in CallRecord
<1> DEFINE q == [r EXCEPT !.pc = l]
           t == [q EXCEPT !.kind = k, !.want = b]
<1>1. q \in CallRecord
  BY Field
<1>2. t \in CallRecord
  <2> HIDE DEF q
  <2> QED
    BY <1>1 DEF CallRecord
<1>3. [r EXCEPT !.pc = l, !.kind = k, !.want = b] = t
  BY DEF CallRecord
<1> HIDE DEF t
<1> QED
  BY <1>2, <1>3

LEMMA IdleRecord == Idle \in CallRecord
BY Bounds, Sentinels DEF Idle, CallRecord, Labels, Commands

LEMMA StepCallType == IInv /\ [Next]_vars => CallType'
<1> SUFFICES ASSUME IInv, [Next]_vars PROVE CallType'
  OBVIOUS
<1>1. CASE UNCHANGED call
  BY <1>1 DEF IInv, CallType
<1>2. ASSUME NEW c \in Callers, Caller(c) PROVE CallType'
  <2>1. call[c] \in CallRecord /\ CallType
    BY DEF IInv, CallType
  <2>2. /\ {"drain", "drainAck", "sync", "install"} \subseteq Labels
        /\ {"poll", "pollAck", "trail", "trailAck"} \subseteq Labels
        /\ {"drainAck2", "pollAck2", "trailAck2"} \subseteq Labels
        /\ {"snapshot", "copy", "byte", "unlock", "idle"} \subseteq Labels
    BY DEF Labels
  <2>3. ASSUME NEW l \in Labels, call' = [call EXCEPT ![c].pc = l]
        PROVE  CallType'
    BY <2>1, <2>3, Field, Updated
  <2>4. ASSUME NEW l \in Labels, NEW v \in {"ok", "timeout"},
               call' = [call EXCEPT ![c].pc = l, ![c].result = v]
        PROVE  CallType'
    <3>1. call' = [call EXCEPT ![c] = [call[c] EXCEPT !.pc = l, !.result = v]]
      BY <2>4 DEF CallType
    <3> QED
      BY <2>1, <3>1, Field, Updated
  <2>5. CASE Call(c)
    <3>1. PICK k \in Kinds, b \in Bytes :
             call' = [call EXCEPT ![c].pc = "drain", ![c].kind = k, ![c].want = b]
      BY <2>5 DEF Call
    <3> DEFINE l == "drain"
    <3>2. l \in Labels
      BY <2>2
    <3>3. call' = [call EXCEPT ![c] =
             [call[c] EXCEPT !.pc = l, !.kind = k, !.want = b]]
      BY <2>1, <3>1 DEF CallType
    <3> HIDE DEF l
    <3>4. [call[c] EXCEPT !.pc = l, !.kind = k, !.want = b] \in CallRecord
      BY <2>1, <3>2, Begun
    <3> QED
      BY <2>1, <3>3, <3>4, Updated
  <2>6. CASE Fire(c)
    <3>1. fired + 1 \in Commands
      BY <2>6, Bounds DEF IInv, Fire, HostType, Commands
    <3>2. call' = [call EXCEPT ![c] = [call[c] EXCEPT !.pc = "poll", !.serial = fired + 1]]
      BY <2>1, <2>6 DEF Fire, CallType
    <3> QED
      BY <2>1, <2>2, <3>1, <3>2, Field, Updated
  <2>7. CASE SeeEvent(c)
    <3> DEFINE l == IF call[c].pc = "poll" THEN "pollAck" ELSE "trailAck"
               v == "cmd" \in event
    <3>1. l \in Labels /\ v \in BOOLEAN
      BY DEF Labels
    <3>2. call' = [call EXCEPT ![c] = [call[c] EXCEPT !.pc = l, !.cmdDone = v]]
      BY <2>1, <2>7 DEF SeeEvent, CallType
    <3> HIDE DEF l, v
    <3> QED
      BY <2>1, <3>1, <3>2, Field, Updated
  <2>8. CASE CallerAckRead(c)
    <3>1. PICK l \in {<<"drainAck", "drainAck2">>, <<"pollAck", "pollAck2">>,
                      <<"trailAck", "trailAck2">>} :
             call' = [call EXCEPT ![c].pc = l[2]]
      BY <2>8 DEF CallerAckRead
    <3>2. l[2] \in Labels
      BY <2>2
    <3> QED
      BY <2>3, <3>1, <3>2
  <2>9. CASE CallerAckClear(c)
    BY <2>2, <2>3, <2>4, <2>9 DEF CallerAckClear
  <2>10. CASE PollTimeout(c) \/ TrailEnd(c) \/ ByteGiveUp(c)
    BY <2>2, <2>4, <2>10 DEF PollTimeout, TrailEnd, ByteGiveUp, Conclude
  <2>11. CASE \/ Drain(c) \/ Sync(c) \/ PollComplete(c) \/ PollStatus(c)
              \/ SnapshotReply(c)
    BY <2>2, <2>3, <2>11 DEF Drain, Sync, PollComplete, PollStatus,
       SnapshotReply, AfterSnapshot, Goto
  <2>12. CASE CopyReply(c)
    <3> DEFINE v == IF call[c].kind = "short" THEN lastReply ELSE 0
    <3>1. v \in Commands
      BY Bounds DEF IInv, HostType, Commands
    <3>2. call' = [call EXCEPT ![c] = [call[c] EXCEPT !.pc = "unlock", !.got = v]]
      BY <2>1, <2>12 DEF CopyReply, CallType
    <3> HIDE DEF v
    <3> QED
      BY <2>1, <2>2, <3>1, <3>2, Field, Updated
  <2>13. CASE ByteSeen(c)
    <3>1. byte \in Bytes
      BY DEF IInv, CardType
    <3>2. call' = [call EXCEPT ![c] = [call[c] EXCEPT !.pc = "unlock", !.value = byte]]
      BY <2>1, <2>13 DEF ByteSeen, CallType
    <3> QED
      BY <2>1, <2>2, <3>1, <3>2, Field, Updated
  <2>14. CASE ByteRetry(c)
    <3>1. call[c].attempt + 1 \in 1..2
      BY <2>1, <2>14 DEF ByteRetry, CallRecord
    <3>2. call' = [call EXCEPT ![c] =
                     [call[c] EXCEPT !.pc = "drain", !.attempt = call[c].attempt + 1]]
      BY <2>1, <2>14 DEF ByteRetry, CallType
    <3> QED
      BY <2>1, <2>2, <3>1, <3>2, Field, Updated
  <2>15. CASE Unlock(c)
    BY <2>1, <2>15, IdleRecord, Updated DEF Unlock
  <2> QED
    BY <1>2, <2>5, <2>6, <2>7, <2>8, <2>9, <2>10, <2>11, <2>12, <2>13, <2>14,
       <2>15 DEF Caller
<1>3. CASE Card \/ Handler
  BY <1>1, <1>3 DEF Card, Handler, CardReply, CardSignal, CardIgnore, ProxyStore,
     FrameDone, IsrEnter, IsrRead, IsrClear
<1> QED
  BY <1>1, <1>2, <1>3 DEF Next, AtRest, vars

LEMMA InitInv == Init => IInv
<1> SUFFICES ASSUME Init PROVE IInv
  OBVIOUS
<1>1. CallType
  BY IdleRecord DEF Init, CallType
<1>2. \A c \in Callers : call[c].pc = "idle" /\ call[c].attempt = 1
  BY DEF Init, Idle
<1>3. CardType
  BY Bounds, Sentinels DEF Init, CardType, Bits, Commands
<1>4. HostType
  <2>1. 0 \in Commands
    BY Bounds DEF Commands
  <2> QED
    BY <2>1 DEF Init, HostType
<1>5. Locks /\ Numbered /\ Peripheral
  BY <1>2, Names DEF Init, Locks, Numbered, Peripheral, Preparing, Loaded,
     Working, Acking, At
<1>6. Credit /\ Drained /\ Traces /\ Visible
  BY <1>2 DEF Init, Credit, Drained, Traces, Visible, Calm, Loaded, Working,
     Acking, At
<1>7. Outcome
  BY <1>2 DEF Outcome, SuccessIsOwn, ReadsOwn, Returning, At
<1> QED
  BY <1>1, <1>3, <1>4, <1>5, <1>6, <1>7 DEF IInv

-----------------------------------------------------------------------------
(***************************************************************************)
(* At its beginning a call is alone and its command is not fired yet.      *)
(***************************************************************************)
LEMMA Begin ==
  ASSUME IInv, NEW c \in Callers, Call(c)
  PROVE  \A d \in Callers : call'[d].pc \in {"idle", "drain"}
<1>1. \A d \in Callers : call[d].pc = "idle"
  BY Names DEF IInv, Locks, Call, At
<1>2. \A d \in Callers : call'[d].pc = IF d = c THEN "drain" ELSE call[d].pc
  BY DEF IInv, Call, CallType, CallRecord
<1> QED
  BY <1>1, <1>2

LEMMA DrainSeen ==
  ASSUME IInv, NEW c \in Callers, Drain(c)
  PROVE  \A d \in Callers : call'[d].pc \in {"idle", "drainAck", "sync"}
<1>1. \A d \in Callers \ {c} : call[d].pc = "idle"
  BY DEF IInv, Locks, Drain, At
<1>2. call'[c].pc \in {"drainAck", "sync"}
  BY DEF IInv, Drain, CallType, CallRecord
<1>3. \A d \in Callers \ {c} : call'[d] = call[d]
  BY DEF IInv, Drain, CallType
<1> QED
  BY <1>1, <1>2, <1>3

LEMMA DrainRead ==
  ASSUME IInv, NEW c \in Callers, CallerAckRead(c), At(c, "drainAck")
  PROVE  \A d \in Callers : call'[d].pc \in {"idle", "drainAck2"}
<1>1. \A d \in Callers \ {c} : call[d].pc = "idle"
  BY DEF IInv, Locks, At
<1>2. call' = [call EXCEPT ![c].pc = "drainAck2"]
  <2>1. PICK l \in {<<"drainAck", "drainAck2">>, <<"pollAck", "pollAck2">>,
                    <<"trailAck", "trailAck2">>} :
           call[c].pc = l[1] /\ call' = [call EXCEPT ![c].pc = l[2]]
    BY DEF CallerAckRead, At
  <2>2. l = <<"drainAck", "drainAck2">>
    BY <2>1 DEF At
  <2> QED
    BY <2>1, <2>2
<1>3. \A d \in Callers : call'[d].pc = IF d = c THEN "drainAck2" ELSE call[d].pc
  BY <1>2 DEF IInv, CallType, CallRecord
<1> QED
  BY <1>1, <1>3

LEMMA Early ==
  ASSUME \A d \in Callers :
            call'[d].pc \in {"idle", "drain", "drainAck", "drainAck2", "sync"}
  PROVE  Traces' /\ Visible'
BY DEF Traces, Visible, Loaded, Working, Acking, At

-----------------------------------------------------------------------------
(***************************************************************************)
(* Each part is preserved by every step.                                   *)
(***************************************************************************)

LEMMA Posted ==
  ASSUME CardType, NEW bit \in Bits, Post(bit)
  PROVE  parked' \subseteq Bits /\ event' \subseteq Bits /\ credit' \in BOOLEAN
BY DEF CardType, Post

LEMMA SignalType == IInv /\ CardSignal => CardType'
<1> SUFFICES ASSUME IInv, CardSignal PROVE CardType'
  OBVIOUS
<1>1. parked' \subseteq Bits /\ event' \subseteq Bits /\ credit' \in BOOLEAN
  BY Posted DEF IInv, CardSignal, CardType, Bits
<1> QED
  BY <1>1, Bounds DEF IInv, CardSignal, CardType, Commands

LEMMA FrameType == IInv /\ FrameDone => CardType'
<1> SUFFICES ASSUME IInv, FrameDone PROVE CardType'
  OBVIOUS
<1>1. parked' \subseteq Bits /\ event' \subseteq Bits /\ credit' \in BOOLEAN
  BY Posted DEF IInv, FrameDone, CardType, Bits
<1> QED
  BY <1>1, Bounds DEF IInv, FrameDone, CardType, Commands

LEMMA FireCardType ==
  ASSUME IInv, NEW c \in Callers, Fire(c)
  PROVE  CardType'
<1>1. /\ call[c].kind \in Kinds \cup {"short"} /\ call[c].want \in Bytes
      /\ call[c].attempt \in 1..2
  BY DEF IInv, CallType, CallRecord
<1>2. Preload(c) \in Bytes
  BY <1>1, Sentinels DEF Preload
<1>3. fired + 1 \in Commands /\ 0 \in Commands
  BY Bounds DEF IInv, HostType, Fire, Commands
<1> QED
  BY <1>1, <1>2, <1>3 DEF IInv, Fire, CardType, cardVars

(* The registers and the card.                                             *)
LEMMA StepCardType == IInv /\ [Next]_vars => CardType'
<1> SUFFICES ASSUME IInv, [Next]_vars PROVE CardType'
  OBVIOUS
<1> USE DEF IInv, At, cardVars, regVars, hostVars, histVars, CardType, Bits
<1>1. CASE CardReply
  BY <1>1 DEF CardReply, Commands
<1>2. CASE CardSignal
  BY <1>2, SignalType
<1>3. CASE CardIgnore
  BY <1>3, Bounds DEF CardIgnore, Commands
<1>4. CASE ProxyStore
  BY <1>4 DEF ProxyStore
<1>5. CASE FrameDone
  BY <1>5, FrameType
<1>6. CASE IsrEnter
  BY <1>6 DEF IsrEnter
<1>7. CASE IsrRead
  BY <1>7 DEF IsrRead, AckRead
<1>8. CASE IsrClear
  BY <1>8 DEF IsrClear, AckClear
<1>9. ASSUME NEW c \in Callers, Caller(c) PROVE CardType'
  <2>1. CASE Call(c)
    BY <2>1 DEF Call
  <2>2. CASE Drain(c)
    BY <2>2 DEF Drain
  <2>3. CASE Sync(c)
    BY <2>3 DEF Sync, Goto
  <2>4. CASE Fire(c)
    BY <2>4, FireCardType
  <2>5. CASE PollComplete(c)
    BY <2>5 DEF PollComplete, Goto
  <2>6. CASE PollStatus(c)
    BY <2>6 DEF PollStatus, Goto
  <2>7. CASE SeeEvent(c)
    BY <2>7 DEF SeeEvent
  <2>8. CASE PollTimeout(c)
    BY <2>8 DEF PollTimeout, Conclude
  <2>9. CASE TrailEnd(c)
    BY <2>9 DEF TrailEnd, Conclude
  <2>10. CASE CallerAckRead(c)
    BY <2>10 DEF CallerAckRead, AckRead
  <2>11. CASE CallerAckClear(c)
    <3>1. CASE At(c, "drainAck2")
      BY <2>11, <3>1 DEF CallerAckClear, AckClear
    <3>2. CASE At(c, "pollAck2")
      BY <2>11, <3>2 DEF CallerAckClear, AckClear
    <3>3. CASE At(c, "trailAck2")
      BY <2>11, <3>3 DEF CallerAckClear, AckClear
    <3> QED
      BY <2>11, <3>1, <3>2, <3>3 DEF CallerAckClear
  <2>12. CASE SnapshotReply(c)
    BY <2>12 DEF SnapshotReply, AfterSnapshot
  <2>13. CASE CopyReply(c)
    BY <2>13 DEF CopyReply
  <2>14. CASE Unlock(c)
    BY <2>14 DEF Unlock, Idle
  <2>15. CASE ByteSeen(c)
    BY <2>15 DEF ByteSeen, Preload
  <2>16. CASE ByteRetry(c)
    BY <2>16 DEF ByteRetry, ByteMissing, Preload
  <2>17. CASE ByteGiveUp(c)
    BY <2>17 DEF ByteGiveUp, Conclude, ByteMissing, Preload
  <2> QED
    BY <1>9, <2>1, <2>2, <2>3, <2>4, <2>5, <2>6, <2>7, <2>8, <2>9, <2>10,
       <2>11, <2>12, <2>13, <2>14, <2>15, <2>16, <2>17 DEF Caller
<1>10. CASE UNCHANGED vars
  BY <1>10 DEF vars
<1> QED
  BY <1>1, <1>2, <1>3, <1>4, <1>5, <1>6, <1>7, <1>8, <1>9, <1>10 DEF Next,
     Card, Handler, AtRest

LEMMA FireHostType ==
  ASSUME IInv, NEW c \in Callers, Fire(c)
  PROVE  HostType'
<1>1. fired + 1 \in Commands
  BY Bounds DEF IInv, HostType, Fire, Commands
<1> QED
  BY <1>1 DEF IInv, Fire, HostType

(* Locks, latches and the history.                                         *)
LEMMA StepHostType == IInv /\ [Next]_vars => HostType'
<1> SUFFICES ASSUME IInv, [Next]_vars PROVE HostType'
  OBVIOUS
<1> USE DEF IInv, At, cardVars, regVars, hostVars, histVars, HostType
<1>1. CASE CardReply
  BY <1>1 DEF CardReply, CardType
<1>2. CASE CardSignal
  BY <1>2 DEF CardSignal, Post
<1>3. CASE CardIgnore
  BY <1>3 DEF CardIgnore
<1>4. CASE ProxyStore
  BY <1>4 DEF ProxyStore, Commands
<1>5. CASE FrameDone
  BY <1>5 DEF FrameDone, Post
<1>6. CASE IsrEnter
  BY <1>6 DEF IsrEnter
<1>7. CASE IsrRead
  BY <1>7 DEF IsrRead, AckRead, CardType
<1>8. CASE IsrClear
  BY <1>8 DEF IsrClear, AckClear
<1>9. ASSUME NEW c \in Callers, Caller(c) PROVE HostType'
  <2>1. CASE Call(c)
    BY <2>1 DEF Call
  <2>2. CASE Drain(c)
    BY <2>2 DEF Drain
  <2>3. CASE Sync(c)
    BY <2>3 DEF Sync, Goto
  <2>4. CASE Fire(c)
    BY <2>4, FireHostType
  <2>5. CASE PollComplete(c)
    BY <2>5 DEF PollComplete, Goto
  <2>6. CASE PollStatus(c)
    BY <2>6 DEF PollStatus, Goto
  <2>7. CASE SeeEvent(c)
    BY <2>7 DEF SeeEvent
  <2>8. CASE PollTimeout(c)
    BY <2>8 DEF PollTimeout, Conclude
  <2>9. CASE TrailEnd(c)
    BY <2>9 DEF TrailEnd, Conclude
  <2>10. CASE CallerAckRead(c)
    BY <2>10 DEF CallerAckRead, AckRead, CardType
  <2>11. CASE CallerAckClear(c)
    <3>1. CASE At(c, "drainAck2")
      BY <2>11, <3>1 DEF CallerAckClear, AckClear
    <3>2. CASE At(c, "pollAck2")
      BY <2>11, <3>2 DEF CallerAckClear, AckClear
    <3>3. CASE At(c, "trailAck2")
      BY <2>11, <3>3 DEF CallerAckClear, AckClear
    <3> QED
      BY <2>11, <3>1, <3>2, <3>3 DEF CallerAckClear
  <2>12. CASE SnapshotReply(c)
    BY <2>12 DEF SnapshotReply, AfterSnapshot, CardType
  <2>13. CASE CopyReply(c)
    BY <2>13 DEF CopyReply
  <2>14. CASE Unlock(c)
    BY <2>14 DEF Unlock, Idle
  <2>15. CASE ByteSeen(c)
    BY <2>15 DEF ByteSeen, Preload
  <2>16. CASE ByteRetry(c)
    BY <2>16 DEF ByteRetry, ByteMissing, Preload
  <2>17. CASE ByteGiveUp(c)
    BY <2>17 DEF ByteGiveUp, Conclude, ByteMissing, Preload
  <2> QED
    BY <1>9, <2>1, <2>2, <2>3, <2>4, <2>5, <2>6, <2>7, <2>8, <2>9, <2>10,
       <2>11, <2>12, <2>13, <2>14, <2>15, <2>16, <2>17 DEF Caller
<1>10. CASE UNCHANGED vars
  BY <1>10 DEF vars
<1> QED
  BY <1>1, <1>2, <1>3, <1>4, <1>5, <1>6, <1>7, <1>8, <1>9, <1>10 DEF Next,
     Card, Handler, AtRest

(* Who holds cmd_lock and event_lock.                                      *)
LEMMA StepLocks == IInv /\ [Next]_vars => Locks'
<1> SUFFICES ASSUME IInv, [Next]_vars PROVE Locks'
  OBVIOUS
<1> USE DEF IInv, At, cardVars, regVars, hostVars, histVars, HostType,
   CallType, CallRecord, Locks, Isr, Free
<1>1. CASE CardReply
  BY <1>1, Names DEF CardReply
<1>2. CASE CardSignal
  BY <1>2, Names DEF CardSignal, Post
<1>3. CASE CardIgnore
  BY <1>3, Names DEF CardIgnore
<1>4. CASE ProxyStore
  BY <1>4, Names DEF ProxyStore
<1>5. CASE FrameDone
  BY <1>5, Names DEF FrameDone, Post
<1>6. CASE IsrEnter
  BY <1>6, Names DEF IsrEnter
<1>7. CASE IsrRead
  BY <1>7, Names DEF IsrRead, AckRead
<1>8. CASE IsrClear
  BY <1>8, Names DEF IsrClear, AckClear
<1>9. ASSUME NEW c \in Callers, Caller(c) PROVE Locks'
  <2>1. CASE Call(c)
    BY <2>1, Names DEF Call
  <2>2. CASE Drain(c)
    BY <2>2, Names DEF Drain
  <2>3. CASE Sync(c)
    BY <2>3, Names DEF Sync, Goto
  <2>4. CASE Fire(c)
    <3>1. \A d \in Callers \ {c} : call[d].pc = "idle" /\ call'[d] = call[d]
      BY <2>4 DEF Fire, Locks, CallType
    <3>2. call'[c] = [call[c] EXCEPT !.pc = "poll", !.serial = fired + 1]
      BY <2>4 DEF Fire, CallType
    <3> QED
      BY <2>4, <3>1, <3>2, Names DEF Fire, Preload
  <2>5. CASE PollComplete(c)
    BY <2>5, Names DEF PollComplete, Goto
  <2>6. CASE PollStatus(c)
    BY <2>6, Names DEF PollStatus, Goto
  <2>7. CASE SeeEvent(c)
    BY <2>7, Names DEF SeeEvent
  <2>8. CASE PollTimeout(c)
    BY <2>8, Names DEF PollTimeout, Conclude
  <2>9. CASE TrailEnd(c)
    BY <2>9, Names DEF TrailEnd, Conclude
  <2>10. CASE CallerAckRead(c)
    BY <2>10, Names DEF CallerAckRead, AckRead
  <2>11. CASE CallerAckClear(c)
    <3>1. CASE At(c, "drainAck2")
      BY <2>11, <3>1, Names DEF CallerAckClear, AckClear
    <3>2. CASE At(c, "pollAck2")
      BY <2>11, <3>2, Names DEF CallerAckClear, AckClear
    <3>3. CASE At(c, "trailAck2")
      BY <2>11, <3>3, Names DEF CallerAckClear, AckClear
    <3> QED
      BY <2>11, <3>1, <3>2, <3>3 DEF CallerAckClear
  <2>12. CASE SnapshotReply(c)
    BY <2>12, Names DEF SnapshotReply, AfterSnapshot
  <2>13. CASE CopyReply(c)
    BY <2>13, Names DEF CopyReply
  <2>14. CASE Unlock(c)
    BY <2>14, Names DEF Unlock, Idle
  <2>15. CASE ByteSeen(c)
    BY <2>15, Names DEF ByteSeen, Preload
  <2>16. CASE ByteRetry(c)
    BY <2>16, Names DEF ByteRetry, ByteMissing, Preload
  <2>17. CASE ByteGiveUp(c)
    BY <2>17, Names DEF ByteGiveUp, Conclude, ByteMissing, Preload
  <2> QED
    BY <1>9, <2>1, <2>2, <2>3, <2>4, <2>5, <2>6, <2>7, <2>8, <2>9, <2>10,
       <2>11, <2>12, <2>13, <2>14, <2>15, <2>16, <2>17 DEF Caller
<1>10. CASE UNCHANGED vars
  BY <1>10 DEF vars
<1> QED
  BY <1>1, <1>2, <1>3, <1>4, <1>5, <1>6, <1>7, <1>8, <1>9, <1>10 DEF Next,
     Card, Handler, AtRest

(* The numbers of the commands.                                            *)
LEMMA StepNumbered == IInv /\ [Next]_vars => Numbered'
<1> SUFFICES ASSUME IInv, [Next]_vars PROVE Numbered'
  OBVIOUS
<1> USE DEF IInv, At, cardVars, regVars, hostVars, histVars, CallType,
   CallRecord, Locks, Numbered, Working, Acking, Loaded
<1>1. CASE CardReply
  BY <1>1 DEF CardReply, CardType, HostType, Commands
<1>2. CASE CardSignal
  BY <1>2 DEF CardSignal, Post
<1>3. CASE CardIgnore
  BY <1>3 DEF CardIgnore
<1>4. CASE ProxyStore
  BY <1>4 DEF ProxyStore, HostType, Commands
<1>5. CASE FrameDone
  BY <1>5 DEF FrameDone, Post
<1>6. CASE IsrEnter
  BY <1>6 DEF IsrEnter
<1>7. CASE IsrRead
  BY <1>7 DEF IsrRead, AckRead
<1>8. CASE IsrClear
  BY <1>8 DEF IsrClear, AckClear
<1>9. ASSUME NEW c \in Callers, Caller(c) PROVE Numbered'
  <2>1. CASE Call(c)
    BY <2>1 DEF Call
  <2>2. CASE Drain(c)
    BY <2>2 DEF Drain
  <2>3. CASE Sync(c)
    BY <2>3 DEF Sync, Goto
  <2>4. CASE Fire(c)
    <3>1. \A d \in Callers \ {c} : call[d].pc = "idle" /\ call'[d] = call[d]
      BY <2>4 DEF Fire, Locks, CallType
    <3>2. call'[c] = [call[c] EXCEPT !.pc = "poll", !.serial = fired + 1]
      BY <2>4 DEF Fire, CallType
    <3>3. call'[c].serial = fired + 1 /\ call'[c].kind = call[c].kind
      BY <3>2 DEF CallType, CallRecord
    <3>4. fired \in Nat /\ \A n \in answered \cup landed : n \in Nat
      BY Bounds DEF HostType, Commands
    <3>5. /\ fired' = fired + 1 /\ job' = fired + 1 /\ jobKind' = call[c].kind
          /\ answered' = answered /\ landed' = landed /\ owed' = owed
      BY <2>4 DEF Fire
    <3>6. owed' # 0 => owed' \in answered' /\ owed' # fired' /\ owed' <= fired'
      BY <3>4, <3>5
    <3>7. job' \notin answered'
      BY <3>4, <3>5
    <3> QED
      BY <3>1, <3>3, <3>4, <3>5, <3>6, <3>7
  <2>5. CASE PollComplete(c)
    BY <2>5 DEF PollComplete, Goto
  <2>6. CASE PollStatus(c)
    BY <2>6 DEF PollStatus, Goto
  <2>7. CASE SeeEvent(c)
    BY <2>7 DEF SeeEvent
  <2>8. CASE PollTimeout(c)
    BY <2>8 DEF PollTimeout, Conclude
  <2>9. CASE TrailEnd(c)
    BY <2>9 DEF TrailEnd, Conclude
  <2>10. CASE CallerAckRead(c)
    BY <2>10 DEF CallerAckRead, AckRead
  <2>11. CASE CallerAckClear(c)
    <3>1. CASE At(c, "drainAck2")
      BY <2>11, <3>1 DEF CallerAckClear, AckClear
    <3>2. CASE At(c, "pollAck2")
      BY <2>11, <3>2 DEF CallerAckClear, AckClear
    <3>3. CASE At(c, "trailAck2")
      BY <2>11, <3>3 DEF CallerAckClear, AckClear
    <3> QED
      BY <2>11, <3>1, <3>2, <3>3 DEF CallerAckClear
  <2>12. CASE SnapshotReply(c)
    BY <2>12 DEF SnapshotReply, AfterSnapshot
  <2>13. CASE CopyReply(c)
    BY <2>13 DEF CopyReply
  <2>14. CASE Unlock(c)
    BY <2>14 DEF Unlock, Idle
  <2>15. CASE ByteSeen(c)
    BY <2>15 DEF ByteSeen, Preload
  <2>16. CASE ByteRetry(c)
    BY <2>16 DEF ByteRetry, ByteMissing, Preload, Preparing
  <2>17. CASE ByteGiveUp(c)
    BY <2>17 DEF ByteGiveUp, Conclude, ByteMissing, Preload
  <2> QED
    BY <1>9, <2>1, <2>2, <2>3, <2>4, <2>5, <2>6, <2>7, <2>8, <2>9, <2>10,
       <2>11, <2>12, <2>13, <2>14, <2>15, <2>16, <2>17 DEF Caller
<1>10. CASE UNCHANGED vars
  BY <1>10 DEF vars
<1> QED
  BY <1>1, <1>2, <1>3, <1>4, <1>5, <1>6, <1>7, <1>8, <1>9, <1>10 DEF Next,
     Card, Handler, AtRest

(* The doorbell of a read: the sentinel goes in; in a second attempt, what *)
(* is known of the first is what is known of the command before.           *)
LEMMA FirePeripheral ==
  ASSUME IInv, NEW c \in Callers, Fire(c)
  PROVE  Peripheral'
<1>1. \A d \in Callers \ {c} : call[d].pc = "idle" /\ call'[d] = call[d]
  BY DEF IInv, Fire, At, Locks, CallType
<1>2. call'[c] = [call[c] EXCEPT !.pc = "poll", !.serial = fired + 1]
  BY DEF IInv, Fire, CallType
<1>3. /\ call'[c].pc = "poll" /\ call'[c].kind = call[c].kind
      /\ call'[c].attempt = call[c].attempt /\ call'[c].want = call[c].want
  BY <1>2 DEF IInv, CallType, CallRecord
<1>4. /\ fired \in Nat /\ fired' = fired + 1 /\ fired' - 1 = fired
      /\ fired + 1 \notin landed /\ landed' = landed
  BY DEF IInv, HostType, Commands, Numbered, Fire
<1>5. call[c].kind = "read" =>
         byte' = Preload(c) /\ Preload(c)' = Preload(c) /\ late' = <<call[c].want>>
  BY <1>3 DEF Fire, Preload
<1>6. Preparing(c)
  BY DEF Fire, Preparing, At
<1>7. call[c].attempt = 2 /\ fired \in landed => call[c].want = Sentinel[1]
  BY <1>6 DEF IInv, Peripheral
<1>8. \A d \in Callers \ {c} : call'[d].attempt = 1
  BY <1>1 DEF IInv, Peripheral, At
<1> QED
  BY <1>1, <1>3, <1>4, <1>5, <1>7, <1>8
     DEF Peripheral, At, Preparing, Loaded, Working, Acking

(* PARAM3 during a read.                                                   *)
LEMMA StepPeripheral == IInv /\ [Next]_vars => Peripheral'
<1> SUFFICES ASSUME IInv, [Next]_vars PROVE Peripheral'
  OBVIOUS
<1> USE DEF IInv, At, cardVars, regVars, hostVars, histVars, CallType,
   CallRecord, Locks, Numbered, Working, Acking, Loaded, Preparing, Peripheral,
   Preload
<1>1. CASE CardReply
  BY <1>1 DEF CardReply
<1>2. CASE CardSignal
  BY <1>2 DEF CardSignal, Post
<1>3. CASE CardIgnore
  BY <1>3 DEF CardIgnore
<1>4. CASE ProxyStore
  BY <1>4 DEF ProxyStore, HostType, Commands
<1>5. CASE FrameDone
  BY <1>5 DEF FrameDone, Post
<1>6. CASE IsrEnter
  BY <1>6 DEF IsrEnter
<1>7. CASE IsrRead
  BY <1>7 DEF IsrRead, AckRead
<1>8. CASE IsrClear
  BY <1>8 DEF IsrClear, AckClear
<1>9. ASSUME NEW c \in Callers, Caller(c) PROVE Peripheral'
  <2>1. CASE Call(c)
    BY <2>1 DEF Call
  <2>2. CASE Drain(c)
    BY <2>2 DEF Drain
  <2>3. CASE Sync(c)
    BY <2>3 DEF Sync, Goto
  <2>4. CASE Fire(c)
    BY <2>4, FirePeripheral
  <2>5. CASE PollComplete(c)
    BY <2>5 DEF PollComplete, Goto
  <2>6. CASE PollStatus(c)
    BY <2>6 DEF PollStatus, Goto
  <2>7. CASE SeeEvent(c)
    BY <2>7 DEF SeeEvent
  <2>8. CASE PollTimeout(c)
    BY <2>8 DEF PollTimeout, Conclude
  <2>9. CASE TrailEnd(c)
    BY <2>9 DEF TrailEnd, Conclude
  <2>10. CASE CallerAckRead(c)
    BY <2>10 DEF CallerAckRead, AckRead
  <2>11. CASE CallerAckClear(c)
    <3>1. CASE At(c, "drainAck2")
      BY <2>11, <3>1 DEF CallerAckClear, AckClear
    <3>2. CASE At(c, "pollAck2")
      BY <2>11, <3>2 DEF CallerAckClear, AckClear
    <3>3. CASE At(c, "trailAck2")
      BY <2>11, <3>3 DEF CallerAckClear, AckClear
    <3> QED
      BY <2>11, <3>1, <3>2, <3>3 DEF CallerAckClear
  <2>12. CASE SnapshotReply(c)
    BY <2>12 DEF SnapshotReply, AfterSnapshot
  <2>13. CASE CopyReply(c)
    BY <2>13 DEF CopyReply
  <2>14. CASE Unlock(c)
    BY <2>14 DEF Unlock, Idle
  <2>15. CASE ByteSeen(c)
    BY <2>15 DEF ByteSeen
  <2>16. CASE ByteRetry(c)
    BY <2>16, Sentinels DEF ByteRetry, ByteMissing, CardType
  <2>17. CASE ByteGiveUp(c)
    BY <2>17 DEF ByteGiveUp, Conclude, ByteMissing
  <2> QED
    BY <1>9, <2>1, <2>2, <2>3, <2>4, <2>5, <2>6, <2>7, <2>8, <2>9, <2>10,
       <2>11, <2>12, <2>13, <2>14, <2>15, <2>16, <2>17 DEF Caller
<1>10. CASE UNCHANGED vars
  BY <1>10 DEF vars
<1> QED
  BY <1>1, <1>2, <1>3, <1>4, <1>5, <1>6, <1>7, <1>8, <1>9, <1>10 DEF Next,
     Card, Handler, AtRest

(* Posting an event spends the credit.                                     *)
LEMMA SignalCredit == IInv /\ CardSignal => Credit'
BY DEF IInv, CardType, Credit, CardSignal, Post

(* The credit and the event.                                               *)
LEMMA StepCredit == IInv /\ [Next]_vars => Credit'
<1> SUFFICES ASSUME IInv, [Next]_vars PROVE Credit'
  OBVIOUS
<1> USE DEF IInv, At, cardVars, regVars, hostVars, histVars, CallType,
   CallRecord, Locks, Numbered, Working, Acking, Loaded, Credit
<1>1. CASE CardReply
  BY <1>1 DEF CardReply, CardType
<1>2. CASE CardSignal
  BY <1>2, SignalCredit
<1>3. CASE CardIgnore
  BY <1>3 DEF CardIgnore
<1>4. CASE ProxyStore
  BY <1>4 DEF ProxyStore
<1>5. CASE FrameDone
  BY <1>5, Bounds DEF FrameDone, Post, CardType
<1>6. CASE IsrEnter
  BY <1>6 DEF IsrEnter
<1>7. CASE IsrRead
  BY <1>7 DEF IsrRead, AckRead
<1>8. CASE IsrClear
  BY <1>8 DEF IsrClear, AckClear
<1>9. ASSUME NEW c \in Callers, Caller(c) PROVE Credit'
  <2>1. CASE Call(c)
    BY <2>1 DEF Call, Drained, CardType
  <2>2. CASE Drain(c)
    BY <2>2 DEF Drain, Drained, CardType
  <2>3. CASE Sync(c)
    BY <2>3 DEF Sync, Goto, Drained, CardType
  <2>4. CASE Fire(c)
    <3>1. \A d \in Callers \ {c} : call[d].pc = "idle" /\ call'[d] = call[d]
      BY <2>4 DEF Fire, Locks, CallType
    <3>2. call'[c] = [call[c] EXCEPT !.pc = "poll", !.serial = fired + 1]
      BY <2>4 DEF Fire, CallType
    <3> QED
      BY <2>4, <3>1, <3>2 DEF Fire, Preload, Drained, CardType
  <2>5. CASE PollComplete(c)
    BY <2>5 DEF PollComplete, Goto, Drained, CardType
  <2>6. CASE PollStatus(c)
    BY <2>6 DEF PollStatus, Goto, Drained, CardType
  <2>7. CASE SeeEvent(c)
    BY <2>7 DEF SeeEvent, Drained, CardType
  <2>8. CASE PollTimeout(c)
    BY <2>8 DEF PollTimeout, Conclude, Drained, CardType
  <2>9. CASE TrailEnd(c)
    BY <2>9 DEF TrailEnd, Conclude, Drained, CardType
  <2>10. CASE CallerAckRead(c)
    BY <2>10 DEF CallerAckRead, AckRead, Drained, CardType
  <2>11. CASE CallerAckClear(c)
    <3>1. CASE At(c, "drainAck2")
      BY <2>11, <3>1 DEF CallerAckClear, AckClear, Drained, CardType
    <3>2. CASE At(c, "pollAck2")
      BY <2>11, <3>2 DEF CallerAckClear, AckClear, Drained, CardType
    <3>3. CASE At(c, "trailAck2")
      BY <2>11, <3>3 DEF CallerAckClear, AckClear, Drained, CardType
    <3> QED
      BY <2>11, <3>1, <3>2, <3>3 DEF CallerAckClear
  <2>12. CASE SnapshotReply(c)
    BY <2>12 DEF SnapshotReply, AfterSnapshot, Drained, CardType
  <2>13. CASE CopyReply(c)
    BY <2>13 DEF CopyReply, Drained, CardType
  <2>14. CASE Unlock(c)
    BY <2>14 DEF Unlock, Idle, Drained, CardType
  <2>15. CASE ByteSeen(c)
    BY <2>15 DEF ByteSeen, Preload, Drained, CardType
  <2>16. CASE ByteRetry(c)
    BY <2>16 DEF ByteRetry, ByteMissing, Preload, Drained, CardType
  <2>17. CASE ByteGiveUp(c)
    BY <2>17 DEF ByteGiveUp, Conclude, ByteMissing, Preload, Drained, CardType
  <2> QED
    BY <1>9, <2>1, <2>2, <2>3, <2>4, <2>5, <2>6, <2>7, <2>8, <2>9, <2>10,
       <2>11, <2>12, <2>13, <2>14, <2>15, <2>16, <2>17 DEF Caller
<1>10. CASE UNCHANGED vars
  BY <1>10 DEF vars
<1> QED
  BY <1>1, <1>2, <1>3, <1>4, <1>5, <1>6, <1>7, <1>8, <1>9, <1>10 DEF Next,
     Card, Handler, AtRest

(* A completion that is no stray shows in EVENT only if EVENT was empty,   *)
(* and some caller is past the doorbell of its command.                    *)
LEMMA Signalled ==
  ASSUME IInv, CardSignal, Calm'
  PROVE  /\ Calm
         /\ event' # event =>
              /\ event = {}
              /\ \E d \in Callers : /\ Loaded(d) \/ At(d, "unlock")
                                   /\ call[d].serial = owed
<1>1. Calm
  BY DEF IInv, HostType, CardSignal, Calm
<1>2. credit <=> event = {}
  BY <1>1 DEF IInv, Credit, Calm
<1>3. ASSUME event' # event
      PROVE  /\ event = {}
             /\ \E d \in Callers : /\ Loaded(d) \/ At(d, "unlock")
                                  /\ call[d].serial = owed
  <2>1. Post("cmd") /\ Awaited
    BY <1>3 DEF CardSignal, Calm
  <2> QED
    BY <1>2, <1>3, <2>1 DEF Post, Awaited, Loaded, Working, Acking, At
<1> QED
  BY <1>1, <1>3

LEMMA SignalDrained == IInv /\ CardSignal => Drained'
<1> SUFFICES ASSUME IInv, CardSignal, Calm', NEW c \in Callers,
                    call[c].pc \in {"sync", "install"}
             PROVE  event' = {} /\ (At(c, "install") => isr' = "idle")
  BY DEF CardSignal, Drained, At
<1>1. event = {} /\ (At(c, "install") => isr = "idle")
  BY Signalled DEF IInv, Drained
<1>2. event' = event
  BY Signalled DEF IInv, Locks, Loaded, Working, Acking, At
<1> QED
  BY <1>1, <1>2 DEF CardSignal, hostVars

(* The completion of the command in hand.                                  *)
LEMMA SignalTraces == IInv /\ CardSignal => Traces'
<1> SUFFICES ASSUME IInv, CardSignal, Calm' PROVE Traces'
  BY DEF Traces
<1>1. Calm /\ Traces
  BY Signalled DEF IInv
<1>2. /\ call' = call /\ reply' = reply /\ status' = status /\ isr' = isr
      /\ eventLock' = eventLock /\ complete' = complete /\ owed' = 0
      /\ lastReply' = lastReply /\ fired' = fired /\ answered' = answered
  BY DEF CardSignal, hostVars
<1>3. ASSUME NEW c \in Callers, Loaded(c), event' # event
      PROVE  Own(c) /\ (Working(c) => eventLock = Free)
  <2>1. PICK d \in Callers : (Loaded(d) \/ At(d, "unlock")) /\ call[d].serial = owed
    BY <1>3, Signalled
  <2>2. d = c
    BY <1>3, <2>1 DEF IInv, Locks, Loaded, Working, Acking, At
  <2>3. Own(c) /\ owed = fired
    BY <1>3, <2>1, <2>2 DEF IInv, Numbered, Own, CardSignal
  <2>4. Working(c) => isr = "idle" /\ ~Acking(c)
    BY <1>1, <1>3, <2>3 DEF Traces, Settled
  <2>5. \A b \in Callers : ~At(b, "idle") => b = c
    BY <1>3 DEF IInv, Locks, Loaded, Working, Acking, At
  <2> QED
    BY <2>3, <2>4, <2>5 DEF IInv, Locks, HostType, Loaded, Working, Acking, At
<1>4. ASSUME NEW c \in Callers, Loaded(c) PROVE fired # 0
  BY <1>4, Bounds DEF IInv, Numbered, HostType, Commands
<1>5. ASSUME NEW c \in Callers, Loaded(c), event' # {} PROVE Own(c)
  BY <1>1, <1>3, <1>5 DEF Traces, Settled
<1>6. \A c \in Callers : /\ Loaded(c)' = Loaded(c) /\ Working(c)' = Working(c)
                        /\ Acking(c)' = Acking(c) /\ Own(c)' = Own(c)
                        /\ (Loaded(c) /\ Own(c) => Settled(c)')
  BY <1>2, <1>4 DEF Loaded, Working, Acking, Own, Settled, At
<1>7. \A c \in Callers : Working(c) => Loaded(c)
  BY DEF Loaded
<1>8. \A c \in Callers : Settled(c) => Own(c)
  BY DEF Settled
<1> HIDE DEF Calm
<1> QED
  BY <1>1, <1>2, <1>3, <1>5, <1>6, <1>7, <1>8 DEF Traces, At

(* An empty mailbox at the doorbell.                                       *)
LEMMA StepDrained == IInv /\ [Next]_vars => Drained'
<1> SUFFICES ASSUME IInv, [Next]_vars PROVE Drained'
  OBVIOUS
<1> USE DEF IInv, At, cardVars, regVars, hostVars, histVars, CallType,
   CallRecord, Locks, Credit, Drained, Calm, CardType
<1>1. CASE CardReply
  BY <1>1 DEF CardReply
<1>2. CASE CardSignal
  BY <1>2, SignalDrained
<1>3. CASE CardIgnore
  BY <1>3 DEF CardIgnore
<1>4. CASE ProxyStore
  BY <1>4 DEF ProxyStore
<1>5. CASE FrameDone
  BY <1>5, Bounds DEF FrameDone, Post
<1>6. CASE IsrEnter
  BY <1>6 DEF IsrEnter
<1>7. CASE IsrRead
  BY <1>7 DEF IsrRead, AckRead
<1>8. CASE IsrClear
  BY <1>8 DEF IsrClear, AckClear
<1>9. ASSUME NEW c \in Callers, Caller(c) PROVE Drained'
  <2>1. CASE Call(c)
    BY <2>1 DEF Call
  <2>2. CASE Drain(c)
    BY <2>2 DEF Drain
  <2>3. CASE Sync(c)
    BY <2>3 DEF Sync, Goto, HostType
  <2>4. CASE Fire(c)
    <3>1. \A d \in Callers \ {c} : call[d].pc = "idle" /\ call'[d] = call[d]
      BY <2>4 DEF Fire, Locks, CallType
    <3>2. call'[c] = [call[c] EXCEPT !.pc = "poll", !.serial = fired + 1]
      BY <2>4 DEF Fire, CallType
    <3> QED
      BY <2>4, <3>1, <3>2 DEF Fire, Preload
  <2>5. CASE PollComplete(c)
    BY <2>5 DEF PollComplete, Goto
  <2>6. CASE PollStatus(c)
    BY <2>6 DEF PollStatus, Goto
  <2>7. CASE SeeEvent(c)
    BY <2>7 DEF SeeEvent
  <2>8. CASE PollTimeout(c)
    BY <2>8 DEF PollTimeout, Conclude
  <2>9. CASE TrailEnd(c)
    BY <2>9 DEF TrailEnd, Conclude
  <2>10. CASE CallerAckRead(c)
    BY <2>10 DEF CallerAckRead, AckRead
  <2>11. CASE CallerAckClear(c)
    <3>1. CASE At(c, "drainAck2")
      BY <2>11, <3>1 DEF CallerAckClear, AckClear
    <3>2. CASE At(c, "pollAck2")
      BY <2>11, <3>2 DEF CallerAckClear, AckClear
    <3>3. CASE At(c, "trailAck2")
      BY <2>11, <3>3 DEF CallerAckClear, AckClear
    <3> QED
      BY <2>11, <3>1, <3>2, <3>3 DEF CallerAckClear
  <2>12. CASE SnapshotReply(c)
    BY <2>12 DEF SnapshotReply, AfterSnapshot
  <2>13. CASE CopyReply(c)
    BY <2>13 DEF CopyReply
  <2>14. CASE Unlock(c)
    BY <2>14 DEF Unlock, Idle
  <2>15. CASE ByteSeen(c)
    BY <2>15 DEF ByteSeen, Preload
  <2>16. CASE ByteRetry(c)
    BY <2>16 DEF ByteRetry, ByteMissing, Preload
  <2>17. CASE ByteGiveUp(c)
    BY <2>17 DEF ByteGiveUp, Conclude, ByteMissing, Preload
  <2> QED
    BY <1>9, <2>1, <2>2, <2>3, <2>4, <2>5, <2>6, <2>7, <2>8, <2>9, <2>10,
       <2>11, <2>12, <2>13, <2>14, <2>15, <2>16, <2>17 DEF Caller
<1>10. CASE UNCHANGED vars
  BY <1>10 DEF vars
<1> QED
  BY <1>1, <1>2, <1>3, <1>4, <1>5, <1>6, <1>7, <1>8, <1>9, <1>10 DEF Next,
     Card, Handler, AtRest

LEMMA IsrReadTraces == IInv /\ IsrRead => Traces'
<1> SUFFICES ASSUME IInv, IsrRead PROVE Traces'
  OBVIOUS
<1> USE DEF IInv, IsrRead, AckRead, Traces, CardType, Credit, Settled, Calm, Own, Loaded,
   Working, Acking, At, cardVars, regVars, histVars
<1>1. CASE "cmd" \in event
  BY <1>1, Names
<1>2. CASE "cmd" \notin event
  BY <1>2, Names
<1> QED
  BY <1>1, <1>2

(* What pollers and handler see belongs to the command in hand.            *)
LEMMA StepTraces == IInv /\ [Next]_vars => Traces'
<1> SUFFICES ASSUME IInv, [Next]_vars PROVE Traces'
  OBVIOUS
<1> USE DEF IInv, At, cardVars, regVars, hostVars, histVars, CardType,
   HostType, CallType, CallRecord, Locks, Numbered, Working, Acking, Loaded,
   Credit, Drained, Traces, Settled, Calm, Own, Isr, Free, Bits, Commands
<1>1. CASE CardReply
  BY <1>1, Bounds, Names DEF CardReply
<1>2. CASE CardSignal
  BY <1>2, SignalTraces
<1>3. CASE CardIgnore
  BY <1>3, Bounds, Names DEF CardIgnore
<1>4. CASE ProxyStore
  BY <1>4, Bounds, Names DEF ProxyStore
<1>5. CASE FrameDone
  BY <1>5, Bounds, Names DEF FrameDone, Post
<1>6. CASE IsrEnter
  BY <1>6, Bounds, Names DEF IsrEnter
<1>7. CASE IsrRead
  BY <1>7, IsrReadTraces
<1>8. CASE IsrClear
  BY <1>8, Bounds, Names DEF IsrClear, AckClear
<1>9. ASSUME NEW c \in Callers, Caller(c) PROVE Traces'
  <2>1. CASE Call(c)
    <3> HIDE DEF IInv, Traces
    <3> QED
      BY <2>1, Begin, Early
  <2>2. CASE Drain(c)
    <3> HIDE DEF IInv, Traces
    <3> QED
      BY <2>2, DrainSeen, Early
  <2>3. CASE Sync(c)
    BY <2>3, Bounds, Names DEF Sync, Goto
  <2>4. CASE Fire(c)
    <3>1. \A d \in Callers \ {c} : call[d].pc = "idle" /\ call'[d] = call[d]
      BY <2>4 DEF Fire, Locks, CallType
    <3>2. call'[c] = [call[c] EXCEPT !.pc = "poll", !.serial = fired + 1]
      BY <2>4 DEF Fire, CallType
    <3> QED
      BY <2>4, <3>1, <3>2, Bounds, Names DEF Fire, Preload
  <2>5. CASE PollComplete(c)
    BY <2>5, Bounds, Names DEF PollComplete, Goto
  <2>6. CASE PollStatus(c)
    BY <2>6, Bounds, Names DEF PollStatus, Goto
  <2>7. CASE SeeEvent(c)
    BY <2>7, Bounds, Names DEF SeeEvent
  <2>8. CASE PollTimeout(c)
    BY <2>8, Bounds, Names DEF PollTimeout, Conclude
  <2>9. CASE TrailEnd(c)
    BY <2>9, Bounds, Names DEF TrailEnd, Conclude
  <2>10. CASE CallerAckRead(c)
    <3>1. CASE At(c, "drainAck")
      <4> HIDE DEF IInv, Traces
      <4> QED
        BY <2>10, <3>1, DrainRead, Early
    <3>2. CASE At(c, "pollAck")
      BY <2>10, <3>2, Bounds, Names DEF CallerAckRead, AckRead
    <3>3. CASE At(c, "trailAck")
      BY <2>10, <3>3, Bounds, Names DEF CallerAckRead, AckRead
    <3> QED
      BY <2>10, <3>1, <3>2, <3>3 DEF CallerAckRead
  <2>11. CASE CallerAckClear(c)
    <3>1. CASE At(c, "drainAck2")
      BY <2>11, <3>1, Bounds, Names DEF CallerAckClear, AckClear
    <3>2. CASE At(c, "pollAck2")
      BY <2>11, <3>2, Bounds, Names DEF CallerAckClear, AckClear
    <3>3. CASE At(c, "trailAck2")
      BY <2>11, <3>3, Bounds, Names DEF CallerAckClear, AckClear
    <3> QED
      BY <2>11, <3>1, <3>2, <3>3 DEF CallerAckClear
  <2>12. CASE SnapshotReply(c)
    BY <2>12, Bounds, Names DEF SnapshotReply, AfterSnapshot
  <2>13. CASE CopyReply(c)
    BY <2>13, Bounds, Names DEF CopyReply
  <2>14. CASE Unlock(c)
    BY <2>14, Bounds, Names DEF Unlock, Idle
  <2>15. CASE ByteSeen(c)
    BY <2>15, Bounds, Names DEF ByteSeen, Preload
  <2>16. CASE ByteRetry(c)
    BY <2>16, Bounds, Names DEF ByteRetry, ByteMissing, Preload
  <2>17. CASE ByteGiveUp(c)
    BY <2>17, Bounds, Names DEF ByteGiveUp, Conclude, ByteMissing, Preload
  <2> QED
    BY <1>9, <2>1, <2>2, <2>3, <2>4, <2>5, <2>6, <2>7, <2>8, <2>9, <2>10,
       <2>11, <2>12, <2>13, <2>14, <2>15, <2>16, <2>17 DEF Caller
<1>10. CASE UNCHANGED vars
  BY <1>10 DEF vars
<1> QED
  BY <1>1, <1>2, <1>3, <1>4, <1>5, <1>6, <1>7, <1>8, <1>9, <1>10 DEF Next,
     Card, Handler, AtRest

(* A caller that is not streamed to sees the completion it waits for in    *)
(* EVENT as soon as the card has signalled it.                             *)
LEMMA SignalVisible == IInv /\ CardSignal => Visible'
<1> SUFFICES ASSUME IInv, CardSignal PROVE Visible'
  OBVIOUS
<1>1. /\ call' = call /\ status' = status /\ complete' = complete /\ job' = job
      /\ fired' = fired /\ answered' = answered
  BY DEF CardSignal, hostVars
<1>2. Calm' => Calm
  BY Signalled
<1>3. ASSUME NEW c \in Callers, Working(c), call[c].kind = "wide", Calm',
             call[c].serial \in answered
      PROVE  event' # {} \/ complete
  <2>1. CASE Post("cmd")
    BY <1>2, <1>3, <2>1 DEF IInv, Credit, Calm, Post
  <2>2. CASE owed # fired \/ jobKind # "wide"
    <3>1. owed # fired
      BY <1>3, <2>2 DEF IInv, Numbered, Loaded
    <3>2. event # {} \/ complete
      BY <1>2, <1>3, <3>1 DEF IInv, Visible
    <3> QED
      BY <3>2 DEF CardSignal, Post
  <2> QED
    BY <2>1, <2>2 DEF CardSignal
<1>4. \A c \in Callers : Working(c)' = Working(c)
  BY <1>1 DEF Working, Acking, At
<1> HIDE DEF Calm
<1> QED
  BY <1>1, <1>2, <1>3, <1>4 DEF IInv, Visible

(* A caller that clears the event under event_lock has already taken the   *)
(* completion over.                                                        *)
LEMMA AckVisible ==
  ASSUME IInv, NEW c \in Callers, CallerAckClear(c)
  PROVE  Visible'
<1>1. \A d \in Callers \ {c} : call[d].pc = "idle" /\ call'[d] = call[d]
  BY DEF IInv, CallerAckClear, At, Locks, CallType
<1>2. call[c] \in CallRecord /\ CallType
  BY DEF IInv, CallType
<1>3. /\ \/ call'[c].pc \in {"sync", "poll", "trail"}
         \/ call'[c].pc = "snapshot" /\ call'[c].result = "ok"
      /\ call'[c].kind = call[c].kind /\ call'[c].serial = call[c].serial
      /\ call[c].pc = "drainAck2" => call'[c].pc = "sync"
      /\ call[c].pc \in {"drainAck2", "pollAck2", "trailAck2"}
  BY <1>2 DEF CallerAckClear, At, CallType, CallRecord
<1>4. call[c].serial \in answered /\ call[c].pc # "drainAck2" =>
         IF call[c].kind = "wide"
         THEN Calm => owed = fired \/ complete ELSE status = "done"
  <2>1. eventLock = c /\ eventLock # Free
    BY Names DEF CallerAckClear, AckClear
  <2> QED
    BY <1>3, <2>1 DEF IInv, Visible, Traces, Loaded, Working, Acking, At
<1>5. /\ answered' = answered /\ complete' = complete /\ fired' = fired
      /\ owed' = owed /\ status' = status /\ (Calm' <=> Calm)
  BY DEF CallerAckClear, histVars, Calm
<1> HIDE DEF Calm
<1> QED
  BY <1>1, <1>3, <1>4, <1>5 DEF Visible, Working, Acking, At

(* No answer is lost.                                                      *)
LEMMA StepVisible == IInv /\ [Next]_vars => Visible'
<1> SUFFICES ASSUME IInv, [Next]_vars PROVE Visible'
  OBVIOUS
<1> USE DEF IInv, At, cardVars, regVars, hostVars, histVars, CardType,
   HostType, CallType, CallRecord, Locks, Numbered, Working, Acking, Loaded,
   Credit, Drained, Traces, Visible, Settled, Calm, Own, Isr, Free, Bits, Commands
<1>1. CASE CardReply
  BY <1>1, Bounds, Names DEF CardReply
<1>2. CASE CardSignal
  BY <1>2, SignalVisible
<1>3. CASE CardIgnore
  BY <1>3, Bounds, Names DEF CardIgnore
<1>4. CASE ProxyStore
  BY <1>4, Bounds, Names DEF ProxyStore
<1>5. CASE FrameDone
  BY <1>5, Bounds, Names DEF FrameDone, Post
<1>6. CASE IsrEnter
  BY <1>6, Bounds, Names DEF IsrEnter
<1>7. CASE IsrRead
  BY <1>7, Bounds, Names DEF IsrRead, AckRead
<1>8. CASE IsrClear
  BY <1>8, Bounds, Names DEF IsrClear, AckClear
<1>9. ASSUME NEW c \in Callers, Caller(c) PROVE Visible'
  <2>1. CASE Call(c)
    <3> HIDE DEF IInv, Visible
    <3> QED
      BY <2>1, Begin, Early
  <2>2. CASE Drain(c)
    <3> HIDE DEF IInv, Visible
    <3> QED
      BY <2>2, DrainSeen, Early
  <2>3. CASE Sync(c)
    BY <2>3, Bounds, Names DEF Sync, Goto
  <2>4. CASE Fire(c)
    <3>1. \A d \in Callers \ {c} : call[d].pc = "idle" /\ call'[d] = call[d]
      BY <2>4 DEF Fire, Locks, CallType
    <3>2. call'[c] = [call[c] EXCEPT !.pc = "poll", !.serial = fired + 1]
      BY <2>4 DEF Fire, CallType
    <3> QED
      BY <2>4, <3>1, <3>2, Bounds, Names DEF Fire, Preload
  <2>5. CASE PollComplete(c)
    BY <2>5, Bounds, Names DEF PollComplete, Goto
  <2>6. CASE PollStatus(c)
    BY <2>6, Bounds, Names DEF PollStatus, Goto
  <2>7. CASE SeeEvent(c)
    BY <2>7, Bounds, Names DEF SeeEvent
  <2>8. CASE PollTimeout(c)
    BY <2>8, Bounds, Names DEF PollTimeout, Conclude
  <2>9. CASE TrailEnd(c)
    BY <2>9, Bounds, Names DEF TrailEnd, Conclude
  <2>10. CASE CallerAckRead(c)
    <3>1. CASE At(c, "drainAck")
      <4> HIDE DEF IInv, Visible
      <4> QED
        BY <2>10, <3>1, DrainRead, Early
    <3>2. CASE At(c, "pollAck")
      BY <2>10, <3>2, Bounds, Names DEF CallerAckRead, AckRead
    <3>3. CASE At(c, "trailAck")
      BY <2>10, <3>3, Bounds, Names DEF CallerAckRead, AckRead
    <3> QED
      BY <2>10, <3>1, <3>2, <3>3 DEF CallerAckRead
  <2>11. CASE CallerAckClear(c)
    BY <2>11, AckVisible
  <2>12. CASE SnapshotReply(c)
    BY <2>12, Bounds, Names DEF SnapshotReply, AfterSnapshot
  <2>13. CASE CopyReply(c)
    BY <2>13, Bounds, Names DEF CopyReply
  <2>14. CASE Unlock(c)
    BY <2>14, Bounds, Names DEF Unlock, Idle
  <2>15. CASE ByteSeen(c)
    BY <2>15, Bounds, Names DEF ByteSeen, Preload
  <2>16. CASE ByteRetry(c)
    BY <2>16, Bounds, Names DEF ByteRetry, ByteMissing, Preload
  <2>17. CASE ByteGiveUp(c)
    BY <2>17, Bounds, Names DEF ByteGiveUp, Conclude, ByteMissing, Preload
  <2> QED
    BY <1>9, <2>1, <2>2, <2>3, <2>4, <2>5, <2>6, <2>7, <2>8, <2>9, <2>10,
       <2>11, <2>12, <2>13, <2>14, <2>15, <2>16, <2>17 DEF Caller
<1>10. CASE UNCHANGED vars
  BY <1>10 DEF vars
<1> QED
  BY <1>1, <1>2, <1>3, <1>4, <1>5, <1>6, <1>7, <1>8, <1>9, <1>10 DEF Next,
     Card, Handler, AtRest

LEMMA AckOutcome ==
  ASSUME IInv, NEW c \in Callers, CallerAckClear(c)
  PROVE  Outcome'
<1>1. /\ fired' = fired /\ answered' = answered /\ landed' = landed
      /\ late' = late /\ frames' = frames /\ strayed' = strayed /\ job' = job
  BY DEF CallerAckClear, histVars
<1>2. ASSUME NEW d \in Callers, At(d, "unlock")' PROVE call'[d] = call[d]
  BY <1>2 DEF IInv, CallerAckClear, At, Locks, CallType, CallRecord
<1> QED
  BY <1>1, <1>2 DEF IInv, Outcome, Calm, SuccessIsOwn, ReadsOwn, Returning, At

(* What a call returns.                                                    *)
LEMMA StepOutcome == IInv /\ [Next]_vars => Outcome'
<1> SUFFICES ASSUME IInv, [Next]_vars PROVE Outcome'
  OBVIOUS
<1> USE DEF IInv, At, cardVars, regVars, hostVars, histVars, CardType,
   HostType, CallType, CallRecord, Locks, Numbered, Working, Acking, Loaded,
   Credit, Traces, Visible, Settled, Calm, Own, Bits, Commands, Outcome, SuccessIsOwn,
   ReadsOwn, Returning, Peripheral, Preload
<1>1. CASE CardReply
  BY <1>1, Bounds, Sentinels DEF CardReply
<1>2. CASE CardSignal
  BY <1>2, Bounds, Sentinels DEF CardSignal, Post
<1>3. CASE CardIgnore
  BY <1>3, Bounds, Sentinels DEF CardIgnore
<1>4. CASE ProxyStore
  BY <1>4, Bounds, Sentinels DEF ProxyStore
<1>5. CASE FrameDone
  BY <1>5, Bounds, Sentinels DEF FrameDone, Post
<1>6. CASE IsrEnter
  BY <1>6, Bounds, Sentinels DEF IsrEnter
<1>7. CASE IsrRead
  BY <1>7, Bounds, Sentinels DEF IsrRead, AckRead
<1>8. CASE IsrClear
  BY <1>8, Bounds, Sentinels DEF IsrClear, AckClear
<1>9. ASSUME NEW c \in Callers, Caller(c) PROVE Outcome'
  <2>1. CASE Call(c)
    BY <2>1, Begin
  <2>2. CASE Drain(c)
    BY <2>2, Bounds, Sentinels DEF Drain
  <2>3. CASE Sync(c)
    BY <2>3, Bounds, Sentinels DEF Sync, Goto
  <2>4. CASE Fire(c)
    <3>1. \A d \in Callers \ {c} : call[d].pc = "idle" /\ call'[d] = call[d]
      BY <2>4 DEF Fire, Locks, CallType
    <3>2. call'[c] = [call[c] EXCEPT !.pc = "poll", !.serial = fired + 1]
      BY <2>4 DEF Fire, CallType
    <3> QED
      BY <2>4, <3>1, <3>2, Bounds, Sentinels DEF Fire
  <2>5. CASE PollComplete(c)
    BY <2>5, Bounds, Sentinels DEF PollComplete, Goto
  <2>6. CASE PollStatus(c)
    BY <2>6, Bounds, Sentinels DEF PollStatus, Goto
  <2>7. CASE SeeEvent(c)
    BY <2>7, Bounds, Sentinels DEF SeeEvent
  <2>8. CASE PollTimeout(c)
    BY <2>8, Bounds, Sentinels DEF PollTimeout, Conclude
  <2>9. CASE TrailEnd(c)
    BY <2>9, Bounds, Sentinels DEF TrailEnd, Conclude
  <2>10. CASE CallerAckRead(c)
    BY <2>10, Bounds, Sentinels DEF CallerAckRead, AckRead
  <2>11. CASE CallerAckClear(c)
    BY <2>11, AckOutcome
  <2>12. CASE SnapshotReply(c)
    BY <2>12, Bounds, Sentinels DEF SnapshotReply, AfterSnapshot
  <2>13. CASE CopyReply(c)
    BY <2>13, Bounds, Sentinels DEF CopyReply
  <2>14. CASE Unlock(c)
    BY <2>14, Bounds, Sentinels DEF Unlock, Idle
  <2>15. CASE ByteSeen(c)
    BY <2>15, Bounds, Sentinels DEF ByteSeen
  <2>16. CASE ByteRetry(c)
    BY <2>16, Bounds, Sentinels DEF ByteRetry, ByteMissing
  <2>17. CASE ByteGiveUp(c)
    BY <2>17, Bounds, Sentinels DEF ByteGiveUp, Conclude, ByteMissing
  <2> QED
    BY <1>9, <2>1, <2>2, <2>3, <2>4, <2>5, <2>6, <2>7, <2>8, <2>9, <2>10,
       <2>11, <2>12, <2>13, <2>14, <2>15, <2>16, <2>17 DEF Caller
<1>10. CASE UNCHANGED vars
  BY <1>10 DEF vars
<1> QED
  BY <1>1, <1>2, <1>3, <1>4, <1>5, <1>6, <1>7, <1>8, <1>9, <1>10 DEF Next,
     Card, Handler, AtRest

-----------------------------------------------------------------------------
(***************************************************************************)
(* The theorems.                                                           *)
(***************************************************************************)

(* The inductive invariant holds: the locks have the owners the control    *)
(* states say; and unless the card streams or signalled an older           *)
(* completion since the drain, what the mailbox and the latches hold       *)
(* between doorbell and return is of the command in hand.                  *)
THEOREM Inductive == Spec => []IInv
<1>1. IInv /\ [Next]_vars => IInv'
  BY StepCardType, StepHostType, StepCallType, StepLocks, StepNumbered,
     StepPeripheral, StepCredit, StepDrained, StepTraces, StepVisible,
     StepOutcome DEF IInv
<1> QED
  BY InitInv, <1>1, PTL DEF Spec

(* Every variable keeps its type; a read makes at most two attempts.       *)
THEOREM TypeCorrect == Spec => []TypeOK
<1>1. IInv => TypeOK
  BY DEF IInv, CardType, HostType, CallType, CallRecord, Labels, TypeOK
<1> QED
  BY Inductive, <1>1, PTL

(* A call succeeds only if the card answered this very command, and it     *)
(* returns the answer to it, unless the card streams or signalled an older *)
(* completion after the call's drain looked.                               *)
THEOREM RepliesArePaired == Spec => []SuccessIsOwn
<1>1. IInv => SuccessIsOwn
  BY DEF IInv, Outcome
<1> QED
  BY Inductive, <1>1, PTL

(* No answer is lost between the pollers and the interrupt handler, and a  *)
(* read gives up only on a byte that never came; for a wide command, again *)
(* unless the card streams or signalled an older completion.               *)
THEOREM NoAnswerIsLost == Spec => []TimeoutMeansSilence
<1>1. IInv => TimeoutMeansSilence
  <2> SUFFICES ASSUME IInv, NEW c \in Callers, Returning(c, "timeout"),
                      call[c].kind = "wide" => Calm, call[c].serial \in answered
               PROVE  /\ call[c].kind = "read"
                      /\ ~({call[c].serial - 1, call[c].serial} \subseteq landed)
    BY DEF TimeoutMeansSilence, Calm
  <2> QED
    BY DEF IInv, Outcome
<1> QED
  BY Inductive, <1>1, PTL

(* A read that succeeds returns the contents of the register it named,     *)
(* streaming card or not, stray completion or not.                         *)
THEOREM ReadsAreOwn == Spec => []ReadsOwn
<1>1. IInv => ReadsOwn
  BY DEF IInv, Outcome
<1> QED
  BY Inductive, <1>1, PTL

-----------------------------------------------------------------------------
(***************************************************************************)
(* The receiver.  Rx and RxP instantiate the same definitions, so their    *)
(* initial states, steps and properties are the same.                      *)
(***************************************************************************)
LEMMA OnePart ==
  ASSUME [MC_Next]_allVars
  PROVE  /\ part' = part
         /\ (part = "rx" /\ Rx!Next) \/ UNCHANGED rxVars
         /\ [Next]_vars
BY DEF MC_Next, allVars

LEMMA RxInit == ASSUME Rx!Init PROVE RxP!Init
BY DEF Rx!Init, RxP!Init, Rx!Blank, RxP!Blank, Rx!Pins, RxP!Pins

(* The items and the lists made of them are the same.                      *)
LEMMA RxItems ==
  /\ \A b : Rx!Bank(b) = RxP!Bank(b) /\ Rx!Batch(b) = RxP!Batch(b)
  /\ \A reg, b, bit : Rx!Write(reg, b, bit) = RxP!Write(reg, b, bit)
  /\ \A p : Rx!Output(p) = RxP!Output(p)
  /\ \A p, level : Rx!SetPin(p, level) = RxP!SetPin(p, level)
  /\ \A name : Rx!Step(name) = RxP!Step(name) /\ Rx!Catch(name) = RxP!Catch(name)
  /\ \A i : Rx!Try(i) = RxP!Try(i)
  /\ \A what, arg, val : Rx!Item(what, arg, val) = RxP!Item(what, arg, val)
  /\ Rx!Read = RxP!Read
BY DEF Rx!Item, RxP!Item, Rx!Try, RxP!Try, Rx!Bank, RxP!Bank, Rx!Write,
   RxP!Write, Rx!Batch, RxP!Batch, Rx!Output, RxP!Output, Rx!SetPin,
   RxP!SetPin, Rx!Read, RxP!Read, Rx!Step, RxP!Step, Rx!Catch, RxP!Catch

LEMMA RxLists ==
  /\ \A bit : Rx!Hpd(bit) = RxP!Hpd(bit) /\ Rx!AutoPosition(bit) = RxP!AutoPosition(bit)
  /\ Rx!Reset = RxP!Reset /\ Rx!InitRegs = RxP!InitRegs
  /\ Rx!LoadEdid = RxP!LoadEdid /\ Rx!Present = RxP!Present
  /\ Rx!Bringup = RxP!Bringup /\ Rx!Pulse = RxP!Pulse
  /\ Rx!Measure = RxP!Measure /\ Rx!Latch = RxP!Latch /\ Rx!Commit = RxP!Commit
  /\ Rx!Retime = RxP!Retime /\ Rx!Poll = RxP!Poll
BY DEF Rx!Item, RxP!Item, Rx!Try, RxP!Try, Rx!Bank, RxP!Bank, Rx!Write,
   RxP!Write, Rx!Batch, RxP!Batch, Rx!Output, RxP!Output, Rx!SetPin,
   RxP!SetPin, Rx!Read, RxP!Read, Rx!Step, RxP!Step, Rx!Catch, RxP!Catch,
   Rx!Hpd, RxP!Hpd, Rx!AutoPosition, RxP!AutoPosition, Rx!Reset, RxP!Reset,
   Rx!InitRegs, RxP!InitRegs, Rx!LoadEdid, RxP!LoadEdid, Rx!Present,
   RxP!Present, Rx!Bringup, RxP!Bringup, Rx!Pulse, RxP!Pulse, Rx!Measure,
   RxP!Measure, Rx!Latch, RxP!Latch, Rx!Commit, RxP!Commit, Rx!Retime,
   RxP!Retime, Rx!Poll, RxP!Poll

LEMMA RxCommand == ASSUME Rx!Command PROVE RxP!Command
<1> DEFINE i == Head(todo)
<1>1. /\ Rx!Effect(i) <=> RxP!Effect(i)
      /\ Rx!NoEffect <=> RxP!NoEffect
  BY DEF Rx!Effect, RxP!Effect, Rx!NoEffect, RxP!NoEffect, Rx!Written, RxP!Written,
     Rx!Reaches, RxP!Reaches, Rx!Blank, RxP!Blank
<1>2. Rx!Caught(Tail(todo)) = RxP!Caught(Tail(todo))
  BY DEF Rx!Caught, RxP!Caught
<1>3. /\ op # "idle" /\ todo # << >> /\ i.what \in RxP!Commands
      /\ UNCHANGED <<opt, RxP!control, RxP!history>>
  BY DEF Rx!Command, Rx!Commands, RxP!Commands, Rx!control, RxP!control, Rx!history,
     RxP!history, Rx!past, RxP!past
<1>4. CASE /\ Rx!Effect(i) /\ todo' = Tail(todo) /\ UNCHANGED failed
           /\ stuck' = (stuck /\ chip'.frozen)
  BY <1>1, <1>3, <1>4, Zenon DEF RxP!Command
<1>5. CASE /\ Rx!Effect(i) \/ Rx!NoEffect
           /\ todo' = IF i.try THEN Tail(todo) ELSE Rx!Caught(Tail(todo))
           /\ failed' = (failed \/ ~i.try)
           /\ stuck' = (stuck \/ i.arg = "frozen")
  BY <1>1, <1>2, <1>3, <1>5, Zenon DEF RxP!Command
<1> QED
  BY <1>4, <1>5, Zenon DEF Rx!Command

LEMMA RxDecide == ASSUME Rx!Decide PROVE RxP!Decide
<1> USE RxItems, RxLists
   DEF Rx!Goes, RxP!Goes, Rx!Rest, RxP!Rest, Rx!AtStep, RxP!AtStep, Rx!callers,
     RxP!callers, Rx!history, RxP!history, Rx!Caught, RxP!Caught, Rx!past, RxP!past
<1>1. CASE Rx!Unready \/ Rx!Alive \/ Rx!Ready \/ Rx!Refuse
  BY <1>1 DEF Rx!Unready, RxP!Unready, Rx!Alive, RxP!Alive, Rx!Ready, RxP!Ready,
     Rx!Refuse, RxP!Refuse,
     RxP!Decide
<1>2. CASE Rx!CatchError \/ Rx!Edid \/ Rx!Frozen \/ Rx!Late
  BY <1>2 DEF Rx!CatchError, RxP!CatchError, Rx!Edid, RxP!Edid, Rx!Frozen, RxP!Frozen,
     Rx!Late, RxP!Late, RxP!Decide
<1>3. CASE Rx!PollUnlocked \/ Rx!PollLocked \/ Rx!PollMatched
  BY <1>3 DEF Rx!PollUnlocked, RxP!PollUnlocked, Rx!PollLocked, RxP!PollLocked,
     Rx!PollMatched, RxP!PollMatched,
     RxP!Decide
<1>4. CASE Rx!Matched \/ Rx!Expire \/ Rx!LockRead
  BY <1>4
     DEF Rx!Matched, RxP!Matched, Rx!Expire, RxP!Expire, Rx!LockRead, RxP!LockRead, RxP!Decide
<1>5. CASE Rx!WatchJudge \/ Rx!Diag \/ Rx!Known
  BY <1>5
     DEF Rx!WatchJudge, RxP!WatchJudge, Rx!Diag, RxP!Diag, Rx!Known, RxP!Known, RxP!Decide
<1> QED
  BY <1>1, <1>2, <1>3, <1>4, <1>5 DEF Rx!Decide

LEMMA RxStep == ASSUME Rx!Next PROVE RxP!Next
<1>1. CASE Rx!Command \/ Rx!Decide
  BY <1>1, RxCommand, RxDecide DEF RxP!Next
<1>2. CASE Rx!Operation
  BY <1>2, RxItems, RxLists
     DEF Rx!past, RxP!past, Rx!Operation, RxP!Operation, Rx!Begin, RxP!Begin, Rx!BeginBringup,
     RxP!BeginBringup, Rx!BeginReload, RxP!BeginReload, Rx!BeginPulse,
     RxP!BeginPulse, Rx!BeginSignal, RxP!BeginSignal, Rx!BeginLock,
     RxP!BeginLock, Rx!BeginWatch, RxP!BeginWatch, Rx!BeginDiag, RxP!BeginDiag,
     Rx!BeginCsc, RxP!BeginCsc, Rx!BeginColour, RxP!BeginColour, Rx!BeginRamtest,
     RxP!BeginRamtest, Rx!End, RxP!End, RxP!Next
<1>3. CASE Rx!Note \/ Rx!Borrow \/ Rx!Scan
  BY <1>3 DEF Rx!Note, RxP!Note, Rx!Borrow, RxP!Borrow, Rx!Scan, RxP!Scan,
     Rx!others, RxP!others, RxP!Next
<1> QED
  BY <1>1, <1>2, <1>3 DEF Rx!Next

RxInv == part = "rx" => RxP!IInv

LEMMA RxKept ==
  ASSUME RxInv, [MC_Next]_allVars, part = "rx"
  PROVE  RxP!IInv /\ RxP!IInv'
<1>1. RxP!IInv
  BY DEF RxInv
<1>2. [RxP!Next]_(RxP!vars)
  BY OnePart, RxStep DEF RxP!vars, rxVars
<1> QED
  BY <1>1, <1>2, ReceiverAssumption, RxP!StepInv

(* Whatever commands fail, with or without effect, the list of what an     *)
(* operation has still to do finds its banks, pins and reset as it needs   *)
(* them (mz0380-mst3367.c, mz0380-mst3367-signal.c; see ReceiverProofs).   *)
THEOREM RxInductive == MC_Spec => []RxInv
<1>1. MC_Init => RxInv
  BY RxInit, RxP!InitInv, ReceiverAssumption DEF MC_Init, RxInv
<1>2. RxInv /\ [MC_Next]_allVars => RxInv'
  BY OnePart, RxKept DEF RxInv
<1> QED
  BY <1>1, <1>2, PTL DEF MC_Spec, allVars

(* M69: no chunk of an EDID is written while the source sees a sink        *)
(* (mz0380_mst3367_load_edid and all that leads to it).                    *)
THEOREM EdidIsLoadedUnseen == MC_Spec => []EdidUnseen
<1>1. RxInv => EdidUnseen
  BY RxP!Safe DEF RxInv, EdidUnseen, Rx!EdidUnseen, RxP!EdidUnseen, Rx!Seen, RxP!Seen
<1> QED
  BY <1>1, RxInductive, PTL

(* Between operations a receiver that is ready is seen by the source,      *)
(* unless the last request for that failed (mz0380_mst3367_hpd).           *)
THEOREM ReadyReceiversArePresented == MC_Spec => []ReadyIsPresented
<1>1. RxInv => ReadyIsPresented
  BY RxP!Safe DEF RxInv, ReadyIsPresented, Rx!ReadyIsPresented, RxP!ReadyIsPresented,
     Rx!Seen, RxP!Seen
<1> QED
  BY <1>1, RxInductive, PTL

(* No error but one of the freeze bit itself leaves the output frozen      *)
(* (mst3367_commit_digital_output).                                        *)
THEOREM FreezesAreUndone == MC_Spec => []Thawed
<1>1. RxInv => Thawed
  BY RxP!Safe DEF RxInv, Thawed, Rx!Thawed, RxP!Thawed
<1> QED
  BY <1>1, RxInductive, PTL

(* When a mode was found the hunt is over and the output runs              *)
(* (mz0380_mst3367_read_signal).                                           *)
THEOREM MatchedModesAreSettled == MC_Spec => []MatchedIsSettled
<1>1. RxInv => MatchedIsSettled
  BY RxP!Safe DEF RxInv, MatchedIsSettled, Rx!MatchedIsSettled, RxP!MatchedIsSettled
<1> QED
  BY <1>1, RxInductive, PTL

(* A receiver the driver believes locked had its latch pulse since its     *)
(* reset, unless signal_locked was set for a mode of before the bring-up   *)
(* or from the signal cache (the comment at mz0380_mst3367_reset).         *)
THEOREM LocksAreLatched == MC_Spec => []OwnLockIsLatched
<1>1. RxInv => OwnLockIsLatched
  BY RxP!Safe DEF RxInv, OwnLockIsLatched, Rx!OwnLockIsLatched, RxP!OwnLockIsLatched
<1> QED
  BY <1>1, RxInductive, PTL

(* On every path, after every error, a banked write finds its bank         *)
(* selected; apply_csc_mode alone does not select it.                      *)
THEOREM BankedWritesLand == MC_Spec => []OnlyCscStrays
<1>1. RxInv => OnlyCscStrays
  BY RxP!Safe DEF RxInv, OnlyCscStrays, Rx!OnlyCscStrays, RxP!OnlyCscStrays
<1> QED
  BY <1>1, RxInductive, PTL

-----------------------------------------------------------------------------
(* The run of MC_Commands is one of the mailbox, which rests while the     *)
(* receiver works (the two share no state).                                *)
LEMMA MailboxRuns == MC_Spec => Spec
<1>1. MC_Init => Init
  BY DEF MC_Init
<1>2. [MC_Next]_allVars => [Next]_vars
  BY OnePart
<1> QED
  BY <1>1, <1>2, PTL DEF MC_Spec, Spec, allVars

(* No step of either part leads out of the states it is written for; a     *)
(* read makes at most two attempts (mz0380_i2c_read_reg), and a receiver   *)
(* that is ready answers, under the polarity the board has                 *)
(* (mz0380_mst3367_bringup).                                               *)
THEOREM CommandsAreTyped == MC_Spec => []CommandTypes
<1>1. RxInv => (part = "rx" => Rx!TypeOK)
  BY RxP!Safe
     DEF RxInv, Rx!TypeOK, RxP!TypeOK, Rx!Operations, RxP!Operations, Rx!Commands,
         RxP!Commands, Rx!Banks, RxP!Banks, Rx!Pins, RxP!Pins
<1>2. RxInv /\ TypeOK => CommandTypes
  BY <1>1 DEF CommandTypes
<1> QED
  BY <1>2, MailboxRuns, TypeCorrect, RxInductive, PTL
=============================================================================
