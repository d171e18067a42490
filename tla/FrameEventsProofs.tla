------------------------- MODULE FrameEventsProofs --------------------------
(***************************************************************************)
(* Proofs about FrameEvents, for every set of slots and contexts, every    *)
(* queue size and every number of bitstreams.                              *)
(***************************************************************************)
EXTENDS FrameEvents, SequenceTheorems, TLAPS

(* The named actions, grouped by actor.                                    *)
CardStep == CardEncode \/ CardComplete \/ CardReannounce
HandlerStep == \E c \in Contexts : \/ AckEnter(c) \/ AckLock(c) \/ AckQueue(c)
                                   \/ AckNow(c) \/ AckClear(c) \/ AckBell(c)
FlushStep == FlushClose \/ FlushSync \/ FlushPurge \/ FlushRelease
StartStep == StartStop \/ StartProgram \/ StartAccept \/ StartFree \/ StartKick

LEMMA NextCases ==
    ASSUME [Next]_vars
    PROVE  \/ CardStep \/ HandlerStep \/ Worker \/ FlushStep \/ StartStep
           \/ Stop \/ UNCHANGED vars
BY DEF Next, AckEvent, Flush, Start, CardStep, HandlerStep, FlushStep, StartStep

-----------------------------------------------------------------------------
(***************************************************************************)
(* Type correctness, one part of the state at a time.                      *)
(***************************************************************************)

(* What a snapshot records is a frame event.                               *)
LEMMA SnapshotType == CardType => Snapshot \in FrameEvent
BY SizesAssumption DEF CardType, Snapshot, FrameEvent, Token

LEMMA NoEventType == NoEvent \in FrameEvent
BY SizesAssumption DEF NoEvent, FrameEvent, Token

LEMMA InitType == Init => TypeOK
<1> SUFFICES ASSUME Init PROVE TypeOK
  OBVIOUS
<1>1. CardType
  BY SizesAssumption DEF Init, CardType, Token
<1>5. FlagType /\ CtlType
  BY DEF Init, FlagType, CtlType
<1>2. HandlerType
  BY NoEventType DEF Init, HandlerType
<1>3. QueueType
  BY SizesAssumption DEF Init, QueueType
<1>4. WorkerType
  BY SizesAssumption DEF Init, WorkerType, Token
<1> QED
  BY <1>1, <1>2, <1>3, <1>4, <1>5 DEF TypeOK

LEMMA StepCardType == TypeOK /\ [Next]_vars => CardType'
<1> SUFFICES ASSUME TypeOK, [Next]_vars PROVE CardType'
  OBVIOUS
<1> USE DEF TypeOK, CardType, Token
<1>1. CASE CardStep
  BY <1>1, SizesAssumption DEF CardStep, CardEncode, CardComplete, CardReannounce
<1>2. CASE HandlerStep
  BY <1>2 DEF HandlerStep, AckEnter, AckLock, AckQueue, AckNow, AckClear,
     AckBell, cardVars
<1>3. CASE Worker
  BY <1>3 DEF Worker, WorkerRun, WorkerPop, WorkerSkip, WorkerAccept,
     WorkerCopied, WorkerTake, WorkerFinal, cardVars
<1>4. CASE FlushStep
  BY <1>4 DEF FlushStep, FlushClose, FlushSync, FlushPurge, FlushRelease,
     cardVars
<1>5. CASE StartStep \/ Stop
  BY <1>5, SizesAssumption DEF StartStep, StartStop, StartProgram, StartAccept,
     StartFree, StartKick, Stop, cardVars
<1>6. CASE UNCHANGED vars
  BY <1>6 DEF vars, cardVars
<1> QED
  BY <1>1, <1>2, <1>3, <1>4, <1>5, <1>6, NextCases

LEMMA StepFlagType == TypeOK /\ [Next]_vars => FlagType'
<1> SUFFICES ASSUME TypeOK, [Next]_vars PROVE FlagType'
  OBVIOUS
<1> USE DEF TypeOK, FlagType, cardVars, mailVars, handlerVars, queueVars, workerVars
<1>1. CASE CardStep
  BY <1>1 DEF CardStep, CardEncode, CardComplete, CardReannounce, PostEvent
<1>2. CASE HandlerStep
  <2>1. PICK c \in Contexts : \/ AckEnter(c) \/ AckLock(c) \/ AckQueue(c)
                              \/ AckNow(c) \/ AckClear(c) \/ AckBell(c)
    BY <1>2 DEF HandlerStep
  <2>2. CASE AckEnter(c) \/ AckLock(c)
    BY <2>2 DEF AckEnter, AckLock
  <2>3. CASE AckQueue(c)
    BY <2>3 DEF AckQueue
  <2>4. CASE AckNow(c) \/ AckClear(c) \/ AckBell(c)
    BY <2>4 DEF AckNow, AckClear, AckBell
  <2> QED
    BY <2>1, <2>2, <2>3, <2>4
<1>3. CASE Worker
  <2>1. CASE WorkerPop
    BY <2>1 DEF WorkerPop
  <2>2. CASE WorkerFinal
    BY <2>2 DEF WorkerFinal
  <2>3. CASE WorkerRun \/ WorkerTake
    BY <2>3 DEF WorkerRun, WorkerTake
  <2>4. CASE WorkerSkip \/ WorkerAccept \/ WorkerCopied
    BY <2>4 DEF WorkerSkip, WorkerAccept, WorkerCopied
  <2> QED
    BY <1>3, <2>1, <2>2, <2>3, <2>4 DEF Worker
<1>4. CASE FlushStep
  <2>1. CASE FlushClose \/ FlushSync
    BY <2>1 DEF FlushClose, FlushSync
  <2>2. CASE FlushPurge \/ FlushRelease
    BY <2>2 DEF FlushPurge, FlushRelease
  <2> QED
    BY <1>4, <2>1, <2>2 DEF FlushStep
<1>5. CASE StartStep \/ Stop
  <2>1. CASE StartStop \/ StartProgram
    BY <2>1 DEF StartStop, StartProgram
  <2>2. CASE StartAccept
    BY <2>2 DEF StartAccept
  <2>3. CASE StartFree \/ StartKick
    BY <2>3 DEF StartFree, StartKick
  <2>4. CASE Stop
    BY <2>4 DEF Stop
  <2> QED
    BY <1>5, <2>1, <2>2, <2>3, <2>4 DEF StartStep
<1>6. CASE UNCHANGED vars
  BY <1>6 DEF vars
<1> QED
  BY <1>1, <1>2, <1>3, <1>4, <1>5, <1>6, NextCases

LEMMA StepHandlerType == TypeOK /\ [Next]_vars => HandlerType'
<1> SUFFICES ASSUME TypeOK, [Next]_vars PROVE HandlerType'
  OBVIOUS
<1> USE DEF TypeOK, HandlerType
<1>1. CASE HandlerStep
  <2>1. PICK c \in Contexts : \/ AckEnter(c) \/ AckLock(c) \/ AckQueue(c)
                              \/ AckNow(c) \/ AckClear(c) \/ AckBell(c)
    BY <1>1 DEF HandlerStep
  <2>2. CASE AckLock(c)
    BY <2>2, SnapshotType DEF AckLock
  <2>3. CASE AckQueue(c)
    BY <2>3, NoEventType DEF AckQueue
  <2>4. CASE AckEnter(c) \/ AckNow(c) \/ AckClear(c) \/ AckBell(c)
    BY <2>4 DEF AckEnter, AckNow, AckClear, AckBell
  <2> QED
    BY <2>1, <2>2, <2>3, <2>4
<1>2. CASE UNCHANGED handlerVars
  BY <1>2 DEF handlerVars
<1>3. CASE CardStep \/ Worker
  BY <1>2, <1>3 DEF CardStep, CardEncode, CardComplete, CardReannounce, Worker,
     WorkerRun, WorkerPop, WorkerSkip, WorkerAccept, WorkerCopied, WorkerTake,
     WorkerFinal
<1>4. CASE FlushStep \/ StartStep \/ Stop \/ UNCHANGED vars
  BY <1>2, <1>4 DEF FlushStep, FlushClose, FlushSync, FlushPurge, FlushRelease,
     StartStep, StartStop, StartProgram, StartAccept, StartFree, StartKick,
     Stop, vars
<1> QED
  BY <1>1, <1>3, <1>4, NextCases

LEMMA StepQueueType == TypeOK /\ [Next]_vars => QueueType'
<1> SUFFICES ASSUME TypeOK, [Next]_vars PROVE QueueType'
  OBVIOUS
<1> USE DEF TypeOK, QueueType
<1>1. CASE HandlerStep
  <2>1. PICK c \in Contexts : \/ AckEnter(c) \/ AckLock(c) \/ AckQueue(c)
                              \/ AckNow(c) \/ AckClear(c) \/ AckBell(c)
    BY <1>1 DEF HandlerStep
  <2>2. CASE AckQueue(c) /\ ~Dropped
    <3>1. fifo' = Append(fifo, snap) /\ Len(fifo) # FifoSize - 1
      BY <2>2 DEF AckQueue, Dropped, FifoFull
    <3>2. fifo' \in Seq(FrameEvent) /\ Len(fifo') = Len(fifo) + 1
      BY <3>1 DEF HandlerType
    <3>3. Len(fifo') <= FifoSize - 1
      BY <3>1, <3>2, SizesAssumption
    <3> QED
      BY <2>2, <3>2, <3>3 DEF AckQueue
  <2>3. CASE AckQueue(c) /\ Dropped
    BY <2>3 DEF AckQueue
  <2>4. CASE AckEnter(c) \/ AckLock(c) \/ AckNow(c) \/ AckClear(c) \/ AckBell(c)
    BY <2>4 DEF AckEnter, AckLock, AckNow, AckClear, AckBell, queueVars
  <2> QED
    BY <2>1, <2>2, <2>3, <2>4
<1>2. CASE WorkerPop
  <2>1. fifo # << >> =>
          Tail(fifo) \in Seq(FrameEvent) /\ Len(Tail(fifo)) = Len(fifo) - 1
    OBVIOUS
  <2>2. fifo' = fifo \/ (fifo # << >> /\ fifo' = Tail(fifo))
    BY <1>2 DEF WorkerPop
  <2> QED
    BY <2>1, <2>2, SizesAssumption
<1>3. CASE \/ WorkerRun \/ WorkerSkip \/ WorkerAccept \/ WorkerCopied
           \/ WorkerTake \/ WorkerFinal
  BY <1>3 DEF WorkerRun, WorkerSkip, WorkerAccept, WorkerCopied, WorkerTake,
     WorkerFinal, queueVars
<1>4. CASE CardStep
  BY <1>4 DEF CardStep, CardEncode, CardComplete, CardReannounce, queueVars
<1>5. CASE FlushStep \/ StartStep \/ Stop
  <2>1. fifo' = fifo \/ fifo' = << >>
    BY <1>5 DEF FlushStep, FlushClose, FlushSync, FlushPurge, FlushRelease,
       StartStep, StartStop, StartProgram, StartAccept, StartFree, StartKick,
       Stop, queueVars
  <2>2. CASE fifo' = << >>
    <3>1. fifo' \in Seq(FrameEvent) /\ Len(fifo') = 0
      BY <2>2
    <3> QED
      BY <3>1, SizesAssumption
  <2>3. CASE fifo' = fifo
    BY <2>3
  <2> QED
    BY <2>1, <2>2, <2>3
<1>7. CASE UNCHANGED vars
  BY <1>7 DEF vars, queueVars
<1> QED
  BY <1>1, <1>2, <1>3, <1>4, <1>5, <1>7, NextCases DEF Worker

LEMMA StepWorkerType == TypeOK /\ [Next]_vars => WorkerType'
<1> SUFFICES ASSUME TypeOK, [Next]_vars PROVE WorkerType'
  OBVIOUS
<1> USE DEF TypeOK, WorkerType
<1>1. CASE WorkerPop
  <2>1. CASE fifo # << >>
    <3>1. Head(fifo) \in FrameEvent
      BY <2>1 DEF QueueType
    <3>2. /\ hand' = <<Head(fifo)>> /\ wpc' = "drain" /\ handled' = TRUE
          /\ UNCHANGED <<workPending, lastToken, copied>>
      BY <1>1, <2>1 DEF WorkerPop
    <3>3. hand' \in Seq(FrameEvent) /\ Len(hand') = 1 /\ hand' # << >>
      BY <3>1, <3>2
    <3> QED
      BY <3>2, <3>3
  <2>2. CASE fifo = << >>
    BY <1>1, <2>2 DEF WorkerPop
  <2> QED
    BY <2>1, <2>2
<1>2. CASE WorkerCopied
  <2>1. copied' \in 0..MaxFrames
    BY <1>2 DEF WorkerCopied, CardType
  <2> QED
    BY <1>2, <2>1 DEF WorkerCopied
<1>3. CASE WorkerSkip
  BY <1>3 DEF WorkerSkip
<1>4. CASE WorkerAccept
  BY <1>4 DEF WorkerAccept, Token
<1>5. CASE WorkerRun \/ WorkerTake \/ WorkerFinal
  BY <1>5 DEF WorkerRun, WorkerTake, WorkerFinal, QueueType
<1>6. CASE CardStep
  BY <1>6 DEF CardStep, CardEncode, CardComplete, CardReannounce, workerVars
<1>7. CASE HandlerStep
  BY <1>7 DEF HandlerStep, AckEnter, AckLock, AckQueue, AckNow, AckClear,
     AckBell, workerVars, QueueType
<1>8. CASE FlushStep
  BY <1>8 DEF FlushStep, FlushClose, FlushSync, FlushPurge, FlushRelease,
     workerVars
<1>9. CASE StartStep \/ Stop
  BY <1>9 DEF StartStep, StartStop, StartProgram, StartAccept, StartFree,
     StartKick, Stop, workerVars, Token
<1>10. CASE UNCHANGED vars
  BY <1>10 DEF vars, workerVars
<1> QED
  BY <1>1, <1>2, <1>3, <1>4, <1>5, <1>6, <1>7, <1>8, <1>9, <1>10, NextCases
     DEF Worker

LEMMA StepCtlType == TypeOK /\ [Next]_vars => CtlType'
<1> SUFFICES ASSUME TypeOK, [Next]_vars PROVE CtlType'
  OBVIOUS
<1> USE DEF TypeOK, CtlType, ctlVars
<1>1. CASE CardStep \/ Worker
  BY <1>1 DEF CardStep, CardEncode, CardComplete, CardReannounce, Worker,
     WorkerRun, WorkerPop, WorkerSkip, WorkerAccept, WorkerCopied, WorkerTake,
     WorkerFinal
<1>2. CASE HandlerStep
  BY <1>2 DEF HandlerStep, AckEnter, AckLock, AckQueue, AckNow, AckClear,
     AckBell
<1>3. CASE FlushStep
  BY <1>3 DEF FlushStep, FlushClose, FlushSync, FlushPurge, FlushRelease,
     AfterFlush
<1>4. CASE StartStep \/ Stop
  BY <1>4 DEF StartStep, StartStop, StartProgram, StartAccept, StartFree,
     StartKick, Stop
<1>5. CASE UNCHANGED vars
  BY <1>5 DEF vars
<1> QED
  BY <1>1, <1>2, <1>3, <1>4, <1>5, NextCases

(* No reachable state of the completion path has a variable out of range;  *)
(* in particular the queue never overruns its ring and the worker never    *)
(* copies from a slot that was not programmed.                             *)
THEOREM TypeCorrect == Spec => []TypeOK
<1>1. TypeOK /\ [Next]_vars => TypeOK'
  BY StepCardType, StepFlagType, StepHandlerType, StepQueueType,
     StepWorkerType, StepCtlType DEF TypeOK
<1> QED
  BY InitType, <1>1, PTL DEF Spec
-----------------------------------------------------------------------------
(***************************************************************************)
(* The inductive invariant.                                                *)
(***************************************************************************)

(* The start path, from its own STOP until it reopens the queue.           *)
Starting == \/ ctl = "settle"
            \/ resume = "start" /\ ctl \in {"close", "sync", "purge", "release",
                                            "reset"}

(* event_lock is held by the context that is past taking it, and only then. *)
LockInv ==
    \A c \in Contexts :
        hpc[c] \in {"queue", "acknow", "clear", "bell"} <=> eventLock = c

(* The queue is shut between a flush and the next start, and a starting    *)
(* stream has neither a producer nor a handler that saw the queue open.    *)
ShutInv ==
    /\ ctl \in {"sync", "purge", "release", "reset", "off", "settle"} => ~accepting
    /\ ctl = "reset" => resume = "start"
    /\ Starting => ~running /\ ~accepting
    /\ Starting \/ ctl \in {"free", "kick"} =>
          \A c \in Contexts : hpc[c] \notin {"queue", "acknow"}

(* From SET_BUF_4 to START the card is at rest and its slots are poisoned. *)
RestInv ==
    (Starting /\ ctl # "settle") \/ ctl \in {"free", "kick"} =>
        /\ armed = NoSlot /\ ~event /\ ~running
        /\ \A s \in Slots : content[s] = 0

(* The drain-scheduled flag covers the worker, its work item, the queue    *)
(* and a deferred acknowledgement; and it is never set with no run to      *)
(* clear it, nor is a second run queued during one.                        *)
ScheduledInv ==
    /\ wpc # "idle" \/ workPending \/ fifo # << >> \/ deferred => scheduled
    /\ scheduled => workPending \/ wpc # "idle" \/ ctl = "purge"
    /\ wpc # "idle" => ~workPending

(* What a flush has achieved at each of its stages.                        *)
FlushInv ==
    /\ ctl \in {"purge", "release", "reset", "off", "settle", "free", "kick"} =>
          wpc = "idle" /\ ~workPending
    /\ ctl \in {"release", "reset", "off", "settle"} => ~scheduled
    /\ Starting \/ ctl \in {"free", "kick"} => ~scheduled

(* A context that is about to free ENC_STATUS for a dropped event does so  *)
(* with no drain scheduled.                                                *)
AckNowInv == \A c \in Contexts : hpc[c] = "acknow" => ~scheduled

(* A token names the last finished bitstream, or one not yet finished, or  *)
(* a slot that is still poisoned.                                          *)
TokenInv ==
    /\ armed # NoSlot => armed # last
    /\ last = NoSlot => \A s \in Slots : content[s] = 0 \/ armed = s
    /\ token \in Slots => token = last \/ content[token] = 0 \/ armed = token

(* A completion that was snapshotted is safe either because its slot is    *)
(* the one the card may not pick next, or because ENC_STATUS stops it.     *)
Safe(e) ==
    e.frame # 0 =>
        /\ e.slot \in Slots /\ content[e.slot] = e.frame /\ armed # e.slot
        /\ e.slot = last \/ (encBusy /\ armed = NoSlot)

SafeInv ==
    /\ \A i \in DOMAIN hand : Safe(hand[i])
    /\ \A i \in DOMAIN fifo : Safe(fifo[i])
    /\ accepting => \A c \in Contexts : hpc[c] = "queue" => Safe(snap)

IInv == /\ TypeOK /\ LockInv /\ ShutInv /\ RestInv /\ ScheduledInv /\ FlushInv
        /\ AckNowInv /\ TokenInv /\ SafeInv

LEMMA InitIInv == Init => IInv
<1> SUFFICES ASSUME Init PROVE IInv
  OBVIOUS
<1>1. TypeOK
  BY InitType
<1>2. LockInv
  BY ContextsAssumption DEF Init, LockInv
<1>3. ShutInv /\ AckNowInv
  BY DEF Init, ShutInv, AckNowInv, Starting
<1>4. RestInv
  BY DEF Init, RestInv, Starting
<1>5. ScheduledInv /\ FlushInv
  BY DEF Init, ScheduledInv, FlushInv, Starting
<1>6. TokenInv
  BY SlotsAssumption DEF Init, TokenInv
<1>7. SafeInv
  BY DEF Init, SafeInv, Safe
<1> QED
  BY <1>1, <1>2, <1>3, <1>4, <1>5, <1>6, <1>7 DEF IInv

(* No two contexts are inside event_lock.                                  *)
LEMMA Exclusion ==
    ASSUME LockInv, NEW c \in Contexts, NEW d \in Contexts,
           hpc[c] \in {"queue", "acknow", "clear", "bell"},
           hpc[d] \in {"queue", "acknow", "clear", "bell"}
    PROVE  c = d
BY DEF LockInv

LEMMA StepLockInv == IInv /\ [Next]_vars => LockInv'
<1> SUFFICES ASSUME IInv, [Next]_vars PROVE LockInv'
  OBVIOUS
<1> USE DEF IInv, TypeOK, LockInv
<1>1. CASE HandlerStep
  <2>1. PICK c \in Contexts : \/ AckEnter(c) \/ AckLock(c) \/ AckQueue(c)
                              \/ AckNow(c) \/ AckClear(c) \/ AckBell(c)
    BY <1>1 DEF HandlerStep
  <2>2. CASE AckEnter(c)
    BY <2>2 DEF AckEnter, HandlerType
  <2>3. CASE AckLock(c)
    BY <2>3, ContextsAssumption DEF AckLock, HandlerType
  <2>4. CASE AckQueue(c)
    BY <2>4 DEF AckQueue, HandlerType
  <2>5. CASE AckNow(c) \/ AckClear(c)
    BY <2>5 DEF AckNow, AckClear, HandlerType
  <2>6. CASE AckBell(c)
    BY <2>6, ContextsAssumption, Exclusion DEF AckBell, HandlerType
  <2> QED
    BY <2>1, <2>2, <2>3, <2>4, <2>5, <2>6
<1>2. CASE CardStep \/ Worker
  BY <1>2 DEF CardStep, CardEncode, CardComplete, CardReannounce, Worker,
     WorkerRun, WorkerPop, WorkerSkip, WorkerAccept, WorkerCopied, WorkerTake,
     WorkerFinal, handlerVars
<1>3. CASE FlushStep \/ StartStep \/ Stop \/ UNCHANGED vars
  BY <1>3 DEF FlushStep, FlushClose, FlushSync, FlushPurge, FlushRelease,
     StartStep, StartStop, StartProgram, StartAccept, StartFree, StartKick,
     Stop, vars, handlerVars
<1> QED
  BY <1>1, <1>2, <1>3, NextCases

LEMMA StepShutInv == IInv /\ [Next]_vars => ShutInv'
<1> SUFFICES ASSUME IInv, [Next]_vars PROVE ShutInv'
  OBVIOUS
<1> USE DEF IInv, TypeOK, ShutInv, Starting
<1>1. CASE HandlerStep
  <2>1. PICK c \in Contexts : \/ AckEnter(c) \/ AckLock(c) \/ AckQueue(c)
                              \/ AckNow(c) \/ AckClear(c) \/ AckBell(c)
    BY <1>1 DEF HandlerStep
  <2>2. CASE AckEnter(c)
    BY <2>2 DEF AckEnter, HandlerType, cardVars, queueVars, ctlVars
  <2>3. CASE AckLock(c)
    BY <2>3 DEF AckLock, HandlerType, cardVars, queueVars, ctlVars, RestInv
  <2>4. CASE AckQueue(c)
    BY <2>4 DEF AckQueue, HandlerType, cardVars, ctlVars
  <2>5. CASE AckNow(c) \/ AckClear(c) \/ AckBell(c)
    BY <2>5 DEF AckNow, AckClear, AckBell, HandlerType, cardVars, queueVars,
       ctlVars
  <2> QED
    BY <2>1, <2>2, <2>3, <2>4, <2>5
<1>2. CASE CardStep
  BY <1>2 DEF CardStep, CardEncode, CardComplete, CardReannounce, handlerVars,
     queueVars, ctlVars
<1>3. CASE Worker
  BY <1>3 DEF Worker, WorkerRun, WorkerPop, WorkerSkip, WorkerAccept,
     WorkerCopied, WorkerTake, WorkerFinal, handlerVars, queueVars, ctlVars,
     cardVars
<1>4. CASE FlushStep
  BY <1>4 DEF FlushStep, FlushClose, FlushSync, FlushPurge, FlushRelease,
     AfterFlush, handlerVars, queueVars, cardVars, CtlType
<1>5. CASE StartStep
  <2>1. CASE StartStop
    BY <2>1 DEF StartStop, handlerVars, queueVars
  <2>2. CASE StartProgram
    BY <2>2 DEF StartProgram, handlerVars, queueVars
  <2>3. CASE StartAccept
    BY <2>3 DEF StartAccept, handlerVars
  <2>4. CASE StartFree
    BY <2>4 DEF StartFree, handlerVars, queueVars, cardVars
  <2>5. CASE StartKick
    BY <2>5 DEF StartKick, handlerVars, queueVars
  <2> QED
    BY <1>5, <2>1, <2>2, <2>3, <2>4, <2>5 DEF StartStep
<1>6. CASE Stop
  BY <1>6 DEF Stop
<1>7. CASE UNCHANGED vars
  BY <1>7 DEF vars, handlerVars, queueVars, cardVars, ctlVars
<1> QED
  BY <1>1, <1>2, <1>3, <1>4, <1>5, <1>6, <1>7, NextCases

LEMMA StepRestInv == IInv /\ [Next]_vars => RestInv'
<1> SUFFICES ASSUME IInv, [Next]_vars PROVE RestInv'
  OBVIOUS
<1> USE DEF IInv, RestInv, Starting
<1>1. CASE CardStep
  BY <1>1 DEF CardStep, CardEncode, CardComplete, CardReannounce, ctlVars,
     mailVars, ShutInv
<1>2. CASE HandlerStep
  BY <1>2 DEF HandlerStep, AckEnter, AckLock, AckQueue, AckNow, AckClear,
     AckBell, cardVars, mailVars, ctlVars
<1>3. CASE Worker
  BY <1>3 DEF Worker, WorkerRun, WorkerPop, WorkerSkip, WorkerAccept,
     WorkerCopied, WorkerTake, WorkerFinal, cardVars, mailVars, ctlVars
<1>4. CASE FlushStep
  BY <1>4 DEF FlushStep, FlushClose, FlushSync, FlushPurge, FlushRelease,
     AfterFlush, cardVars, mailVars
<1>5. CASE StartStep
  <2>1. CASE StartStop \/ StartKick
    BY <2>1 DEF StartStop, StartKick
  <2>2. CASE StartProgram
    BY <2>2 DEF StartProgram, ShutInv
  <2>3. CASE StartAccept \/ StartFree
    BY <2>3 DEF StartAccept, StartFree, cardVars, mailVars, ShutInv
  <2> QED
    BY <1>5, <2>1, <2>2, <2>3 DEF StartStep
<1>6. CASE Stop
  BY <1>6 DEF Stop
<1>7. CASE UNCHANGED vars
  BY <1>7 DEF vars, cardVars, mailVars, ctlVars
<1> QED
  BY <1>1, <1>2, <1>3, <1>4, <1>5, <1>6, <1>7, NextCases

LEMMA StepScheduledInv == IInv /\ [Next]_vars => ScheduledInv'
<1> SUFFICES ASSUME IInv, [Next]_vars PROVE ScheduledInv'
  OBVIOUS
<1> USE DEF IInv, ScheduledInv
<1>1. CASE HandlerStep
  <2>1. PICK c \in Contexts : \/ AckEnter(c) \/ AckLock(c) \/ AckQueue(c)
                              \/ AckNow(c) \/ AckClear(c) \/ AckBell(c)
    BY <1>1 DEF HandlerStep
  <2>2. CASE AckQueue(c)
    <3>1. UNCHANGED <<wpc, ctl>>
      BY <2>2 DEF AckQueue, ctlVars
    <3>2. CASE ~Dropped
      <4>1. scheduled' = TRUE /\ workPending' = (workPending \/ ~scheduled)
        BY <2>2, <3>2 DEF AckQueue
      <4>2. ~(ctl = "purge" /\ ~workPending /\ wpc = "idle")
        BY <3>2 DEF Dropped, ShutInv
      <4> QED
        BY <3>1, <4>1, <4>2
    <3>3. CASE Dropped /\ AckNowAllowed
      BY <2>2, <3>1, <3>3 DEF AckQueue
    <3>4. CASE Dropped /\ ~AckNowAllowed
      <4>1. scheduled
        BY <3>4 DEF AckNowAllowed
      <4>2. UNCHANGED <<fifo, scheduled, workPending>>
        BY <2>2, <3>4 DEF AckQueue
      <4> QED
        BY <3>1, <4>1, <4>2
    <3> QED
      BY <3>2, <3>3, <3>4
  <2>3. CASE AckEnter(c) \/ AckLock(c) \/ AckNow(c) \/ AckClear(c) \/ AckBell(c)
    BY <2>3 DEF AckEnter, AckLock, AckNow, AckClear, AckBell, queueVars,
       workerVars, ctlVars
  <2> QED
    BY <2>1, <2>2, <2>3
<1>2. CASE CardStep
  BY <1>2 DEF CardStep, CardEncode, CardComplete, CardReannounce, queueVars,
     workerVars, ctlVars
<1>3. CASE Worker
  <2>1. CASE WorkerRun
    BY <2>1 DEF WorkerRun, queueVars, ctlVars
  <2>2. CASE WorkerPop
    BY <2>2 DEF WorkerPop, ctlVars
  <2>3. CASE WorkerSkip \/ WorkerAccept \/ WorkerCopied
    BY <2>3 DEF WorkerSkip, WorkerAccept, WorkerCopied, queueVars, ctlVars
  <2>4. CASE WorkerTake
    BY <2>4 DEF WorkerTake, ctlVars
  <2>5. CASE WorkerFinal
    <3>1. CASE BatchDone
      <4>1. ~workPending /\ fifo = << >> /\ ~deferred
        BY <2>5, <3>1 DEF BatchDone, WorkerFinal
      <4> QED
        BY <2>5, <3>1, <4>1 DEF WorkerFinal, ctlVars
    <3>2. CASE ~BatchDone
      BY <2>5, <3>2 DEF WorkerFinal, ctlVars
    <3> QED
      BY <3>1, <3>2
  <2> QED
    BY <1>3, <2>1, <2>2, <2>3, <2>4, <2>5 DEF Worker
<1>4. CASE FlushStep
  <2>1. CASE FlushClose \/ FlushSync
    BY <2>1 DEF FlushClose, FlushSync, queueVars, workerVars
  <2>2. CASE FlushPurge
    BY <2>2 DEF FlushPurge, FlushInv, workerVars
  <2>3. CASE FlushRelease
    BY <2>3 DEF FlushRelease, queueVars, workerVars
  <2> QED
    BY <1>4, <2>1, <2>2, <2>3 DEF FlushStep
<1>5. CASE StartStep
  <2>1. CASE StartStop \/ StartProgram
    BY <2>1 DEF StartStop, StartProgram, queueVars, workerVars
  <2>2. CASE StartAccept
    BY <2>2 DEF StartAccept, FlushInv
  <2>3. CASE StartFree \/ StartKick
    BY <2>3 DEF StartFree, StartKick, queueVars, workerVars
  <2> QED
    BY <1>5, <2>1, <2>2, <2>3 DEF StartStep
<1>6. CASE Stop
  BY <1>6 DEF Stop, queueVars, workerVars
<1>7. CASE UNCHANGED vars
  BY <1>7 DEF vars, queueVars, workerVars, ctlVars
<1> QED
  BY <1>1, <1>2, <1>3, <1>4, <1>5, <1>6, <1>7, NextCases

LEMMA StepFlushInv == IInv /\ [Next]_vars => FlushInv'
<1> SUFFICES ASSUME IInv, [Next]_vars PROVE FlushInv'
  OBVIOUS
<1> USE DEF IInv, FlushInv, Starting
<1>1. CASE HandlerStep
  <2>1. PICK c \in Contexts : \/ AckEnter(c) \/ AckLock(c) \/ AckQueue(c)
                              \/ AckNow(c) \/ AckClear(c) \/ AckBell(c)
    BY <1>1 DEF HandlerStep
  <2>2. CASE AckQueue(c)
    <3>1. UNCHANGED <<wpc, ctl, resume>>
      BY <2>2 DEF AckQueue, ctlVars
    <3>2. CASE ~Dropped
      <4>1. ~Starting /\ ctl \notin {"purge", "release", "reset", "off",
                                     "settle", "free", "kick"}
        BY <2>2, <3>2 DEF Dropped, ShutInv, AckQueue
      <4> QED
        BY <3>1, <4>1
    <3>3. CASE Dropped
      BY <2>2, <3>1, <3>3 DEF AckQueue
    <3> QED
      BY <3>2, <3>3
  <2>3. CASE AckEnter(c) \/ AckLock(c) \/ AckNow(c) \/ AckClear(c) \/ AckBell(c)
    BY <2>3 DEF AckEnter, AckLock, AckNow, AckClear, AckBell, queueVars,
       workerVars, ctlVars
  <2> QED
    BY <2>1, <2>2, <2>3
<1>2. CASE CardStep
  BY <1>2 DEF CardStep, CardEncode, CardComplete, CardReannounce, queueVars,
     workerVars, ctlVars
<1>3. CASE Worker
  <2>1. CASE WorkerRun
    BY <2>1 DEF WorkerRun, queueVars, ctlVars
  <2>2. CASE WorkerPop \/ WorkerTake
    BY <2>2 DEF WorkerPop, WorkerTake, ctlVars
  <2>3. CASE WorkerSkip \/ WorkerAccept \/ WorkerCopied
    BY <2>3 DEF WorkerSkip, WorkerAccept, WorkerCopied, queueVars, ctlVars
  <2>4. CASE WorkerFinal
    BY <2>4 DEF WorkerFinal, ctlVars
  <2> QED
    BY <1>3, <2>1, <2>2, <2>3, <2>4 DEF Worker
<1>4. CASE FlushStep
  <2>1. CASE FlushClose
    BY <2>1 DEF FlushClose, queueVars, workerVars
  <2>2. CASE FlushSync
    BY <2>2 DEF FlushSync, queueVars
  <2>3. CASE FlushPurge
    BY <2>3 DEF FlushPurge, AfterFlush, workerVars
  <2>4. CASE FlushRelease
    BY <2>4 DEF FlushRelease, AfterFlush, queueVars, workerVars
  <2> QED
    BY <1>4, <2>1, <2>2, <2>3, <2>4 DEF FlushStep
<1>5. CASE StartStep
  <2>1. CASE StartStop \/ StartProgram
    BY <2>1 DEF StartStop, StartProgram, queueVars, workerVars
  <2>2. CASE StartAccept
    BY <2>2 DEF StartAccept
  <2>3. CASE StartFree \/ StartKick
    BY <2>3 DEF StartFree, StartKick, queueVars, workerVars
  <2> QED
    BY <1>5, <2>1, <2>2, <2>3 DEF StartStep
<1>6. CASE Stop
  BY <1>6 DEF Stop
<1>7. CASE UNCHANGED vars
  BY <1>7 DEF vars, queueVars, workerVars, ctlVars
<1> QED
  BY <1>1, <1>2, <1>3, <1>4, <1>5, <1>6, <1>7, NextCases

LEMMA StepAckNowInv == IInv /\ [Next]_vars => AckNowInv'
<1> SUFFICES ASSUME IInv, [Next]_vars PROVE AckNowInv'
  OBVIOUS
<1> USE DEF IInv, AckNowInv
<1>1. CASE HandlerStep
  <2>1. PICK c \in Contexts : \/ AckEnter(c) \/ AckLock(c) \/ AckQueue(c)
                              \/ AckNow(c) \/ AckClear(c) \/ AckBell(c)
    BY <1>1 DEF HandlerStep
  <2> USE DEF TypeOK, HandlerType
  <2>2. CASE AckQueue(c)
    <3>1. \A d \in Contexts \ {c} : hpc[d] # "acknow"
      BY <2>2, Exclusion DEF AckQueue
    <3>2. CASE ~Dropped
      BY <2>2, <3>1, <3>2 DEF AckQueue
    <3>3. CASE Dropped /\ AckNowAllowed
      BY <2>2, <3>1, <3>3 DEF AckQueue, AckNowAllowed
    <3>4. CASE Dropped /\ ~AckNowAllowed
      BY <2>2, <3>1, <3>4 DEF AckQueue
    <3> QED
      BY <3>2, <3>3, <3>4
  <2>3. CASE AckEnter(c) \/ AckLock(c) \/ AckNow(c) \/ AckClear(c) \/ AckBell(c)
    BY <2>3 DEF AckEnter, AckLock, AckNow, AckClear, AckBell, queueVars
  <2> QED
    BY <2>1, <2>2, <2>3
<1>2. CASE CardStep
  BY <1>2 DEF CardStep, CardEncode, CardComplete, CardReannounce, queueVars,
     handlerVars
<1>3. CASE Worker
  BY <1>3 DEF Worker, WorkerRun, WorkerPop, WorkerSkip, WorkerAccept,
     WorkerCopied, WorkerTake, WorkerFinal, queueVars, handlerVars
<1>4. CASE FlushStep
  BY <1>4 DEF FlushStep, FlushClose, FlushSync, FlushPurge, FlushRelease,
     queueVars, handlerVars
<1>5. CASE StartStep \/ Stop
  BY <1>5 DEF StartStep, StartStop, StartProgram, StartAccept, StartFree,
     StartKick, Stop, queueVars, handlerVars
<1>6. CASE UNCHANGED vars
  BY <1>6 DEF vars, queueVars, handlerVars
<1> QED
  BY <1>1, <1>2, <1>3, <1>4, <1>5, <1>6, NextCases

LEMMA StepTokenInv == IInv /\ [Next]_vars => TokenInv'
<1> SUFFICES ASSUME IInv, [Next]_vars PROVE TokenInv'
  OBVIOUS
<1> USE SlotsAssumption DEF IInv, TypeOK, CardType, TokenInv
<1>1. CASE CardStep
  <2>1. CASE CardEncode
    BY <2>1 DEF CardEncode
  <2>2. CASE CardComplete
    BY <2>2 DEF CardComplete
  <2>3. CASE CardReannounce
    BY <2>3 DEF CardReannounce
  <2> QED
    BY <1>1, <2>1, <2>2, <2>3 DEF CardStep
<1>2. CASE HandlerStep
  BY <1>2 DEF HandlerStep, AckEnter, AckLock, AckQueue, AckNow, AckClear,
     AckBell, cardVars
<1>3. CASE Worker
  BY <1>3 DEF Worker, WorkerRun, WorkerPop, WorkerSkip, WorkerAccept,
     WorkerCopied, WorkerTake, WorkerFinal, cardVars
<1>4. CASE FlushStep \/ Stop
  BY <1>4 DEF FlushStep, FlushClose, FlushSync, FlushPurge, FlushRelease,
     Stop, cardVars
<1>5. CASE StartStep
  <2>1. CASE StartProgram
    BY <2>1 DEF StartProgram
  <2>2. CASE StartKick
    BY <2>2 DEF StartKick, RestInv
  <2>3. CASE StartStop \/ StartAccept \/ StartFree
    BY <2>3 DEF StartStop, StartAccept, StartFree, cardVars
  <2> QED
    BY <1>5, <2>1, <2>2, <2>3 DEF StartStep
<1>6. CASE UNCHANGED vars
  BY <1>6 DEF vars, cardVars
<1> QED
  BY <1>1, <1>2, <1>3, <1>4, <1>5, <1>6, NextCases

(* Nothing is pending while ENC_STATUS is lowered: the worker's hand, the  *)
(* queue, and the snapshot of a handler that still sees the queue open.    *)
LEMMA NothingPending ==
    ASSUME TypeOK, ScheduledInv, ~scheduled
    PROVE  fifo = << >> /\ hand = << >> /\ wpc = "idle"
BY DEF TypeOK, WorkerType, ScheduledInv

(* A step of the card disturbs no completion that was snapshotted: it      *)
(* never writes to the slot it last finished, nor while ENC_STATUS is busy. *)
LEMMA CardKeepsSafe ==
    ASSUME TypeOK, TokenInv, CardStep
    PROVE  \A e : Safe(e) => Safe(e)'
<1> SUFFICES ASSUME NEW e, Safe(e) PROVE Safe(e)'
  OBVIOUS
<1> USE DEF TypeOK, CardType, Safe
<1>1. CASE CardEncode
  BY <1>1, SlotsAssumption DEF CardEncode
<1>2. CASE CardComplete
  BY <1>2, SlotsAssumption DEF CardComplete
<1>3. CASE CardReannounce
  BY <1>3 DEF CardReannounce
<1> QED
  BY <1>1, <1>2, <1>3 DEF CardStep

(* A snapshot taken now is of a completion that is safe now.               *)
LEMMA SnapshotSafe == TokenInv => Safe(Snapshot)
BY DEF TokenInv, Safe, Snapshot

LEMMA StepSafeInv == IInv /\ [Next]_vars => SafeInv'
<1> SUFFICES ASSUME IInv, [Next]_vars PROVE SafeInv'
  OBVIOUS
<1> USE DEF IInv, SafeInv
<1>1. CASE CardStep
  <2>1. UNCHANGED <<hand, fifo, accepting, hpc, snap>>
    BY <1>1 DEF CardStep, CardEncode, CardComplete, CardReannounce,
       workerVars, queueVars, handlerVars
  <2>2. \A e : Safe(e) => Safe(e)'
    BY <1>1, CardKeepsSafe
  <2> QED
    BY <2>1, <2>2 DEF Safe
<1>2. CASE HandlerStep
  <2>1. PICK c \in Contexts : \/ AckEnter(c) \/ AckLock(c) \/ AckQueue(c)
                              \/ AckNow(c) \/ AckClear(c) \/ AckBell(c)
    BY <1>2 DEF HandlerStep
  <2> USE DEF TypeOK, HandlerType
  <2>2. CASE AckEnter(c) \/ AckClear(c) \/ AckBell(c)
    BY <2>2 DEF AckEnter, AckClear, AckBell, Safe, cardVars, queueVars,
       workerVars
  <2>3. CASE AckLock(c)
    <3>1. UNCHANGED <<hand, fifo, accepting, content, armed, last, encBusy>>
      BY <2>3 DEF AckLock, cardVars, queueVars, workerVars
    <3>2. \A d \in Contexts : hpc'[d] = "queue" => d = c /\ snap' = Snapshot
      BY <2>3, ContextsAssumption DEF AckLock, LockInv
    <3>3. Safe(Snapshot)
      BY SnapshotSafe
    <3> QED
      BY <3>1, <3>2, <3>3 DEF Safe
  <2>4. CASE AckQueue(c)
    <3>1. UNCHANGED <<hand, accepting, content, armed, last, encBusy>>
      BY <2>4 DEF AckQueue, cardVars, queueVars, workerVars
    <3>2. \A d \in Contexts : hpc'[d] # "queue"
      BY <2>4, Exclusion DEF AckQueue
    <3>3. CASE ~Dropped
      <4>1. fifo' = Append(fifo, snap)
        BY <2>4, <3>3 DEF AckQueue
      <4>2. Safe(snap)
        BY <2>4, <3>3 DEF Dropped, AckQueue
      <4>3. \A i \in DOMAIN fifo' : fifo'[i] = snap \/ (i \in DOMAIN fifo /\ fifo'[i] = fifo[i])
        BY <4>1 DEF QueueType
      <4> QED
        BY <3>1, <3>2, <4>2, <4>3 DEF Safe
    <3>4. CASE Dropped
      <4>1. UNCHANGED fifo
        BY <2>4, <3>4 DEF AckQueue
      <4> QED
        BY <3>1, <3>2, <4>1 DEF Safe
    <3> QED
      BY <3>3, <3>4
  <2>5. CASE AckNow(c)
    <3>1. UNCHANGED <<hand, fifo>> /\ ~scheduled
      BY <2>5 DEF AckNow, queueVars, workerVars, AckNowInv
    <3>2. hand' = << >> /\ fifo' = << >>
      BY <3>1, NothingPending
    <3>3. \A d \in Contexts : hpc'[d] # "queue"
      BY <2>5, Exclusion DEF AckNow
    <3> QED
      BY <3>2, <3>3
  <2> QED
    BY <2>1, <2>2, <2>3, <2>4, <2>5
<1>3. CASE Worker
  <2>1. UNCHANGED <<content, armed, last, accepting, hpc, snap>>
    BY <1>3 DEF Worker, WorkerRun, WorkerPop, WorkerSkip, WorkerAccept,
       WorkerCopied, WorkerTake, WorkerFinal, cardVars, handlerVars, queueVars
  <2>2. CASE WorkerPop
    <3>1. UNCHANGED encBusy
      BY <2>2 DEF WorkerPop
    <3>2. CASE fifo # << >>
      <4>1. hand' = <<fifo[1]>> /\ fifo' = Tail(fifo)
        BY <2>2, <3>2 DEF WorkerPop, TypeOK, QueueType
      <4>2. 1 \in DOMAIN fifo
        BY <3>2 DEF TypeOK, QueueType
      <4>3. \A i \in DOMAIN hand' : hand'[i] = fifo[1]
        BY <4>1
      <4>4. \A i \in DOMAIN fifo' : i + 1 \in DOMAIN fifo /\ fifo'[i] = fifo[i + 1]
        BY <3>2, <4>1 DEF TypeOK, QueueType
      <4> QED
        BY <2>1, <3>1, <4>2, <4>3, <4>4 DEF Safe
    <3>3. CASE fifo = << >>
      BY <2>1, <2>2, <3>1, <3>3 DEF WorkerPop, Safe
    <3> QED
      BY <3>2, <3>3
  <2>3. CASE WorkerSkip \/ WorkerCopied
    BY <2>1, <2>3 DEF WorkerSkip, WorkerCopied, Safe, queueVars
  <2>4. CASE WorkerRun \/ WorkerAccept \/ WorkerTake
    BY <2>1, <2>4 DEF WorkerRun, WorkerAccept, WorkerTake, Safe, queueVars
  <2>5. CASE WorkerFinal
    <3>1. UNCHANGED <<hand, fifo>>
      BY <2>5 DEF WorkerFinal
    <3>2. CASE BatchDone
      <4>1. fifo' = << >> /\ hand' = << >>
        BY <2>5, <3>1, <3>2 DEF BatchDone, WorkerFinal, TypeOK, WorkerType
      <4>2. \A c \in Contexts : hpc'[c] # "queue"
        BY <2>1, <2>5, ContextsAssumption DEF WorkerFinal, LockInv
      <4> QED
        BY <4>1, <4>2
    <3>3. CASE ~BatchDone
      BY <2>1, <2>5, <3>1, <3>3 DEF WorkerFinal, Safe
    <3> QED
      BY <3>2, <3>3
  <2> QED
    BY <1>3, <2>2, <2>3, <2>4, <2>5 DEF Worker
<1>4. CASE FlushStep
  <2>1. CASE FlushClose \/ FlushSync
    BY <2>1 DEF FlushClose, FlushSync, Safe, cardVars, handlerVars, queueVars,
       workerVars
  <2>2. CASE FlushPurge
    BY <2>2 DEF FlushPurge, Safe, cardVars, handlerVars, workerVars
  <2>3. CASE FlushRelease
    <3>1. hand' = << >> /\ fifo' = << >>
      BY <2>3, NothingPending DEF FlushRelease, queueVars, workerVars, FlushInv
    <3>2. ~accepting'
      BY <2>3 DEF FlushRelease, queueVars, ShutInv
    <3> QED
      BY <3>1, <3>2
  <2> QED
    BY <1>4, <2>1, <2>2, <2>3 DEF FlushStep
<1>5. CASE StartStep
  <2>1. CASE StartStop
    BY <2>1 DEF StartStop, Safe, handlerVars, queueVars, workerVars
  <2>2. CASE StartProgram
    <3>1. hand' = << >> /\ fifo' = << >>
      BY <2>2, NothingPending DEF StartProgram, queueVars, workerVars, FlushInv
    <3>2. ~accepting'
      BY <2>2 DEF StartProgram, queueVars, ShutInv
    <3> QED
      BY <3>1, <3>2
  <2>3. CASE StartAccept \/ StartFree \/ StartKick
    <3>1. UNCHANGED <<hand, hpc>> /\ (fifo' = fifo \/ fifo' = << >>)
      BY <2>3 DEF StartAccept, StartFree, StartKick, handlerVars, queueVars,
         workerVars
    <3>2. ctl \in {"reset", "free", "kick"} /\ ~scheduled
      BY <2>3 DEF StartAccept, StartFree, StartKick, FlushInv
    <3>3. hand' = << >> /\ fifo' = << >>
      BY <3>1, <3>2, NothingPending
    <3>4. \A c \in Contexts : hpc'[c] # "queue"
      BY <3>1, <3>2 DEF ShutInv, Starting
    <3> QED
      BY <3>3, <3>4
  <2> QED
    BY <1>5, <2>1, <2>2, <2>3 DEF StartStep
<1>6. CASE Stop
  BY <1>6 DEF Stop, Safe, handlerVars, queueVars, workerVars
<1>7. CASE UNCHANGED vars
  BY <1>7 DEF vars, Safe, cardVars, handlerVars, queueVars, workerVars
<1> QED
  BY <1>1, <1>2, <1>3, <1>4, <1>5, <1>6, <1>7, NextCases

(* IInv is inductive.                                                      *)
THEOREM Inductive == Spec => []IInv
<1>1. IInv /\ [Next]_vars => TypeOK'
  BY StepCardType, StepFlagType, StepHandlerType, StepQueueType,
     StepWorkerType, StepCtlType DEF IInv, TypeOK
<1>2. IInv /\ [Next]_vars => IInv'
  BY <1>1, StepLockInv, StepShutInv, StepRestInv, StepScheduledInv,
     StepFlushInv, StepAckNowInv, StepTokenInv, StepSafeInv DEF IInv
<1> QED
  BY InitIInv, <1>2, PTL DEF Spec

(* ENC_STATUS is never freed while an older snapshot is queued or being    *)
(* copied: its bitstream stays whole until the worker is done with it.     *)
THEOREM SnapshotsStayIntact == Spec => []SnapshotIntact
<1>1. IInv => SnapshotIntact
  BY DEF IInv, SafeInv, Safe, SnapshotIntact, Intact
<1> QED
  BY <1>1, Inductive, PTL

(* The drain-scheduled flag loses no wakeup of the worker.                 *)
THEOREM WakeupsKept == Spec => []NoLostWakeup
<1>1. IInv => NoLostWakeup
  BY DEF IInv, ScheduledInv, NoLostWakeup
<1> QED
  BY <1>1, Inductive, PTL

(* After a flush there is no worker, no queued event and no deferred       *)
(* acknowledgement left.                                                   *)
THEOREM FlushesAreFinal == Spec => []FlushIsFinal
<1>1. IInv => FlushIsFinal
  BY NothingPending DEF IInv, FlushInv, ShutInv, ScheduledInv, FlushIsFinal
<1> QED
  BY <1>1, Inductive, PTL

-----------------------------------------------------------------------------
(***************************************************************************)
(* The path implements FrameHandoff.                                       *)
(***************************************************************************)
LEMMA InitHandoff == Init => Handoff!HandoffInit
BY DEF Init, Handoff!HandoffInit

(* Consuming the only element of a first sequence consumes the head of a   *)
(* concatenation.                                                          *)
LEMMA TailOfSingle ==
    ASSUME NEW S, NEW h \in Seq(S), NEW f \in Seq(S), h # << >>, Len(h) <= 1
    PROVE  Tail(h \o f) = f /\ h \o f # << >>
<1>1. Len(h) = 1
  <2>1. Len(h) \in Nat \ {0}
    BY EmptySeq, Zenon
  <2>2. \A n \in Nat \ {0} : n <= 1 => n = 1
    OBVIOUS
  <2> QED
    BY <2>1, <2>2, Zenon
<1>2. Len(h \o f) = 1 + Len(f) /\ h \o f \in Seq(S) /\ Len(f) \in Nat
  <2>1. h \o f \in Seq(S) /\ Len(h \o f) = Len(h) + Len(f)
    BY ConcatProperties, Zenon
  <2>2. Len(f) \in Nat
    BY LenProperties, Zenon
  <2> QED
    BY <1>1, <2>1, <2>2
<1>3. h \o f # << >>
  BY <1>2, EmptySeq
<1>4. Tail(h \o f) = f
  BY <1>1, <1>2
<1> QED
  BY <1>3, <1>4

LEMMA StepHandoff ==
    ASSUME IInv, IInv', [Next]_vars
    PROVE  [Handoff!HandoffNext]_(Handoff!handoffVars)
<1> DEFINE owed == hand \o fifo
<1> USE DEF IInv, TypeOK
<1>0. /\ hand \in Seq(FrameEvent) /\ fifo \in Seq(FrameEvent)
      /\ hand' \in Seq(FrameEvent) /\ fifo' \in Seq(FrameEvent)
  BY DEF WorkerType, QueueType
<1>1. ASSUME UNCHANGED <<encBusy, hand, fifo>>
      PROVE  UNCHANGED Handoff!handoffVars
  BY <1>1 DEF Handoff!handoffVars
<1>2. ASSUME encBusy' = FALSE, UNCHANGED <<hand, fifo>>, hand = << >>, fifo = << >>
      PROVE  Handoff!Release
  BY <1>2 DEF Handoff!Release
<1>3. CASE CardStep
  <2>1. UNCHANGED <<hand, fifo>>
    BY <1>3 DEF CardStep, CardEncode, CardComplete, CardReannounce, workerVars,
       queueVars
  <2>2. UNCHANGED encBusy \/ encBusy' = TRUE
    BY <1>3 DEF CardStep, CardEncode, CardComplete, CardReannounce
  <2> QED
    BY <1>1, <2>1, <2>2 DEF Handoff!Fill, Handoff!HandoffNext
<1>4. CASE HandlerStep
  <2>1. PICK c \in Contexts : \/ AckEnter(c) \/ AckLock(c) \/ AckQueue(c)
                              \/ AckNow(c) \/ AckClear(c) \/ AckBell(c)
    BY <1>4 DEF HandlerStep
  <2>2. CASE AckQueue(c) /\ ~Dropped
    <3>1. UNCHANGED <<encBusy, hand>> /\ fifo' = Append(fifo, snap)
      BY <2>2 DEF AckQueue
    <3>2. snap \in FrameEvent
      BY DEF HandlerType
    <3>3. hand \o Append(fifo, snap) = Append(hand \o fifo, snap)
      BY <1>0, <3>2
    <3> QED
      BY <3>1, <3>2, <3>3 DEF Handoff!Note, Handoff!HandoffNext
  <2>3. CASE AckQueue(c) /\ Dropped
    BY <1>1, <2>3 DEF AckQueue
  <2>4. CASE AckNow(c)
    BY <1>2, <2>4, NothingPending DEF AckNow, AckNowInv, queueVars, workerVars,
       Handoff!HandoffNext
  <2>5. CASE AckEnter(c) \/ AckLock(c) \/ AckClear(c) \/ AckBell(c)
    BY <1>1, <2>5 DEF AckEnter, AckLock, AckClear, AckBell, queueVars, workerVars
  <2> QED
    BY <2>1, <2>2, <2>3, <2>4, <2>5
<1>5. CASE Worker
  <2>1. CASE WorkerPop
    <3>1. UNCHANGED encBusy /\ hand = << >>
      BY <2>1 DEF WorkerPop, WorkerType
    <3>2. CASE fifo # << >>
      <4>1. hand' = <<Head(fifo)>> /\ fifo' = Tail(fifo)
        BY <2>1, <3>2 DEF WorkerPop
      <4>2. <<Head(fifo)>> \o Tail(fifo) = fifo
        BY <1>0, <3>2
      <4>3. << >> \o fifo = fifo
        BY <1>0
      <4> QED
        BY <3>1, <4>1, <4>2, <4>3 DEF Handoff!handoffVars
    <3>3. CASE fifo = << >>
      BY <1>1, <2>1, <3>1, <3>3 DEF WorkerPop
    <3> QED
      BY <3>2, <3>3
  <2>2. CASE WorkerSkip \/ WorkerCopied
    <3>1. UNCHANGED <<encBusy, fifo>> /\ hand' = << >> /\ hand # << >>
      BY <2>2 DEF WorkerSkip, WorkerCopied, queueVars, WorkerType
    <3>2. Tail(hand \o fifo) = fifo /\ hand \o fifo # << >>
      BY <1>0, <3>1, TailOfSingle DEF WorkerType
    <3>3. << >> \o fifo = fifo
      BY <1>0
    <3> QED
      BY <3>1, <3>2, <3>3 DEF Handoff!Consume, Handoff!HandoffNext
  <2>3. CASE WorkerRun \/ WorkerAccept \/ WorkerTake
    BY <1>1, <2>3 DEF WorkerRun, WorkerAccept, WorkerTake, queueVars
  <2>4. CASE WorkerFinal
    <3>1. UNCHANGED <<hand, fifo>> /\ hand = << >>
      BY <2>4 DEF WorkerFinal, WorkerType
    <3>2. CASE BatchDone /\ handled
      BY <1>2, <2>4, <3>1, <3>2 DEF WorkerFinal, BatchDone, Handoff!HandoffNext
    <3>3. CASE ~(BatchDone /\ handled)
      <4>1. UNCHANGED encBusy
        BY <2>4, <3>3 DEF WorkerFinal, FlagType
      <4> QED
        BY <1>1, <3>1, <4>1
    <3> QED
      BY <3>2, <3>3
  <2> QED
    BY <1>5, <2>1, <2>2, <2>3, <2>4 DEF Worker
<1>6. CASE FlushStep
  <2>1. CASE FlushClose \/ FlushSync
    BY <1>1, <2>1 DEF FlushClose, FlushSync, queueVars, workerVars
  <2>2. CASE FlushPurge
    <3>1. UNCHANGED <<encBusy, hand>> /\ hand = << >> /\ fifo' = << >>
      BY <2>2 DEF FlushPurge, FlushInv, WorkerType, workerVars
    <3> QED
      BY <3>1 DEF Handoff!Discard, Handoff!HandoffNext
  <2>3. CASE FlushRelease
    BY <1>2, <2>3, NothingPending DEF FlushRelease, FlushInv, queueVars,
       workerVars, Handoff!HandoffNext
  <2> QED
    BY <1>6, <2>1, <2>2, <2>3 DEF FlushStep
<1>7. CASE StartStep
  <2>1. CASE StartStop \/ StartProgram \/ StartKick
    BY <1>1, <2>1 DEF StartStop, StartProgram, StartKick, queueVars, workerVars
  <2>2. CASE StartAccept
    <3>1. hand = << >> /\ fifo = << >>
      BY <2>2, NothingPending DEF StartAccept, FlushInv
    <3> QED
      BY <1>1, <2>2, <3>1 DEF StartAccept
  <2>3. CASE StartFree
    BY <1>2, <2>3, NothingPending DEF StartFree, FlushInv, queueVars,
       workerVars, Handoff!HandoffNext
  <2> QED
    BY <1>7, <2>1, <2>2, <2>3 DEF StartStep
<1>8. CASE Stop
  BY <1>1, <1>8 DEF Stop, queueVars, workerVars
<1>9. CASE UNCHANGED vars
  BY <1>1, <1>9 DEF vars, queueVars, workerVars
<1> QED
  BY <1>3, <1>4, <1>5, <1>6, <1>7, <1>8, <1>9, NextCases

(* The interrupt path, the queue and the worker implement the hand-over:   *)
(* ENC_STATUS is lowered only when the host owes no noted completion a     *)
(* copy, and completions are consumed in the order they were noted.        *)
THEOREM ImplementsHandoff == Spec => ReleasedWhenConsumed
<1>1. IInv /\ IInv' /\ [Next]_vars => [Handoff!HandoffNext]_(Handoff!handoffVars)
  BY StepHandoff
<1> QED
  BY InitHandoff, <1>1, Inductive, PTL DEF Spec, ReleasedWhenConsumed,
     Handoff!HandoffSpec

-----------------------------------------------------------------------------
(***************************************************************************)
(* The order in which bitstreams are consumed.                             *)
(***************************************************************************)

(* The bitstream a token stands for: the one in its slot, if any.          *)
Holds(s) == IF s \in Slots THEN content[s] ELSE 0

(* Bitstreams are numbered, each is in one slot, and the card is at the    *)
(* last of them.                                                           *)
NumberInv ==
    /\ copied <= frames
    /\ \A s \in Slots : content[s] <= frames
    /\ \A s, t \in Slots : content[s] = content[t] /\ content[s] # 0 => s = t
    /\ armed # NoSlot => Holds(armed) = frames /\ frames > 0
    /\ running /\ last # NoSlot /\ armed = NoSlot => Holds(last) = frames

(* The worker has a snapshot in its hand; a handler is about to queue one. *)
InHand == wpc \in {"drain", "copy"}
InHandler == accepting /\ \E c \in Contexts : hpc[c] = "queue"

(* Whenever the card may begin a bitstream, whoever waits to be looked at  *)
(* names the last one finished.                                            *)
TurnInv ==
    /\ last # NoSlot => token = last
    /\ last # NoSlot /\ armed = NoSlot /\ ~encBusy =>
         /\ InHand => hand[1].slot = last
         /\ \A i \in DOMAIN fifo : fifo[i].slot = last
         /\ InHandler => snap.slot = last

(* A token looked at before another does not stand for a newer bitstream:  *)
(* the snapshot in hand, the queue, the handler's snapshot and the token   *)
(* registers are in the order of the bitstreams in their slots.            *)
InOrder(s, t) == Holds(s) # 0 /\ Holds(t) # 0 /\ s # t => Holds(s) < Holds(t)
OrderInv ==
    /\ InHand => /\ \A i \in DOMAIN fifo : InOrder(hand[1].slot, fifo[i].slot)
                 /\ InHandler => InOrder(hand[1].slot, snap.slot)
                 /\ InOrder(hand[1].slot, token)
    /\ \A i \in DOMAIN fifo :
         /\ \A j \in DOMAIN fifo : i < j => InOrder(fifo[i].slot, fifo[j].slot)
         /\ InHandler => InOrder(fifo[i].slot, snap.slot)
         /\ InOrder(fifo[i].slot, token)
    /\ InHandler => InOrder(snap.slot, token)

(* What the worker has consumed is older than all it has still to look at, *)
(* unless that is a repetition of the token consumed last.                 *)
Ahead(s) == Holds(s) # 0 /\ s # lastToken => Holds(s) > copied
AheadInv ==
    /\ wpc = "drain" => Ahead(hand[1].slot)
    /\ wpc = "copy" => hand[1].slot = lastToken /\ Holds(lastToken) > copied
    /\ \A i \in DOMAIN fifo : Ahead(fifo[i].slot)
    /\ InHandler => Ahead(snap.slot)
    /\ Ahead(token) /\ Ahead(armed)

FrameOrder == NumberInv /\ TurnInv /\ OrderInv /\ AheadInv

(* What a step does to the snapshots that wait.                            *)
Kept == /\ fifo' = fifo
        /\ InHand' => InHand /\ hand' = hand
        /\ InHandler' => InHandler /\ snap' = snap
Emptied == fifo' = << >> /\ ~InHand' /\ ~InHandler'
Noted == UNCHANGED <<hand, fifo, wpc>> /\ (InHandler' => snap'.slot = token)
Queued == /\ InHandler /\ ~InHandler' /\ fifo' = Append(fifo, snap)
          /\ UNCHANGED <<hand, wpc>>
Popped == /\ fifo # << >> /\ ~InHand
          /\ hand' = <<Head(fifo)>> /\ fifo' = Tail(fifo)
          /\ InHandler' => InHandler /\ snap' = snap
slotVars == <<content, token, last, armed, encBusy>>

(* The slots move only under the card's steps, or when nothing waits.      *)
LEMMA Moves ==
  ASSUME IInv, [Next]_vars
  PROVE  \/ CardStep /\ Kept
         \/ Emptied /\ (UNCHANGED <<token, last>> \/ last' = NoSlot)
         \/ UNCHANGED slotVars /\ (Kept \/ Noted \/ Queued \/ Popped)
<1> USE DEF IInv, TypeOK, InHand, InHandler, slotVars
<1>1. CASE CardStep
  <2>1. UNCHANGED <<fifo, hand, wpc, accepting, hpc, snap>>
    BY <1>1 DEF CardStep, CardEncode, CardComplete, CardReannounce, queueVars,
       workerVars, handlerVars
  <2> QED
    BY <1>1, <2>1 DEF Kept
<1>2. CASE HandlerStep
  <2>1. PICK c \in Contexts : \/ AckEnter(c) \/ AckLock(c) \/ AckQueue(c)
                              \/ AckNow(c) \/ AckClear(c) \/ AckBell(c)
    BY <1>2 DEF HandlerStep
  <2> USE DEF HandlerType
  <2>2. CASE AckEnter(c) \/ AckClear(c) \/ AckBell(c)
    <3>1. UNCHANGED <<slotVars, fifo, hand, wpc, accepting, snap>>
      BY <2>2 DEF AckEnter, AckClear, AckBell, cardVars, queueVars, workerVars
    <3>2. \A d \in Contexts : hpc'[d] = "queue" => hpc[d] = "queue"
      BY <2>2 DEF AckEnter, AckClear, AckBell
    <3> QED
      BY <3>1, <3>2 DEF Kept
  <2>3. CASE AckLock(c)
    <3>1. UNCHANGED <<slotVars, fifo, hand, wpc, accepting>>
      BY <2>3 DEF AckLock, cardVars, queueVars, workerVars
    <3>2. \A d \in Contexts : hpc'[d] = "queue" => snap'.slot = token
      BY <2>3, ContextsAssumption DEF AckLock, LockInv, Snapshot
    <3> QED
      BY <3>1, <3>2 DEF Noted
  <2>4. CASE AckQueue(c)
    <3>1. UNCHANGED <<slotVars, hand, wpc, accepting>>
      BY <2>4 DEF AckQueue, cardVars, workerVars
    <3>2. \A d \in Contexts : hpc'[d] # "queue"
      BY <2>4, Exclusion DEF AckQueue
    <3>3. CASE ~Dropped
      BY <2>4, <3>1, <3>2, <3>3 DEF AckQueue, Dropped, Queued
    <3>4. CASE Dropped
      <4>1. fifo' = fifo
        BY <2>4, <3>4 DEF AckQueue
      <4> QED
        BY <3>1, <3>2, <4>1 DEF Kept
    <3> QED
      BY <3>3, <3>4
  <2>5. CASE AckNow(c)
    <3>1. UNCHANGED <<fifo, hand, wpc, token, last>> /\ ~scheduled
      BY <2>5 DEF AckNow, AckNowInv, queueVars, workerVars, cardVars
    <3>2. fifo' = << >> /\ wpc' = "idle"
      BY <3>1, NothingPending
    <3>3. \A d \in Contexts : hpc'[d] # "queue"
      BY <2>5, Exclusion DEF AckNow
    <3> QED
      BY <3>1, <3>2, <3>3 DEF Emptied
  <2> QED
    BY <2>1, <2>2, <2>3, <2>4, <2>5
<1>3. CASE Worker
  <2>1. UNCHANGED <<content, token, last, armed, accepting, hpc, snap>>
    BY <1>3 DEF Worker, WorkerRun, WorkerPop, WorkerSkip, WorkerAccept,
       WorkerCopied, WorkerTake, WorkerFinal, cardVars, handlerVars, queueVars
  <2>2. CASE WorkerPop
    BY <2>1, <2>2 DEF WorkerPop, Popped, Kept
  <2>3. CASE WorkerSkip \/ WorkerCopied \/ WorkerAccept
    BY <2>1, <2>3 DEF WorkerSkip, WorkerCopied, WorkerAccept, Kept, queueVars
  <2>4. CASE WorkerRun \/ WorkerTake
    BY <2>1, <2>4 DEF WorkerRun, WorkerTake, Kept, queueVars
  <2>5. CASE WorkerFinal
    <3>1. CASE BatchDone
      <4>1. \A c \in Contexts : hpc'[c] # "queue"
        BY <2>1, <2>5, ContextsAssumption DEF WorkerFinal, LockInv
      <4> QED
        BY <2>1, <2>5, <3>1, <4>1 DEF WorkerFinal, BatchDone, Emptied
    <3>2. CASE ~BatchDone
      BY <2>1, <2>5, <3>2 DEF WorkerFinal, Kept
    <3> QED
      BY <3>1, <3>2
  <2> QED
    BY <1>3, <2>2, <2>3, <2>4, <2>5 DEF Worker
<1>4. CASE FlushStep
  <2>1. CASE FlushClose \/ FlushSync
    BY <2>1 DEF FlushClose, FlushSync, Kept, cardVars, handlerVars, queueVars,
       workerVars
  <2>2. CASE FlushPurge
    BY <2>2 DEF FlushPurge, Emptied, FlushInv, ShutInv, cardVars, workerVars
  <2>3. CASE FlushRelease
    <3>1. fifo' = << >> /\ wpc' = "idle" /\ UNCHANGED <<token, last>>
      BY <2>3, NothingPending DEF FlushRelease, queueVars, workerVars, FlushInv,
         cardVars
    <3>2. ~accepting'
      BY <2>3 DEF FlushRelease, queueVars, ShutInv
    <3> QED
      BY <3>1, <3>2 DEF Emptied
  <2> QED
    BY <1>4, <2>1, <2>2, <2>3 DEF FlushStep
<1>5. CASE StartStep
  <2>1. CASE StartStop
    BY <2>1 DEF StartStop, Kept, handlerVars, queueVars, workerVars
  <2>2. CASE StartProgram
    <3>1. fifo' = << >> /\ wpc' = "idle" /\ UNCHANGED <<token, last>>
      BY <2>2, NothingPending DEF StartProgram, queueVars, workerVars, FlushInv
    <3>2. ~accepting'
      BY <2>2 DEF StartProgram, queueVars, ShutInv
    <3> QED
      BY <3>1, <3>2 DEF Emptied
  <2>3. CASE StartAccept \/ StartFree \/ StartKick
    <3>1. UNCHANGED <<hpc, wpc>> /\ (fifo' = fifo \/ fifo' = << >>)
      BY <2>3 DEF StartAccept, StartFree, StartKick, handlerVars, queueVars,
         workerVars
    <3>2. ctl \in {"reset", "free", "kick"} /\ ~scheduled
      BY <2>3 DEF StartAccept, StartFree, StartKick, FlushInv
    <3>3. fifo' = << >> /\ wpc' = "idle"
      BY <3>1, <3>2, NothingPending
    <3>4. \A c \in Contexts : hpc'[c] # "queue"
      BY <3>1, <3>2 DEF ShutInv, Starting
    <3>5. UNCHANGED <<token, last>> \/ last' = NoSlot
      BY <2>3 DEF StartAccept, StartFree, StartKick, cardVars
    <3> QED
      BY <3>3, <3>4, <3>5 DEF Emptied
  <2> QED
    BY <1>5, <2>1, <2>2, <2>3 DEF StartStep
<1>6. CASE Stop
  BY <1>6 DEF Stop, Kept, handlerVars, queueVars, workerVars
<1>7. CASE UNCHANGED vars
  BY <1>7 DEF vars, Kept, cardVars, handlerVars, queueVars, workerVars
<1> QED
  BY <1>1, <1>2, <1>3, <1>4, <1>5, <1>6, <1>7, NextCases

LEMMA Places ==
  ASSUME TypeOK
  PROVE  /\ frames \in Nat /\ copied \in Nat /\ MaxFrames \in Nat
         /\ armed \in Token /\ last \in Token /\ token \in Token
         /\ \A s \in Slots : content[s] \in Nat
         /\ \A s : Holds(s) \in Nat /\ (Holds(s) # 0 => s \in Slots)
         /\ Holds(NoSlot) = 0
<1>1. \A s \in Slots : content[s] \in 0..MaxFrames
  BY DEF TypeOK, CardType
<1> QED
  BY <1>1, SizesAssumption, SlotsAssumption
     DEF TypeOK, CardType, WorkerType, Holds

(* Bitstreams are numbered as they begin, and copied after that.           *)
LEMMA StepNumberInv ==
  ASSUME IInv, NumberInv, [Next]_vars
  PROVE  NumberInv'
<1> USE DEF IInv, NumberInv, Holds
<1>1. CASE CardEncode
  <2>1. PICK s \in Slots : armed' = s /\ content' = [content EXCEPT ![s] = frames + 1]
    BY <1>1 DEF CardEncode
  <2>2. frames' = frames + 1 /\ copied' = copied
    BY <1>1 DEF CardEncode, workerVars
  <2>3. \A t \in Slots : content'[t] = IF t = s THEN frames + 1 ELSE content[t]
    BY <2>1 DEF TypeOK, CardType
  <2> QED
    BY <2>1, <2>2, <2>3, Places, SlotsAssumption
<1>2. CASE CardComplete
  BY <1>2, Places, SlotsAssumption DEF CardComplete, workerVars
<1>3. CASE WorkerCopied
  <2>1. copied' <= frames
    BY <1>3 DEF WorkerCopied, TypeOK, WorkerType
  <2> QED
    BY <1>3, <2>1 DEF WorkerCopied, cardVars
<1>4. CASE StartProgram
  <2>1. ~running /\ armed = NoSlot
    BY <1>4 DEF StartProgram, ShutInv, Starting
  <2> QED
    BY <1>4, <2>1, Places DEF StartProgram, workerVars
<1>5. CASE StartKick
  BY <1>5 DEF StartKick, workerVars, RestInv
<1>6. CASE StartStop \/ Stop
  BY <1>6 DEF StartStop, Stop, workerVars
<1>7. CASE UNCHANGED <<running, armed, last, content, frames, copied>>
  BY <1>7
<1>8. CASE CardReannounce \/ HandlerStep \/ (Worker /\ ~WorkerCopied) \/ FlushStep
           \/ StartAccept \/ StartFree \/ UNCHANGED vars
  BY <1>7, <1>8 DEF CardReannounce, HandlerStep, AckEnter, AckLock, AckQueue, AckNow,
     AckClear, AckBell, Worker, WorkerRun, WorkerPop, WorkerSkip, WorkerAccept,
     WorkerTake, WorkerFinal, FlushStep, FlushClose, FlushSync, FlushPurge,
     FlushRelease, StartAccept, StartFree, vars, cardVars, workerVars
<1> QED
  BY <1>1, <1>2, <1>3, <1>4, <1>5, <1>6, <1>8, NextCases DEF CardStep, StartStep

(* The queue is one longer, or its first element is in the hand.           *)
LEMMA QueueShifts ==
  ASSUME TypeOK
  PROVE  /\ Queued => \A i \in DOMAIN fifo' :
              IF i \in DOMAIN fifo THEN fifo'[i] = fifo[i]
                                   ELSE fifo'[i] = snap /\ \A j \in DOMAIN fifo : j < i
         /\ Queued => \A i, j \in DOMAIN fifo' : i < j => i \in DOMAIN fifo
         /\ Popped => /\ hand'[1] = fifo[1] /\ 1 \in DOMAIN fifo
                      /\ \A i \in DOMAIN fifo' : /\ i + 1 \in DOMAIN fifo
                                                 /\ fifo'[i] = fifo[i + 1]
                                                 /\ i \in Nat \ {0}
<1> USE DEF TypeOK, QueueType, HandlerType
<1>1. CASE Queued
  <2>1. fifo' = Append(fifo, snap) /\ Len(fifo') = Len(fifo) + 1 /\ Len(fifo) \in Nat
    BY <1>1 DEF Queued
  <2>2. DOMAIN fifo = 1..Len(fifo) /\ DOMAIN fifo' = 1..Len(fifo) + 1
    BY <2>1
  <2>3. ASSUME NEW i \in DOMAIN fifo'
        PROVE  IF i \in DOMAIN fifo THEN fifo'[i] = fifo[i] ELSE fifo'[i] = snap
    BY <2>1, <2>2
  <2>4. ASSUME NEW i \in DOMAIN fifo', NEW j \in DOMAIN fifo, i \notin DOMAIN fifo
        PROVE  j < i
    BY <2>1, <2>2, <2>4
  <2>5. ASSUME NEW i \in DOMAIN fifo', NEW j \in DOMAIN fifo', i < j
        PROVE  i \in DOMAIN fifo
    BY <2>1, <2>2, <2>5
  <2>6. ~Popped
    BY <1>1 DEF Queued, Popped
  <2> QED
    BY <1>1, <2>3, <2>4, <2>5, <2>6
<1>2. CASE Popped
  BY <1>2 DEF Queued, Popped
<1> QED
  BY <1>1, <1>2

LEMMA InitFrameOrder == Init => FrameOrder
BY SlotsAssumption DEF Init, FrameOrder, NumberInv, TurnInv, OrderInv, AheadInv, InOrder,
   Ahead, Holds, InHand, InHandler

(* ENC_STATUS is lowered only when nothing waits, and a bitstream begins   *)
(* only while it is low.                                                   *)
LEMMA StepTurnInv ==
  ASSUME IInv, TurnInv, [Next]_vars
  PROVE  TurnInv'
<1> USE DEF TurnInv
<1>0. TypeOK
  BY DEF IInv
<1>1. CASE CardStep /\ Kept
  <2>1. CASE CardEncode
    BY <1>0, <1>1, <2>1, SlotsAssumption DEF CardEncode, Kept
  <2>2. CASE CardComplete
    BY <1>1, <2>2 DEF CardComplete, Kept
  <2>3. CASE CardReannounce
    BY <1>1, <2>3 DEF CardReannounce, Kept
  <2> QED
    BY <1>1, <2>1, <2>2, <2>3 DEF CardStep
<1>2. CASE Emptied /\ (UNCHANGED <<token, last>> \/ last' = NoSlot)
  BY <1>2 DEF Emptied
<1>3. CASE UNCHANGED slotVars /\ Kept
  BY <1>3 DEF slotVars, Kept
<1>4. CASE UNCHANGED slotVars /\ Noted
  BY <1>4 DEF slotVars, Noted, InHand
<1>5. CASE UNCHANGED slotVars /\ Queued
  <2>1. \A i \in DOMAIN fifo' : \/ i \in DOMAIN fifo /\ fifo'[i] = fifo[i]
                                \/ fifo'[i] = snap
    BY <1>0, <1>5, QueueShifts
  <2> QED
    BY <1>5, <2>1 DEF slotVars, Queued, InHand
<1>6. CASE UNCHANGED slotVars /\ Popped
  <2>1. /\ hand'[1] = fifo[1] /\ 1 \in DOMAIN fifo
    BY <1>0, <1>6, QueueShifts
  <2>2. \A i \in DOMAIN fifo' : \E j \in DOMAIN fifo : fifo'[i] = fifo[j]
    BY <1>0, <1>6, QueueShifts
  <2> QED
    BY <1>6, <2>1, <2>2 DEF slotVars, Popped
<1> QED
  BY <1>1, <1>2, <1>3, <1>4, <1>5, <1>6, Moves

(* A step of the card keeps two tokens that wait in their order, and each  *)
(* of them in order with the token registers.                              *)
LEMMA CardKeepsOrder ==
  ASSUME IInv, NumberInv, TurnInv, CardStep, NEW s, NEW t,
         last # NoSlot /\ armed = NoSlot /\ ~encBusy => s = last /\ t = last
  PROVE  /\ InOrder(s, t) => InOrder(s, t)'
         /\ InOrder(s, token) => InOrder(s, token)'
<1> USE DEF InOrder
<1>0. TypeOK /\ TokenInv
  BY DEF IInv
<1>1. CASE CardEncode
  <2>1. PICK u \in Slots \ {last} : content' = [content EXCEPT ![u] = frames + 1]
    BY <1>1 DEF CardEncode
  <2>2. \A v \in Slots : content'[v] = IF v = u THEN frames + 1 ELSE content[v]
    BY <1>0, <2>1 DEF TypeOK, CardType
  <2>3. token' = token /\ armed = NoSlot /\ ~encBusy
    BY <1>1 DEF CardEncode
  <2>4. CASE last = NoSlot
    <3>1. \A v : Holds(v)' # 0 => v = u
      BY <1>0, <2>2, <2>3, <2>4, SlotsAssumption DEF TokenInv, Holds
    <3>2. Holds(token)' # 0 => token' = u
      BY <3>1 DEF Holds
    <3> QED
      BY <3>1, <3>2
  <2>5. CASE last # NoSlot
    <3>1. s = last /\ t = last /\ token' = last
      BY <2>3, <2>5 DEF TurnInv
    <3> QED
      BY <3>1
  <2> QED
    BY <2>4, <2>5
<1>2. CASE CardComplete
  <2>1. content' = content /\ token' = armed /\ armed # NoSlot
    BY <1>2 DEF CardComplete
  <2>2. \A v : Holds(v)' = Holds(v)
    BY <2>1 DEF Holds
  <2>3. Holds(token)' = Holds(armed) /\ Holds(armed) = frames
    BY <2>1 DEF Holds, NumberInv
  <2>4. \A v : Holds(v) # 0 /\ v # armed => Holds(v) < frames
    BY <1>0, <2>1, <2>3, Places DEF NumberInv, Holds
  <2> QED
    BY <2>1, <2>2, <2>3, <2>4
<1>3. CASE CardReannounce
  <2>1. content' = content /\ armed = NoSlot
    BY <1>3 DEF CardReannounce
  <2>2. \A v : Holds(v)' = Holds(v)
    BY <2>1 DEF Holds
  <2>3. CASE last = NoSlot
    BY <1>0, <2>1, <2>2, <2>3 DEF TokenInv, Holds
  <2>4. CASE last # NoSlot
    <3>1. token' = token
      BY <1>3, <2>4 DEF CardReannounce, TurnInv
    <3>2. Holds(token)' = Holds(token)
      BY <2>1, <3>1 DEF Holds
    <3> QED
      BY <2>2, <3>1, <3>2
  <2> QED
    BY <2>3, <2>4
<1> QED
  BY <1>1, <1>2, <1>3 DEF CardStep

(* Where nothing but the waiting snapshots changes, the order of two       *)
(* tokens is what it was.                                                  *)
LEMMA SameOrder ==
  ASSUME UNCHANGED content
  PROVE  /\ \A s : Holds(s)' = Holds(s)
         /\ \A s, t : InOrder(s, t)' = InOrder(s, t)
BY DEF InOrder, Holds

(* Snapshots are taken, queued and popped in the order the card announced  *)
(* their tokens in.                                                        *)
LEMMA StepOrderInv ==
  ASSUME IInv, NumberInv, TurnInv, OrderInv, [Next]_vars
  PROVE  OrderInv'
<1> USE DEF OrderInv
<1>0. TypeOK
  BY DEF IInv
<1>1. CASE CardStep /\ Kept
  <2>1. InHand' => InHand /\ hand' = hand
    BY <1>1 DEF Kept
  <2>2. InHandler' => InHandler /\ snap' = snap
    BY <1>1 DEF Kept
  <2>3. fifo' = fifo
    BY <1>1 DEF Kept
  <2>4. ASSUME InHand'
        PROVE  /\ \A i \in DOMAIN fifo : InOrder(hand[1].slot, fifo[i].slot)'
               /\ InHandler' => InOrder(hand[1].slot, snap.slot)'
               /\ InOrder(hand[1].slot, token)'
    BY <1>1, <2>1, <2>2, <2>3, <2>4, CardKeepsOrder DEF TurnInv
  <2>5. ASSUME NEW i \in DOMAIN fifo
        PROVE  /\ \A j \in DOMAIN fifo : i < j => InOrder(fifo[i].slot, fifo[j].slot)'
               /\ InHandler' => InOrder(fifo[i].slot, snap.slot)'
               /\ InOrder(fifo[i].slot, token)'
    BY <1>1, <2>2, <2>3, CardKeepsOrder DEF TurnInv
  <2>6. InHandler' => InOrder(snap.slot, token)'
    BY <1>1, <2>2, CardKeepsOrder DEF TurnInv
  <2> QED
    BY <2>3, <2>4, <2>5, <2>6
<1>2. CASE Emptied
  BY <1>2 DEF Emptied
<1>3. CASE UNCHANGED slotVars /\ Kept
  BY <1>3, SameOrder DEF slotVars, Kept
<1>4. CASE UNCHANGED slotVars /\ Noted
  <2>1. InOrder(token, token)
    BY DEF InOrder
  <2>2. /\ UNCHANGED <<hand, fifo, token>> /\ InHand' = InHand
        /\ InHandler' => snap'.slot = token
        /\ \A s, t : InOrder(s, t)' = InOrder(s, t)
    BY <1>4, SameOrder DEF slotVars, Noted, InHand
  <2> QED
    BY <2>1, <2>2
<1>5. CASE UNCHANGED slotVars /\ Queued
  BY <1>5, SameOrder, QueueShifts, <1>0 DEF slotVars, Queued, InHand
<1>6. CASE UNCHANGED slotVars /\ Popped
  BY <1>6, SameOrder, QueueShifts, <1>0 DEF slotVars, Popped, InHand
<1> QED
  BY <1>1, <1>2, <1>3, <1>4, <1>5, <1>6, Moves

(* A step of the card leaves a waiting token ahead of the worker.          *)
LEMMA CardKeepsAhead ==
  ASSUME IInv, FrameOrder, CardStep, NEW s,
         last # NoSlot /\ armed = NoSlot /\ ~encBusy => s = last,
         Ahead(s)
  PROVE  Ahead(s)'
<1> USE DEF Ahead, FrameOrder, NumberInv
<1>0. TypeOK /\ TokenInv /\ UNCHANGED <<copied, lastToken>>
  BY DEF IInv, CardStep, CardEncode, CardComplete, CardReannounce, workerVars
<1>1. CASE CardEncode
  <2>1. PICK u \in Slots \ {last} : content' = [content EXCEPT ![u] = frames + 1]
    BY <1>1 DEF CardEncode
  <2>2. \A v \in Slots : content'[v] = IF v = u THEN frames + 1 ELSE content[v]
    BY <1>0, <2>1 DEF TypeOK, CardType
  <2>3. Holds(s)' = IF s = u THEN frames + 1 ELSE Holds(s)
    BY <2>2 DEF Holds
  <2> QED
    BY <1>0, <2>3, Places
<1>2. CASE CardComplete \/ CardReannounce
  BY <1>0, <1>2 DEF CardComplete, CardReannounce, Holds
<1> QED
  BY <1>1, <1>2 DEF CardStep

(* The token registers and the armed slot stay ahead of the worker.        *)
LEMMA CardAnnouncesAhead ==
  ASSUME IInv, FrameOrder, CardStep
  PROVE  Ahead(token)' /\ Ahead(armed)'
<1> USE DEF Ahead, FrameOrder, NumberInv
<1>0. TypeOK /\ TokenInv /\ UNCHANGED <<copied, lastToken>>
  BY DEF IInv, CardStep, CardEncode, CardComplete, CardReannounce, workerVars
<1>1. CASE CardEncode
  <2>1. PICK u \in Slots \ {last} : /\ content' = [content EXCEPT ![u] = frames + 1]
                                    /\ armed' = u
    BY <1>1 DEF CardEncode
  <2>2. \A v \in Slots : content'[v] = IF v = u THEN frames + 1 ELSE content[v]
    BY <1>0, <2>1 DEF TypeOK, CardType
  <2>3. Holds(armed)' = frames + 1
    BY <2>1, <2>2 DEF Holds
  <2>4. token' = token
    BY <1>1 DEF CardEncode
  <2>5. Holds(token)' = IF token = u THEN frames + 1 ELSE Holds(token)
    BY <2>2, <2>4 DEF Holds
  <2> QED
    BY <1>0, <2>3, <2>4, <2>5, Places DEF AheadInv
<1>2. CASE CardComplete
  <2>1. content' = content /\ token' = armed /\ armed' = NoSlot
    BY <1>2 DEF CardComplete
  <2>2. Holds(token)' = Holds(armed) /\ Holds(armed)' = 0
    BY <2>1, SlotsAssumption DEF Holds
  <2> QED
    BY <1>0, <2>1, <2>2 DEF AheadInv
<1>3. CASE CardReannounce
  <2>1. content' = content /\ armed = NoSlot /\ armed' = NoSlot
    BY <1>3 DEF CardReannounce
  <2>2. Holds(armed)' = 0
    BY <2>1, SlotsAssumption DEF Holds
  <2>3. CASE last = NoSlot
    BY <1>0, <2>1, <2>2, <2>3, SlotsAssumption DEF TokenInv, Holds
  <2>4. CASE last # NoSlot
    <3>1. token' = token
      BY <1>3, <2>4 DEF CardReannounce, TurnInv
    <3>2. Holds(token)' = Holds(token)
      BY <2>1, <3>1 DEF Holds
    <3> QED
      BY <1>0, <2>2, <3>1, <3>2 DEF AheadInv
  <2> QED
    BY <2>3, <2>4
<1> QED
  BY <1>1, <1>2, <1>3 DEF CardStep

(* What the worker has consumed changes by its own two steps, and is      *)
(* forgotten while the slots are poisoned.                                 *)
LEMMA ConsumedBy ==
  ASSUME IInv, [Next]_vars
  PROVE  \/ CardStep /\ UNCHANGED <<wpc, lastToken, copied>>
         \/ WorkerAccept \/ WorkerCopied
         \/ (\A s \in Slots : content'[s] = 0) /\ wpc' = "idle"
         \/ /\ UNCHANGED <<content, token, armed, lastToken, copied>>
            /\ wpc' = "drain" => Popped \/ wpc = "drain"
            /\ wpc' = "copy" => wpc = "copy"
<1> USE DEF IInv
<1>1. CASE CardStep
  BY <1>1 DEF CardStep, CardEncode, CardComplete, CardReannounce, workerVars
<1>2. CASE HandlerStep
  BY <1>2 DEF HandlerStep, AckEnter, AckLock, AckQueue, AckNow, AckClear, AckBell,
     cardVars, workerVars
<1>3. CASE WorkerPop
  <2>1. UNCHANGED <<content, token, armed, lastToken, copied, hpc, accepting, snap>>
    BY <1>3 DEF WorkerPop, cardVars, handlerVars
  <2>2. wpc' = "drain" => Popped
    BY <1>3, <2>1 DEF WorkerPop, Popped, InHand, InHandler
  <2>3. wpc' # "copy"
    BY <1>3 DEF WorkerPop
  <2> QED
    BY <2>1, <2>2, <2>3
<1>4. CASE WorkerRun \/ WorkerSkip \/ WorkerTake \/ WorkerFinal
  BY <1>4 DEF WorkerRun, WorkerSkip, WorkerTake, WorkerFinal, cardVars
<1>5. CASE FlushStep \/ StartStop \/ StartFree \/ Stop \/ UNCHANGED vars
  BY <1>5 DEF FlushStep, FlushClose, FlushSync, FlushPurge, FlushRelease,
     StartStop, StartFree, Stop, vars, cardVars, workerVars
<1>6. CASE StartProgram
  <2>1. wpc' = "idle"
    BY <1>6 DEF StartProgram, workerVars, FlushInv
  <2> QED
    BY <1>6, <2>1 DEF StartProgram
<1>7. CASE StartAccept \/ StartKick
  <2>1. wpc' = "idle" /\ content' = content
    BY <1>7 DEF StartAccept, StartKick, cardVars, workerVars, FlushInv
  <2>2. \A s \in Slots : content[s] = 0
    BY <1>7 DEF StartAccept, StartKick, RestInv, Starting, ShutInv
  <2> QED
    BY <2>1, <2>2
<1> QED
  BY <1>1, <1>2, <1>3, <1>4, <1>5, <1>6, <1>7, NextCases DEF StartStep, Worker

(* All that the worker has still to look at stays ahead of it.             *)
LEMMA StepAheadInv ==
  ASSUME IInv, FrameOrder, [Next]_vars
  PROVE  AheadInv'
<1>0. TypeOK
  BY DEF IInv
<1>1. CASE CardStep /\ UNCHANGED <<wpc, lastToken, copied>>
  <2>1. UNCHANGED <<hand, fifo, wpc, accepting, hpc, snap>>
    BY <1>1 DEF CardStep, CardEncode, CardComplete, CardReannounce, queueVars,
       workerVars, handlerVars
  <2>2. InHand' = InHand /\ InHandler' = InHandler
    BY <2>1 DEF InHand, InHandler
  <2>3. wpc = "drain" => Ahead(hand[1].slot)'
    BY <1>1, <2>1, CardKeepsAhead DEF FrameOrder, TurnInv, AheadInv, InHand
  <2>4. wpc = "copy" => Holds(lastToken)' > copied
    <3>1. CASE CardEncode
      <4>1. PICK u \in Slots : content' = [content EXCEPT ![u] = frames + 1]
        BY <3>1 DEF CardEncode
      <4>2. Holds(lastToken)' = IF lastToken = u THEN frames + 1 ELSE Holds(lastToken)
        BY <1>0, <1>1, <4>1 DEF Holds, TypeOK, CardType
      <4> QED
        BY <1>0, <4>2, Places DEF FrameOrder, AheadInv, NumberInv
    <3>2. CASE CardComplete \/ CardReannounce
      BY <1>1, <3>2 DEF CardComplete, CardReannounce, Holds, FrameOrder, AheadInv
    <3> QED
      BY <1>1, <3>1, <3>2 DEF CardStep
  <2>5. ASSUME NEW i \in DOMAIN fifo PROVE Ahead(fifo[i].slot)'
    BY <1>1, <2>1, CardKeepsAhead DEF FrameOrder, TurnInv, AheadInv
  <2>6. InHandler => Ahead(snap.slot)'
    BY <1>1, <2>1, CardKeepsAhead DEF FrameOrder, TurnInv, AheadInv
  <2>7. Ahead(token)' /\ Ahead(armed)'
    BY <1>1, CardAnnouncesAhead
  <2>8. wpc = "copy" => hand[1].slot = lastToken
    BY DEF FrameOrder, AheadInv
  <2> QED
    BY <1>1, <2>1, <2>2, <2>3, <2>4, <2>5, <2>6, <2>7, <2>8 DEF AheadInv
<1>2. CASE WorkerAccept
  <2> DEFINE h == hand[1].slot
  <2>1. /\ UNCHANGED <<content, fifo, hand, hpc, accepting, snap, token, armed, copied>>
        /\ lastToken' = h /\ wpc = "drain" /\ wpc' = "copy"
        /\ Holds(h) # 0 /\ h # lastToken
    BY <1>2 DEF WorkerAccept, cardVars, queueVars, handlerVars, Repeated, Holds
  <2>2. Holds(h) > copied
    BY <2>1 DEF FrameOrder, AheadInv, Ahead
  <2>3. \A s : InOrder(h, s) => (Holds(s) # 0 /\ s # h => Holds(s) > copied)
    BY <1>0, <2>1, <2>2, Places DEF InOrder
  <2>4. \A s : InOrder(h, s) => Ahead(s)'
    BY <2>1, <2>3, SameOrder DEF Ahead
  <2>5. Holds(armed) # 0 => Holds(armed) > copied
    <3>1. Holds(h) <= frames
      BY <1>0, <2>1, Places DEF FrameOrder, NumberInv, Holds
    <3>2. Holds(armed) # 0 => Holds(armed) = frames
      BY <1>0, Places DEF FrameOrder, NumberInv
    <3> QED
      BY <1>0, <2>2, <3>1, <3>2, Places
  <2>8. Ahead(armed)'
    BY <2>1, <2>5, SameOrder DEF Ahead
  <2>6. InHandler' => InHandler
    BY <2>1 DEF InHandler
  <2> QED
    BY <2>1, <2>2, <2>4, <2>6, <2>8, SameOrder
       DEF AheadInv, FrameOrder, OrderInv, InHand
<1>3. CASE WorkerCopied
  <2> DEFINE h == hand[1].slot
  <2>1. /\ UNCHANGED <<content, fifo, hpc, accepting, snap, token, armed, lastToken>>
        /\ wpc = "copy" /\ wpc' = "pop" /\ h \in Slots /\ copied' = content[h]
    BY <1>0, <1>3 DEF WorkerCopied, cardVars, queueVars, handlerVars, TypeOK, WorkerType
  <2>2. h = lastToken /\ copied' = Holds(h) /\ Holds(h) > copied
    BY <2>1 DEF FrameOrder, AheadInv, Holds
  <2>3. Holds(h) # 0
    BY <1>0, <2>2, Places
  <2>4. \A s : InOrder(h, s) => Ahead(s)'
    BY <1>0, <2>1, <2>2, <2>3, Places, SameOrder DEF Ahead, InOrder
  <2>5. Holds(armed) # 0 /\ armed # h => Holds(armed) > Holds(h)
    BY <1>0, <2>1, <2>3, Places DEF FrameOrder, NumberInv, Holds
  <2>6. Ahead(armed)'
    BY <2>1, <2>2, <2>5, SameOrder DEF Ahead
  <2>7. InHandler' => InHandler
    BY <2>1 DEF InHandler
  <2> QED
    BY <2>1, <2>4, <2>6, <2>7 DEF AheadInv, FrameOrder, OrderInv, InHand
<1>4. CASE (\A s \in Slots : content'[s] = 0) /\ wpc' = "idle"
  BY <1>4 DEF AheadInv, Ahead, Holds
<1>5. CASE /\ UNCHANGED <<content, token, armed, lastToken, copied>>
           /\ wpc' = "drain" => Popped \/ wpc = "drain"
           /\ wpc' = "copy" => wpc = "copy"
  <2>1. \A s : Ahead(s)' = Ahead(s) /\ Holds(s)' = Holds(s)
    BY <1>5, SameOrder DEF Ahead
  <2> USE DEF FrameOrder, AheadInv
  <2>2. CASE Kept
    BY <1>5, <2>1, <2>2 DEF Kept, Popped, InHand
  <2>3. CASE Noted
    BY <1>5, <2>1, <2>3 DEF Noted, Popped
  <2>4. CASE Queued
    BY <1>0, <1>5, <2>1, <2>4, QueueShifts DEF Queued, Popped
  <2>5. CASE Popped
    BY <1>0, <1>5, <2>1, <2>5, QueueShifts DEF Popped, InHand
  <2>6. CASE Emptied
    BY <1>5, <2>1, <2>6 DEF Emptied, InHand
  <2>7. CASE CardStep
    BY <1>1, <2>7 DEF CardStep, CardEncode, CardComplete, CardReannounce, workerVars
  <2> QED
    BY <2>2, <2>3, <2>4, <2>5, <2>6, <2>7, Moves
<1> QED
  BY <1>1, <1>2, <1>3, <1>4, <1>5, ConsumedBy

(* FrameOrder is inductive relative to IInv: bitstreams are announced,     *)
(* queued and popped in the order they were encoded in.                    *)
THEOREM Ordered == Spec => []FrameOrder
<1>1. IInv /\ FrameOrder /\ [Next]_vars => FrameOrder'
  BY StepNumberInv, StepTurnInv, StepOrderInv, StepAheadInv DEF FrameOrder
<1> QED
  BY InitFrameOrder, <1>1, Inductive, PTL DEF Spec

(* However often a token is announced again, and whichever slot a restart  *)
(* reuses, the worker consumes bitstreams in the order they were encoded   *)
(* and none of them twice.                                                 *)
THEOREM ConsumedInOrder == Spec => FramesInOrder
<1>1. ASSUME IInv, FrameOrder, [Next]_vars, wpc = "copy", wpc' # "copy"
      PROVE  copied' > copied
  <2>1. WorkerCopied
    <3>1. ~(CardStep \/ HandlerStep \/ FlushStep \/ StartStop \/ StartFree \/ Stop)
      BY <1>1 DEF CardStep, CardEncode, CardComplete, CardReannounce, HandlerStep,
         AckEnter, AckLock, AckQueue, AckNow, AckClear, AckBell, FlushStep, FlushClose,
         FlushSync, FlushPurge, FlushRelease, StartStop, StartFree, Stop, workerVars
    <3>2. ~(StartProgram \/ StartAccept \/ StartKick)
      BY <1>1 DEF StartProgram, StartAccept, StartKick, workerVars
    <3>3. wpc' # wpc /\ ~UNCHANGED vars
      BY <1>1 DEF vars, workerVars
    <3> QED
      BY <1>1, <3>1, <3>2, <3>3, NextCases DEF StartStep, Worker, WorkerRun, WorkerPop,
         WorkerSkip, WorkerAccept, WorkerTake, WorkerFinal
  <2>2. hand[1].slot \in Slots /\ copied' = content[hand[1].slot]
    BY <1>1, <2>1 DEF WorkerCopied, IInv, TypeOK, WorkerType
  <2> QED
    BY <1>1, <2>2 DEF FrameOrder, AheadInv, Holds
<1>2. IInv /\ FrameOrder /\ [Next]_vars =>
        [wpc = "copy" /\ wpc' # "copy" => copied' > copied]_<<wpc, copied>>
  <2>1. ASSUME IInv, FrameOrder, [Next]_vars
        PROVE  wpc = "copy" /\ wpc' # "copy" => copied' > copied
    BY <1>1, <2>1
  <2> QED
    BY <2>1
<1> QED
  BY <1>2, Inductive, Ordered, PTL DEF Spec, FramesInOrder
=============================================================================
