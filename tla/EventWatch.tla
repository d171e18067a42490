----------------------------- MODULE EventWatch ------------------------------
(***************************************************************************)
(* The diagnostic watcher of the card's EVENT word: a thread samples the   *)
(* word, records it in a ring when it changed, and may acknowledge it; the *)
(* interrupt handler and a command in its poll loop consume the same word  *)
(* at any moment, and procfs clears and dumps the ring.                    *)
(***************************************************************************)
EXTENDS Integers, Sequences

CONSTANTS
    RingSize,       \* MZ0380_EVENT_RING_SIZE
    Words,          \* values of EVENT that are not zero
    MaxEvents       \* bound: events the card posts and restarts of the thread

VARIABLES
    event,      \* EVENT: [word, id], the id being the history's
    posted,     \* events posted and restarts so far
    autoAck,    \* event_auto_ack
    pc, last,   \* the thread: "sample" or "locked"; the word it saw last
    ring, head, count, seen,
    log,        \* history: what was recorded since the ring was cleared
    own         \* history: what this run of the thread recorded last

vars == <<event, posted, autoAck, pc, last, ring, head, count, seen, log,
          own>>
ringVars == <<ring, head, count, seen, log>>

Nothing == [word |-> 0, id |-> 0]

Init ==
    /\ event = Nothing /\ posted = 0 /\ autoAck \in BOOLEAN
    /\ pc = "sample" /\ last = 0
    /\ ring = [i \in 0..RingSize - 1 |-> 0]
    /\ head = 0 /\ count = 0 /\ seen = 0 /\ log = <<>> /\ own = 0

(* The card (external) posts an event when the last one was consumed.      *)
Post ==
    /\ event = Nothing /\ posted < MaxEvents
    /\ posted' = posted + 1
    /\ \E w \in Words : event' = [word |-> w, id |-> posted + 1]
    /\ UNCHANGED <<autoAck, pc, last, ringVars, own>>

(* mz0380_mb_ack_event() by anybody else.                                  *)
Consume ==
    /\ event # Nothing /\ event' = Nothing
    /\ UNCHANGED <<posted, autoAck, pc, last, ringVars, own>>

Sample ==
    /\ pc = "sample"
    /\ IF event.word # 0 /\ event.word # last
       THEN pc' = "locked" /\ last' = last
       ELSE pc' = pc /\ last' = IF event.word = 0 THEN 0 ELSE last
    /\ UNCHANGED <<event, posted, autoAck, ringVars, own>>

(* Mutant: the word is compared with nothing.                              *)
Seen_Never(w) == 0

(* Mutant: an acknowledged word is remembered.                             *)
Seen_Always(w) == w

Seen(w) == IF autoAck THEN 0 ELSE w

(* Mutant: the count keeps growing with the ring.                          *)
Recorded_Unbounded ==
    /\ ring' = [ring EXCEPT ![head] = event.id]
    /\ head' = (head + 1) % RingSize
    /\ count' = count + 1
    /\ seen' = seen + 1
    /\ log' = Append(log, event.id)

Recorded ==
    /\ ring' = [ring EXCEPT ![head] = event.id]
    /\ head' = (head + 1) % RingSize
    /\ count' = IF count < RingSize THEN count + 1 ELSE count
    /\ seen' = seen + 1
    /\ log' = Append(log, event.id)

(* Under cmd_lock, the word is read again.                                 *)
Record ==
    /\ pc = "locked" /\ pc' = "sample"
    /\ IF event = Nothing THEN UNCHANGED ringVars ELSE Recorded
    /\ event' = IF autoAck THEN Nothing ELSE event
    /\ last' = Seen(event.word)
    /\ own' = IF event = Nothing THEN own ELSE event.id
    /\ UNCHANGED <<posted, autoAck>>

Clear ==
    /\ head' = 0 /\ count' = 0 /\ seen' = 0 /\ log' = <<>>
    /\ UNCHANGED <<event, posted, autoAck, pc, last, ring, own>>

(* Stopped and started again: the new thread remembers nothing.            *)
Restart ==
    /\ pc = "sample" /\ last' = 0 /\ own' = 0
    /\ posted < MaxEvents /\ posted' = posted + 1
    /\ UNCHANGED <<event, autoAck, pc, ringVars>>

Next == Post \/ Consume \/ Sample \/ Record \/ Clear \/ Restart

Spec == Init /\ [][Next]_vars

(* What mz0380_dump_events prints.                                         *)
Dump ==
    [i \in 1..count |-> ring[(head - count + i - 1 + RingSize) % RingSize]]

-----------------------------------------------------------------------------
(* A reader of mz0380-events sees the newest records since the ring was    *)
(* cleared, oldest first, and as many of them as fit, and the total beside *)
(* them counts the lost ones too.                                          *)
DumpIsNewest ==
    /\ seen = Len(log)
    /\ count = IF seen < RingSize THEN seen ELSE RingSize
    /\ Dump = SubSeq(log, seen - count + 1, seen)

(* One event of the card is one record, however often a run of the watcher *)
(* samples it and whoever consumes it meanwhile.                           *)
RecordedOnce == [][seen' > seen => event.id > own]_vars

(* Types; the thread never waits for cmd_lock with the word it recorded    *)
(* last.                                                                   *)
TypeOK ==
    /\ event \in [word : Words \cup {0}, id : 0..MaxEvents]
    /\ posted \in 0..MaxEvents /\ autoAck \in BOOLEAN
    /\ pc \in {"sample", "locked"} /\ last \in Words \cup {0}
    /\ ring \in [0..RingSize - 1 -> 0..MaxEvents]
    /\ head \in 0..RingSize - 1 /\ count \in 0..RingSize /\ own \in 0..posted
    /\ autoAck => last = 0
=============================================================================
