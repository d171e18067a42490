------------------------------ MODULE Settings ------------------------------
(***************************************************************************)
(* The seven settings of the card (mz0380-controls-read.c,                 *)
(* mz0380-controls-write.c): each is a field of a 32-bit word of BAR5 and  *)
(* a cached value in dev->capture that the V4L2 controls report.  Probe    *)
(* adopts what the words hold; later the V4L2 node and /proc/mz0380-       *)
(* experiment change a setting with a read-modify-write under ctrl_lock,   *)
(* and procfs may point a setting at a candidate field of any word.        *)
(*                                                                         *)
(* A word has WordBits bits instead of 32, and the declared range of a     *)
(* setting is scaled to it: what counts is which values lie below, inside  *)
(* and above it, and whether the setting shares its word with other bits.  *)
(***************************************************************************)
EXTENDS Integers

CONSTANTS Active,       \* the settings this instance has
          Triples,      \* the candidate fields procfs may name
          Found,        \* what the words may hold when the driver loads
          MaxCalls,     \* bound: change requests
          MaxCommands   \* bound: "writes" and "...-candidate" commands

WordBits == 2
Values == 0..2^WordBits - 1
NoReg == "none"                               \* ~0U

(* The field each request function names, and the number of values it      *)
(* accepts (0: any).  The input is the low bit of its word, the rest of    *)
(* the word belongs to the card.                                           *)
InputSelect == [reg |-> "x40", shift |-> 0, width |-> 1, count |-> 2]
Bitrate     == [reg |-> "x5c", shift |-> 0, width |-> 2, count |-> 0]
Quality     == [reg |-> "x60", shift |-> 0, width |-> 2, count |-> 0]
Gop         == [reg |-> "x80", shift |-> 0, width |-> 2, count |-> 0]
BFrames     == [reg |-> "x88", shift |-> 0, width |-> 2, count |-> 3]
QpStep      == [reg |-> "x84", shift |-> 0, width |-> 2, count |-> 0]
RecordMode  == [reg |-> "x58", shift |-> 0, width |-> 2, count |-> 3]

Setting == [input |-> InputSelect, bitrate |-> Bitrate, quality |-> Quality,
            gop |-> Gop, bframes |-> BFrames, qpstep |-> QpStep,
            recordmode |-> RecordMode]

(* What each sync function adopts from the word at probe.                  *)
InputRange      == 0..1
BitrateRange    == 2..3
QualityRange    == 0..2
GopRange        == 1..2
BFramesRange    == 0..2
QpStepRange     == Values
RecordModeRange == 0..2

Legal == [input |-> InputRange, bitrate |-> BitrateRange,
          quality |-> QualityRange, gop |-> GopRange,
          bframes |-> BFramesRange, qpstep |-> QpStepRange,
          recordmode |-> RecordModeRange]

(* mz0380_capture_state_init *)
Default == [input |-> 0, bitrate |-> 3, quality |-> 2, gop |-> 2,
            bframes |-> 0, qpstep |-> 0, recordmode |-> 0]

Words == {Setting[p].reg : p \in Active}

(* Registers and fields: the fixed ones, and those procfs may name.        *)
Registers == {Setting[p].reg : p \in DOMAIN Setting}
               \cup {t.reg : t \in Triples} \cup {NoReg}
Fields == [reg : Registers, shift : Nat, width : Nat]

ASSUME SettingsAssumption ==
  /\ Active \subseteq DOMAIN Setting /\ Active # {}
  /\ Triples \subseteq Fields /\ Found \subseteq Values

HwField(p) == [reg |-> Setting[p].reg, shift |-> Setting[p].shift,
               width |-> Setting[p].width]

(* mz0380_..._candidate_clear: no register, the mask of the setting.       *)
Cleared(p) == [reg |-> NoReg, shift |-> 0, width |-> Setting[p].width]

(* mz0380_candidate_config_valid *)
Valid(f) == f.reg \in Words /\ f.width > 0 /\ f.shift + f.width <= WordBits

Field(w, f)  == (w \div 2^f.shift) % 2^f.width        \* mz0380_extract_field
Put(w, f, v) == w + ((v % 2^f.width) - Field(w, f)) * 2^f.shift

Callers == {"probe", "v4l2", "procfs"}
Results == {"none", "disabled", "unconfigured", "invalid", "mismatch", "applied"}

VARIABLES
  phase,      \* "sync", "route" (probe selects HDMI), "up"
  unsynced,   \* settings card_setup has not read back yet
  elgato,     \* the board whose words are known to hold the settings
  word,       \* BAR5
  cached,     \* dev->capture
  exp,        \* dev->..._experiment: the last request's result and field
  cand,       \* the candidate fields: unlocked module globals
  half,       \* a candidate command between its stores
  allow,      \* allow_experimental_writes
  ctrlLock,   \* the holder of ctrl_lock, or "free"
  req,        \* per caller, the request it is making
  calls, commands,
  given,      \* (history) each word as its writers, field by field, left it
  forced,     \* (history) settings procfs gave a value of its own
  strayed     \* (history) words a candidate field was written in

vars == <<phase, unsynced, elgato, word, cached, exp, cand, half, allow, ctrlLock,
          req, calls, commands, given, forced, strayed>>

Idle == [pc |-> "idle"]
History == <<given, forced, strayed>>

(* Gate and candidate fields are module parameters too: the gate may be    *)
(* open from the start, the candidate fields are the default, none.        *)
Init ==
  /\ phase = "sync" /\ unsynced = Active /\ elgato \in BOOLEAN
  /\ word \in [Words -> Found]
  /\ cached = [p \in Active |-> Default[p]]
  /\ exp = [p \in Active |-> [result |-> "none", field |-> Cleared(p)]]
  /\ cand = [p \in Active |-> Cleared(p)]
  /\ half = {} /\ allow \in BOOLEAN /\ ctrlLock = "free"
  /\ req = [c \in Callers |-> Idle]
  /\ calls = 0 /\ commands = 0
  /\ given = word /\ forced = {} /\ strayed = {}

---------------------------------------------------------------------------
(* Probe: single-threaded, before the node and the procfs entry see dev.   *)

ReadHw(p) == Field(word[Setting[p].reg], Setting[p])

(* Mutant: whatever the word holds is a value, as before M171.             *)
SyncInRange_Any(p, v) == TRUE

(* mz0380_sync_in_range, and the range tests of the other sync functions.  *)
SyncInRange(p, v) == v \in Legal[p]

(* One mz0380_sync_hw_...: only on the board whose words are known.        *)
Sync(p) ==
  /\ phase = "sync" /\ p \in unsynced
  /\ LET v == ReadHw(p)
     IN cached' = IF elgato /\ SyncInRange(p, v)
                    THEN [cached EXCEPT ![p] = v] ELSE cached
  /\ unsynced' = unsynced \ {p}
  /\ phase' = IF unsynced' = {} THEN "route" ELSE "sync"
  /\ UNCHANGED <<elgato, word, exp, cand, half, allow, ctrlLock, req, calls,
                 commands, History>>

---------------------------------------------------------------------------
(* A change request.                                                       *)

(* What reaches the request functions.  V4L2 keeps a control inside its    *)
(* declared range; VIDIOC_S_INPUT and procfs pass any number, the bring-up *)
(* selects HDMI, and only procfs has the QP step.                          *)
Asks(c) ==
  CASE c = "probe"  -> {<<"input", 0>>} \cap (Active \X Values)
    [] c = "v4l2"   -> {a \in Active \X Values :
                          /\ a[1] # "qpstep"
                          /\ a[1] = "input" \/ a[2] \in Legal[a[1]]}
    [] c = "procfs" -> Active \X Values

Enter(c, p, v, pc, use) ==
  [pc |-> pc, p |-> p, v |-> v, use |-> use, field |-> HwField(p), before |-> 0]

UsesCandidate(c, p) == c = "procfs" /\ Valid(cand[p])

(* The input select looks at the candidate before it takes ctrl_lock, and  *)
(* refuses a number out of range there; the others are called with the     *)
(* lock held (the V4L2 core takes it as the control handler's lock).       *)
Call(c) ==
  /\ phase = IF c = "probe" THEN "route" ELSE "up"
  /\ req[c] = Idle /\ calls < MaxCalls
  /\ \E a \in Asks(c) :
       LET p == a[1]
           v == a[2]
       IN /\ p = "input" => v < InputSelect.count
          /\ req' = [req EXCEPT ![c] =
                       Enter(c, p, v, "lock", p = "input" /\ UsesCandidate(c, p))]
          /\ forced' = IF c = "procfs" THEN forced \cup {p} ELSE forced
  /\ calls' = calls + 1
  /\ UNCHANGED <<phase, unsynced, elgato, word, cached, exp, cand, half, allow,
                 ctrlLock, commands, given, strayed>>

(* Mutant: the control handler has a lock of its own.                      *)
Lock_OwnMutex(c) ==
  /\ req[c].pc = "lock" /\ (c = "v4l2" \/ ctrlLock = "free")
  /\ ctrlLock' = c
  /\ req' = [req EXCEPT ![c].pc = "decide",
                        ![c].use = IF req[c].p = "input" THEN @
                                   ELSE UsesCandidate(c, req[c].p)]
  /\ UNCHANGED <<phase, unsynced, elgato, word, cached, exp, cand, half, allow,
                 calls, commands, History>>

Lock(c) ==
  /\ req[c].pc = "lock" /\ ctrlLock = "free"
  /\ ctrlLock' = c
  /\ req' = [req EXCEPT ![c].pc = "decide",
                        ![c].use = IF req[c].p = "input" THEN @
                                   ELSE UsesCandidate(c, req[c].p)]
  /\ UNCHANGED <<phase, unsynced, elgato, word, cached, exp, cand, half, allow,
                 calls, commands, History>>

Release(c) ==
  /\ ctrlLock' = "free"
  /\ req' = [req EXCEPT ![c] = Idle]
  /\ phase' = IF c = "probe" THEN "up" ELSE phase

(* value_count, and the same test at the head of two of the functions.     *)
Refuse(c) ==
  /\ req[c].pc = "decide"
  /\ LET n == Setting[req[c].p].count IN n > 0 /\ req[c].v >= n
  /\ Release(c)
  /\ UNCHANGED <<unsynced, elgato, word, cached, exp, cand, half, allow, calls,
                 commands, History>>

(* The result with which a request stops short of the hardware.            *)
Gate(use, f) ==
  IF use /\ ~allow THEN "disabled"
  ELSE IF f.reg = NoReg THEN "unconfigured"
  ELSE IF ~Valid(f) THEN "invalid" ELSE "none"

(* mz0380_request_scalar_property_locked up to the read of the word: the   *)
(* cache takes the value whatever becomes of the write.  The candidate is  *)
(* fetched here, a second time.                                            *)
Begin(c) ==
  /\ req[c].pc = "decide"
  /\ LET r == req[c]
         p == r.p
         f == IF r.use THEN cand[p] ELSE HwField(p)
         g == Gate(r.use, f)
     IN /\ Setting[p].count = 0 \/ r.v < Setting[p].count
        /\ cached' = [cached EXCEPT ![p] = r.v]
        /\ exp' = [exp EXCEPT ![p] = [result |-> g, field |-> f]]
        /\ IF g = "none"
             THEN /\ req' = [req EXCEPT ![c].pc = "write", ![c].field = f,
                                        ![c].before = word[f.reg]]
                  /\ UNCHANGED <<ctrlLock, phase>>
             ELSE Release(c)
  /\ UNCHANGED <<unsynced, elgato, word, cand, half, allow, calls, commands,
                 History>>

(* The write and the readback; a word the card does not let the host write *)
(* keeps its value.                                                        *)
Write(c) ==
  /\ req[c].pc = "write"
  /\ LET r == req[c]
         f == r.field
         programmed == Put(r.before, f, r.v)
     IN /\ \/ /\ word' = [word EXCEPT ![f.reg] = programmed]
              /\ given' = [given EXCEPT ![f.reg] = Put(@, f, r.v)]
           \/ UNCHANGED <<word, given>>
        /\ exp' = [exp EXCEPT ![r.p].result =
                     IF word'[f.reg] = programmed THEN "applied" ELSE "mismatch"]
        /\ strayed' = IF f # HwField(r.p) THEN strayed \cup {f.reg} ELSE strayed
  /\ Release(c)
  /\ UNCHANGED <<unsynced, elgato, cached, cand, half, allow, calls, commands,
                 forced>>

---------------------------------------------------------------------------
(* The commands of /proc/mz0380-experiment that take no lock: "writes on", *)
(* "writes off", and "...-candidate set" and "clear", which store register *)
(* and mask one after the other, in the order the compiler likes.          *)
Writes ==
  /\ phase = "up" /\ commands < MaxCommands
  /\ allow' = ~allow /\ commands' = commands + 1
  /\ UNCHANGED <<phase, unsynced, elgato, word, cached, exp, cand, half, ctrlLock,
                 req, calls, History>>

Candidate ==
  /\ phase = "up" /\ commands < MaxCommands /\ half = {}
  /\ \E p \in Active : \E t \in Triples \cup {Cleared(p)} :
       \/ /\ cand' = [cand EXCEPT ![p].reg = t.reg]
          /\ half' = {<<p, t>>}
       \/ /\ cand' = [cand EXCEPT ![p].shift = t.shift, ![p].width = t.width]
          /\ half' = {<<p, t>>}
  /\ commands' = commands + 1
  /\ UNCHANGED <<phase, unsynced, elgato, word, cached, exp, allow, ctrlLock, req,
                 calls, History>>

CandidateEnd ==
  /\ \E h \in half : cand' = [cand EXCEPT ![h[1]] = h[2]]
  /\ half' = {}
  /\ UNCHANGED <<phase, unsynced, elgato, word, cached, exp, allow, ctrlLock, req,
                 calls, commands, History>>

Next ==
  \/ \E p \in Active : Sync(p)
  \/ \E c \in Callers : Call(c)
  \/ \E c \in Callers : Lock(c)
  \/ \E c \in Callers : Refuse(c)
  \/ \E c \in Callers : Begin(c)
  \/ \E c \in Callers : Write(c)
  \/ Writes \/ Candidate \/ CandidateEnd

Spec == Init /\ [][Next]_vars

---------------------------------------------------------------------------
(* Types; and the lock is held by the one caller that is past it.          *)
TypeOK ==
  /\ phase \in {"sync", "route", "up"}
  /\ unsynced \subseteq Active /\ (unsynced # {}) = (phase = "sync")
  /\ word \in [Words -> Values] /\ given \in [Words -> Values]
  /\ cached \in [Active -> Values]
  /\ \A p \in Active : exp[p].result \in Results
  /\ strayed \subseteq Words /\ forced \subseteq Active
  /\ \A c \in Callers : req[c].pc \in {"decide", "write"} <=> ctrlLock = c

(* The bits of a word that a request does not own keep what their own      *)
(* requests, or the card, last put there: no read-modify-write of one      *)
(* setting, by V4L2 or procfs, through the setting's field or a candidate, *)
(* undoes another (ctrl_lock around request_scalar_property_locked, and    *)
(* ctrl_handler.lock = ctrl_lock).                                         *)
NoLostUpdate == word = given

(* A control reports a value in its declared range (the purpose of         *)
(* mz0380_sync_in_range, controls-read.c:493-511), unless procfs changed   *)
(* that setting, whose numbers nobody compares with the range.             *)
ReportsLegal == \A p \in Active \ forced : cached[p] \in Legal[p]

(* A setting whose last request was applied to its own field is cached as  *)
(* the hardware holds it, whatever other settings are changed meanwhile,   *)
(* in words no candidate field was written in.                             *)
MirrorsHardware ==
  \A p \in Active :
    (/\ exp[p].result = "applied" /\ exp[p].field = HwField(p)
     /\ HwField(p).reg \notin strayed)
      => cached[p] = Field(word[HwField(p).reg], HwField(p))
=============================================================================
