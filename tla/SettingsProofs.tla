--------------------------- MODULE SettingsProofs ---------------------------
(***************************************************************************)
(* Proofs about Settings, for any choice of the seven settings, any        *)
(* candidate fields, any words at probe and any number of requests and     *)
(* commands.                                                               *)
(***************************************************************************)
EXTENDS Settings, TLAPS

(* The actions of one request function.                                    *)
RequestStep(c) == Call(c) \/ Lock(c) \/ Refuse(c) \/ Begin(c) \/ Write(c)

LEMMA NextCases ==
  ASSUME [Next]_vars
  PROVE  \/ \E p \in Active : Sync(p)
         \/ \E c \in Callers : RequestStep(c)
         \/ Writes \/ Candidate \/ CandidateEnd
         \/ UNCHANGED vars
BY DEF Next, RequestStep

-----------------------------------------------------------------------------
(***************************************************************************)
(* The table of settings, and the arithmetic of fields.                    *)
(***************************************************************************)

(* What is in the table, as far as the proofs look into it.                *)
LEMMA Names ==
  DOMAIN Setting = {"input", "bitrate", "quality", "gop", "bframes", "qpstep",
                    "recordmode"}
BY DEF Setting

LEMMA Table ==
  ASSUME NEW p \in DOMAIN Setting
  PROVE  /\ Setting[p].shift = 0 /\ Setting[p].width \in 1..2
         /\ Setting[p].count \in {0, 2, 3}
         /\ Setting[p].width = 1 => Setting[p].count = 2
BY Names DEF Setting, InputSelect, Bitrate, Quality, Gop, BFrames, QpStep,
   RecordMode

(* Ranges and defaults are values; the fields of a setting are fields.     *)
LEMMA Ranges ==
  ASSUME NEW p \in DOMAIN Setting
  PROVE  Default[p] \in Legal[p] /\ Legal[p] \subseteq Values
BY Names DEF Default, Legal, InputRange, BitrateRange, QualityRange, GopRange,
   BFramesRange, QpStepRange, RecordModeRange, Values, WordBits

LEMMA OwnFields ==
  ASSUME NEW p \in DOMAIN Setting
  PROVE  HwField(p) \in Fields /\ Cleared(p) \in Fields
BY Table DEF HwField, Cleared, Fields, Registers

(* No two settings share a word.                                           *)
LEMMA OwnWord ==
  ASSUME NEW p \in DOMAIN Setting, NEW q \in DOMAIN Setting,
         Setting[p].reg = Setting[q].reg
  PROVE  p = q
BY Names DEF Setting, InputSelect, Bitrate, Quality, Gop, BFrames, QpStep, RecordMode

(* A valid field lies in the word in one of three ways.                    *)
LEMMA ValidCases ==
  ASSUME NEW f \in Fields, Valid(f)
  PROVE  /\ f.reg \in Words
         /\ \/ f.shift = 0 /\ f.width = 1
            \/ f.shift = 0 /\ f.width = 2
            \/ f.shift = 1 /\ f.width = 1
BY DEF Fields, Valid, WordBits

(* A word with a new field is a word, and the field holds the new value    *)
(* when that fits.                                                         *)
LEMMA PutField ==
  ASSUME NEW f \in Fields, Valid(f), NEW w \in Values, NEW v \in Values
  PROVE  /\ Put(w, f, v) \in Values
         /\ f.width = 2 \/ v < 2 => Field(Put(w, f, v), f) = v
<1> USE DEF Put, Field, Values, WordBits
<1>0. w \in 0..3 /\ v \in 0..3
  OBVIOUS
<1>1. CASE f.shift = 0 /\ f.width = 1
  BY <1>0, <1>1
<1>2. CASE f.shift = 0 /\ f.width = 2
  BY <1>0, <1>2
<1>3. CASE f.shift = 1 /\ f.width = 1
  BY <1>0, <1>3
<1> QED
  BY <1>1, <1>2, <1>3, ValidCases

LEMMA FieldType ==
  ASSUME NEW p \in DOMAIN Setting, NEW w \in Values
  PROVE  Field(w, Setting[p]) \in Values
<1>1. w \in 0..3 /\ Setting[p].shift = 0 /\ Setting[p].width \in 1..2
  BY Table DEF Values, WordBits
<1>2. CASE Setting[p].width = 1
  BY <1>1, <1>2 DEF Field, Values, WordBits
<1>3. CASE Setting[p].width = 2
  BY <1>1, <1>3 DEF Field, Values, WordBits
<1> QED
  BY <1>1, <1>2, <1>3
-----------------------------------------------------------------------------
(***************************************************************************)
(* The inductive invariant.                                                *)
(***************************************************************************)
Request == [pc : {"lock", "decide", "write"}, p : Active, v : Values,
            use : BOOLEAN, field : Fields, before : Values]

Types ==
  /\ phase \in {"sync", "route", "up"} /\ unsynced \subseteq Active
  /\ (unsynced # {}) = (phase = "sync")
  /\ word \in [Words -> Values]
  /\ cached \in [Active -> Values]
  /\ exp \in [Active -> [result : Results, field : Fields]]
  /\ cand \in [Active -> Fields] /\ half \subseteq Active \X Fields
  /\ req \in [Callers -> Request \cup {Idle}]
  /\ ctrlLock \in Callers \cup {"free"}
  /\ forced \subseteq Active /\ strayed \subseteq Words

(* Who asks when, and who holds the lock.                                  *)
Phased ==
  \A c \in Callers :
    req[c] # Idle => phase = IF c = "probe" THEN "route" ELSE "up"
Locked ==
  \A c \in Callers : req[c].pc \in {"decide", "write"} <=> ctrlLock = c

(* A request that has read its word: what it read is still there, its      *)
(* value is the cached one, and its result is open.                        *)
Fresh(r) ==
  /\ Valid(r.field) /\ r.before = word[r.field.reg]
  /\ cached[r.p] = r.v
  /\ exp[r.p] = [result |-> "none", field |-> r.field]
  /\ Setting[r.p].width = 1 => r.v < 2
Reading == \A c \in Callers : req[c].pc = "write" => Fresh(req[c])

(* A number from anybody but procfs is in the range of its setting.        *)
InRange(r) == r.p \in forced \/ r.v \in Legal[r.p]
Asked == \A c \in Callers : req[c] # Idle => InRange(req[c])

(* No request is answered before the words are read.                       *)
Untouched == phase = "sync" => \A p \in Active : exp[p].result = "none"

IInv ==
  /\ Types /\ Phased /\ Locked /\ Reading /\ Asked /\ Untouched
  /\ NoLostUpdate /\ ReportsLegal /\ MirrorsHardware

(* The facts of the table for the settings of the instance.                *)
LEMMA ActiveFacts ==
  ASSUME NEW p \in Active
  PROVE  /\ p \in DOMAIN Setting /\ Setting[p].reg \in Words
         /\ HwField(p) \in Fields /\ Cleared(p) \in Fields
         /\ Default[p] \in Legal[p] /\ Legal[p] \subseteq Values
BY Ranges, OwnFields, SettingsAssumption DEF Words

LEMMA InitInv == Init => IInv
<1> SUFFICES ASSUME Init PROVE IInv
  OBVIOUS
<1> USE DEF Init
<1>1. Types
  <2>1. exp \in [Active -> [result : Results, field : Fields]]
    BY ActiveFacts DEF Results
  <2>2. cand \in [Active -> Fields] /\ half \subseteq Active \X Fields
    BY ActiveFacts
  <2>3. cached \in [Active -> Values]
    BY ActiveFacts
  <2>4. word \in [Words -> Values]
    BY SettingsAssumption
  <2> QED
    BY <2>1, <2>2, <2>3, <2>4, SettingsAssumption DEF Types
<1>2. Phased /\ Locked /\ Reading /\ Asked
  BY DEF Phased, Locked, Reading, Asked, Idle, Callers
<1>3. Untouched /\ NoLostUpdate /\ MirrorsHardware
  BY DEF Untouched, NoLostUpdate, MirrorsHardware
<1>4. ReportsLegal
  BY ActiveFacts DEF ReportsLegal
<1> QED
  BY <1>1, <1>2, <1>3, <1>4 DEF IInv

(* A caller that is past "idle" has a request.                             *)
LEMMA HasRequest ==
  ASSUME Types, NEW c \in Callers, req[c].pc # "idle"
  PROVE  req[c] \in Request
BY DEF Types, Idle

-----------------------------------------------------------------------------
(***************************************************************************)
(* Types, step by step.                                                    *)
(***************************************************************************)
LEMMA StepTypes == IInv /\ [Next]_vars => Types'
<1> SUFFICES ASSUME IInv, [Next]_vars PROVE Types'
  OBVIOUS
<1> USE DEF IInv, Types
<1>1. ASSUME NEW p \in Active, Sync(p) PROVE Types'
  <2>1. ReadHw(p) \in Values
    BY ActiveFacts, FieldType DEF ReadHw
  <2> QED
    BY <1>1, <2>1 DEF Sync, History
<1>2. ASSUME NEW c \in Callers, Call(c) PROVE Types'
  <2>1. PICK a \in Asks(c) :
          /\ req' = [req EXCEPT ![c] = Enter(c, a[1], a[2], "lock",
                       a[1] = "input" /\ UsesCandidate(c, a[1]))]
          /\ forced' = IF c = "procfs" THEN forced \cup {a[1]} ELSE forced
    BY <1>2 DEF Call
  <2>2. a[1] \in Active /\ a[2] \in Values
    BY DEF Asks, Callers
  <2>3. Enter(c, a[1], a[2], "lock", a[1] = "input" /\ UsesCandidate(c, a[1]))
          \in Request
    <3>1. HwField(a[1]) \in Fields /\ 0 \in Values
      BY <2>2, ActiveFacts DEF Values, WordBits
    <3> QED
      BY <2>2, <3>1 DEF Enter, Request, UsesCandidate
  <2>4. UNCHANGED <<phase, unsynced, word, cached, exp, cand, half, ctrlLock,
                     strayed>>
    BY <1>2 DEF Call
  <2>5. req' \in [Callers -> Request \cup {Idle}] /\ forced' \subseteq Active
    BY <2>1, <2>2, <2>3
  <2> QED
    BY <2>4, <2>5
<1>3. ASSUME NEW c \in Callers, Lock(c) PROVE Types'
  <2>1. req[c] \in Request
    BY <1>3, HasRequest DEF Lock
  <2>2. req' \in [Callers -> Request \cup {Idle}]
    BY <1>3, <2>1 DEF Lock, Request, UsesCandidate
  <2>3. /\ UNCHANGED <<phase, unsynced, word, cached, exp, cand, half, History>>
        /\ ctrlLock' \in Callers
    BY <1>3 DEF Lock
  <2> QED
    BY <2>2, <2>3 DEF History
<1>4. ASSUME NEW c \in Callers, Refuse(c) PROVE Types'
  <2>1. req[c] # Idle /\ Release(c)
          /\ UNCHANGED <<unsynced, word, cached, exp, cand, half, History>>
    BY <1>4 DEF Refuse, Idle
  <2> QED
    BY <2>1 DEF Release, History, Phased
<1>5. ASSUME NEW c \in Callers, Begin(c) PROVE Types'
  <2> DEFINE r == req[c]
             f == IF r.use THEN cand[r.p] ELSE HwField(r.p)
             g == Gate(r.use, f)
  <2>1. r \in Request /\ r # Idle
    BY <1>5, HasRequest DEF Begin, Idle
  <2>2. f \in Fields /\ g \in Results
    BY <2>1, ActiveFacts DEF Request, Gate, Results
  <2>3. cached' \in [Active -> Values]
         /\ exp' \in [Active -> [result : Results, field : Fields]]
    BY <1>5, <2>1, <2>2 DEF Begin, Request
  <2>4. CASE g = "none"
    <3>1. word[f.reg] \in Values
      BY <2>2, <2>4 DEF Gate, Valid
    <3> QED
      BY <1>5, <2>1, <2>2, <2>3, <2>4, <3>1 DEF Begin, Request, History
  <2>5. CASE g # "none"
    BY <1>5, <2>1, <2>3, <2>5 DEF Begin, Release, History, Phased
  <2> QED
    BY <2>4, <2>5
<1>6. ASSUME NEW c \in Callers, Write(c) PROVE Types'
  <2>1. req[c] \in Request /\ req[c] # Idle /\ Fresh(req[c])
    BY <1>6, HasRequest DEF Write, Idle, Reading
  <2>2. Put(req[c].before, req[c].field, req[c].v) \in Values
    BY <2>1, PutField DEF Request, Fresh
  <2>3. req[c].field.reg \in Words
    BY <2>1 DEF Fresh, Valid
  <2>4. word' \in [Words -> Values] /\ strayed' \subseteq Words
    BY <1>6, <2>2, <2>3 DEF Write
  <2>5. exp' \in [Active -> [result : Results, field : Fields]]
    BY <1>6, <2>1 DEF Write, Results
  <2> QED
    BY <1>6, <2>1, <2>4, <2>5 DEF Write, Release, Phased
<1>7. CASE Writes
  BY <1>7 DEF Writes, History
<1>8. CASE Candidate
  <2>0. PICK p \in Active : \E t \in Triples \cup {Cleared(p)} :
          /\ \/ cand' = [cand EXCEPT ![p].reg = t.reg]
             \/ cand' = [cand EXCEPT ![p].shift = t.shift, ![p].width = t.width]
          /\ half' = {<<p, t>>}
    BY <1>8 DEF Candidate
  <2>1. PICK t \in Triples \cup {Cleared(p)} :
          /\ \/ cand' = [cand EXCEPT ![p].reg = t.reg]
             \/ cand' = [cand EXCEPT ![p].shift = t.shift, ![p].width = t.width]
          /\ half' = {<<p, t>>}
    BY <2>0
  <2>2. t \in Fields
    BY ActiveFacts, SettingsAssumption
  <2>3. cand' \in [Active -> Fields] /\ half' \subseteq Active \X Fields
    <3>1. cand' \in [Active -> Fields]
      <4>1. cand[p] \in Fields
        OBVIOUS
      <4>2. /\ [cand[p] EXCEPT !.reg = t.reg] \in Fields
            /\ [cand[p] EXCEPT !.shift = t.shift, !.width = t.width] \in Fields
        BY <2>2, <4>1 DEF Fields
      <4>3. \/ cand' = [cand EXCEPT ![p] = [cand[p] EXCEPT !.reg = t.reg]]
            \/ cand' = [cand EXCEPT ![p] =
                          [cand[p] EXCEPT !.shift = t.shift, !.width = t.width]]
        BY <2>1
      <4> QED
        BY <4>2, <4>3
    <3> QED
      BY <2>1, <2>2, <3>1
  <2>4. UNCHANGED <<phase, unsynced, word, cached, exp, ctrlLock, req, History>>
    BY <1>8 DEF Candidate
  <2> QED
    BY <2>3, <2>4 DEF History
<1>9. CASE CandidateEnd
  BY <1>9 DEF CandidateEnd, History
<1>10. CASE UNCHANGED vars
  BY <1>10 DEF vars
<1> QED
  BY <1>1, <1>2, <1>3, <1>4, <1>5, <1>6, <1>7, <1>8, <1>9, <1>10, NextCases
     DEF RequestStep
-----------------------------------------------------------------------------
(***************************************************************************)
(* The other parts.                                                        *)
(***************************************************************************)

(* What a caller's step does to the requests of the others: nothing.       *)
LEMMA OthersWait ==
  ASSUME Types, NEW c \in Callers, RequestStep(c)
  PROVE  \A d \in Callers : d # c => req'[d] = req[d]
BY DEF RequestStep, Call, Lock, Refuse, Begin, Write, Release, Types

LEMMA StepControl == IInv /\ [Next]_vars => Phased' /\ Locked'
<1> SUFFICES ASSUME IInv, [Next]_vars PROVE Phased' /\ Locked'
  OBVIOUS
<1>0. Types /\ Phased /\ Locked /\ req \in [Callers -> Request \cup {Idle}]
  BY DEF IInv, Types
<1>1. ASSUME NEW p \in Active, Sync(p) PROVE Phased' /\ Locked'
  BY <1>0, <1>1 DEF Sync, Phased, Locked, Callers
<1>2. ASSUME NEW c \in Callers, RequestStep(c) PROVE Phased' /\ Locked'
  <2>1. \A d \in Callers : d # c => req'[d] = req[d]
    BY <1>0, <1>2, OthersWait
  <2>2. CASE Call(c)
    <3>1. req'[c].pc = "lock" /\ req[c].pc = "idle" /\ UNCHANGED <<phase, ctrlLock>>
      BY <1>0, <2>2 DEF Call, Enter, Idle
    <3>2. phase = IF c = "probe" THEN "route" ELSE "up"
      BY <2>2 DEF Call
    <3> QED
      BY <1>0, <2>1, <3>1, <3>2 DEF Phased, Locked
  <2>3. CASE Lock(c)
    <3>1. req'[c].pc = "decide" /\ req[c] # Idle /\ phase' = phase
          /\ ctrlLock = "free" /\ ctrlLock' = c
      BY <1>0, <2>3, HasRequest DEF Lock, Request, Idle
    <3> QED
      BY <1>0, <2>1, <3>1 DEF Phased, Locked, Callers
  <2>4. CASE (Refuse(c) \/ Begin(c) \/ Write(c)) /\ Release(c)
    <3>1. ctrlLock = c /\ req[c] # Idle
      BY <1>0, <2>4 DEF Refuse, Begin, Write, Locked, Idle
    <3>2. req'[c] = Idle /\ ctrlLock' = "free"
          /\ phase' = IF c = "probe" THEN "up" ELSE phase
      BY <1>0, <2>4 DEF Release
    <3>3. \A d \in Callers : d # c /\ req[d] # Idle => c # "probe"
      BY <1>0, <3>1 DEF Phased
    <3> QED
      BY <1>0, <2>1, <3>1, <3>2, <3>3 DEF Phased, Locked, Idle, Callers
  <2>5. CASE Begin(c) /\ ~Release(c)
    <3>1. req'[c].pc = "write" /\ req[c].pc = "decide"
          /\ UNCHANGED <<ctrlLock, phase>>
      BY <1>0, <2>5, HasRequest DEF Begin, Request
    <3>2. req[c] # Idle
      BY <3>1 DEF Idle
    <3> QED
      BY <1>0, <2>1, <3>1, <3>2 DEF Phased, Locked
  <2> QED
    BY <1>2, <2>2, <2>3, <2>4, <2>5 DEF RequestStep, Refuse, Write
<1>3. CASE Writes \/ Candidate \/ CandidateEnd \/ UNCHANGED vars
  BY <1>0, <1>3 DEF Writes, Candidate, CandidateEnd, vars, Phased, Locked
<1> QED
  BY <1>1, <1>2, <1>3, NextCases

(* At most one caller has read a word.                                     *)
LEMMA OneReader ==
  ASSUME Locked, NEW c \in Callers, req[c].pc \in {"decide", "write"},
         NEW d \in Callers, req[d].pc = "write"
  PROVE  d = c
BY DEF Locked

(* What Begin leaves when it goes on to the write.                         *)
LEMMA BeginReads ==
  ASSUME IInv, NEW c \in Callers, Begin(c), req'[c].pc = "write"
  PROVE  Fresh(req[c])'
<1> DEFINE r == req[c]
           f == IF r.use THEN cand[r.p] ELSE HwField(r.p)
           g == Gate(r.use, f)
<1>1. r \in Request /\ req \in [Callers -> Request \cup {Idle}]
      /\ cached \in [Active -> Values]
      /\ exp \in [Active -> [result : Results, field : Fields]]
  BY HasRequest DEF IInv, Types, Begin
<1>2. g = "none"
  BY <1>1 DEF Begin, Release, Idle
<1>3. /\ req' = [req EXCEPT ![c].pc = "write", ![c].field = f,
                            ![c].before = word[f.reg]]
      /\ cached' = [cached EXCEPT ![r.p] = r.v] /\ word' = word
      /\ exp' = [exp EXCEPT ![r.p] = [result |-> g, field |-> f]]
      /\ Setting[r.p].count = 0 \/ r.v < Setting[r.p].count
  BY <1>2 DEF Begin
<1>4. req'[c].field = f /\ req'[c].before = word[f.reg] /\ req'[c].p = r.p
      /\ req'[c].v = r.v
  BY <1>1, <1>3 DEF Request
<1>5. Valid(f)
  BY <1>2 DEF Gate
<1>6. r.p \in Active /\ r.v \in Values
  BY <1>1 DEF Request
<1>7. Setting[r.p].width = 1 => r.v < 2
  BY <1>3, <1>6, ActiveFacts, Table
<1>8. Valid(req'[c].field)
  BY <1>4, <1>5
<1>9. /\ req'[c].before = word'[req'[c].field.reg]
      /\ cached'[req'[c].p] = req'[c].v
      /\ exp'[req'[c].p] = [result |-> "none", field |-> req'[c].field]
      /\ Setting[req'[c].p].width = 1 => req'[c].v < 2
  BY <1>1, <1>2, <1>3, <1>4, <1>6, <1>7
<1> QED
  BY <1>8, <1>9 DEF Fresh, Valid

LEMMA StepReading == IInv /\ [Next]_vars => Reading'
<1> SUFFICES ASSUME IInv, [Next]_vars PROVE Reading'
  OBVIOUS
<1>0. Types /\ Phased /\ Locked /\ Reading
      /\ req \in [Callers -> Request \cup {Idle}]
  BY DEF IInv, Types
<1>1. ASSUME NEW p \in Active, Sync(p) PROVE Reading'
  <2>1. \A c \in Callers : req'[c] = Idle
    BY <1>0, <1>1 DEF Sync, Phased, Callers
  <2> QED
    BY <2>1 DEF Reading, Idle
<1>2. ASSUME NEW c \in Callers, RequestStep(c) PROVE Reading'
  <2>1. \A d \in Callers : d # c => req'[d] = req[d]
    BY <1>0, <1>2, OthersWait
  <2>2. CASE Call(c) \/ Lock(c)
    <3>1. req'[c].pc # "write" /\ UNCHANGED <<word, cached, exp>>
      BY <1>0, <2>2, HasRequest DEF Call, Enter, Lock, Request
    <3> QED
      BY <1>0, <2>1, <3>1 DEF Reading, Fresh, Valid
  <2>3. CASE Refuse(c) \/ Begin(c) \/ Write(c)
    <3>1. \A d \in Callers : req'[d].pc = "write" => d = c
      BY <1>0, <2>1, <2>3, OneReader DEF Refuse, Begin, Write
    <3>2. CASE Refuse(c) \/ Write(c)
      BY <1>0, <3>1, <3>2 DEF Refuse, Write, Release, Idle, Reading
    <3>3. CASE Begin(c)
      BY <3>1, <3>3, BeginReads DEF Reading
    <3> QED
      BY <2>3, <3>2, <3>3
  <2> QED
    BY <1>2, <2>2, <2>3 DEF RequestStep
<1>3. CASE Writes \/ Candidate \/ CandidateEnd \/ UNCHANGED vars
  BY <1>0, <1>3 DEF Writes, Candidate, CandidateEnd, vars, Reading, Fresh, Valid
<1> QED
  BY <1>1, <1>2, <1>3, NextCases

LEMMA StepUntouched == IInv /\ [Next]_vars => Untouched'
<1> SUFFICES ASSUME IInv, [Next]_vars PROVE Untouched'
  OBVIOUS
<1>0. Types /\ Phased /\ Untouched
  BY DEF IInv
<1>1. ASSUME NEW p \in Active, Sync(p) PROVE Untouched'
  BY <1>0, <1>1 DEF Sync, Untouched
<1>2. ASSUME NEW c \in Callers, RequestStep(c) PROVE Untouched'
  <2>1. phase \in {"route", "up"}
    <3>1. CASE Call(c)
      BY <3>1 DEF Call
    <3>2. CASE Lock(c) \/ Refuse(c) \/ Begin(c) \/ Write(c)
      BY <1>0, <3>2 DEF Lock, Refuse, Begin, Write, Phased, Idle
    <3> QED
      BY <1>2, <3>1, <3>2 DEF RequestStep
  <2>2. phase' \in {"route", "up"}
    BY <1>2, <2>1 DEF RequestStep, Call, Lock, Refuse, Begin, Write, Release
  <2> QED
    BY <2>2 DEF Untouched
<1>3. CASE Writes \/ Candidate \/ CandidateEnd \/ UNCHANGED vars
  BY <1>0, <1>3 DEF Writes, Candidate, CandidateEnd, vars, Untouched
<1> QED
  BY <1>1, <1>2, <1>3, NextCases

(* What a caller asks for is in the range, or it is procfs that asks.      *)
LEMMA AsksInRange ==
  ASSUME NEW c \in Callers, NEW a \in Asks(c),
         a[1] = "input" => a[2] < InputSelect.count
  PROVE  a[1] \in Active /\ (c # "procfs" => a[2] \in Legal[a[1]])
<1>1. a[1] \in Active /\ a[2] \in Values
  BY DEF Asks, Callers
<1>2. Legal["input"] = {0, 1} /\ InputSelect.count = 2
  BY DEF Legal, InputRange, InputSelect
<1>3. CASE c = "probe"
  BY <1>2, <1>3 DEF Asks
<1>4. CASE c = "v4l2"
  <2>1. a[1] = "input" \/ a[2] \in Legal[a[1]]
    BY <1>4 DEF Asks
  <2>2. a[1] = "input" => a[2] \in {0, 1}
    BY <1>1, <1>2 DEF Values, WordBits
  <2> QED
    BY <1>1, <1>2, <2>1, <2>2
<1> QED
  BY <1>1, <1>3, <1>4 DEF Callers

LEMMA StepAsked == IInv /\ [Next]_vars => Asked'
<1> SUFFICES ASSUME IInv, [Next]_vars PROVE Asked'
  OBVIOUS
<1>0. Types /\ Phased /\ Asked /\ req \in [Callers -> Request \cup {Idle}]
      /\ forced \subseteq forced'
  BY DEF IInv, Types, Next, vars, Sync, Call, Lock, Refuse, Begin, Write, Writes,
         Candidate, CandidateEnd, History
<1>1. ASSUME NEW p \in Active, Sync(p) PROVE Asked'
  BY <1>0, <1>1 DEF Sync, Asked, InRange, History
<1>2. ASSUME NEW c \in Callers, RequestStep(c) PROVE Asked'
  <2>1. \A d \in Callers : d # c => (req[d] # Idle => InRange(req[d]))'
    BY <1>0, <1>2, OthersWait DEF Asked, InRange
  <2>2. (req[c] # Idle => InRange(req[c]))'
    <3>1. CASE Call(c)
      <4>1. PICK a \in Asks(c) :
              /\ a[1] = "input" => a[2] < InputSelect.count
              /\ req' = [req EXCEPT ![c] = Enter(c, a[1], a[2], "lock",
                           a[1] = "input" /\ UsesCandidate(c, a[1]))]
              /\ forced' = IF c = "procfs" THEN forced \cup {a[1]} ELSE forced
        BY <3>1 DEF Call
      <4>2. req'[c].p = a[1] /\ req'[c].v = a[2]
        BY <1>0, <4>1 DEF Enter
      <4> QED
        BY <4>1, <4>2, AsksInRange DEF InRange
    <3>2. CASE (Lock(c) \/ Begin(c)) /\ ~Release(c)
      <4>1. req[c] \in Request /\ req[c] # Idle
        BY <1>0, <3>2, HasRequest DEF Lock, Begin, Idle
      <4>2. req'[c].p = req[c].p /\ req'[c].v = req[c].v
        BY <1>0, <3>2, <4>1 DEF Lock, Begin, Request
      <4> QED
        BY <1>0, <4>1, <4>2 DEF Asked, InRange
    <3>3. CASE Release(c)
      BY <1>0, <3>3 DEF Release
    <3> QED
      BY <1>2, <3>1, <3>2, <3>3 DEF RequestStep, Refuse, Write
  <2> QED
    BY <2>1, <2>2 DEF Asked
<1>3. CASE Writes \/ Candidate \/ CandidateEnd \/ UNCHANGED vars
  BY <1>0, <1>3 DEF Writes, Candidate, CandidateEnd, vars, Asked, InRange, History
<1> QED
  BY <1>1, <1>2, <1>3, NextCases

-----------------------------------------------------------------------------
(***************************************************************************)
(* The properties.                                                         *)
(***************************************************************************)
LEMMA StepNoLostUpdate ==
  IInv /\ [Next]_vars => NoLostUpdate'
<1> SUFFICES ASSUME IInv, [Next]_vars PROVE NoLostUpdate'
  OBVIOUS
<1>0. Types /\ Reading /\ word = given
  BY DEF IInv, NoLostUpdate
<1>1. ASSUME NEW c \in Callers, Write(c) PROVE NoLostUpdate'
  <2> DEFINE f == req[c].field
             v == req[c].v
  <2>1. req[c].before = word[f.reg]
    BY <1>0, <1>1 DEF Write, Reading, Fresh
  <2>2. \/ /\ word' = [word EXCEPT ![f.reg] = Put(word[f.reg], f, v)]
           /\ given' = [given EXCEPT ![f.reg] = Put(given[f.reg], f, v)]
        \/ UNCHANGED <<word, given>>
    BY <1>1, <2>1 DEF Write
  <2> QED
    BY <1>0, <2>2 DEF NoLostUpdate
<1>2. CASE UNCHANGED <<word, given>>
  BY <1>0, <1>2 DEF NoLostUpdate
<1> QED
  BY <1>1, <1>2 DEF Next, vars, Sync, Call, Lock, Refuse, Begin, Writes,
     Candidate, CandidateEnd, History

LEMMA StepReportsLegal ==
  IInv /\ [Next]_vars => ReportsLegal'
<1> SUFFICES ASSUME IInv, [Next]_vars PROVE ReportsLegal'
  OBVIOUS
<1>0. Types /\ Asked /\ ReportsLegal /\ cached \in [Active -> Values]
      /\ forced \subseteq forced'
  BY DEF IInv, Types, Next, vars, Sync, Call, Lock, Refuse, Begin, Write, Writes,
         Candidate, CandidateEnd, History
<1>1. ASSUME NEW p \in Active, Sync(p) PROVE ReportsLegal'
  <2>1. forced' = forced
    BY <1>1 DEF Sync, History
  <2>2. \A q \in Active : cached'[q] = cached[q] \/ cached'[q] \in Legal[q]
    BY <1>0, <1>1 DEF Sync, SyncInRange
  <2> QED
    BY <1>0, <2>1, <2>2 DEF ReportsLegal
<1>2. ASSUME NEW c \in Callers, Begin(c) PROVE ReportsLegal'
  <2>1. req[c] \in Request /\ req[c] # Idle
    BY <1>0, <1>2, HasRequest DEF Begin, Idle
  <2>2. cached' = [cached EXCEPT ![req[c].p] = req[c].v] /\ forced' = forced
    BY <1>2 DEF Begin, History
  <2>3. InRange(req[c]) /\ req[c].p \in Active
    BY <1>0, <2>1 DEF Asked, Request
  <2> QED
    BY <1>0, <2>2, <2>3 DEF ReportsLegal, InRange
<1>3. CASE cached' = cached
  BY <1>0, <1>3 DEF ReportsLegal
<1> QED
  BY <1>1, <1>2, <1>3 DEF Next, vars, Call, Lock, Refuse, Write, Writes,
     Candidate, CandidateEnd

(* Two settings of the instance have different registers.                  *)
LEMMA OwnReg ==
  ASSUME NEW p \in Active, NEW q \in Active, p # q
  PROVE  HwField(p).reg # HwField(q).reg
<1>1. HwField(p).reg = Setting[p].reg /\ HwField(q).reg = Setting[q].reg
  BY DEF HwField
<1>2. p \in DOMAIN Setting /\ q \in DOMAIN Setting
  BY SettingsAssumption
<1> QED
  BY <1>1, <1>2, OwnWord

(* A write leaves the cache of its own setting equal to the word, and the  *)
(* words of the others alone unless it strays into them.                   *)
LEMMA WriteMirrors ==
  ASSUME IInv, NEW c \in Callers, Write(c)
  PROVE  MirrorsHardware'
<1> DEFINE q == req[c].p
           f == req[c].field
           v == req[c].v
           programmed == Put(req[c].before, f, v)
<1>1. /\ req[c] \in Request /\ Fresh(req[c]) /\ MirrorsHardware
      /\ word \in [Words -> Values]
      /\ exp \in [Active -> [result : Results, field : Fields]]
  BY HasRequest DEF IInv, Types, Reading, Write
<1>2. q \in Active /\ f \in Fields /\ v \in Values /\ req[c].before \in Values
  BY <1>1 DEF Request
<1>3. Valid(f) /\ f.reg \in Words /\ cached[q] = v /\ exp[q].field = f
      /\ (Setting[q].width = 1 => v < 2)
  BY <1>1 DEF Fresh, Valid
<1>4. /\ word' = [word EXCEPT ![f.reg] = programmed] \/ word' = word
      /\ exp' = [exp EXCEPT ![q].result =
                   IF word'[f.reg] = programmed THEN "applied" ELSE "mismatch"]
      /\ strayed' = IF f # HwField(q) THEN strayed \cup {f.reg} ELSE strayed
      /\ cached' = cached
  BY DEF Write
<1>5. ASSUME exp'[q].result = "applied", exp'[q].field = HwField(q)
      PROVE  cached'[q] = Field(word'[HwField(q).reg], HwField(q))
  <2>1. f = HwField(q) /\ word'[f.reg] = programmed
    BY <1>1, <1>2, <1>3, <1>4, <1>5
  <2>2. f.width = 2 \/ v < 2
    BY <1>2, <1>3, <2>1, ActiveFacts, Table DEF HwField
  <2>3. Field(programmed, f) = v
    BY <1>2, <1>3, <2>2, PutField
  <2> QED
    BY <1>3, <1>4, <2>1, <2>3
<1>6. ASSUME NEW p \in Active, p # q, exp'[p].result = "applied",
             exp'[p].field = HwField(p), HwField(p).reg \notin strayed'
      PROVE  cached'[p] = Field(word'[HwField(p).reg], HwField(p))
  <2>1. exp'[p] = exp[p] /\ HwField(p).reg \notin strayed
    BY <1>1, <1>4, <1>6
  <2>2. f.reg # HwField(p).reg
    <3>1. CASE f = HwField(q)
      BY <1>2, <1>6, <3>1, OwnReg
    <3>2. CASE f # HwField(q)
      BY <1>4, <1>6, <3>2
    <3> QED
      BY <3>1, <3>2
  <2>3. word'[HwField(p).reg] = word[HwField(p).reg]
    <3>1. HwField(p).reg \in Words
      BY ActiveFacts DEF HwField
    <3> QED
      BY <1>1, <1>4, <2>2, <3>1
  <2>4. cached[p] = Field(word[HwField(p).reg], HwField(p))
    <3>1. exp[p].result = "applied" /\ exp[p].field = HwField(p)
      BY <1>6, <2>1
    <3>2. (/\ exp[p].result = "applied" /\ exp[p].field = HwField(p)
           /\ HwField(p).reg \notin strayed)
            => cached[p] = Field(word[HwField(p).reg], HwField(p))
      BY <1>1 DEF MirrorsHardware
    <3> QED
      BY <2>1, <3>1, <3>2
  <2> QED
    BY <1>4, <2>3, <2>4
<1>7. ASSUME NEW p \in Active
      PROVE  (/\ exp'[p].result = "applied" /\ exp'[p].field = HwField(p)
              /\ HwField(p).reg \notin strayed')
               => cached'[p] = Field(word'[HwField(p).reg], HwField(p))
  BY <1>5, <1>6
<1> QED
  BY <1>7 DEF MirrorsHardware, HwField, Field

LEMMA StepMirrors == IInv /\ [Next]_vars => MirrorsHardware'
<1> SUFFICES ASSUME IInv, [Next]_vars PROVE MirrorsHardware'
  OBVIOUS
<1>0. /\ Types /\ Untouched /\ MirrorsHardware
      /\ exp \in [Active -> [result : Results, field : Fields]]
      /\ cached \in [Active -> Values]
  BY DEF IInv, Types
<1>1. ASSUME NEW p \in Active, Sync(p) PROVE MirrorsHardware'
  <2>1. \A q \in Active : exp'[q].result = "none"
    BY <1>0, <1>1 DEF Sync, Untouched
  <2> QED
    BY <2>1 DEF MirrorsHardware
<1>2. ASSUME NEW c \in Callers, Begin(c) PROVE MirrorsHardware'
  <2> DEFINE q == req[c].p
             f == IF req[c].use THEN cand[q] ELSE HwField(q)
             g == Gate(req[c].use, f)
  <2>1. q \in Active
    BY <1>0, <1>2, HasRequest DEF Begin, Request
  <2>2. /\ cached' = [cached EXCEPT ![q] = req[c].v]
        /\ exp' = [exp EXCEPT ![q] = [result |-> g, field |-> f]]
        /\ UNCHANGED <<word, strayed>>
    BY <1>2 DEF Begin, History
  <2>3. exp'[q].result # "applied"
    BY <1>0, <2>1, <2>2 DEF Gate
  <2>4. \A p \in Active : p # q => exp'[p] = exp[p] /\ cached'[p] = cached[p]
    BY <1>0, <2>2
  <2> QED
    BY <1>0, <2>2, <2>3, <2>4 DEF MirrorsHardware, HwField, Field
<1>3. ASSUME NEW c \in Callers, Write(c) PROVE MirrorsHardware'
  BY <1>3, WriteMirrors
<1>4. CASE UNCHANGED <<word, cached, exp, strayed>>
  BY <1>0, <1>4 DEF MirrorsHardware, HwField, Field
<1> QED
  BY <1>1, <1>2, <1>3, <1>4 DEF Next, vars, Call, Lock, Refuse, Writes,
     Candidate, CandidateEnd, History

-----------------------------------------------------------------------------
(***************************************************************************)
(* The theorems.                                                           *)
(***************************************************************************)

(* The invariant all the others follow from.                               *)
THEOREM Inductive == Spec => []IInv
<1>1. Init => IInv
  BY InitInv
<1>2. IInv /\ [Next]_vars => IInv'
  BY StepTypes, StepControl, StepReading, StepAsked, StepUntouched,
     StepNoLostUpdate, StepReportsLegal, StepMirrors DEF IInv
<1> QED
  BY <1>1, <1>2, PTL DEF Spec

(* Types, and ctrl_lock belongs to the one caller that is past it.         *)
THEOREM TypeCorrect == Spec => []TypeOK
<1>1. IInv => TypeOK
  BY DEF IInv, Types, TypeOK, Locked, NoLostUpdate
<1> QED
  BY <1>1, Inductive, PTL

(* No read-modify-write of one setting undoes another: every writer of the *)
(* words goes through ctrl_lock (mz0380_request_scalar_property_locked).   *)
THEOREM UpdatesAreKept == Spec => []NoLostUpdate
<1>1. IInv => NoLostUpdate
  BY DEF IInv
<1> QED
  BY <1>1, Inductive, PTL

(* A control that procfs left alone reports a value in its range, whatever *)
(* the words held at probe (mz0380_sync_in_range).                         *)
THEOREM ReportsAreLegal == Spec => []ReportsLegal
<1>1. IInv => ReportsLegal
  BY DEF IInv
<1> QED
  BY <1>1, Inductive, PTL

(* An applied setting is cached as the hardware holds it, in words that no *)
(* candidate field was written in.                                         *)
THEOREM CacheMirrors == Spec => []MirrorsHardware
<1>1. IInv => MirrorsHardware
  BY DEF IInv
<1> QED
  BY <1>1, Inductive, PTL
=============================================================================
