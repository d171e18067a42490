--------------------------- MODULE ReceiverProofs ---------------------------
(***************************************************************************)
(* Proofs about Receiver, for an EDID of any number of chunks.             *)
(*                                                                         *)
(* An operation is a list of items still to do, so what makes the receiver *)
(* right is a statement about that list.  Most of it has one form (Will,   *)
(* Kept): wherever an item needs something, it holds now and nothing up to *)
(* there ends it, or an item before it makes it, nothing after that ends   *)
(* it, and no catch item lies between by which an error could go round.    *)
(* The bank of a write, the polarity of a reset, the pin that hides the    *)
(* sink from the source while the EDID is loaded, and what is to hold when *)
(* a mode is matched are all of it; that the sink is seen in the end is    *)
(* the same about the end of the list (Shows).                             *)
(*                                                                         *)
(* An operation goes from a list to its tail, to a suffix of it that       *)
(* begins with a catch item, or to its tail with a list of the driver's in *)
(* front.  The lemmas on lists say what the form becomes in each case, for *)
(* any needs, makes and breaks; what is left for each part of the          *)
(* invariant is to look at the items.                                      *)
(***************************************************************************)
EXTENDS Receiver, SequenceTheorems, WellFoundedInduction, TLAPS

-----------------------------------------------------------------------------
(***************************************************************************)
(* What an operation has still to do.                                      *)
(***************************************************************************)
(* The items.                                                              *)
Banking == {Bank(b) : b \in Banks} \cup {Try(Bank(b)) : b \in Banks}
Batches == {Batch(b) : b \in Banks} \cup {Try(Batch(b)) : b \in Banks}
HpdWrites == {Write("hpd", 0, bit) : bit \in {0, 1}}
AutoWrites == {Write("auto", 0, bit) : bit \in {0, 1}}
FrozenWrites == {Write("frozen", 0, bit) : bit \in {0, 1}}
LatchWrites == {Write("latch", 2, bit) : bit \in {0, 1}}
Drives == {Output("hpd"), Output("reset"), Try(Output("mux"))}
HpdPins == {SetPin("hpd", level) : level \in {0, 1}}
ResetPins == {SetPin("reset", level) : level \in {0, 1}}
Muxes == {Try(SetPin("mux", level)) : level \in {0, 1}}
EdidChunks == {Item("edid", "none", n) : n \in 1..Chunks}
Wakes == {Step("alive"), Step("again")}
Markers == {Step(name) : name \in {"unready", "alive", "again", "ready", "edid", "refuse",
                                   "poll", "judge", "frozen", "late", "matched", "expire",
                                   "lock", "watch", "diag", "known"}}
Catches == {Catch(name) : name \in {"mux", "edid", "thaw", "end", "forget"}}
All == Banking \cup Batches \cup {Read} \cup HpdWrites \cup AutoWrites \cup FrozenWrites
       \cup LatchWrites \cup Drives \cup Muxes \cup HpdPins \cup ResetPins
       \cup EdidChunks \cup Markers \cup Catches

(* The operations an item is of.                                           *)
Presenters == {"bringup", "edid", "pulse"}
Loaders == {"bringup", "edid"}
Belongs(i, o) ==
    /\ o # "idle"
    /\ i.what = "edid" => o \in Loaders
    /\ i.what \in {"pin", "output"} /\ i.arg = "reset" => o = "bringup"
    /\ i.what \in {"pin", "output"} /\ i.arg = "hpd" => o \in Presenters
    /\ i.what \in {"pin", "output"} /\ i.arg = "mux" => o \in Loaders
    /\ i.what = "write" /\ i.arg = "hpd" => o \in Presenters
    /\ i.what = "write" /\ i.arg = "auto" => o \in {"bringup", "signal", "lock", "watch"}
    /\ i.what = "write" /\ i.arg = "latch" => o = "signal"
    /\ i.what = "write" /\ i.arg = "frozen" => o \in {"bringup", "signal"}
    /\ i = Write("frozen", 0, 1) => o = "signal"
    /\ i.what = "step" =>
          /\ i.arg \in {"unready", "alive", "again", "ready"} => o = "bringup"
          /\ i.arg \in {"edid", "refuse"} => o \in Loaders
          /\ i.arg \in {"poll", "judge", "frozen", "late", "matched", "expire"} =>
                o = "signal"
          /\ i.arg = "lock" => o = "lock"
          /\ i.arg = "watch" => o = "watch"
          /\ i.arg = "diag" => o = "diag"
          /\ i.arg = "known" => o \in {"diag", "colour"}
    /\ i.what = "catch" =>
          /\ i.arg = "mux" => o \in Loaders
          /\ i.arg = "edid" => o = "bringup"
          /\ i.arg = "thaw" => o = "signal"
          /\ i.arg = "end" => o = "colour"
          /\ i.arg = "forget" => o = "diag"

Vocabulary(o) == {i \in All : Belongs(i, o)}

(* Whenever the item at k is reached, something holds that the items of    *)
(* "makes" establish and those of "breaks" may end: it holds now and       *)
(* nothing before k touches it, or it will be made and not touched after,  *)
(* with no catch item in between by which a failure could go round it.     *)
Will(list, k, makes, breaks, now) ==
    \/ \E j \in 1..k - 1 :
          /\ list[j] \in makes
          /\ \A i \in j + 1..k - 1 : list[i] \notin breaks /\ list[i].what # "catch"
    \/ now /\ \A j \in 1..k - 1 : list[j] \notin breaks

Free(list, breaks) == \A i \in 1..Len(list) : list[i] \notin breaks

(* That it holds wherever an item needs it.                                *)
Kept(list, needs, makes, breaks, now) ==
    \A k \in 1..Len(list) : list[k] \in needs => Will(list, k, makes, breaks, now)

-----------------------------------------------------------------------------
(***************************************************************************)
(* The inductive invariant.                                                *)
(***************************************************************************)
Typed ==
    /\ op \in Operations \cup {"idle"}
    /\ todo \in Seq(Vocabulary(op))
    /\ failed \in BOOLEAN /\ ready \in BOOLEAN /\ locked \in BOOLEAN
    /\ right \in BOOLEAN /\ note \in BOOLEAN /\ matched \in BOOLEAN
    /\ down \in BOOLEAN /\ stuck \in BOOLEAN /\ once \in BOOLEAN /\ borrowed \in BOOLEAN
    /\ opt \in [async : BOOLEAN, windows : BOOLEAN]
    /\ op = "idle" => ~failed
    /\ chip \in [alive : BOOLEAN, bank : Banks, hpd : BOOLEAN, auto : BOOLEAN,
                 frozen : BOOLEAN, latched : BOOLEAN]
    /\ pin \in [hpd : {0, 1}, mux : {0, 1}] /\ output \subseteq Pins

(* What the driver skips is there.                                         *)
Followed(list) ==
    \A k \in 1..Len(list) :
       /\ list[k] = Catch("mux") =>
             k < Len(list) /\ list[k + 1] = Try(SetPin("mux", 0))
       /\ list[k] = Step("late") => k < Len(list) /\ list[k + 1] = Batch(0)

(* A write, and the freeze that is about to be set or undone, find their   *)
(* bank selected; apply_csc_mode makes no such promise.                    *)
Selectors == Banking \cup Wakes \cup ResetPins \cup {Output("reset")}
Writes(b) == {i \in All : \/ i.what = "write" /\ i.val.bank = b
                          \/ b = 0 /\ i = Step("frozen")}
Banked ==
    /\ op # "csc" => \A b \in Banks :
          Kept(todo, Writes(b), {Bank(b)}, Selectors, chip.bank = b \/ ~chip.alive)
    /\ stray \subseteq {"csc"}

(* The receiver runs only under the right polarity, which a receiver that  *)
(* has once been ready keeps: its reset finds it alive.                    *)
Resets == ResetPins \cup {Output("reset")}
Live == chip.alive /\ right /\ {"hpd", "reset"} \subseteq output
Power ==
    /\ IF chip.alive THEN right /\ "reset" \in output ELSE chip = Blank
    /\ Kept(todo, ResetPins, {Output("reset")}, {Output("reset")} \cup Wakes,
            right <=> "reset" \in output)
    /\ Kept(todo, Wakes, {Output("hpd")}, {Output("hpd")} \cup Wakes,
            right => "hpd" \in output)
    /\ Kept(todo, Wakes, {SetPin("reset", 1)}, Resets \cup Wakes, right => chip.alive)
    /\ ready => Live
    /\ once => right /\ {"hpd", "reset"} \subseteq output
    /\ op \notin {"idle", "bringup", "pulse", "ramtest"} => once

(* A bring-up resets the receiver before it expects it to answer.          *)
Revived ==
    op = "bringup" /\ todo # << >> =>
        /\ ~ready
        /\ \A k \in 1..Len(todo) :
              /\ todo[k] \in ResetPins \cup {Output("reset")} =>
                    \E m \in k + 1..Len(todo) : todo[m] \in Wakes
              /\ todo[k] \in HpdWrites \cup HpdPins \cup {Step("edid")} =>
                    \A m \in k + 1..Len(todo) : todo[m] \notin Wakes
              /\ todo[k] \in Wakes => \A m \in 1..Len(todo) : todo[m].what # "catch"
              /\ todo[k] = Step("ready") => k = Len(todo)
        /\ (\A k \in 1..Len(todo) : todo[k] \notin Wakes) => Live

(* The lock a caller notes was latched, and a bring-up leaves no caller    *)
(* who notes one of before it for his own.                                 *)
Latched ==
    /\ op = "bringup" => AtStep("unready") \/ (~note /\ (locked => borrowed))
    /\ locked \/ note => chip.latched \/ borrowed

(* When a mode has been matched the receiver is alive, the hunt is over,   *)
(* the latch was pulsed and the output runs.                               *)
Settled ==
    /\ Kept(todo, {Step("matched")}, {}, {}, chip.alive)
    /\ Kept(todo, {Step("matched")}, {Write("auto", 0, 0)}, AutoWrites, ~chip.auto)
    /\ Kept(todo, {Step("matched")}, {Write("latch", 2, 1)}, {},
            chip.latched \/ borrowed \/ ~chip.alive)
    /\ Kept(todo, {Step("matched")}, {Write("frozen", 0, 0), Step("frozen")},
            FrozenWrites \cup {Step("frozen")}, ~chip.frozen)
    /\ matched => ~chip.auto /\ ~chip.frozen /\ todo = << >>

(* The freeze is undone by what follows it, error or not.                  *)
Holds(list, k, item) == k \in 1..Len(list) /\ list[k] = item
Undoes(list, k) ==
    \/ Holds(list, k + 1, Step("frozen")) \/ Holds(list, k + 1, Write("frozen", 0, 0))
    \/ Holds(list, k + 1, Catch("thaw")) /\ Holds(list, k + 2, Write("frozen", 0, 0))
    \/ /\ Holds(list, k + 1, Batch(0)) /\ Holds(list, k + 2, Catch("thaw"))
       /\ Holds(list, k + 3, Write("frozen", 0, 0))
    \/ /\ Holds(list, k + 1, Write("frozen", 0, 1)) /\ Holds(list, k + 2, Batch(0))
       /\ Holds(list, k + 3, Catch("thaw")) /\ Holds(list, k + 4, Write("frozen", 0, 0))
Undone(list) == \A k \in 1..Len(list) : list[k] = Write("frozen", 0, 1) => Undoes(list, k)
Thaws ==
    /\ chip.frozen /\ ~stuck => Undoes(todo, 0)
    /\ Undone(todo)

(* The EDID is loaded while the source sees no sink; a request to present  *)
(* the sink ends with it seen, or has failed, or met a receiver that is    *)
(* not ready.                                                              *)
Hidden ==
    Kept(todo, EdidChunks \cup {Step("edid")}, {SetPin("hpd", 1)}, HpdPins, pin.hpd = 1)
Shows(list) ==
    /\ Will(list, Len(list) + 1, {Write("hpd", 0, 1)},
            HpdWrites \cup ResetPins \cup {Output("reset")} \cup Wakes, chip.hpd)
    /\ Will(list, Len(list) + 1, {SetPin("hpd", 0)}, HpdPins, pin.hpd = 0)
Presented ==
    IF op \in {"edid", "pulse", "bringup"}
    THEN \/ failed /\ \A k \in 1..Len(todo) : todo[k] # Catch("edid")
         \/ Shows(todo)
         \/ op # "bringup" /\ ~ready
    ELSE ready /\ ~down => Seen

(* The EDID is loaded once, before anything that catches an error and by   *)
(* nobody who has failed.                                                  *)
Once ==
    \A k \in 1..Len(todo) : todo[k] = Step("edid") =>
       ~failed /\ \A j \in 1..k - 1 : todo[j].what # "catch" /\ todo[j] # Step("edid")

IInv == /\ Typed /\ Followed(todo) /\ Banked /\ Power /\ Revived /\ Latched /\ Settled /\ Thaws
        /\ Hidden /\ Once /\ Presented

-----------------------------------------------------------------------------
(***************************************************************************)
(* Lists.                                                                  *)
(***************************************************************************)
(* A set of numbers has a least one.                                       *)
LEMMA Least ==
  ASSUME NEW T, T \subseteq Nat, T # {}
  PROVE  \E m \in T : \A n \in T : m <= n
<1> DEFINE less == {s \in Nat \X Nat : s[1] < s[2]}
<1>1. IsWellFoundedOn(less, Nat)
  BY NatLessThanWellFounded, Zenon DEF OpToRel
<1>2. \A m, n \in Nat : m < n => <<m, n>> \in less
  OBVIOUS
<1> HIDE DEF less
<1>3. PICK m \in T : \A n \in T : ~(<<n, m>> \in less)
  BY <1>1, WFMin
<1>4. \A n \in T : ~(n < m)
  BY <1>2, <1>3
<1> QED
  BY <1>4

LEMMA TailPlaces ==
  ASSUME NEW S, NEW L \in Seq(S), L # << >>
  PROVE  /\ Tail(L) \in Seq(S) /\ Head(L) \in S /\ Head(L) = L[1]
         /\ Len(Tail(L)) = Len(L) - 1 /\ Len(L) \in Nat \ {0}
         /\ \A i \in 1..Len(L) - 1 : Tail(L)[i] = L[i + 1]
OBVIOUS

LEMMA JoinPlaces ==
  ASSUME NEW S, NEW X \in Seq(S), NEW L \in Seq(S)
  PROVE  /\ X \o L \in Seq(S) /\ Len(X \o L) = Len(X) + Len(L)
         /\ Len(X) \in Nat /\ Len(L) \in Nat
         /\ \A i \in 1..Len(X) : (X \o L)[i] = X[i]
         /\ \A i \in 1..Len(L) : (X \o L)[Len(X) + i] = L[i]
OBVIOUS

(* An error leads to a suffix that begins with a catch item, and nothing   *)
(* between was one; or to the end.                                         *)
LEMMA JumpPlaces ==
  ASSUME NEW S, NEW L \in Seq(S)
  PROVE  \/ Caught(L) = << >>
         \/ \E c \in 1..Len(L) :
              /\ L[c].what = "catch"
              /\ \A i \in 1..c - 1 : L[i].what # "catch"
              /\ Caught(L) \in Seq(S) /\ Len(Caught(L)) = Len(L) - c + 1
              /\ \A i \in 1..Len(L) - c + 1 : Caught(L)[i] = L[i + c - 1]
<1> DEFINE At == {k \in 1..Len(L) : L[k].what = "catch"}
           first == CHOOSE k \in At : \A j \in At : k <= j
<1>1. CASE At = {}
  BY <1>1 DEF Caught
<1>2. CASE At # {}
  <2>1. \E k \in At : \A j \in At : k <= j
    <3>1. At \subseteq Nat
      OBVIOUS
    <3> QED
      BY <1>2, <3>1, Least
  <2>2. first \in At /\ \A j \in At : first <= j
    BY <2>1
  <2>3. Caught(L) = SubSeq(L, first, Len(L))
    BY <1>2 DEF Caught
  <2> HIDE DEF first
  <2>4. first \in 1..Len(L) /\ L[first].what = "catch" /\ Len(L) \in Nat
    BY <2>2
  <2>5. \A i \in 1..first - 1 : L[i].what # "catch"
    BY <2>2, <2>4
  <2>6. \A i \in first..Len(L) : L[i] \in S
    BY <2>4
  <2>7. /\ Caught(L) \in Seq(S) /\ Len(Caught(L)) = Len(L) - first + 1
        /\ \A i \in 1..Len(L) - first + 1 : Caught(L)[i] = L[first + i - 1]
    BY <2>3, <2>4, <2>6, SubSeqProperties
  <2>8. \A i \in 1..Len(L) - first + 1 : Caught(L)[i] = L[i + first - 1]
    BY <2>4, <2>7
  <2> QED
    BY <2>4, <2>5, <2>7, <2>8
<1> QED
  BY <1>1, <1>2

LEMMA CaughtList ==
  ASSUME NEW S, NEW L \in Seq(S)
  PROVE  Caught(L) \in Seq(S)
<1>1. << >> \in Seq(S)
  OBVIOUS
<1> QED
  BY <1>1, JumpPlaces

LEMMA SecondPlace ==
  ASSUME NEW S, NEW L \in Seq(S), L # << >>, 1 < Len(L)
  PROVE  /\ Tail(L) # << >> /\ Head(Tail(L)) = L[2] /\ L[2] \in S
         /\ Tail(Tail(L)) \in Seq(S)
<1>1. Tail(L) \in Seq(S) /\ Len(Tail(L)) > 0 /\ Tail(L)[1] = L[2] /\ L[2] \in S
  BY TailPlaces
<1>2. \A R : R = << >> => ~(Len(R) > 0)
  OBVIOUS
<1>3. Tail(L) # << >>
  BY <1>1, <1>2, Zenon
<1> QED
  BY <1>1, <1>3, TailPlaces

(* One item done.                                                          *)
LEMMA WillTail ==
  ASSUME NEW S, NEW L \in Seq(S), L # << >>, NEW makes, NEW breaks, NEW now, NEW new,
         NEW k \in 1..Len(L), Will(L, k + 1, makes, breaks, now),
         Head(L) \in makes => new, Head(L) \notin breaks /\ now => new
  PROVE  Will(Tail(L), k, makes, breaks, new)
<1>1. ASSUME NEW j \in 1..k, L[j] \in makes,
             \A i \in j + 1..k : L[i] \notin breaks /\ L[i].what # "catch"
      PROVE  Will(Tail(L), k, makes, breaks, new)
  <2>1. CASE j = 1
    <3>1. new
      BY <1>1, <2>1, TailPlaces
    <3>2. \A i \in 1..k - 1 : Tail(L)[i] \notin breaks
      BY <1>1, <2>1, TailPlaces
    <3> QED
      BY <3>1, <3>2 DEF Will
  <2>2. CASE j # 1
    <3>1. j - 1 \in 1..k - 1 /\ Tail(L)[j - 1] \in makes
      BY <1>1, <2>2, TailPlaces
    <3>2. \A i \in (j - 1) + 1..k - 1 : Tail(L)[i] \notin breaks /\ Tail(L)[i].what # "catch"
      BY <1>1, <2>2, TailPlaces
    <3> QED
      BY <3>1, <3>2 DEF Will
  <2> QED
    BY <2>1, <2>2
<1>2. ASSUME now, \A j \in 1..k : L[j] \notin breaks
      PROVE  Will(Tail(L), k, makes, breaks, new)
  <2>1. new
    BY <1>2, TailPlaces
  <2>2. \A j \in 1..k - 1 : Tail(L)[j] \notin breaks
    BY <1>2, TailPlaces
  <2> QED
    BY <2>1, <2>2 DEF Will
<1> QED
  BY <1>1, <1>2 DEF Will

(* What is awaited behind the catch item an error leads to does not rest   *)
(* on what the error skips.                                                *)
LEMMA WillJump ==
  ASSUME NEW L, Len(L) \in Nat, NEW makes, NEW breaks, NEW now, NEW new,
         NEW c \in 2..Len(L), L[c].what = "catch",
         \A i \in makes : i.what # "catch",
         NEW k \in 2..Len(L) - c + 2, Will(L, k + c - 1, makes, breaks, now),
         L[1] \notin breaks /\ now => new,
         NEW J, \A i \in 1..Len(L) - c + 1 : J[i] = L[i + c - 1]
  PROVE  Will(J, k, makes, breaks, new)
<1>1. ASSUME NEW j \in 1..k + c - 2, L[j] \in makes,
             \A i \in j + 1..k + c - 2 : L[i] \notin breaks /\ L[i].what # "catch"
      PROVE  Will(J, k, makes, breaks, new)
  <2>1. CASE j < c
    <3>1. c \in j + 1..k + c - 2
      BY <2>1
    <3> QED
      BY <1>1, <3>1
  <2>2. CASE j >= c
    <3> DEFINE n == j - c + 1
    <3>1. n \in 1..k - 1 /\ n \in 1..Len(L) - c + 1 /\ n + c - 1 = j
      BY <2>2
    <3>2. J[n] \in makes
      BY <1>1, <3>1
    <3>3. ASSUME NEW i \in n + 1..k - 1
          PROVE  J[i] \notin breaks /\ J[i].what # "catch"
      <4>1. i \in 1..Len(L) - c + 1 /\ i + c - 1 \in j + 1..k + c - 2
        BY <3>1
      <4> QED
        BY <1>1, <4>1
    <3> HIDE DEF n
    <3> QED
      BY <3>1, <3>2, <3>3 DEF Will
  <2> QED
    BY <1>1, <2>1, <2>2
<1>2. ASSUME now, \A j \in 1..k + c - 2 : L[j] \notin breaks
      PROVE  Will(J, k, makes, breaks, new)
  <2>1. new
    <3>1. 1 \in 1..k + c - 2
      OBVIOUS
    <3> QED
      BY <1>2, <3>1
  <2>2. ASSUME NEW j \in 1..k - 1 PROVE J[j] \notin breaks
    <3>1. j \in 1..Len(L) - c + 1 /\ j + c - 1 \in 1..k + c - 2
      OBVIOUS
    <3> QED
      BY <1>2, <3>1
  <2> QED
    BY <2>1, <2>2 DEF Will
<1> QED
  BY <1>1, <1>2 DEF Will

LEMMA KeptTail ==
  ASSUME NEW S, NEW L \in Seq(S), L # << >>, NEW needs, NEW makes, NEW breaks,
         NEW now, NEW new, Kept(L, needs, makes, breaks, now),
         Head(L) \in makes => new, Head(L) \notin breaks /\ now => new
  PROVE  Kept(Tail(L), needs, makes, breaks, new)
<1> SUFFICES ASSUME NEW k \in 1..Len(Tail(L)), Tail(L)[k] \in needs
             PROVE  Will(Tail(L), k, makes, breaks, new)
  BY DEF Kept
<1>1. k \in 1..Len(L) /\ k + 1 \in 1..Len(L) /\ L[k + 1] \in needs
  BY TailPlaces
<1>2. Will(L, k + 1, makes, breaks, now)
  BY <1>1 DEF Kept
<1> QED
  BY <1>1, <1>2, WillTail

LEMMA KeptCaught ==
  ASSUME NEW S, NEW L \in Seq(S), L # << >>, NEW needs, NEW makes, NEW breaks,
         NEW now, NEW new, Kept(L, needs, makes, breaks, now),
         \A i \in needs \cup makes : i.what # "catch",
         Head(L) \notin breaks /\ now => new
  PROVE  Kept(Caught(Tail(L)), needs, makes, breaks, new)
<1> DEFINE J == Caught(Tail(L))
<1>1. CASE J = << >>
  BY <1>1 DEF Kept
<1>2. CASE J # << >>
  <2>0. Tail(L) \in Seq(S)
    BY TailPlaces
  <2>1. PICK c \in 1..Len(Tail(L)) :
           /\ Tail(L)[c].what = "catch"
           /\ J \in Seq(S) /\ Len(J) = Len(Tail(L)) - c + 1
           /\ \A i \in 1..Len(Tail(L)) - c + 1 : J[i] = Tail(L)[i + c - 1]
    BY <1>2, <2>0, JumpPlaces
  <2> HIDE DEF J
  <2> DEFINE d == c + 1
  <2>2. /\ d \in 2..Len(L) /\ L[d].what = "catch" /\ Len(J) = Len(L) - d + 1
        /\ \A i \in 1..Len(L) - d + 1 : J[i] = L[i + d - 1]
    BY <2>1, TailPlaces
  <2> HIDE DEF d
  <2> SUFFICES ASSUME NEW k \in 1..Len(J), J[k] \in needs
               PROVE  Will(J, k, makes, breaks, new)
    BY DEF Kept, J
  <2>3. k # 1
    BY <2>2
  <2>4. k \in 2..Len(L) - d + 2 /\ k + d - 1 \in 1..Len(L) /\ L[k + d - 1] \in needs
    BY <2>2, <2>3
  <2>5. Will(L, k + d - 1, makes, breaks, now)
    BY <2>4 DEF Kept
  <2>6. L[1] \notin breaks /\ now => new
    BY TailPlaces
  <2>8. Len(L) \in Nat
    OBVIOUS
  <2>7. \A i \in makes : i.what # "catch"
    OBVIOUS
  <2> QED
    BY <2>1, <2>2, <2>4, <2>5, <2>6, <2>7, <2>8, WillJump, SMTT(90)
<1> QED
  BY <1>1, <1>2

(* One item in front that nothing depends on.                              *)
LEMMA KeptCons ==
  ASSUME NEW S, NEW L \in Seq(S), NEW x \in S, NEW needs, NEW makes, NEW breaks,
         NEW now, Kept(L, needs, makes, breaks, now), x \notin needs, x \notin breaks
  PROVE  Kept(<<x>> \o L, needs, makes, breaks, now)
<1> DEFINE M == <<x>> \o L
<1>1. /\ M \in Seq(S) /\ Len(M) = Len(L) + 1 /\ M[1] = x
      /\ \A i \in 1..Len(L) : M[i + 1] = L[i]
      /\ Len(L) \in Nat
  OBVIOUS
<1> HIDE DEF M
<1> SUFFICES ASSUME NEW k \in 1..Len(M), M[k] \in needs
             PROVE  Will(M, k, makes, breaks, now)
  BY DEF Kept, M
<1>2. k - 1 \in 1..Len(L) /\ L[k - 1] \in needs
  BY <1>1
<1>3. Will(L, k - 1, makes, breaks, now)
  BY <1>2 DEF Kept
<1>4. ASSUME NEW j \in 1..k - 2, L[j] \in makes,
             \A i \in j + 1..k - 2 : L[i] \notin breaks /\ L[i].what # "catch"
      PROVE  Will(M, k, makes, breaks, now)
  <2>1. j + 1 \in 1..k - 1 /\ M[j + 1] \in makes
    BY <1>1, <1>2, <1>4
  <2>2. \A i \in (j + 1) + 1..k - 1 : M[i] \notin breaks /\ M[i].what # "catch"
    <3> TAKE i \in (j + 1) + 1..k - 1
    <3>1. i - 1 \in j + 1..k - 2 /\ i - 1 \in 1..Len(L) /\ M[(i - 1) + 1] = L[i - 1]
      BY <1>1, <1>2
    <3>2. (i - 1) + 1 = i
      OBVIOUS
    <3> QED
      BY <1>4, <3>1, <3>2
  <2> QED
    BY <2>1, <2>2 DEF Will
<1>5. ASSUME now, \A j \in 1..k - 2 : L[j] \notin breaks
      PROVE  Will(M, k, makes, breaks, now)
  <2>1. \A j \in 1..k - 1 : M[j] \notin breaks
    <3> TAKE j \in 1..k - 1
    <3>1. CASE j = 1
      BY <1>1, <3>1
    <3>2. CASE j # 1
      <4>1. j - 1 \in 1..k - 2 /\ j - 1 \in 1..Len(L) /\ M[(j - 1) + 1] = L[j - 1]
        BY <1>1, <1>2, <3>2
      <4>2. (j - 1) + 1 = j
        OBVIOUS
      <4> QED
        BY <1>5, <4>1, <4>2
    <3> QED
      BY <3>1, <3>2
  <2> QED
    BY <1>5, <2>1 DEF Will
<1>6. (k - 1) - 1 = k - 2
  BY <1>1
<1>7. \/ \E j \in 1..k - 2 :
          /\ L[j] \in makes
          /\ \A i \in j + 1..k - 2 : L[i] \notin breaks /\ L[i].what # "catch"
      \/ now /\ \A j \in 1..k - 2 : L[j] \notin breaks
  BY <1>3, <1>6, Zenon DEF Will
<1> QED
  BY <1>4, <1>5, <1>7, Zenon

LEMMA WillSame ==
  ASSUME NEW X, NEW M, NEW makes, NEW breaks, NEW now, NEW k \in Nat,
         Will(X, k, makes, breaks, now), \A i \in 1..k - 1 : M[i] = X[i]
  PROVE  Will(M, k, makes, breaks, now)
<1>1. ASSUME NEW j \in 1..k - 1, X[j] \in makes,
             \A i \in j + 1..k - 1 : X[i] \notin breaks /\ X[i].what # "catch"
      PROVE  Will(M, k, makes, breaks, now)
  <2>1. \A i \in j + 1..k - 1 : M[i] = X[i]
    OBVIOUS
  <2> QED
    BY <1>1, <2>1 DEF Will
<1> QED
  BY <1>1 DEF Will

(* The first item is replaced by the items of X.                           *)
LEMMA WillSplice ==
  ASSUME NEW S, NEW L \in Seq(S), L # << >>, NEW X \in Seq(S), NEW makes, NEW breaks,
         NEW now, NEW new, NEW k \in 1..Len(L), Will(L, k + 1, makes, breaks, now),
         Head(L) \in makes => Will(X, Len(X) + 1, makes, breaks, new),
         Head(L) \notin breaks /\ now => new /\ Free(X, breaks)
  PROVE  Will(X \o Tail(L), Len(X) + k, makes, breaks, new)
<1> DEFINE M == X \o Tail(L)
           n == Len(X)
<1>1. /\ n \in Nat /\ Len(L) \in Nat
      /\ \A i \in 1..n : M[i] = X[i]
      /\ \A i \in 1..Len(L) - 1 : M[n + i] = L[i + 1]
  BY TailPlaces, JoinPlaces
<1>2. L[1] = Head(L)
  BY TailPlaces
<1> HIDE DEF M, n
<1>3. ASSUME NEW i \in n + 1..(n + k) - 1
      PROVE  i - n + 1 \in 2..k /\ i - n \in 1..Len(L) - 1 /\ M[i] = L[i - n + 1]
  <2>1. i - n + 1 \in 2..k /\ i - n \in 1..Len(L) - 1 /\ n + (i - n) = i
    BY <1>1
  <2> QED
    BY <1>1, <2>1
<1>4. ASSUME NEW j \in 1..k, L[j] \in makes,
             \A i \in j + 1..k : L[i] \notin breaks /\ L[i].what # "catch"
      PROVE  Will(M, n + k, makes, breaks, new)
  <2>1. CASE j = 1
    <3>1. \A i \in n + 1..(n + k) - 1 : M[i] \notin breaks /\ M[i].what # "catch"
      BY <1>3, <1>4, <2>1
    <3>2. Will(X, n + 1, makes, breaks, new)
      BY <1>2, <1>4, <2>1 DEF n
    <3>3. ASSUME NEW m \in 1..n, X[m] \in makes,
                 \A i \in m + 1..n : X[i] \notin breaks /\ X[i].what # "catch"
          PROVE  Will(M, n + k, makes, breaks, new)
      <4>1. m \in 1..(n + k) - 1 /\ M[m] \in makes
        BY <1>1, <3>3
      <4>2. \A i \in m + 1..(n + k) - 1 : M[i] \notin breaks /\ M[i].what # "catch"
        <5> TAKE i \in m + 1..(n + k) - 1
        <5>1. i \in m + 1..n \/ i \in n + 1..(n + k) - 1
          BY <1>1
        <5> QED
          BY <1>1, <3>1, <3>3, <5>1
      <4> QED
        BY <4>1, <4>2 DEF Will
    <3>4. ASSUME new, \A i \in 1..n : X[i] \notin breaks
          PROVE  Will(M, n + k, makes, breaks, new)
      <4>1. \A i \in 1..(n + k) - 1 : M[i] \notin breaks
        <5> TAKE i \in 1..(n + k) - 1
        <5>1. i \in 1..n \/ i \in n + 1..(n + k) - 1
          BY <1>1
        <5> QED
          BY <1>1, <3>1, <3>4, <5>1
      <4> QED
        BY <3>4, <4>1 DEF Will
    <3>5. (n + 1) - 1 = n
      BY <1>1
    <3> QED
      BY <3>2, <3>3, <3>4, <3>5 DEF Will
  <2>2. CASE j # 1
    <3>1. /\ n + j - 1 \in 1..(n + k) - 1 /\ n + j - 1 \in n + 1..(n + k) - 1
          /\ (n + j - 1) - n + 1 = j
      BY <1>1, <2>2
    <3>2. M[n + j - 1] \in makes
      BY <1>3, <1>4, <3>1
    <3>3. \A i \in (n + j - 1) + 1..(n + k) - 1 : M[i] \notin breaks /\ M[i].what # "catch"
      <4> TAKE i \in (n + j - 1) + 1..(n + k) - 1
      <4>1. i \in n + 1..(n + k) - 1 /\ i - n + 1 \in j + 1..k
        BY <1>1, <2>2
      <4> QED
        BY <1>3, <1>4, <4>1
    <3> QED
      BY <3>1, <3>2, <3>3 DEF Will
  <2> QED
    BY <2>1, <2>2
<1>5. ASSUME now, \A j \in 1..k : L[j] \notin breaks
      PROVE  Will(M, n + k, makes, breaks, new)
  <2>1. new /\ \A i \in 1..n : X[i] \notin breaks
    <3>1. 1 \in 1..k
      OBVIOUS
    <3> QED
      BY <1>2, <1>5, <3>1 DEF n, Free
  <2>2. \A i \in 1..(n + k) - 1 : M[i] \notin breaks
    <3> TAKE i \in 1..(n + k) - 1
    <3>1. i \in 1..n \/ i \in n + 1..(n + k) - 1
      BY <1>1
    <3>2. \A m \in 2..k : L[m] \notin breaks
      BY <1>5
    <3> QED
      BY <1>1, <1>3, <2>1, <3>1, <3>2
  <2> QED
    BY <2>1, <2>2 DEF Will
<1>6. (k + 1) - 1 = k
  OBVIOUS
<1> QED
  BY <1>4, <1>5, <1>6 DEF Will, M, n

LEMMA KeptSplice ==
  ASSUME NEW S, NEW L \in Seq(S), L # << >>, NEW X \in Seq(S), NEW needs, NEW makes,
         NEW breaks, NEW now, NEW new, Kept(L, needs, makes, breaks, now),
         Kept(X, needs, makes, breaks, new),
         Head(L) \in makes => Will(X, Len(X) + 1, makes, breaks, new),
         Head(L) \notin breaks /\ now => new /\ Free(X, breaks)
  PROVE  Kept(X \o Tail(L), needs, makes, breaks, new)
<1> DEFINE M == X \o Tail(L)
           n == Len(X)
<1>1. /\ n \in Nat /\ Len(L) \in Nat /\ Len(M) = n + Len(L) - 1
      /\ \A i \in 1..n : M[i] = X[i]
      /\ \A i \in 1..Len(L) - 1 : M[n + i] = L[i + 1]
  BY TailPlaces, JoinPlaces
<1> SUFFICES ASSUME NEW k \in 1..Len(M), M[k] \in needs
             PROVE  Will(M, k, makes, breaks, new)
  BY DEF Kept
<1> HIDE DEF M, n
<1>2. CASE k \in 1..n
  <2>1. Will(X, k, makes, breaks, new)
    BY <1>1, <1>2 DEF Kept, n
  <2>2. \A i \in 1..k - 1 : M[i] = X[i]
    BY <1>1, <1>2
  <2>3. k \in Nat
    BY <1>1
  <2> QED
    BY <2>1, <2>2, <2>3, WillSame
<1>3. CASE k \notin 1..n
  <2>1. PICK m \in 1..Len(L) - 1 : k = n + m
    <3>1. k - n \in 1..Len(L) - 1 /\ k = n + (k - n)
      BY <1>1, <1>3
    <3> QED
      BY <3>1
  <2>2. m \in 1..Len(L) /\ m + 1 \in 1..Len(L) /\ M[k] = L[m + 1]
    BY <1>1, <2>1
  <2>3. Will(L, m + 1, makes, breaks, now)
    BY <2>2 DEF Kept
  <2>4. Will(X \o Tail(L), Len(X) + m, makes, breaks, new)
    BY <2>2, <2>3, WillSplice, ZenonT(30)
  <2> QED
    BY <2>1, <2>4 DEF M, n
<1> QED
  BY <1>2, <1>3

LEMMA KeptNone ==
  ASSUME NEW S, NEW L \in Seq(S), NEW needs, NEW makes, NEW breaks, NEW now,
         S \cap needs = {}
  PROVE  Kept(L, needs, makes, breaks, now)
BY DEF Kept

(* A list that makes what it needs can follow any other.                   *)
LEMMA KeptJoin ==
  ASSUME NEW S, NEW X \in Seq(S), NEW L \in Seq(S), NEW needs, NEW makes, NEW breaks,
         NEW now, Kept(X, needs, makes, breaks, now), Kept(L, needs, makes, breaks, FALSE)
  PROVE  Kept(X \o L, needs, makes, breaks, now)
<1> DEFINE M == X \o L
           n == Len(X)
<1>1. /\ n \in Nat /\ Len(L) \in Nat /\ Len(M) = n + Len(L)
      /\ \A i \in 1..n : M[i] = X[i]
      /\ \A i \in 1..Len(L) : M[n + i] = L[i]
  BY JoinPlaces
<1> SUFFICES ASSUME NEW k \in 1..Len(M), M[k] \in needs
             PROVE  Will(M, k, makes, breaks, now)
  BY DEF Kept
<1> HIDE DEF M, n
<1>2. CASE k \in 1..n
  <2>1. Will(X, k, makes, breaks, now)
    BY <1>1, <1>2 DEF Kept, n
  <2>2. \A i \in 1..k - 1 : M[i] = X[i]
    BY <1>1, <1>2
  <2>3. k \in Nat
    BY <1>1
  <2> QED
    BY <2>1, <2>2, <2>3, WillSame
<1>3. CASE k \notin 1..n
  <2>1. k - n \in 1..Len(L) /\ n + (k - n) = k
    BY <1>1, <1>3
  <2>2. Will(L, k - n, makes, breaks, FALSE)
    BY <1>1, <2>1 DEF Kept
  <2>3. PICK j \in 1..(k - n) - 1 :
           /\ L[j] \in makes
           /\ \A i \in j + 1..(k - n) - 1 : L[i] \notin breaks /\ L[i].what # "catch"
    BY <2>2 DEF Will
  <2>4. n + j \in 1..k - 1 /\ M[n + j] \in makes
    BY <1>1, <2>1, <2>3
  <2>5. \A i \in (n + j) + 1..k - 1 : M[i] \notin breaks /\ M[i].what # "catch"
    <3> TAKE i \in (n + j) + 1..k - 1
    <3>1. i - n \in j + 1..(k - n) - 1 /\ i - n \in 1..Len(L) /\ n + (i - n) = i
      BY <1>1, <2>1, <2>3
    <3>2. M[i] = L[i - n]
      BY <1>1, <3>1
    <3> QED
      BY <2>3, <3>1, <3>2
  <2> QED
    BY <2>4, <2>5 DEF Will
<1> QED
  BY <1>2, <1>3

LEMMA KeptAnyway ==
  ASSUME NEW L, NEW needs, NEW makes, NEW breaks, NEW now,
         Kept(L, needs, makes, breaks, FALSE)
  PROVE  Kept(L, needs, makes, breaks, now)
BY DEF Kept, Will

-----------------------------------------------------------------------------
(***************************************************************************)
(* Steps.                                                                  *)
(***************************************************************************)
Passes ==
    /\ todo # << >>
    /\ \/ todo' = Tail(todo)
       \/ todo' = Caught(Tail(todo))
       \/ todo' = << >>
       \/ AtStep("late") /\ todo' = Tail(Tail(todo))
       \/ /\ Head(todo) = Catch("mux")
          /\ todo' = <<Head(Tail(todo))>> \o Caught(Tail(Tail(todo)))

LEMMA KeptPasses ==
  ASSUME NEW S, todo \in Seq(S), Followed(todo), Passes,
         NEW needs, NEW makes, NEW breaks, NEW now, NEW new,
         Kept(todo, needs, makes, breaks, now),
         \A i \in needs \cup makes : i.what # "catch",
         Batch(0) \notin makes,
         Try(SetPin("mux", 0)) \notin needs \cup makes \cup breaks,
         todo' = Caught(Tail(todo)) \/ (Head(todo) \in makes => new),
         Head(todo) \notin breaks /\ now => new
  PROVE  Kept(todo', needs, makes, breaks, new)
<1> DEFINE R == Tail(todo)
<1>1. todo # << >> /\ R \in Seq(S) /\ Head(todo) = todo[1]
  BY TailPlaces DEF Passes
<1>2. CASE todo' = Caught(R)
  BY <1>1, <1>2, KeptCaught, ZenonT(30)
<1>3. CASE todo' = << >>
  BY <1>3 DEF Kept
<1>4. CASE todo' # Caught(R)
  <2>1. Head(todo) \in makes => new
    BY <1>4
  <2>2. Kept(R, needs, makes, breaks, new)
    BY <1>1, <2>1, KeptTail, ZenonT(30)
  <2>3. CASE AtStep("late") /\ todo' = Tail(R)
    <3>1. 1 \in 1..Len(todo) /\ todo[1] = Step("late")
      BY <1>1, <2>3 DEF AtStep
    <3>2. 1 < Len(todo) /\ todo[2] = Batch(0)
      BY <3>1 DEF Followed
    <3>3. R # << >> /\ Head(R) = Batch(0) /\ R \in Seq(S)
      BY <1>1, <3>2, SecondPlace
    <3> HIDE DEF R
    <3>4. Kept(Tail(R), needs, makes, breaks, new)
      BY <1>1, <2>2, <3>3, KeptTail, ZenonT(30)
    <3> QED
      BY <2>3, <3>4
  <2>4. CASE Head(todo) = Catch("mux") /\ todo' = <<Head(R)>> \o Caught(Tail(R))
    <3>1. 1 \in 1..Len(todo) /\ todo[1] = Catch("mux")
      BY <1>1, <2>4
    <3>2. 1 < Len(todo) /\ todo[2] = Try(SetPin("mux", 0))
      BY <3>1 DEF Followed
    <3>3. R # << >> /\ Head(R) = Try(SetPin("mux", 0)) /\ Tail(R) \in Seq(S) /\ Head(R) \in S
      BY <1>1, <3>2, SecondPlace
    <3> HIDE DEF R
    <3>4. Kept(Caught(Tail(R)), needs, makes, breaks, new)
      BY <1>1, <2>2, <3>3, KeptCaught, ZenonT(30)
    <3>5. Caught(Tail(R)) \in Seq(S)
      BY <3>3, CaughtList
    <3>6. Kept(<<Head(R)>> \o Caught(Tail(R)), needs, makes, breaks, new)
      BY <3>3, <3>4, <3>5, KeptCons, ZenonT(30)
    <3> QED
      BY <2>4, <3>6
  <2> QED
    BY <1>3, <1>4, <2>2, <2>3, <2>4 DEF Passes
<1> QED
  BY <1>2, <1>4

-----------------------------------------------------------------------------
(***************************************************************************)
(* Items.                                                                  *)
(***************************************************************************)
(* What tells the items apart.                                             *)
LEMMA Classes ==
  /\ \A i \in Banking : i.what = "bank" /\ i.arg = "none" /\ i.val \in Banks
  /\ \A i \in Batches : i.what = "write" /\ i.arg = "other"
  /\ Read.what = "read" /\ Read.arg = "none"
  /\ \A i \in HpdWrites : i.what = "write" /\ i.arg = "hpd" /\ i.try = FALSE
  /\ \A i \in AutoWrites : i.what = "write" /\ i.arg = "auto" /\ i.try = FALSE
  /\ \A i \in FrozenWrites : i.what = "write" /\ i.arg = "frozen" /\ i.try = FALSE
  /\ \A i \in LatchWrites : i.what = "write" /\ i.arg = "latch" /\ i.try = FALSE
  /\ \A i \in Drives : i.what = "output"
  /\ Output("hpd").arg = "hpd" /\ Output("reset").arg = "reset"
  /\ Try(Output("mux")).arg = "mux"
  /\ \A i \in Muxes : i.what = "pin" /\ i.arg = "mux" /\ i.val \in {0, 1}
  /\ \A i \in HpdPins : i.what = "pin" /\ i.arg = "hpd" /\ i.val \in {0, 1} /\ i.try = FALSE
  /\ \A i \in ResetPins : i.what = "pin" /\ i.arg = "reset" /\ i.val \in {0, 1} /\ i.try = FALSE
  /\ \A i \in EdidChunks : i.what = "edid" /\ i.arg = "none"
  /\ \A i \in Markers : i.what = "step" /\ i.val = 0
  /\ \A i \in Catches : i.what = "catch" /\ i.val = 0
  /\ Output("hpd").try = FALSE /\ Output("reset").try = FALSE
<1> USE DEF Item, Try
<1>1. \A i \in Banking : i.what = "bank" /\ i.arg = "none" /\ i.val \in Banks
  <2>1. \A b : Bank(b).what = "bank" /\ Bank(b).arg = "none" /\ Bank(b).val = b
    BY DEF Bank
  <2>2. \A b : /\ Try(Bank(b)).what = "bank" /\ Try(Bank(b)).arg = "none"
               /\ Try(Bank(b)).val = b
    BY DEF Bank
  <2> HIDE DEF Item, Try
  <2> QED
    BY <2>1, <2>2 DEF Banking
<1>2. \A i \in Batches : i.what = "write" /\ i.arg = "other"
  <2>1. \A b : Batch(b).what = "write" /\ Batch(b).arg = "other"
    BY DEF Batch, Write
  <2>2. \A b : Try(Batch(b)).what = "write" /\ Try(Batch(b)).arg = "other"
    BY DEF Batch, Write
  <2> HIDE DEF Item, Try
  <2> QED
    BY <2>1, <2>2 DEF Batches
<1>3. Read.what = "read" /\ Read.arg = "none"
  BY DEF Read
<1>4. \A i \in HpdWrites : i.what = "write" /\ i.arg = "hpd" /\ i.try = FALSE
  BY DEF HpdWrites, Write
<1>5. \A i \in AutoWrites : i.what = "write" /\ i.arg = "auto" /\ i.try = FALSE
  BY DEF AutoWrites, Write
<1>6. \A i \in FrozenWrites : i.what = "write" /\ i.arg = "frozen" /\ i.try = FALSE
  BY DEF FrozenWrites, Write
<1>7. \A i \in LatchWrites : i.what = "write" /\ i.arg = "latch" /\ i.try = FALSE
  BY DEF LatchWrites, Write
<1>8. /\ \A i \in Drives : i.what = "output"
      /\ Output("hpd").arg = "hpd" /\ Output("reset").arg = "reset"
      /\ Try(Output("mux")).arg = "mux" /\ Output("hpd").try = FALSE /\ Output("reset").try = FALSE
  BY DEF Drives, Output
<1>9. /\ \A i \in Muxes : i.what = "pin" /\ i.arg = "mux" /\ i.val \in {0, 1}
      /\ \A i \in HpdPins : i.what = "pin" /\ i.arg = "hpd" /\ i.val \in {0, 1} /\ i.try = FALSE
      /\ \A i \in ResetPins : i.what = "pin" /\ i.arg = "reset" /\ i.val \in {0, 1} /\ i.try = FALSE
  BY DEF Muxes, HpdPins, ResetPins, SetPin
<1>10. \A i \in EdidChunks : i.what = "edid" /\ i.arg = "none"
  BY DEF EdidChunks
<1>11. /\ \A i \in Markers : i.what = "step" /\ i.val = 0
       /\ \A i \in Catches : i.what = "catch" /\ i.val = 0
  BY DEF Markers, Catches, Step, Catch
<1> QED
  BY <1>1, <1>2, <1>3, <1>4, <1>5, <1>6, <1>7, <1>8, <1>9, <1>10, <1>11

LEMMA Kinds ==
  ASSUME NEW i \in All
  PROVE  /\ i.what \in Commands \cup {"step", "catch"}
         /\ i.what = "bank" => i \in Banking
         /\ i.what = "write" => i.arg \in Registers
         /\ i.what = "write" /\ i.arg = "other" => i \in Batches
         /\ i.what = "write" /\ i.arg = "hpd" => i \in HpdWrites
         /\ i.what = "write" /\ i.arg = "auto" => i \in AutoWrites
         /\ i.what = "write" /\ i.arg = "frozen" => i \in FrozenWrites
         /\ i.what = "write" /\ i.arg = "latch" => i \in LatchWrites
         /\ i.what = "pin" /\ i.arg = "hpd" => i \in HpdPins
         /\ i.what = "pin" /\ i.arg = "reset" => i \in ResetPins
         /\ i.what = "pin" => i.arg \in Pins /\ i.val \in {0, 1}
         /\ i.what = "output" => i \in Drives /\ i.arg \in Pins
         /\ i.what = "output" /\ i.arg = "hpd" => i = Output("hpd")
         /\ i.what = "output" /\ i.arg = "reset" => i = Output("reset")
         /\ i.what = "edid" => i \in EdidChunks
         /\ i.what = "step" => i \in Markers
         /\ i.what = "catch" => i \in Catches
         /\ i.arg = "frozen" /\ i.what \in Commands => i.what = "write"
<1>1. i.what = "output" => i \in Drives
  BY Classes DEF All
<1>2. i \in Drives => i.arg \in Pins
  BY Classes DEF Drives, Pins
<1>3. /\ i.what = "output" /\ i.arg = "hpd" => i = Output("hpd")
      /\ i.what = "output" /\ i.arg = "reset" => i = Output("reset")
  BY <1>1, Classes DEF Drives
<1> QED
  BY <1>1, <1>2, <1>3, Classes DEF All, Commands, Registers, Pins

LEMMA Names ==
  /\ \A name : Step(name).what = "step" /\ Step(name).arg = name
  /\ \A name : Catch(name).what = "catch" /\ Catch(name).arg = name
  /\ Write("frozen", 0, 1).what = "write" /\ Write("frozen", 0, 1).arg = "frozen"
  /\ Write("frozen", 0, 0).what = "write" /\ Write("frozen", 0, 0).arg = "frozen"
  /\ Write("frozen", 0, 1) # Write("frozen", 0, 0)
  /\ \A level : /\ Try(SetPin("mux", level)).what = "pin"
                /\ Try(SetPin("mux", level)).arg = "mux"
  /\ Output("hpd").what = "output" /\ Output("reset").what = "output"
  /\ Try(Output("mux")).what = "output"
  /\ \A b : /\ Batch(b).what = "write" /\ Batch(b).arg = "other" /\ Batch(b).val.bank = b
            /\ Batch(b).try = FALSE
BY DEF Item, Step, Catch, Write, Try, SetPin, Output, Batch


(* Which items an operation may have.                                      *)
LEMMA Spelling ==
  ASSUME NEW o \in Operations
  PROVE  /\ \A b \in Banks : /\ Bank(b) \in Vocabulary(o) /\ Try(Bank(b)) \in Vocabulary(o)
                             /\ Batch(b) \in Vocabulary(o) /\ Try(Batch(b)) \in Vocabulary(o)
         /\ Read \in Vocabulary(o)
         /\ o \in Presenters =>
               /\ \A on \in {0, 1} : Write("hpd", 0, on) \in Vocabulary(o)
               /\ \A level \in {0, 1} : SetPin("hpd", level) \in Vocabulary(o)
               /\ Output("hpd") \in Vocabulary(o)
         /\ o \in Loaders =>
               /\ \A level \in {0, 1} : Try(SetPin("mux", level)) \in Vocabulary(o)
               /\ \A n \in 1..Chunks : Item("edid", "none", n) \in Vocabulary(o)
               /\ {Try(Output("mux")), Step("edid"), Step("refuse"), Catch("mux")}
                     \subseteq Vocabulary(o)
         /\ o \in {"bringup", "signal", "lock", "watch"} =>
               \A on \in {0, 1} : Write("auto", 0, on) \in Vocabulary(o)
         /\ o = "bringup" =>
               /\ \A level \in {0, 1} : SetPin("reset", level) \in Vocabulary(o)
               /\ {Output("reset"), Step("unready"), Step("alive"), Step("again"),
                   Step("ready"), Catch("edid"), Write("frozen", 0, 0)}
                     \subseteq Vocabulary(o)
         /\ o = "signal" =>
               /\ \A on \in {0, 1} : /\ Write("latch", 2, on) \in Vocabulary(o)
                                      /\ Write("frozen", 0, on) \in Vocabulary(o)
               /\ {Step("poll"), Step("judge"), Step("frozen"), Step("late"),
                   Step("matched"), Step("expire"), Catch("thaw")} \subseteq Vocabulary(o)
         /\ o = "lock" => Step("lock") \in Vocabulary(o)
         /\ o = "watch" => Step("watch") \in Vocabulary(o)
         /\ o = "diag" => {Step("diag"), Step("known"), Catch("forget")}
                             \subseteq Vocabulary(o)
         /\ o = "colour" => {Step("known"), Catch("end")} \subseteq Vocabulary(o)
<1>0. o # "idle"
  BY DEF Operations
<1>00. \A i : i = Write("frozen", 0, 1) => i.what = "write" /\ i.arg = "frozen" 
  BY Names
<1>1. ASSUME NEW i \in Banking \cup Batches \cup {Read}
      PROVE  i \in Vocabulary(o)
  <2>1. i \in All
    BY DEF All
  <2>2. i.what \in {"bank", "write", "read"} /\ (i.what = "write" => i.arg = "other")
    BY Classes
  <2> QED
    BY <1>0, <1>00, <2>1, <2>2 DEF Vocabulary, Belongs
<1>2. ASSUME o \in Presenters,
             NEW i \in HpdWrites \cup HpdPins \cup {Output("hpd")}
      PROVE  i \in Vocabulary(o)
  <2>1. i \in All
    BY DEF All, Drives
  <2>2. i.what \in {"write", "pin", "output"} /\ i.arg = "hpd"
    BY Classes DEF Drives
  <2> QED
    BY <1>0, <1>00, <1>2, <2>1, <2>2 DEF Vocabulary, Belongs
<1>3. ASSUME o \in Loaders,
             NEW i \in EdidChunks \cup Muxes \cup {Try(Output("mux"))}
      PROVE  i \in Vocabulary(o)
  <2>1. i \in All
    BY DEF All, Drives
  <2>2. i.what = "edid" \/ (i.what \in {"pin", "output"} /\ i.arg = "mux")
    BY Classes DEF Drives
  <2> QED
    BY <1>0, <1>00, <1>3, <2>1, <2>2 DEF Vocabulary, Belongs
<1>4. ASSUME o \in {"bringup", "signal", "lock", "watch"},
             NEW i \in AutoWrites
      PROVE  i \in Vocabulary(o)
  <2>1. i \in All
    BY DEF All
  <2>2. i.what = "write" /\ i.arg = "auto"
    BY Classes
  <2> QED
    BY <1>0, <1>00, <1>4, <2>1, <2>2 DEF Vocabulary, Belongs
<1>5. ASSUME o = "bringup",
             NEW i \in ResetPins \cup {Output("reset")}
      PROVE  i \in Vocabulary(o)
  <2>1. i \in All
    BY DEF All, Drives
  <2>2. i.what \in {"pin", "output"} /\ i.arg = "reset"
    BY Classes DEF Drives
  <2> QED
    BY <1>0, <1>00, <1>5, <2>1, <2>2 DEF Vocabulary, Belongs
<1>6. o = "signal" => LatchWrites \cup FrozenWrites \subseteq Vocabulary(o)
  BY <1>0, <1>00, Classes DEF Vocabulary, Belongs, All
<1>7. o = "bringup" => Write("frozen", 0, 0) \in Vocabulary(o)
  <2>1. Write("frozen", 0, 0) \in All
    BY DEF All, FrozenWrites
  <2> QED
    BY <1>0, <2>1, Names DEF Vocabulary, Belongs
<1>8. ASSUME NEW i \in Markers,
             /\ i.arg \in {"unready", "alive", "again", "ready"} => o = "bringup"
             /\ i.arg \in {"edid", "refuse"} => o \in Loaders
             /\ i.arg \in {"poll", "judge", "frozen", "late", "matched", "expire"} =>
                   o = "signal"
             /\ i.arg = "lock" => o = "lock"
             /\ i.arg = "watch" => o = "watch"
             /\ i.arg = "diag" => o = "diag"
             /\ i.arg = "known" => o \in {"diag", "colour"}
      PROVE  i \in Vocabulary(o)
  BY <1>0, <1>00, <1>8, Classes DEF Vocabulary, Belongs, All
<1>9. ASSUME NEW i \in Catches,
             /\ i.arg = "mux" => o \in Loaders
             /\ i.arg = "edid" => o = "bringup"
             /\ i.arg = "thaw" => o = "signal"
             /\ i.arg = "end" => o = "colour"
             /\ i.arg = "forget" => o = "diag"
      PROVE  i \in Vocabulary(o)
  BY <1>0, <1>00, <1>9, Classes DEF Vocabulary, Belongs, All
<1>10. /\ \A name \in {"unready", "alive", "again", "ready", "edid", "refuse",
                       "poll", "judge", "frozen", "late", "matched", "expire",
                       "lock", "watch", "diag", "known"} : Step(name) \in Markers
       /\ \A name \in {"mux", "edid", "thaw", "end", "forget"} : Catch(name) \in Catches
  BY DEF Markers, Catches
<1>11. /\ o \in Loaders => {Step("edid"), Step("refuse"), Catch("mux")} \subseteq Vocabulary(o)
       /\ o = "bringup" => {Step("unready"), Step("alive"), Step("again"), Step("ready"),
                            Catch("edid")} \subseteq Vocabulary(o)
       /\ o = "signal" => {Step("poll"), Step("judge"), Step("frozen"), Step("late"),
                   Step("matched"), Step("expire"), Catch("thaw")} \subseteq Vocabulary(o)
       /\ o = "lock" => Step("lock") \in Vocabulary(o)
       /\ o = "watch" => Step("watch") \in Vocabulary(o)
       /\ o = "diag" => {Step("diag"), Step("known"), Catch("forget")}
                             \subseteq Vocabulary(o)
       /\ o = "colour" => {Step("known"), Catch("end")} \subseteq Vocabulary(o)
  BY <1>8, <1>9, <1>10, Names
<1>12. /\ \A b \in Banks : /\ Bank(b) \in Banking /\ Try(Bank(b)) \in Banking
                           /\ Batch(b) \in Batches /\ Try(Batch(b)) \in Batches
       /\ \A on \in {0, 1} : /\ Write("hpd", 0, on) \in HpdWrites
                              /\ Write("auto", 0, on) \in AutoWrites
                              /\ Write("frozen", 0, on) \in FrozenWrites
                              /\ Write("latch", 2, on) \in LatchWrites
       /\ \A level \in {0, 1} : /\ SetPin("hpd", level) \in HpdPins
                                /\ SetPin("reset", level) \in ResetPins
                                /\ Try(SetPin("mux", level)) \in Muxes
       /\ \A n \in 1..Chunks : Item("edid", "none", n) \in EdidChunks
  BY DEF Banking, Batches, HpdWrites, AutoWrites, FrozenWrites, LatchWrites, HpdPins,
     ResetPins, Muxes, EdidChunks
<1>13. o \in {"bringup", "signal", "lock", "watch"} =>
               \A on \in {0, 1} : Write("auto", 0, on) \in Vocabulary(o)
  BY <1>4, <1>12, Zenon
<1> QED
  BY <1>1, <1>2, <1>3, <1>5, <1>6, <1>7, <1>11, <1>12, <1>13, Zenon

(* The lists of an operation are made of its items.                        *)
LEMMA Sentences ==
  ASSUME NEW o \in Operations, Chunks \in Nat
  PROVE  /\ o \in Presenters => \A on \in {0, 1} : Hpd(on) \in Seq(Vocabulary(o))
         /\ o \in Loaders => LoadEdid \in Seq(Vocabulary(o)) /\ Present \in Seq(Vocabulary(o))
         /\ o = "bringup" => /\ Reset \in Seq(Vocabulary(o)) /\ InitRegs \in Seq(Vocabulary(o))
                             /\ Bringup \in Seq(Vocabulary(o))
         /\ o = "pulse" => Pulse \in Seq(Vocabulary(o))
         /\ Measure \in Seq(Vocabulary(o))
         /\ o = "signal" => /\ Poll \in Seq(Vocabulary(o)) /\ Retime \in Seq(Vocabulary(o))
                            /\ Commit \in Seq(Vocabulary(o)) /\ Latch \in Seq(Vocabulary(o))
<1> DEFINE V == Vocabulary(o)
<1>1. /\ Bank(0) \in V /\ Bank(1) \in V /\ Bank(2) \in V /\ Bank(128) \in V
      /\ Try(Bank(0)) \in V /\ Try(Bank(2)) \in V
      /\ Batch(0) \in V /\ Batch(1) \in V /\ Batch(2) \in V /\ Batch(128) \in V
      /\ Read \in V
  <2>1. 0 \in Banks /\ 1 \in Banks /\ 2 \in Banks /\ 128 \in Banks
    BY DEF Banks
  <2> QED
    BY <2>1, Spelling
<1>2. o \in Presenters => \A on \in {0, 1} : Hpd(on) \in Seq(V)
  <2> SUFFICES ASSUME o \in Presenters, NEW on \in {0, 1} PROVE Hpd(on) \in Seq(V)
    OBVIOUS
  <2>1. /\ Write("hpd", 0, on) \in V /\ Output("hpd") \in V
        /\ SetPin("hpd", 0) \in V /\ SetPin("hpd", 1) \in V
    BY Spelling
  <2> HIDE DEF V
  <2> QED
    BY <1>1, <2>1 DEF Hpd
<1>3. o \in Loaders => LoadEdid \in Seq(V) /\ Present \in Seq(V)
  <2> SUFFICES ASSUME o \in Loaders PROVE LoadEdid \in Seq(V) /\ Present \in Seq(V)
    OBVIOUS
  <2>1. /\ {Try(SetPin("mux", 0)), Try(SetPin("mux", 1)), Try(Output("mux")), Step("edid"),
            Step("refuse"), Catch("mux")} \subseteq V
        /\ \A n \in 1..Chunks : Item("edid", "none", n) \in V
    BY Spelling
  <2> HIDE DEF V
  <2>2. [n \in 1..Chunks |-> Item("edid", "none", n)] \in Seq(V)
    BY <2>1
  <2>3. LoadEdid \in Seq(V)
    BY <2>1, <2>2 DEF LoadEdid
  <2>4. o \in Presenters
    BY DEF Loaders, Presenters
  <2>5. Hpd(0) \in Seq(V) /\ Hpd(1) \in Seq(V) /\ Step("edid") \in V
    BY <1>2, <2>1, <2>4
  <2>6. Present \in Seq(V)
    BY <2>5 DEF Present
  <2> QED
    BY <2>3, <2>6
<1>4. o = "bringup" => Reset \in Seq(V) /\ InitRegs \in Seq(V) /\ Bringup \in Seq(V)
  <2> SUFFICES ASSUME o = "bringup"
               PROVE  Reset \in Seq(V) /\ InitRegs \in Seq(V) /\ Bringup \in Seq(V)
    OBVIOUS
  <2>1. /\ SetPin("reset", 0) \in V /\ SetPin("reset", 1) \in V /\ Output("reset") \in V
        /\ Step("unready") \in V /\ Step("alive") \in V /\ Step("ready") \in V
        /\ Write("frozen", 0, 0) \in V /\ Write("hpd", 0, 1) \in V
        /\ Write("hpd", 0, 0) \in V /\ SetPin("hpd", 1) \in V /\ Output("hpd") \in V
        /\ Write("auto", 0, 1) \in V
    BY Spelling DEF Presenters
  <2> HIDE DEF V
  <2>2. Reset \in Seq(V)
    BY <2>1 DEF Reset
  <2>3. InitRegs \in Seq(V)
    BY <1>1, <2>1 DEF InitRegs
  <2>4. Present \in Seq(V)
    BY <1>3 DEF Loaders
  <2> QED
    BY <1>1, <2>1, <2>2, <2>3, <2>4 DEF Bringup
<1>5. o = "pulse" => Pulse \in Seq(V)
  <2>1. o = "pulse" => Hpd(1) \in Seq(V) /\ Hpd(0) \in Seq(V)
    BY <1>2 DEF Presenters
  <2> HIDE DEF V
  <2> QED
    BY <2>1 DEF Pulse
<1>6. Measure \in Seq(V)
  BY <1>1 DEF Measure
<1>7. o = "signal" =>
        Poll \in Seq(V) /\ Retime \in Seq(V) /\ Commit \in Seq(V) /\ Latch \in Seq(V)
  <2> SUFFICES ASSUME o = "signal"
               PROVE Poll \in Seq(V) /\ Retime \in Seq(V) /\ Commit \in Seq(V)
                     /\ Latch \in Seq(V)
    OBVIOUS
  <2>1. /\ Write("latch", 2, 1) \in V /\ Write("latch", 2, 0) \in V
        /\ Write("frozen", 0, 1) \in V /\ Write("frozen", 0, 0) \in V
        /\ Step("poll") \in V /\ Step("frozen") \in V /\ Step("late") \in V
        /\ Catch("thaw") \in V
    BY Spelling
  <2> HIDE DEF V
  <2>2. Latch \in Seq(V)
    BY <1>1, <2>1 DEF Latch
  <2> QED
    BY <1>1, <2>1, <2>2 DEF Poll, Retime, Commit
<1> QED
  BY <1>2, <1>3, <1>4, <1>5, <1>6, <1>7

LEMMA Turns ==
  ASSUME NEW o \in {"signal", "lock", "watch"}, NEW on \in {0, 1}
  PROVE  AutoPosition(on) \subseteq Seq(Vocabulary(o))
<1>0. o \in Operations /\ 0 \in Banks
  BY DEF Operations, Banks
<1>1. Write("auto", 0, on) \in Vocabulary(o) /\ Bank(0) \in Vocabulary(o)
  BY <1>0, Spelling
<1>2. <<Bank(0), Write("auto", 0, on)>> \in Seq(Vocabulary(o)) /\ << >> \in Seq(Vocabulary(o))
  BY <1>1
<1> QED
  BY <1>2 DEF AutoPosition

-----------------------------------------------------------------------------
(***************************************************************************)
(* Lists that select the bank of what they write.                          *)
(***************************************************************************)
LEMMA Fields ==
  /\ \A b : Bank(b).what = "bank" /\ Try(Bank(b)).what = "bank"
  /\ \A r, b, x : Write(r, b, x).what = "write" /\ Write(r, b, x).arg = r
  /\ \A r, b, x : Write(r, b, x).val.bank = b /\ Write(r, b, x).val.bit = x
  /\ \A b : Batch(b).what = "write" /\ Batch(b).arg = "other" /\ Batch(b).val.bank = b
  /\ \A b : Try(Batch(b)).what = "write" /\ Try(Batch(b)).val.bank = b
  /\ \A p, level : SetPin(p, level).what = "pin" /\ SetPin(p, level).arg = p
  /\ \A p, level : Try(SetPin(p, level)).what = "pin" /\ Try(SetPin(p, level)).arg = p
  /\ \A p, level : SetPin(p, level).val = level
  /\ \A p : Output(p).what = "output" /\ Output(p).arg = p
  /\ Try(Output("mux")).what = "output" /\ Try(Output("mux")).arg = "mux"
  /\ \A n : Item("edid", "none", n).what = "edid"
  /\ Read.what = "read"
BY DEF Item, Try, Bank, Write, Batch, SetPin, Output, Read

(* The maker is at most three places before.                               *)
Near(L, k, makes, breaks) ==
    \/ k > 1 /\ L[k - 1] \in makes
    \/ k > 2 /\ L[k - 2] \in makes /\ L[k - 1] \notin breaks /\ L[k - 1].what # "catch"
    \/ /\ k > 3 /\ L[k - 3] \in makes
       /\ L[k - 2] \notin breaks /\ L[k - 2].what # "catch"
       /\ L[k - 1] \notin breaks /\ L[k - 1].what # "catch"

LEMMA KeptNear ==
  ASSUME NEW L, Len(L) \in Nat, NEW needs, NEW makes, NEW breaks, NEW now,
         \A k \in 1..Len(L) : L[k] \in needs => Near(L, k, makes, breaks)
  PROVE  Kept(L, needs, makes, breaks, now)
<1> SUFFICES ASSUME NEW k \in 1..Len(L), L[k] \in needs
             PROVE  Will(L, k, makes, breaks, now)
  BY DEF Kept
<1>1. CASE k > 1 /\ L[k - 1] \in makes
  <2>1. k - 1 \in 1..k - 1 /\ \A i \in (k - 1) + 1..k - 1 : FALSE
    BY <1>1
  <2> QED
    BY <1>1, <2>1 DEF Will
<1>2. CASE k > 2 /\ L[k - 2] \in makes /\ L[k - 1] \notin breaks /\ L[k - 1].what # "catch"
  <2>1. k - 2 \in 1..k - 1 /\ \A i \in (k - 2) + 1..k - 1 : i = k - 1
    BY <1>2
  <2> QED
    BY <1>2, <2>1 DEF Will
<1>3. CASE /\ k > 3 /\ L[k - 3] \in makes
           /\ L[k - 2] \notin breaks /\ L[k - 2].what # "catch"
           /\ L[k - 1] \notin breaks /\ L[k - 1].what # "catch"
  <2>1. k - 3 \in 1..k - 1 /\ \A i \in (k - 3) + 1..k - 1 : i = k - 1 \/ i = k - 2
    BY <1>3
  <2> QED
    BY <1>3, <2>1 DEF Will
<1> QED
  BY <1>1, <1>2, <1>3 DEF Near

Sound(L) == \A b \in Banks : Kept(L, Writes(b), {Bank(b)}, Selectors, FALSE)

LEMMA NoSelector ==
  \A i : i.what \notin {"bank", "step"} /\ (i.what \in {"pin", "output"} => i.arg # "reset")
         => i \notin Selectors
BY Classes, Names DEF Selectors, Wakes

LEMMA SoundNear ==
  ASSUME NEW L, Len(L) \in Nat,
         \A b \in Banks : \A k \in 1..Len(L) : L[k] \in Writes(b) => Near(L, k, {Bank(b)}, Selectors)
  PROVE  Sound(L)
<1> SUFFICES ASSUME NEW b \in Banks
             PROVE  Kept(L, Writes(b), {Bank(b)}, Selectors, FALSE)
  BY DEF Sound
<1>1. \A k \in 1..Len(L) : L[k] \in Writes(b) => Near(L, k, {Bank(b)}, Selectors)
  OBVIOUS
<1> QED
  BY <1>1, KeptNear, Zenon

LEMMA SoundPieces ==
  /\ Sound(Hpd(0))
  /\ Sound(Hpd(1))
  /\ Sound(InitRegs)
  /\ Sound(Reset)
  /\ Sound(Measure)
  /\ Sound(Poll)
  /\ Sound(Latch)
  /\ Sound(<<Bank(0), Write("auto", 0, 0)>>)
  /\ Sound(<<Bank(0), Write("auto", 0, 1)>>)
  /\ Sound(<<Bank(0), Batch(0), Write("frozen", 0, 1), Step("frozen")>>)
  /\ Sound(<<Bank(0), Step("frozen")>>)
  /\ Sound(<<Bank(3), Try(Batch(3)), Read, Try(Batch(3)), Try(Bank(0))>>)
<1>1. Sound(Hpd(0))
  <2> DEFINE M == Hpd(0)
  <2>1. Len(M) = 5 /\ Len(M) \in Nat
    BY DEF Hpd
  <2>2. ASSUME NEW b \in Banks, NEW k \in 1..Len(M), M[k] \in Writes(b)
        PROVE  Near(M, k, {Bank(b)}, Selectors)
    BY <2>1, <2>2, Fields, Names, NoSelector DEF Hpd, Writes, Near
  <2> HIDE DEF M
  <2>3. Sound(M)
    BY <2>1, <2>2, SoundNear
  <2> QED
    BY <2>3 DEF M
<1>2. Sound(Hpd(1))
  <2> DEFINE M == Hpd(1)
  <2>1. Len(M) = 5 /\ Len(M) \in Nat
    BY DEF Hpd
  <2>2. ASSUME NEW b \in Banks, NEW k \in 1..Len(M), M[k] \in Writes(b)
        PROVE  Near(M, k, {Bank(b)}, Selectors)
    BY <2>1, <2>2, Fields, Names, NoSelector DEF Hpd, Writes, Near
  <2> HIDE DEF M
  <2>3. Sound(M)
    BY <2>1, <2>2, SoundNear
  <2> QED
    BY <2>3 DEF M
<1>3. Sound(InitRegs)
  <2> DEFINE M == InitRegs
  <2>1. Len(M) = 21 /\ Len(M) \in Nat
    BY DEF InitRegs
  <2>2. ASSUME NEW b \in Banks, NEW k \in 1..Len(M), M[k] \in Writes(b)
        PROVE  Near(M, k, {Bank(b)}, Selectors)
    BY <2>1, <2>2, Fields, Names, NoSelector, SMTT(30) DEF InitRegs, Writes, Near
  <2> HIDE DEF M
  <2>3. Sound(M)
    BY <2>1, <2>2, SoundNear
  <2> QED
    BY <2>3 DEF M
<1>4. Sound(Reset)
  <2> DEFINE M == Reset
  <2>1. Len(M) = 4 /\ Len(M) \in Nat
    BY DEF Reset
  <2>2. ASSUME NEW b \in Banks, NEW k \in 1..Len(M), M[k] \in Writes(b)
        PROVE  Near(M, k, {Bank(b)}, Selectors)
    BY <2>1, <2>2, Fields, Names, NoSelector DEF Reset, Writes, Near
  <2> HIDE DEF M
  <2>3. Sound(M)
    BY <2>1, <2>2, SoundNear
  <2> QED
    BY <2>3 DEF M
<1>5. Sound(Measure)
  <2> DEFINE M == Measure
  <2>1. Len(M) = 4 /\ Len(M) \in Nat
    BY DEF Measure
  <2>2. ASSUME NEW b \in Banks, NEW k \in 1..Len(M), M[k] \in Writes(b)
        PROVE  Near(M, k, {Bank(b)}, Selectors)
    BY <2>1, <2>2, Fields, Names, NoSelector DEF Measure, Writes, Near
  <2> HIDE DEF M
  <2>3. Sound(M)
    BY <2>1, <2>2, SoundNear
  <2> QED
    BY <2>3 DEF M
<1>6. Sound(Poll)
  <2> DEFINE M == Poll
  <2>1. Len(M) = 3 /\ Len(M) \in Nat
    BY DEF Poll
  <2>2. ASSUME NEW b \in Banks, NEW k \in 1..Len(M), M[k] \in Writes(b)
        PROVE  Near(M, k, {Bank(b)}, Selectors)
    BY <2>1, <2>2, Fields, Names, NoSelector DEF Poll, Writes, Near
  <2> HIDE DEF M
  <2>3. Sound(M)
    BY <2>1, <2>2, SoundNear
  <2> QED
    BY <2>3 DEF M
<1>7. Sound(Latch)
  <2> DEFINE M == Latch
  <2>1. Len(M) = 4 /\ Len(M) \in Nat
    BY DEF Latch
  <2>2. ASSUME NEW b \in Banks, NEW k \in 1..Len(M), M[k] \in Writes(b)
        PROVE  Near(M, k, {Bank(b)}, Selectors)
    BY <2>1, <2>2, Fields, Names, NoSelector DEF Latch, Writes, Near
  <2> HIDE DEF M
  <2>3. Sound(M)
    BY <2>1, <2>2, SoundNear
  <2> QED
    BY <2>3 DEF M
<1>8. Sound(<<Bank(0), Write("auto", 0, 0)>>)
  <2> DEFINE M == <<Bank(0), Write("auto", 0, 0)>>
  <2>1. Len(M) = 2 /\ Len(M) \in Nat
    OBVIOUS
  <2>2. ASSUME NEW b \in Banks, NEW k \in 1..Len(M), M[k] \in Writes(b)
        PROVE  Near(M, k, {Bank(b)}, Selectors)
    BY <2>1, <2>2, Fields, Names, NoSelector DEF Writes, Near
  <2> HIDE DEF M
  <2>3. Sound(M)
    BY <2>1, <2>2, SoundNear
  <2> QED
    BY <2>3 DEF M
<1>9. Sound(<<Bank(0), Write("auto", 0, 1)>>)
  <2> DEFINE M == <<Bank(0), Write("auto", 0, 1)>>
  <2>1. Len(M) = 2 /\ Len(M) \in Nat
    OBVIOUS
  <2>2. ASSUME NEW b \in Banks, NEW k \in 1..Len(M), M[k] \in Writes(b)
        PROVE  Near(M, k, {Bank(b)}, Selectors)
    BY <2>1, <2>2, Fields, Names, NoSelector DEF Writes, Near
  <2> HIDE DEF M
  <2>3. Sound(M)
    BY <2>1, <2>2, SoundNear
  <2> QED
    BY <2>3 DEF M
<1>10. Sound(<<Bank(0), Batch(0), Write("frozen", 0, 1), Step("frozen")>>)
  <2> DEFINE M == <<Bank(0), Batch(0), Write("frozen", 0, 1), Step("frozen")>>
  <2>1. Len(M) = 4 /\ Len(M) \in Nat
    OBVIOUS
  <2>2. ASSUME NEW b \in Banks, NEW k \in 1..Len(M), M[k] \in Writes(b)
        PROVE  Near(M, k, {Bank(b)}, Selectors)
    BY <2>1, <2>2, Fields, Names, NoSelector DEF Writes, Near
  <2> HIDE DEF M
  <2>3. Sound(M)
    BY <2>1, <2>2, SoundNear
  <2> QED
    BY <2>3 DEF M
<1>11. Sound(<<Bank(0), Step("frozen")>>)
  <2> DEFINE M == <<Bank(0), Step("frozen")>>
  <2>1. Len(M) = 2 /\ Len(M) \in Nat
    OBVIOUS
  <2>2. ASSUME NEW b \in Banks, NEW k \in 1..Len(M), M[k] \in Writes(b)
        PROVE  Near(M, k, {Bank(b)}, Selectors)
    BY <2>1, <2>2, Fields, Names, NoSelector DEF Writes, Near
  <2> HIDE DEF M
  <2>3. Sound(M)
    BY <2>1, <2>2, SoundNear
  <2> QED
    BY <2>3 DEF M
<1>12. Sound(<<Bank(3), Try(Batch(3)), Read, Try(Batch(3)), Try(Bank(0))>>)
  <2> DEFINE M == <<Bank(3), Try(Batch(3)), Read, Try(Batch(3)), Try(Bank(0))>>
  <2>1. Len(M) = 5 /\ Len(M) \in Nat
    OBVIOUS
  <2>2. ASSUME NEW b \in Banks, NEW k \in 1..Len(M), M[k] \in Writes(b)
        PROVE  Near(M, k, {Bank(b)}, Selectors)
    BY <2>1, <2>2, Fields, Names, NoSelector DEF Writes, Near
  <2> HIDE DEF M
  <2>3. Sound(M)
    BY <2>1, <2>2, SoundNear
  <2> QED
    BY <2>3 DEF M
<1> QED
  BY <1>1, <1>2, <1>3, <1>4, <1>5, <1>6, <1>7, <1>8, <1>9, <1>10, <1>11, <1>12

LEMMA SoundJoin ==
  ASSUME NEW X \in Seq(All), NEW L \in Seq(All), Sound(X), Sound(L) PROVE Sound(X \o L)
<1> SUFFICES ASSUME NEW b \in Banks
             PROVE  Kept(X \o L, Writes(b), {Bank(b)}, Selectors, FALSE)
  BY DEF Sound
<1>1. /\ Kept(X, Writes(b), {Bank(b)}, Selectors, FALSE)
      /\ Kept(L, Writes(b), {Bank(b)}, Selectors, FALSE)
  BY DEF Sound
<1> QED
  BY <1>1, KeptJoin, Zenon

(* A list that writes nothing.                                             *)
LEMMA SoundNone ==
  ASSUME NEW L, \A k \in 1..Len(L) : L[k].what # "write" /\ L[k] # Step("frozen")
  PROVE  Sound(L)
BY DEF Sound, Kept, Writes

-----------------------------------------------------------------------------
(***************************************************************************)
(* Types.                                                                  *)
(***************************************************************************)
Passing ==
    \/ Command \/ Unready \/ (Alive /\ (chip.alive \/ AtStep("again"))) \/ Ready
    \/ Refuse \/ CatchError \/ Late \/ Matched \/ Expire \/ Known
Splicing == Edid \/ Frozen \/ (Alive /\ AtStep("alive") /\ ~chip.alive)
Fetching == PollUnlocked \/ PollLocked \/ PollMatched \/ LockRead \/ WatchJudge \/ Diag
Beginning ==
    \/ BeginBringup \/ BeginReload \/ BeginPulse \/ BeginSignal \/ BeginLock \/ BeginWatch
    \/ BeginDiag \/ BeginCsc \/ BeginColour \/ BeginRamtest
Leaving == End \/ Note \/ Borrow \/ Scan

LEMMA Actions == Next => Passing \/ Splicing \/ Fetching \/ Beginning \/ Leaving
<1>1. Alive => AtStep("alive") \/ AtStep("again")
  BY DEF Alive
<1>2. Decide => Passing \/ Splicing \/ Fetching
  BY <1>1 DEF Decide, Passing, Splicing, Fetching
<1> QED
  BY <1>2 DEF Next, Operation, Passing, Beginning, Leaving

LEMMA FirstItem ==
  ASSUME Typed, todo # << >>
  PROVE  /\ Head(todo) \in All /\ Belongs(Head(todo), op) /\ Head(todo) = todo[1]
         /\ op \in Operations /\ 1 \in 1..Len(todo)
         /\ Tail(todo) \in Seq(Vocabulary(op))
<1>1. Head(todo) \in Vocabulary(op) /\ Head(todo) = todo[1] /\ 1 \in 1..Len(todo)
  BY TailPlaces DEF Typed
<1>2. Tail(todo) \in Seq(Vocabulary(op))
  BY TailPlaces DEF Typed
<1> QED
  BY <1>1, <1>2 DEF Typed, Vocabulary, Belongs

LEMMA Idle == ASSUME Typed, op = "idle" PROVE todo = << >>
BY FirstItem DEF Belongs

LEMMA PassingPasses == ASSUME Typed, Passing PROVE Passes /\ op' = op /\ op # "idle"
<1>1. CASE Command
  BY <1>1 DEF Command, Passes, control
<1>2. CASE CatchError
  <2>1. todo # << >> /\ Head(todo).what = "catch"
    BY <1>2 DEF CatchError
  <2>2. Head(todo).arg = "mux" => Head(todo) = Catch("mux")
    BY <2>1, FirstItem, Kinds, Names DEF Catches
  <2> QED
    BY <1>2, <2>2 DEF CatchError, Passes, callers, Rest
<1>3. CASE Late
  BY <1>3 DEF Late, Passes, callers, Goes, Rest, AtStep
<1>4. CASE Unready \/ Ready \/ Refuse \/ Matched \/ Expire \/ Known
  BY <1>4 DEF Unready, Ready, Refuse, Matched, Expire, Known, Passes, callers,
     Goes, Rest, AtStep
<1>5. CASE Alive /\ (chip.alive \/ AtStep("again"))
  BY <1>5, Names DEF Alive, Passes, Goes, Rest, AtStep
<1> QED
  BY <1>1, <1>2, <1>3, <1>4, <1>5 DEF Passing

LEMMA FollowedTail ==
  ASSUME NEW S, NEW L \in Seq(S), L # << >>, Followed(L) PROVE Followed(Tail(L))
<1> SUFFICES ASSUME NEW k \in 1..Len(Tail(L))
             PROVE  /\ Tail(L)[k] = Catch("mux") =>
                         k < Len(Tail(L)) /\ Tail(L)[k + 1] = Try(SetPin("mux", 0))
                    /\ Tail(L)[k] = Step("late") =>
                         k < Len(Tail(L)) /\ Tail(L)[k + 1] = Batch(0)
  BY DEF Followed
<1>1. /\ k + 1 \in 1..Len(L) /\ Tail(L)[k] = L[k + 1] /\ Len(Tail(L)) = Len(L) - 1
      /\ k + 1 < Len(L) => Tail(L)[k + 1] = L[(k + 1) + 1]
  BY TailPlaces
<1> QED
  BY <1>1 DEF Followed

LEMMA FollowedCaught ==
  ASSUME NEW S, NEW L \in Seq(S), Followed(L) PROVE Followed(Caught(L))
<1> DEFINE J == Caught(L)
<1>1. CASE J = << >>
  BY <1>1 DEF Followed
<1>2. CASE J # << >>
  <2>1. PICK c \in 1..Len(L) :
           /\ Len(J) = Len(L) - c + 1
           /\ \A i \in 1..Len(L) - c + 1 : J[i] = L[i + c - 1]
    BY <1>2, JumpPlaces
  <2> HIDE DEF J
  <2> SUFFICES ASSUME NEW k \in 1..Len(J)
               PROVE  /\ J[k] = Catch("mux") =>
                           k < Len(J) /\ J[k + 1] = Try(SetPin("mux", 0))
                      /\ J[k] = Step("late") => k < Len(J) /\ J[k + 1] = Batch(0)
    BY DEF Followed, J
  <2> DEFINE n == k + c - 1
  <2>2. n \in 1..Len(L) /\ J[k] = L[n] /\ (k < Len(J) <=> n < Len(L))
    <3>1. k \in 1..Len(L) - c + 1 /\ n \in 1..Len(L) /\ (k < Len(J) <=> n < Len(L))
      BY <2>1
    <3> QED
      BY <2>1, <3>1
  <2>3. k < Len(J) => J[k + 1] = L[n + 1]
    <3>1. k < Len(J) => k + 1 \in 1..Len(L) - c + 1 /\ (k + 1) + c - 1 = n + 1
      BY <2>1
    <3> QED
      BY <2>1, <3>1
  <2> HIDE DEF n
  <2> QED
    BY <2>2, <2>3 DEF Followed
<1> QED
  BY <1>1, <1>2

LEMMA FollowedJoin ==
  ASSUME NEW S, NEW X \in Seq(S), NEW L \in Seq(S), Followed(X), Followed(L)
  PROVE  Followed(X \o L)
<1> DEFINE M == X \o L
           n == Len(X)
<1>1. /\ n \in Nat /\ Len(L) \in Nat /\ Len(M) = n + Len(L)
      /\ \A i \in 1..n : M[i] = X[i]
      /\ \A i \in 1..Len(L) : M[n + i] = L[i]
  BY JoinPlaces
<1> SUFFICES ASSUME NEW k \in 1..Len(M)
             PROVE  /\ M[k] = Catch("mux") =>
                         k < Len(M) /\ M[k + 1] = Try(SetPin("mux", 0))
                    /\ M[k] = Step("late") => k < Len(M) /\ M[k + 1] = Batch(0)
  BY DEF Followed
<1> HIDE DEF M
<1>2. CASE k \in 1..n
  <2>1. k < n => k + 1 \in 1..n /\ k < Len(M)
    BY <1>1, <1>2
  <2>2. M[k] = X[k] /\ (k < n => M[k + 1] = X[k + 1])
    BY <1>1, <1>2, <2>1
  <2> QED
    BY <1>2, <2>1, <2>2 DEF Followed
<1>3. CASE k \notin 1..n
  <2>1. PICK m \in 1..Len(L) : k = n + m
    <3>1. k - n \in 1..Len(L) /\ k = n + (k - n)
      BY <1>1, <1>3
    <3> QED
      BY <3>1
  <2>2. M[k] = L[m] /\ (m < Len(L) => M[k + 1] = L[m + 1] /\ k < Len(M))
    <3>1. m < Len(L) => m + 1 \in 1..Len(L) /\ n + (m + 1) = k + 1
      BY <1>1, <2>1
    <3> QED
      BY <1>1, <2>1, <3>1
  <2> QED
    BY <2>2 DEF Followed
<1> QED
  BY <1>2, <1>3

LEMMA FollowedNone ==
  ASSUME NEW L, \A k \in 1..Len(L) : L[k] # Catch("mux") /\ L[k] # Step("late")
  PROVE  Followed(L)
BY DEF Followed

LEMMA PassesList ==
  ASSUME NEW S, todo \in Seq(S), Followed(todo), Passes
  PROVE  todo' \in Seq(S) /\ Followed(todo')
<1> DEFINE R == Tail(todo)
<1>1. todo # << >> /\ R \in Seq(S) /\ Followed(R) /\ Head(todo) = todo[1]
      /\ 1 \in 1..Len(todo)
  BY TailPlaces, FollowedTail DEF Passes
<1>2. Caught(R) \in Seq(S) /\ Followed(Caught(R))
  BY <1>1, CaughtList, FollowedCaught
<1>3. << >> \in Seq(S) /\ Followed(<< >>)
  BY FollowedNone
<1>4. CASE AtStep("late") /\ todo' = Tail(R)
  <2>1. todo[1] = Step("late")
    BY <1>1, <1>4 DEF AtStep
  <2>2. 1 < Len(todo)
    BY <1>1, <2>1 DEF Followed
  <2>3. R # << >> /\ Tail(R) \in Seq(S)
    BY <1>1, <2>2, SecondPlace
  <2> HIDE DEF R
  <2>4. Followed(Tail(R))
    BY <1>1, <2>3, FollowedTail
  <2> QED
    BY <1>4, <2>3, <2>4
<1>5. CASE Head(todo) = Catch("mux") /\ todo' = <<Head(R)>> \o Caught(Tail(R))
  <2>1. todo[1] = Catch("mux")
    BY <1>1, <1>5
  <2>2. 1 < Len(todo) /\ todo[2] = Try(SetPin("mux", 0))
    BY <1>1, <2>1 DEF Followed
  <2>3. R # << >> /\ Tail(R) \in Seq(S) /\ Head(R) = Try(SetPin("mux", 0)) /\ Head(R) \in S
    BY <1>1, <2>2, SecondPlace
  <2> HIDE DEF R
  <2>4. Followed(Tail(R))
    BY <1>1, <2>3, FollowedTail
  <2>5. Caught(Tail(R)) \in Seq(S) /\ Followed(Caught(Tail(R)))
    BY <2>3, <2>4, CaughtList, FollowedCaught
  <2>6. <<Head(R)>> \in Seq(S) /\ Followed(<<Head(R)>>)
    <3>1. Head(R) # Catch("mux") /\ Head(R) # Step("late")
      BY <2>3, Names, Fields
    <3>2. \A k \in 1..Len(<<Head(R)>>) : <<Head(R)>>[k] = Head(R)
      OBVIOUS
    <3>3. Followed(<<Head(R)>>)
      BY <3>1, <3>2 DEF Followed
    <3> QED
      BY <2>3, <3>3
  <2>7. /\ <<Head(R)>> \o Caught(Tail(R)) \in Seq(S)
        /\ Followed(<<Head(R)>> \o Caught(Tail(R)))
    BY <2>5, <2>6, JoinPlaces, FollowedJoin
  <2> QED
    BY <1>5, <2>7
<1> HIDE DEF R
<1> QED
  BY <1>1, <1>2, <1>3, <1>4, <1>5 DEF Passes, R

(* What an item is replaced with.                                          *)
Splice ==
    IF AtStep("edid")
    THEN LoadEdid \o (IF op = "bringup" THEN <<Catch("edid")>> ELSE << >>)
    ELSE IF AtStep("frozen") THEN Retime ELSE Reset \o <<Bank(0), Step("again")>>

LEMMA StepOwners ==
  ASSUME Typed, NEW name, AtStep(name)
  PROVE  /\ todo # << >> /\ Head(todo) = Step(name) /\ op # "idle"
         /\ name \in {"unready", "alive", "again", "ready"} => op = "bringup"
         /\ name \in {"edid", "refuse"} => op \in Loaders
         /\ name \in {"poll", "judge", "frozen", "late", "matched", "expire"} =>
               op = "signal"
         /\ name = "lock" => op = "lock"
         /\ name = "watch" => op = "watch"
         /\ name = "diag" => op = "diag"
         /\ name = "known" => op \in {"diag", "colour"}
BY FirstItem, Names DEF AtStep, Belongs

LEMMA FollowedLoad == ASSUME Chunks \in Nat PROVE Followed(LoadEdid) /\ Followed(<<Catch("edid")>>)
<1>1. Followed(<<Catch("edid")>>) /\ Followed(<<Step("refuse")>>)
  BY Names DEF Followed
<1>2. Followed(<<Try(Output("mux")), Try(SetPin("mux", 1))>>)
  BY Fields, Names DEF Followed
<1>3. Followed([i \in 1..Chunks |-> Item("edid", "none", i)])
  BY Fields, Names DEF Followed
<1>4. Followed(<<Catch("mux"), Try(SetPin("mux", 0))>>)
  BY Fields, Names DEF Followed
<1>5. /\ [i \in 1..Chunks |-> Item("edid", "none", i)] \in Seq(All)
      /\ <<Catch("mux"), Try(SetPin("mux", 0))>> \in Seq(All)
      /\ <<Try(Output("mux")), Try(SetPin("mux", 1))>> \in Seq(All)
      /\ <<Step("refuse")>> \in Seq(All)
  <2>1. Catch("mux") \in All /\ Step("refuse") \in All
    BY DEF All, Catches, Markers
  <2>2. Try(Output("mux")) \in All /\ Try(SetPin("mux", 0)) \in All
        /\ Try(SetPin("mux", 1)) \in All
    BY DEF All, Drives, Muxes
  <2>3. \A i \in 1..Chunks : Item("edid", "none", i) \in All
    BY DEF All, EdidChunks
  <2> QED
    BY <2>1, <2>2, <2>3
<1> DEFINE A == [i \in 1..Chunks |-> Item("edid", "none", i)]
           B == <<Catch("mux"), Try(SetPin("mux", 0))>>
           C == <<Try(Output("mux")), Try(SetPin("mux", 1))>>
           D == <<Step("refuse")>>
<1>6. LoadEdid = C \o (IF opt.async THEN D ELSE A \o B)
  BY DEF LoadEdid
<1> HIDE DEF A, B, C, D
<1>7. Followed(A \o B) /\ A \o B \in Seq(All)
  BY <1>3, <1>4, <1>5, FollowedJoin, JoinPlaces DEF A, B
<1>8. Followed(C \o (A \o B)) /\ Followed(C \o D)
  BY <1>1, <1>2, <1>5, <1>7, FollowedJoin DEF C, D
<1> QED
  BY <1>1, <1>6, <1>8

Tame(L) == L \in Seq(All) /\ Sound(L) /\ Followed(L)

LEMMA TameJoin == ASSUME NEW X, NEW L, Tame(X), Tame(L) PROVE Tame(X \o L)
BY JoinPlaces, SoundJoin, FollowedJoin DEF Tame

LEMMA Alphabet ==
  /\ \A b \in Banks : /\ Bank(b) \in All /\ Try(Bank(b)) \in All
                      /\ Batch(b) \in All /\ Try(Batch(b)) \in All
  /\ 0 \in Banks /\ 1 \in Banks /\ 2 \in Banks /\ 3 \in Banks /\ 128 \in Banks
  /\ Read \in All
  /\ \A bit \in {0, 1} : /\ Write("hpd", 0, bit) \in All /\ Write("auto", 0, bit) \in All
                         /\ Write("frozen", 0, bit) \in All /\ Write("latch", 2, bit) \in All
                         /\ SetPin("hpd", bit) \in All /\ SetPin("reset", bit) \in All
  /\ Output("hpd") \in All /\ Output("reset") \in All
  /\ \A name \in {"unready", "alive", "again", "ready", "edid", "refuse", "poll", "judge",
                   "frozen", "late", "matched", "expire", "lock", "watch", "diag", "known"} :
        Step(name) \in All
  /\ \A name \in {"mux", "edid", "thaw", "end", "forget"} : Catch(name) \in All
<1>1. /\ \A b \in Banks : /\ Bank(b) \in All /\ Try(Bank(b)) \in All
                          /\ Batch(b) \in All /\ Try(Batch(b)) \in All
      /\ Read \in All
  BY DEF All, Banking, Batches
<1>2. 0 \in Banks /\ 1 \in Banks /\ 2 \in Banks /\ 3 \in Banks /\ 128 \in Banks
  BY DEF Banks
<1>3. \A bit \in {0, 1} : /\ Write("hpd", 0, bit) \in All /\ Write("auto", 0, bit) \in All
                         /\ Write("frozen", 0, bit) \in All /\ Write("latch", 2, bit) \in All
  BY DEF All, HpdWrites, AutoWrites, FrozenWrites, LatchWrites
<1>4. /\ \A bit \in {0, 1} : SetPin("hpd", bit) \in All /\ SetPin("reset", bit) \in All
      /\ Output("hpd") \in All /\ Output("reset") \in All
  BY DEF All, HpdPins, ResetPins, Drives
<1>5. \A name \in {"unready", "alive", "again", "ready", "edid", "refuse", "poll", "judge",
                   "frozen", "late", "matched", "expire", "lock", "watch", "diag", "known"} :
        Step(name) \in All
  BY DEF All, Markers
<1>6. \A name \in {"mux", "edid", "thaw", "end", "forget"} : Catch(name) \in All
  BY DEF All, Catches
<1> QED
  BY <1>1, <1>2, <1>3, <1>4, <1>5, <1>6

LEMMA TamePieces ==
  /\ Tame(Hpd(0))
  /\ Tame(Hpd(1))
  /\ Tame(InitRegs)
  /\ Tame(Reset)
  /\ Tame(Measure)
  /\ Tame(Poll)
  /\ Tame(Latch)
  /\ Tame(<<Bank(0), Write("auto", 0, 0)>>)
  /\ Tame(<<Bank(0), Write("auto", 0, 1)>>)
  /\ Tame(<<Bank(0), Batch(0), Write("frozen", 0, 1), Step("frozen")>>)
  /\ Tame(<<Bank(0), Step("frozen")>>)
  /\ Tame(<<Bank(3), Try(Batch(3)), Read, Try(Batch(3)), Try(Bank(0))>>)
  /\ Tame(<< >>)
  /\ Tame(<<Bank(0), Read>>)
  /\ Tame(<<Bank(0), Step("alive")>>)
  /\ Tame(<<Bank(0), Step("again")>>)
  /\ Tame(<<Bank(2), Step("known"), Try(Bank(0)), Catch("forget"), Bank(1), Try(Bank(0))>>)
  /\ Tame(<<Bank(2), Read, Step("known"), Catch("end"), Try(Bank(0))>>)
  /\ \A name \in {"unready", "ready", "edid", "poll", "judge", "matched", "expire", "lock",
                   "watch", "diag"} : Tame(<<Step(name)>>)
<1> USE Alphabet
<1>1. Tame(Hpd(0))
  <2>1. Hpd(0) \in Seq(All)
    BY DEF Hpd
  <2>2. Followed(Hpd(0))
    BY Names, Fields DEF Followed, Hpd
  <2> QED
    BY <2>1, <2>2, SoundPieces DEF Tame
<1>2. Tame(Hpd(1))
  <2>1. Hpd(1) \in Seq(All)
    BY DEF Hpd
  <2>2. Followed(Hpd(1))
    BY Names, Fields DEF Followed, Hpd
  <2> QED
    BY <2>1, <2>2, SoundPieces DEF Tame
<1>3. Tame(InitRegs)
  <2>1. InitRegs \in Seq(All)
    BY DEF InitRegs
  <2>2. Followed(InitRegs)
    BY Names, Fields DEF Followed, InitRegs
  <2> QED
    BY <2>1, <2>2, SoundPieces DEF Tame
<1>4. Tame(Reset)
  <2>1. Reset \in Seq(All)
    BY DEF Reset
  <2>2. Followed(Reset)
    BY Names, Fields DEF Followed, Reset
  <2> QED
    BY <2>1, <2>2, SoundPieces DEF Tame
<1>5. Tame(Measure)
  <2>1. Measure \in Seq(All)
    BY DEF Measure
  <2>2. Followed(Measure)
    BY Names, Fields DEF Followed, Measure
  <2> QED
    BY <2>1, <2>2, SoundPieces DEF Tame
<1>6. Tame(Poll)
  <2>1. Poll \in Seq(All)
    BY DEF Poll
  <2>2. Followed(Poll)
    BY Names, Fields DEF Followed, Poll
  <2> QED
    BY <2>1, <2>2, SoundPieces DEF Tame
<1>7. Tame(Latch)
  <2>1. Latch \in Seq(All)
    BY DEF Latch
  <2>2. Followed(Latch)
    BY Names, Fields DEF Followed, Latch
  <2> QED
    BY <2>1, <2>2, SoundPieces DEF Tame
<1>8. Tame(<<Bank(0), Write("auto", 0, 0)>>)
  <2>1. <<Bank(0), Write("auto", 0, 0)>> \in Seq(All)
    OBVIOUS
  <2>2. Followed(<<Bank(0), Write("auto", 0, 0)>>)
    BY Names, Fields DEF Followed
  <2> QED
    BY <2>1, <2>2, SoundPieces DEF Tame
<1>9. Tame(<<Bank(0), Write("auto", 0, 1)>>)
  <2>1. <<Bank(0), Write("auto", 0, 1)>> \in Seq(All)
    OBVIOUS
  <2>2. Followed(<<Bank(0), Write("auto", 0, 1)>>)
    BY Names, Fields DEF Followed
  <2> QED
    BY <2>1, <2>2, SoundPieces DEF Tame
<1>10. Tame(<<Bank(0), Batch(0), Write("frozen", 0, 1), Step("frozen")>>)
  <2>1. <<Bank(0), Batch(0), Write("frozen", 0, 1), Step("frozen")>> \in Seq(All)
    OBVIOUS
  <2>2. Followed(<<Bank(0), Batch(0), Write("frozen", 0, 1), Step("frozen")>>)
    BY Names, Fields DEF Followed
  <2> QED
    BY <2>1, <2>2, SoundPieces DEF Tame
<1>11. Tame(<<Bank(0), Step("frozen")>>)
  <2>1. <<Bank(0), Step("frozen")>> \in Seq(All)
    OBVIOUS
  <2>2. Followed(<<Bank(0), Step("frozen")>>)
    BY Names, Fields DEF Followed
  <2> QED
    BY <2>1, <2>2, SoundPieces DEF Tame
<1>12. Tame(<<Bank(3), Try(Batch(3)), Read, Try(Batch(3)), Try(Bank(0))>>)
  <2>1. <<Bank(3), Try(Batch(3)), Read, Try(Batch(3)), Try(Bank(0))>> \in Seq(All)
    OBVIOUS
  <2>2. Followed(<<Bank(3), Try(Batch(3)), Read, Try(Batch(3)), Try(Bank(0))>>)
    BY Names, Fields DEF Followed
  <2> QED
    BY <2>1, <2>2, SoundPieces DEF Tame
<1>13. Tame(<< >>)
  <2> DEFINE M == << >>
  <2>1. M \in Seq(All)
    OBVIOUS
  <2>2. \A k \in 1..Len(M) : M[k].what # "write" /\ M[k] # Step("frozen")
    BY Names, Fields
  <2>3. Followed(M)
    BY Names, Fields DEF Followed
  <2> HIDE DEF M
  <2>4. Tame(M)
    BY <2>1, <2>2, <2>3, SoundNone DEF Tame
  <2> QED
    BY <2>4 DEF M
<1>14. Tame(<<Bank(0), Read>>)
  <2> DEFINE M == <<Bank(0), Read>>
  <2>1. M \in Seq(All)
    OBVIOUS
  <2>2. \A k \in 1..Len(M) : M[k].what # "write" /\ M[k] # Step("frozen")
    BY Names, Fields
  <2>3. Followed(M)
    BY Names, Fields DEF Followed
  <2> HIDE DEF M
  <2>4. Tame(M)
    BY <2>1, <2>2, <2>3, SoundNone DEF Tame
  <2> QED
    BY <2>4 DEF M
<1>15. Tame(<<Bank(0), Step("alive")>>)
  <2> DEFINE M == <<Bank(0), Step("alive")>>
  <2>1. M \in Seq(All)
    OBVIOUS
  <2>2. \A k \in 1..Len(M) : M[k].what # "write" /\ M[k] # Step("frozen")
    BY Names, Fields
  <2>3. Followed(M)
    BY Names, Fields DEF Followed
  <2> HIDE DEF M
  <2>4. Tame(M)
    BY <2>1, <2>2, <2>3, SoundNone DEF Tame
  <2> QED
    BY <2>4 DEF M
<1>16. Tame(<<Bank(0), Step("again")>>)
  <2> DEFINE M == <<Bank(0), Step("again")>>
  <2>1. M \in Seq(All)
    OBVIOUS
  <2>2. \A k \in 1..Len(M) : M[k].what # "write" /\ M[k] # Step("frozen")
    BY Names, Fields
  <2>3. Followed(M)
    BY Names, Fields DEF Followed
  <2> HIDE DEF M
  <2>4. Tame(M)
    BY <2>1, <2>2, <2>3, SoundNone DEF Tame
  <2> QED
    BY <2>4 DEF M
<1>17. Tame(<<Bank(2), Step("known"), Try(Bank(0)), Catch("forget"), Bank(1), Try(Bank(0))>>)
  <2> DEFINE M == <<Bank(2), Step("known"), Try(Bank(0)), Catch("forget"), Bank(1), Try(Bank(0))>>
  <2>1. M \in Seq(All)
    OBVIOUS
  <2>2. \A k \in 1..Len(M) : M[k].what # "write" /\ M[k] # Step("frozen")
    BY Names, Fields
  <2>3. Followed(M)
    BY Names, Fields DEF Followed
  <2> HIDE DEF M
  <2>4. Tame(M)
    BY <2>1, <2>2, <2>3, SoundNone DEF Tame
  <2> QED
    BY <2>4 DEF M
<1>18. Tame(<<Bank(2), Read, Step("known"), Catch("end"), Try(Bank(0))>>)
  <2> DEFINE M == <<Bank(2), Read, Step("known"), Catch("end"), Try(Bank(0))>>
  <2>1. M \in Seq(All)
    OBVIOUS
  <2>2. \A k \in 1..Len(M) : M[k].what # "write" /\ M[k] # Step("frozen")
    BY Names, Fields
  <2>3. Followed(M)
    BY Names, Fields DEF Followed
  <2> HIDE DEF M
  <2>4. Tame(M)
    BY <2>1, <2>2, <2>3, SoundNone DEF Tame
  <2> QED
    BY <2>4 DEF M
<1>19. ASSUME NEW name \in {"unready", "ready", "edid", "poll", "judge", "matched", "expire",
                         "lock", "watch", "diag"}
      PROVE  Tame(<<Step(name)>>)
  <2> DEFINE M == <<Step(name)>>
  <2>1. M \in Seq(All)
    OBVIOUS
  <2>2. \A k \in 1..Len(M) : M[k].what # "write" /\ M[k] # Step("frozen")
    BY Names, Fields
  <2>3. Followed(M)
    BY Names, Fields DEF Followed
  <2> HIDE DEF M
  <2>4. Tame(M)
    BY <2>1, <2>2, <2>3, SoundNone DEF Tame
  <2> QED
    BY <2>4 DEF M
<1> QED
  BY <1>1, <1>2, <1>3, <1>4, <1>5, <1>6, <1>7, <1>8, <1>9, <1>10, <1>11, <1>12, <1>13,
     <1>14, <1>15, <1>16, <1>17, <1>18, <1>19

LEMMA TameLists ==
  /\ Tame(Present) /\ Tame(Pulse) /\ Tame(Bringup) /\ Tame(Commit)
  /\ \A on \in {0, 1} : \A list \in AutoPosition(on) : Tame(list)
<1>1. Tame(Present) /\ Tame(Pulse)
  BY TamePieces, TameJoin DEF Present, Pulse
<1>2. Tame(Bringup)
  <2>1. Tame(<<Step("unready")>> \o Reset)
    BY TamePieces, TameJoin
  <2>3. Tame((<<Step("unready")>> \o Reset) \o <<Bank(0), Step("alive")>>)
    BY <2>1, TamePieces, TameJoin
  <2>4. Tame(((<<Step("unready")>> \o Reset) \o <<Bank(0), Step("alive")>>) \o InitRegs)
    BY <2>3, TamePieces, TameJoin
  <2>5. Tame((((<<Step("unready")>> \o Reset) \o <<Bank(0), Step("alive")>>) \o InitRegs)
             \o Present)
    BY <1>1, <2>4, TameJoin
  <2> QED
    BY <2>5, TamePieces, TameJoin DEF Bringup
<1>3. Tame(Commit)
  <2> DEFINE A == <<Bank(0)>>
             F == <<Batch(0), Write("frozen", 0, 1)>>
             S == <<Step("frozen")>>
             L == IF locked THEN << >> ELSE Latch
             G == IF opt.windows THEN << >> ELSE F
  <2>1. /\ A \in Seq(All) /\ F \in Seq(All) /\ S \in Seq(All) /\ A \o F \in Seq(All)
        /\ << >> \in Seq(All)
    BY Alphabet
  <2>2. Tame(A \o S)
    <3>1. /\ A \o S \in Seq(All) /\ Len(A \o S) = Len(<<Bank(0), Step("frozen")>>)
          /\ \A i \in 1..Len(A \o S) : (A \o S)[i] = <<Bank(0), Step("frozen")>>[i]
          /\ <<Bank(0), Step("frozen")>> \in Seq(All)
      BY Alphabet
    <3> HIDE DEF A, S
    <3> QED
      BY <3>1, SeqEqual, TamePieces
  <2>3. Tame((A \o F) \o S)
    <3> DEFINE M == <<Bank(0), Batch(0), Write("frozen", 0, 1), Step("frozen")>>
    <3>1. /\ (A \o F) \o S \in Seq(All) /\ Len((A \o F) \o S) = Len(M)
          /\ \A i \in 1..Len((A \o F) \o S) : ((A \o F) \o S)[i] = M[i]
          /\ M \in Seq(All)
      BY Alphabet
    <3>2. Tame(M)
      BY TamePieces
    <3> HIDE DEF A, F, S, M
    <3> QED
      BY <3>1, <3>2, SeqEqual
  <2>4. Tame(L)
    BY TamePieces
  <2>5. Commit = ((L \o A) \o G) \o S
    BY DEF Commit
  <2>8. \A X, Y, Z \in Seq(All) : (X \o Y) \o Z = X \o (Y \o Z)
    BY ConcatAssociative, SMTT(30)
  <2> HIDE DEF A, F, S, L
  <2>6. CASE opt.windows
    <3>1. Commit = (L \o A) \o S
      <4>1. L \o A \in Seq(All)
        BY <2>1, <2>4 DEF Tame
      <4> QED
        BY <2>5, <2>6, <4>1, ConcatEmptySeq
    <3>2. (L \o A) \o S = L \o (A \o S)
      BY <2>1, <2>4, <2>8 DEF Tame
    <3> QED
      BY <2>2, <2>4, <3>1, <3>2, TameJoin
  <2>7. CASE ~opt.windows
    <3>1. Commit = ((L \o A) \o F) \o S
      BY <2>5, <2>7
    <3>2. (L \o A) \o F = L \o (A \o F)
      <4>1. L \in Seq(All)
        BY <2>4 DEF Tame
      <4> QED
        BY <2>1, <2>8, <4>1
    <3>3. (L \o (A \o F)) \o S = L \o ((A \o F) \o S)
      <4>1. L \in Seq(All)
        BY <2>4 DEF Tame
      <4>2. \A X \in Seq(All) : (L \o X) \o S = L \o (X \o S)
        BY <2>1, <2>8, <4>1, SMTT(30)
      <4>3. A \o F \in Seq(All)
        BY <2>1
      <4> QED
        BY <4>2, <4>3, Zenon
    <3> QED
      BY <2>3, <2>4, <3>1, <3>2, <3>3, TameJoin
  <2> QED
    BY <2>6, <2>7
<1>4. \A on \in {0, 1} : \A list \in AutoPosition(on) : Tame(list)
  BY TamePieces DEF AutoPosition
<1> QED
  BY <1>1, <1>2, <1>3, <1>4

(* What the driver sets out to do is made of its items and selects its     *)
(* banks; only apply_csc_mode trusts the bank.                             *)
Settable(list, o) ==
    list \in Seq(Vocabulary(o)) /\ Followed(list) /\ (o # "csc" => Sound(list))

LEMMA Fetched ==
  ASSUME Typed, Fetching, Chunks \in Nat
  PROVE  op' = op /\ op \in {"signal", "lock", "watch", "diag"} /\ Settable(todo', op)
<1> USE DEF Settable
<1>1. ASSUME op = "signal", NEW list \in Seq(Vocabulary(op)), Tame(list)
      PROVE  Settable(list, op)
  BY <1>1 DEF Tame
<1>2. CASE PollUnlocked
  <2>1. op = "signal" /\ op' = op
    BY <1>2, StepOwners DEF PollUnlocked, callers
  <2>2. PICK seek \in AutoPosition(1) \cup {<< >>} :
           todo' = seek \o Poll \/ todo' = seek \o <<Step("expire")>>
    BY <1>2 DEF PollUnlocked, Goes
  <2>3. seek \in Seq(Vocabulary(op)) /\ Tame(seek)
    <3>1. op \in Operations /\ 1 \in {0, 1}
      BY <2>1 DEF Operations
    <3>2. AutoPosition(1) \subseteq Seq(Vocabulary(op))
      BY <2>1, <3>1, Turns
    <3>3. << >> \in Seq(Vocabulary(op)) /\ Tame(<< >>)
      BY TamePieces
    <3>4. \A list \in AutoPosition(1) : Tame(list)
      BY <3>1, TameLists
    <3> QED
      BY <3>2, <3>3, <3>4
  <2>4. /\ Poll \in Seq(Vocabulary(op)) /\ Tame(Poll)
        /\ <<Step("expire")>> \in Seq(Vocabulary(op)) /\ Tame(<<Step("expire")>>)
    BY <2>1, Sentences, Spelling, TamePieces DEF Operations
  <2> QED
    BY <1>1, <2>1, <2>2, <2>3, <2>4, TameJoin, JoinPlaces
<1>3. CASE PollLocked
  <2>1. op = "signal" /\ op' = op /\ todo' = Measure \o <<Step("judge")>>
    BY <1>3, StepOwners DEF PollLocked, callers, Goes
  <2>2. /\ Measure \in Seq(Vocabulary(op)) /\ Tame(Measure)
        /\ <<Step("judge")>> \in Seq(Vocabulary(op)) /\ Tame(<<Step("judge")>>)
    BY <2>1, Sentences, Spelling, TamePieces DEF Operations
  <2> QED
    BY <1>1, <2>1, <2>2, TameJoin, JoinPlaces
<1>4. CASE PollMatched
  <2>1. op = "signal" /\ op' = op
    BY <1>4, StepOwners DEF PollMatched, callers
  <2>2. PICK settle \in AutoPosition(0) :
           todo' = settle \o Commit \o <<Step("matched")>>
    BY <1>4 DEF PollMatched, Goes
  <2>3. settle \in Seq(Vocabulary(op)) /\ Tame(settle)
    BY <2>1, Turns, TameLists
  <2>4. /\ Commit \in Seq(Vocabulary(op)) /\ Tame(Commit)
        /\ <<Step("matched")>> \in Seq(Vocabulary(op)) /\ Tame(<<Step("matched")>>)
    BY <2>1, Sentences, Spelling, TamePieces, TameLists DEF Operations
  <2>5. settle \o Commit \in Seq(Vocabulary(op)) /\ Tame(settle \o Commit)
    BY <2>3, <2>4, TameJoin, JoinPlaces
  <2> QED
    BY <1>1, <2>1, <2>2, <2>4, <2>5, TameJoin, JoinPlaces
<1>5. CASE LockRead \/ WatchJudge
  <2>1. op \in {"lock", "watch"} /\ op' = op
    BY <1>5, StepOwners DEF LockRead, WatchJudge, callers
  <2>2. todo' = << >> \/ \E on \in {0, 1} : todo' \in AutoPosition(on)
    BY <1>5 DEF LockRead, WatchJudge, Goes
  <2>3. Tame(todo') /\ todo' \in Seq(Vocabulary(op))
    <3>1. op \in Operations
      BY <2>1 DEF Operations
    <3>2. \A on \in {0, 1} : AutoPosition(on) \subseteq Seq(Vocabulary(op))
      BY <2>1, <3>1, Turns
    <3>3. << >> \in Seq(Vocabulary(op)) /\ Tame(<< >>)
      BY TamePieces
    <3>4. \A on \in {0, 1} : \A list \in AutoPosition(on) : Tame(list)
      BY TameLists
    <3> QED
      BY <2>2, <3>2, <3>3, <3>4
  <2> QED
    BY <2>1, <2>3 DEF Tame
<1>6. CASE Diag
  <2>1. /\ op = "diag" /\ op' = op
        /\ todo' = <<Bank(2), Step("known"), Try(Bank(0)), Catch("forget"), Bank(1),
                     Try(Bank(0))>>
    BY <1>6, StepOwners DEF Diag, callers, Goes
  <2>2. /\ Bank(2) \in Vocabulary(op) /\ Bank(1) \in Vocabulary(op)
        /\ Try(Bank(0)) \in Vocabulary(op) /\ Step("known") \in Vocabulary(op)
        /\ Catch("forget") \in Vocabulary(op)
    BY <2>1, Spelling, Alphabet DEF Operations
  <2>3. todo' \in Seq(Vocabulary(op))
    BY <2>1, <2>2
  <2>4. Tame(todo')
    BY <2>1, TamePieces
  <2> QED
    BY <2>1, <2>3, <2>4 DEF Tame
<1> QED
  BY <1>2, <1>3, <1>4, <1>5, <1>6 DEF Fetching

LEMMA Begun ==
  ASSUME Beginning, Chunks \in Nat
  PROVE  /\ op = "idle" /\ op' \in Operations /\ Settable(todo', op')
         /\ failed' = FALSE /\ matched' = FALSE
         /\ UNCHANGED <<opt, ready, locked, known, note, once, borrowed, right, chip, pin,
                        output, down, stuck, stray>>
         /\ op' = "bringup" => todo' = Bringup /\ ~ready
         /\ op' = "edid" => todo' = Present
         /\ op' = "pulse" => todo' = Pulse
         /\ op' \notin {"bringup", "pulse", "ramtest"} => once
         /\ op' = "signal" => todo' = Poll
<1> DEFINE Told(list, o) == op = "idle" /\ op' = o /\ todo' = list
<1>1. /\ op = "idle" /\ failed' = FALSE /\ matched' = FALSE
      /\ UNCHANGED <<opt, ready, locked, known, note, once, borrowed, right, chip, pin,
                     output, down, stuck, stray>>
  BY DEF Beginning, Begin, past, BeginBringup, BeginReload, BeginPulse, BeginSignal, BeginLock,
     BeginWatch, BeginDiag, BeginCsc, BeginColour, BeginRamtest
<1>2. ASSUME NEW o \in Operations, op' = o, todo' \in Seq(Vocabulary(o)), Tame(todo')
      PROVE  Settable(todo', op') /\ op' \in Operations
  BY <1>2 DEF Tame, Settable
<1>3. CASE BeginBringup \/ BeginReload \/ BeginPulse \/ BeginSignal
  <2>1. \/ op' = "bringup" /\ todo' = Bringup /\ ~ready
        \/ op' = "edid" /\ todo' = Present /\ once
        \/ op' = "pulse" /\ todo' = Pulse
        \/ op' = "signal" /\ todo' = Poll /\ once
    BY <1>3 DEF BeginBringup, BeginReload, BeginPulse, BeginSignal, Begin
  <2>2. /\ Tame(Bringup) /\ Tame(Present) /\ Tame(Pulse) /\ Tame(Poll)
        /\ Bringup \in Seq(Vocabulary("bringup")) /\ Present \in Seq(Vocabulary("edid"))
        /\ Pulse \in Seq(Vocabulary("pulse")) /\ Poll \in Seq(Vocabulary("signal"))
    BY TameLists, TamePieces, Sentences DEF Operations, Loaders
  <2>3. {"bringup", "edid", "pulse", "signal"} \subseteq Operations
    BY DEF Operations
  <2> QED
    BY <1>1, <1>2, <2>1, <2>2, <2>3
<1>4. CASE BeginLock \/ BeginWatch \/ BeginDiag
  <2>1. /\ once
        /\ \/ op' = "lock" /\ todo' = <<Bank(0), Read, Step("lock")>>
           \/ op' = "watch" /\ todo' = <<Bank(0), Read, Step("watch")>>
           \/ op' = "watch" /\ todo' = <<Bank(0), Read>> \o Measure \o <<Step("watch")>>
           \/ op' = "diag" /\ todo' = <<Bank(0), Read, Step("diag")>>
    BY <1>4 DEF BeginLock, BeginWatch, BeginDiag, Begin
  <2>2. ASSUME NEW o \in {"lock", "watch", "diag"}
        PROVE  Settable(<<Bank(0), Read, Step(o)>>, o) /\ o \in Operations
    <3>1. o \in Operations /\ 0 \in Banks
      BY DEF Operations, Banks
    <3>2. Bank(0) \in Vocabulary(o) /\ Read \in Vocabulary(o) /\ Step(o) \in Vocabulary(o)
      BY <3>1, Spelling
    <3> DEFINE M == <<Bank(0), Read, Step(o)>>
    <3>3. M \in Seq(Vocabulary(o))
      BY <3>2
    <3>4. \A k \in 1..Len(M) : M[k].what # "write" /\ M[k] # Step("frozen")
      BY Names, Fields
    <3>5. Followed(M)
      BY Names, Fields DEF Followed
    <3> HIDE DEF M
    <3>6. Sound(M)
      BY <3>4, SoundNone
    <3> QED
      BY <3>1, <3>3, <3>5, <3>6 DEF Settable, M
  <2>3. Settable(<<Bank(0), Read>> \o Measure \o <<Step("watch")>>, "watch")
    <3>1. "watch" \in Operations /\ 0 \in Banks
      BY DEF Operations, Banks
    <3>2. /\ <<Bank(0), Read>> \in Seq(Vocabulary("watch"))
          /\ <<Step("watch")>> \in Seq(Vocabulary("watch"))
          /\ Measure \in Seq(Vocabulary("watch"))
      <4>1. Bank(0) \in Vocabulary("watch") /\ Read \in Vocabulary("watch")
            /\ Step("watch") \in Vocabulary("watch")
        BY <3>1, Spelling
      <4>2. Measure \in Seq(Vocabulary("watch"))
        <5>1. \A o \in Operations : Measure \in Seq(Vocabulary(o))
          BY Sentences, Zenon
        <5> QED
          BY <3>1, <5>1
      <4> QED
        BY <4>1, <4>2
    <3>3. Tame(<<Bank(0), Read>>) /\ Tame(Measure) /\ Tame(<<Step("watch")>>)
      BY TamePieces
    <3>4. /\ <<Bank(0), Read>> \o Measure \in Seq(Vocabulary("watch"))
          /\ Tame(<<Bank(0), Read>> \o Measure)
      BY <3>2, <3>3, TameJoin, JoinPlaces
    <3>5. /\ <<Bank(0), Read>> \o Measure \o <<Step("watch")>> \in Seq(Vocabulary("watch"))
          /\ Tame(<<Bank(0), Read>> \o Measure \o <<Step("watch")>>)
      BY <3>2, <3>3, <3>4, TameJoin, JoinPlaces
    <3> QED
      BY <3>5 DEF Tame, Settable
  <2> QED
    BY <1>1, <2>1, <2>2, <2>3
<1>5. CASE BeginCsc
  <2>1. /\ once /\ op' = "csc"
        /\ todo' = <<Batch(0)>> \/ todo' = <<Bank(2), Read, Bank(0), Batch(0)>>
    BY <1>5 DEF BeginCsc, Begin
  <2>2. "csc" \in Operations /\ 0 \in Banks /\ 2 \in Banks
    BY DEF Operations, Banks
  <2>3. Bank(0) \in Vocabulary("csc") /\ Bank(2) \in Vocabulary("csc")
        /\ Read \in Vocabulary("csc") /\ Batch(0) \in Vocabulary("csc")
    BY <2>2, Spelling
  <2>4. todo' \in Seq(Vocabulary("csc"))
    <3>1. /\ <<Batch(0)>> \in Seq(Vocabulary("csc"))
          /\ <<Bank(2), Read, Bank(0), Batch(0)>> \in Seq(Vocabulary("csc"))
      BY <2>3
    <3> QED
      BY <2>1, <3>1
  <2>5. Followed(todo')
    BY <2>1, Names, Fields DEF Followed
  <2> QED
    BY <1>1, <2>1, <2>2, <2>4, <2>5 DEF Settable
<1>6. CASE BeginColour
  <2>1. /\ once /\ op' = "colour"
        /\ todo' = <<Bank(2), Read, Step("known"), Catch("end"), Try(Bank(0))>>
    BY <1>6 DEF BeginColour, Begin
  <2>2. "colour" \in Operations /\ 0 \in Banks /\ 2 \in Banks
    BY DEF Operations, Banks
  <2>3. /\ Bank(2) \in Vocabulary("colour") /\ Try(Bank(0)) \in Vocabulary("colour")
        /\ Read \in Vocabulary("colour") /\ Step("known") \in Vocabulary("colour")
        /\ Catch("end") \in Vocabulary("colour")
    BY <2>2, Spelling
  <2>4. todo' \in Seq(Vocabulary("colour")) /\ Tame(todo')
    BY <2>1, <2>3, TamePieces
  <2> QED
    BY <1>1, <1>2, <2>1, <2>2, <2>4
<1>7. CASE BeginRamtest
  <2>1. /\ op' = "ramtest"
        /\ todo' = <<Bank(3), Try(Batch(3)), Read, Try(Batch(3)), Try(Bank(0))>>
    BY <1>7 DEF BeginRamtest, Begin
  <2>2. "ramtest" \in Operations /\ 0 \in Banks /\ 3 \in Banks
    BY DEF Operations, Banks
  <2>3. /\ Bank(3) \in Vocabulary("ramtest") /\ Try(Bank(0)) \in Vocabulary("ramtest")
        /\ Read \in Vocabulary("ramtest") /\ Try(Batch(3)) \in Vocabulary("ramtest")
    BY <2>2, Spelling
  <2>4. todo' \in Seq(Vocabulary("ramtest")) /\ Tame(todo')
    BY <2>1, <2>3, TamePieces
  <2> QED
    BY <1>1, <1>2, <2>1, <2>2, <2>4
<1> QED
  BY <1>1, <1>3, <1>4, <1>5, <1>6, <1>7 DEF Beginning

(* A step of the driver that is replaced with what it sets out to do.      *)
LEMMA Spliced ==
  ASSUME Typed, Splicing, Chunks \in Nat
  PROVE  /\ op' = op /\ todo # << >> /\ todo' = Splice \o Tail(todo)
         /\ Splice \in Seq(Vocabulary(op)) /\ Followed(Splice)
         /\ UNCHANGED <<opt, failed, ready, locked, known, note, once, borrowed, chip, pin, output, matched,
                        down, stuck, stray>>
         /\ \/ /\ AtStep("edid") /\ op \in Loaders /\ right' = right
               /\ Splice = LoadEdid \o (IF op = "bringup" THEN <<Catch("edid")>> ELSE << >>)
            \/ AtStep("frozen") /\ op = "signal" /\ right' = right /\ Splice = Retime
            \/ /\ AtStep("alive") /\ op = "bringup" /\ ~chip.alive /\ right' = ~right
               /\ Splice = Reset \o <<Bank(0), Step("again")>>
<1>1. CASE Edid
  <2>1. /\ AtStep("edid") /\ op' = op /\ right' = right
        /\ todo' = (LoadEdid \o (IF op = "bringup" THEN <<Catch("edid")>> ELSE << >>))
                     \o Tail(todo)
        /\ UNCHANGED <<opt, failed, ready, locked, known, note, once, borrowed, chip, pin, output, matched,
                       down, stuck, stray>>
    BY <1>1 DEF Edid, Goes, callers, past, Rest
  <2>2. todo # << >> /\ op \in Loaders
    BY <2>1, StepOwners
  <2>3. op \in Operations
    BY <2>2 DEF Loaders, Operations
  <2>4. LoadEdid \in Seq(Vocabulary(op)) /\ Followed(LoadEdid)
    <3>1. LoadEdid \in Seq(Vocabulary(op))
      BY <2>2, <2>3, Sentences, Zenon
    <3> QED
      BY <3>1, FollowedLoad
  <2>5. /\ << >> \in Seq(Vocabulary(op)) /\ Followed(<< >>) /\ Followed(<<Catch("edid")>>)
        /\ op = "bringup" => <<Catch("edid")>> \in Seq(Vocabulary(op))
    BY <2>3, Spelling, FollowedNone, FollowedLoad
  <2>6. Splice = LoadEdid \o (IF op = "bringup" THEN <<Catch("edid")>> ELSE << >>)
    BY <2>1 DEF Splice
  <2>7. Splice \in Seq(Vocabulary(op)) /\ Followed(Splice)
    BY <2>4, <2>5, <2>6, JoinPlaces, FollowedJoin
  <2> QED
    BY <2>1, <2>2, <2>6, <2>7
<1>2. CASE Frozen
  <2>1. /\ AtStep("frozen") /\ op' = op /\ right' = right /\ todo' = Retime \o Tail(todo)
        /\ UNCHANGED <<opt, failed, ready, locked, known, note, once, borrowed, chip, pin, output, matched,
                       down, stuck, stray>>
    BY <1>2 DEF Frozen, Goes, callers, past, Rest
  <2>2. todo # << >> /\ op = "signal" /\ Head(todo) = Step("frozen")
    BY <2>1, StepOwners
  <2>3. ~AtStep("edid")
    BY <2>2, Names DEF AtStep
  <2>4. Splice = Retime
    BY <2>1, <2>3 DEF Splice
  <2>5. Retime \in Seq(Vocabulary(op))
    BY <2>2, Sentences DEF Operations
  <2>6. Followed(Retime)
    BY Names, Fields DEF Retime, Followed
  <2> QED
    BY <2>1, <2>2, <2>4, <2>5, <2>6
<1>3. CASE Alive /\ AtStep("alive") /\ ~chip.alive
  <2>1. /\ AtStep("alive") /\ ~chip.alive /\ op' = op /\ right' = ~right
        /\ todo' = (Reset \o <<Bank(0), Step("again")>>) \o Tail(todo)
        /\ UNCHANGED <<opt, failed, ready, locked, known, note, once, borrowed, chip, pin, output, matched,
                       down, stuck, stray>>
    BY <1>3 DEF Alive, Goes, Rest, past, history
  <2>2. todo # << >> /\ op = "bringup" /\ Head(todo) = Step("alive")
    BY <2>1, StepOwners
  <2>3. ~AtStep("edid") /\ ~AtStep("frozen")
    BY <2>2, Names DEF AtStep
  <2>4. Splice = Reset \o <<Bank(0), Step("again")>>
    BY <2>1, <2>3 DEF Splice
  <2>5. op \in Operations /\ 0 \in Banks
    BY <2>2 DEF Operations, Banks
  <2>6. Reset \in Seq(Vocabulary(op)) /\ Bank(0) \in Vocabulary(op)
        /\ Step("again") \in Vocabulary(op)
    BY <2>2, <2>5, Sentences, Spelling
  <2>7. <<Bank(0), Step("again")>> \in Seq(Vocabulary(op))
    BY <2>6
  <2>8. Followed(Reset) /\ Followed(<<Bank(0), Step("again")>>)
    BY TamePieces DEF Tame
  <2>9. Splice \in Seq(Vocabulary(op)) /\ Followed(Splice)
    BY <2>4, <2>6, <2>7, <2>8, JoinPlaces, FollowedJoin
  <2> QED
    BY <2>1, <2>2, <2>4, <2>9
<1> QED
  BY <1>1, <1>2, <1>3 DEF Splicing

-----------------------------------------------------------------------------
(***************************************************************************)
(* What a command changes.                                                 *)
(***************************************************************************)
Chips == [alive : BOOLEAN, bank : Banks, hpd : BOOLEAN, auto : BOOLEAN,
          frozen : BOOLEAN, latched : BOOLEAN]

(* A command that is no reset changes what it is for.                      *)
LEMMA ChipKept ==
  ASSUME NEW i \in All, chip \in Chips, Effect(i), i \notin Resets
  PROVE  /\ chip' \in Chips /\ chip'.alive = chip.alive
         /\ i \notin Banking => chip'.bank = chip.bank
         /\ i \notin HpdWrites => chip'.hpd = chip.hpd
         /\ i \notin AutoWrites => chip'.auto = chip.auto
         /\ i \notin FrozenWrites => chip'.frozen = chip.frozen
         /\ i \notin LatchWrites => chip'.latched = chip.latched
         /\ chip.latched => chip'.latched
<1>1. ~(i.what = "pin" /\ i.arg = "reset") /\ ~(i.what = "output" /\ i.arg = "reset")
  BY Kinds DEF Resets
<1>2. CASE i.what = "bank" /\ chip.alive
  <2>1. chip' = [chip EXCEPT !.bank = i.val] /\ i.val \in Banks /\ i \in Banking
    BY <1>2, Kinds, Classes DEF Effect
  <2> QED
    BY <2>1 DEF Chips
<1>3. CASE i.what = "write"
  <2>1. chip' = Written(i)
    BY <1>3 DEF Effect
  <2>2. CASE ~Reaches(i)
    BY <2>1, <2>2 DEF Written
  <2>3. CASE Reaches(i) /\ i.arg = "hpd"
    <3>1. chip' = [chip EXCEPT !.hpd = (i.val.bit = 1)] /\ i \in HpdWrites
      BY <1>3, <2>1, <2>3, Kinds DEF Written
    <3> QED
      BY <3>1 DEF Chips
  <2>4. CASE Reaches(i) /\ i.arg = "auto"
    <3>1. chip' = [chip EXCEPT !.auto = (i.val.bit = 1)] /\ i \in AutoWrites
      BY <1>3, <2>1, <2>4, Kinds DEF Written
    <3> QED
      BY <3>1 DEF Chips
  <2>5. CASE Reaches(i) /\ i.arg = "frozen"
    <3>1. chip' = [chip EXCEPT !.frozen = (i.val.bit = 1)] /\ i \in FrozenWrites
      BY <1>3, <2>1, <2>5, Kinds DEF Written
    <3> QED
      BY <3>1 DEF Chips
  <2>6. CASE Reaches(i) /\ i.arg = "latch"
    <3>1. chip' = [chip EXCEPT !.latched = @ \/ (i.val.bit = 1)] /\ i \in LatchWrites
      BY <1>3, <2>1, <2>6, Kinds DEF Written
    <3> QED
      BY <3>1 DEF Chips
  <2>7. CASE Reaches(i) /\ i.arg \notin {"hpd", "auto", "frozen", "latch"}
    <3>1. chip' = chip
      BY <2>1, <2>7 DEF Written
    <3> QED
      BY <3>1
  <2> QED
    BY <2>2, <2>3, <2>4, <2>5, <2>6, <2>7
<1>4. CASE ~(i.what = "bank" /\ chip.alive) /\ i.what # "write"
  <2>1. chip' = chip
    BY <1>1, <1>4 DEF Effect
  <2> QED
    BY <2>1
<1> QED
  BY <1>2, <1>3, <1>4

(* A reset leaves no register as it was written, or nothing happens.       *)
LEMMA ChipReset ==
  ASSUME NEW i \in All, chip \in Chips, Effect(i), i \in Resets
  PROVE  /\ chip' \in Chips
         /\ \/ chip' = chip
            \/ /\ chip'.hpd = FALSE /\ chip'.auto = FALSE /\ chip'.frozen = FALSE
               /\ chip'.latched = FALSE
         /\ i \in ResetPins =>
               \/ "reset" \notin output /\ chip' = chip
               \/ "reset" \in output /\ chip' = [Blank EXCEPT !.alive = (i.val = 1)]
         /\ i = Output("reset") => IF right THEN chip' = chip ELSE chip' = Blank
<1>1. CASE i \in ResetPins
  <2>1. i.what = "pin" /\ i.arg = "reset" /\ i # Output("reset")
    BY <1>1, Classes, Names
  <2>2. \/ "reset" \notin output /\ chip' = chip
        \/ "reset" \in output /\ chip' = [Blank EXCEPT !.alive = (i.val = 1)]
    BY <2>1 DEF Effect
  <2>3. [Blank EXCEPT !.alive = (i.val = 1)] \in Chips
    BY ZenonT(30) DEF Blank, Chips, Banks
  <2>4. chip' = [Blank EXCEPT !.alive = (i.val = 1)] =>
          /\ chip'.hpd = FALSE /\ chip'.auto = FALSE /\ chip'.frozen = FALSE
          /\ chip'.latched = FALSE
    BY DEF Blank
  <2> QED
    BY <1>1, <2>1, <2>2, <2>3, <2>4
<1>2. CASE i = Output("reset")
  <2>1. i.what = "output" /\ i.arg = "reset" /\ i \notin ResetPins
    BY <1>2, Classes, Names
  <2>2. IF right THEN chip' = chip ELSE chip' = Blank
    BY <2>1 DEF Effect
  <2>3. /\ Blank \in Chips /\ Blank.hpd = FALSE /\ Blank.auto = FALSE
        /\ Blank.frozen = FALSE /\ Blank.latched = FALSE
    BY ZenonT(30) DEF Blank, Chips, Banks
  <2> QED
    BY <1>2, <2>1, <2>2, <2>3
<1> QED
  BY <1>1, <1>2 DEF Resets

(* The pins obey while they are outputs.                                   *)
LEMMA PinsMoved ==
  ASSUME NEW i \in All, pin \in [hpd : {0, 1}, mux : {0, 1}], output \subseteq Pins, Effect(i)
  PROVE  /\ pin' \in [hpd : {0, 1}, mux : {0, 1}] /\ output' \subseteq Pins
         /\ i \notin HpdPins => pin'.hpd = pin.hpd
         /\ \A level \in {0, 1} :
               i = SetPin("hpd", level) /\ "hpd" \in output => pin'.hpd = level
         /\ i \notin Drives => output' = output
         /\ \A p \in {"hpd", "reset"} :
               /\ i = Output(p) => output' = IF right THEN output \cup {p} ELSE output \ {p}
               /\ i # Output(p) => (p \in output' <=> p \in output)
<1>1. pin' \in [hpd : {0, 1}, mux : {0, 1}] /\ (i \notin HpdPins => pin'.hpd = pin.hpd)
  <2>1. CASE i.what = "pin" /\ i.arg # "reset" /\ i.arg \in output
    <3>1. pin' = [pin EXCEPT ![i.arg] = i.val] /\ i.val \in {0, 1}
      BY <2>1, Kinds DEF Effect
    <3>2. i.arg \in {"hpd", "mux"}
      BY <2>1 DEF Pins
    <3>3. i.arg = "hpd" => i \in HpdPins
      BY <2>1, Kinds
    <3> QED
      BY <3>1, <3>2, <3>3
  <2>2. CASE ~(i.what = "pin" /\ i.arg # "reset" /\ i.arg \in output)
    <3>1. pin' = pin
      BY <2>2 DEF Effect
    <3> QED
      BY <3>1
  <2> QED
    BY <2>1, <2>2
<1>2. ASSUME NEW level \in {0, 1}, i = SetPin("hpd", level), "hpd" \in output
      PROVE  pin'.hpd = level
  <2>1. i.what = "pin" /\ i.arg = "hpd" /\ i.val = level
    BY <1>2, Fields
  <2>2. pin' = [pin EXCEPT !["hpd"] = level]
    BY <1>2, <2>1 DEF Effect
  <2> QED
    BY <2>2
<1>3. i \notin Drives => output' = output
  BY Kinds DEF Effect
<1>4. i \in Drives => output' = IF right THEN output \cup {i.arg} ELSE output \ {i.arg}
  BY Classes DEF Effect
<1>5. output' \subseteq Pins
  BY <1>3, <1>4, Kinds, Classes
<1>6. ASSUME NEW p \in {"hpd", "reset"}
      PROVE  /\ i = Output(p) =>
                   output' = IF right THEN output \cup {p} ELSE output \ {p}
             /\ i # Output(p) => (p \in output' <=> p \in output)
  <2>1. Output(p) \in Drives /\ Output(p).arg = p
    BY Fields DEF Drives
  <2>2. i \in Drives /\ i # Output(p) => i.arg # p
    BY Kinds, Classes
  <2> QED
    BY <1>3, <1>4, <2>1, <2>2
<1> QED
  BY <1>1, <1>2, <1>3, <1>5, <1>6

(* What a write that reaches its bank leaves.                              *)
LEMMA Landed ==
  ASSUME NEW i \in All, chip \in Chips, Effect(i), chip.alive
  PROVE  /\ \A b \in Banks : i = Bank(b) => chip'.bank = b
         /\ \A x \in {0, 1} :
               /\ i = Write("hpd", 0, x) /\ chip.bank = 0 => chip'.hpd = (x = 1)
               /\ i = Write("auto", 0, x) /\ chip.bank = 0 => chip'.auto = (x = 1)
               /\ i = Write("frozen", 0, x) /\ chip.bank = 0 => chip'.frozen = (x = 1)
         /\ i = Write("latch", 2, 1) /\ chip.bank = 2 => chip'.latched = TRUE
<1>1. ASSUME NEW b \in Banks, i = Bank(b) PROVE chip'.bank = b
  <2>1. i.what = "bank" /\ i.val = b
    BY <1>1 DEF Bank, Item
  <2>2. chip' = [chip EXCEPT !.bank = b]
    BY <2>1 DEF Effect
  <2> QED
    BY <2>2 DEF Chips
<1>2. ASSUME NEW r, NEW b, NEW x, i = Write(r, b, x), chip.bank = b
      PROVE  /\ chip' = Written(i) /\ Reaches(i) /\ i.arg = r /\ i.val.bit = x
  BY <1>2, Fields DEF Effect, Reaches
<1>3. ASSUME NEW x \in {0, 1}, i = Write("hpd", 0, x), chip.bank = 0
      PROVE  chip'.hpd = (x = 1)
  <2>1. chip' = [chip EXCEPT !.hpd = (x = 1)]
    BY <1>2, <1>3 DEF Written
  <2> QED
    BY <2>1 DEF Chips
<1>4. ASSUME NEW x \in {0, 1}, i = Write("auto", 0, x), chip.bank = 0
      PROVE  chip'.auto = (x = 1)
  <2>1. chip' = [chip EXCEPT !.auto = (x = 1)]
    BY <1>2, <1>4 DEF Written
  <2> QED
    BY <2>1 DEF Chips
<1>5. ASSUME NEW x \in {0, 1}, i = Write("frozen", 0, x), chip.bank = 0
      PROVE  chip'.frozen = (x = 1)
  <2>1. chip' = [chip EXCEPT !.frozen = (x = 1)]
    BY <1>2, <1>5 DEF Written
  <2> QED
    BY <2>1 DEF Chips
<1>6. ASSUME i = Write("latch", 2, 1), chip.bank = 2 PROVE chip'.latched = TRUE
  <2>1. chip' = [chip EXCEPT !.latched = @ \/ (1 = 1)]
    BY <1>2, <1>6 DEF Written
  <2> QED
    BY <2>1 DEF Chips
<1> QED
  BY <1>1, <1>3, <1>4, <1>5, <1>6

(* A command that fails may have had its effect; unless it is one the      *)
(* driver only warns about, it ends what there was to do up to a catch.    *)
LEMMA Commanded ==
  ASSUME Typed, Command
  PROVE  /\ todo # << >> /\ Head(todo).what \in Commands /\ Head(todo) \in All
         /\ Belongs(Head(todo), op)
         /\ op' = op /\ op \in Operations
         /\ UNCHANGED <<opt, acq, ready, locked, known, note, once, borrowed, right, matched, down>>
         /\ Effect(Head(todo)) \/ UNCHANGED <<chip, pin, output, stray>>
         /\ Effect(Head(todo)) \/ todo' = Caught(Tail(todo)) \/ Head(todo).try
         /\ chip \in Chips
         /\ pin \in [hpd : {0, 1}, mux : {0, 1}] /\ output \subseteq Pins
<1>1. todo # << >> /\ Head(todo).what \in Commands
  BY DEF Command
<1>2. /\ op' = op
      /\ UNCHANGED <<opt, acq, ready, locked, known, note, once, borrowed, right, matched, down>>
      /\ Effect(Head(todo)) \/ UNCHANGED <<chip, pin, output, stray>>
  BY DEF Command, control, past, history, NoEffect
<1>3. Effect(Head(todo)) \/ todo' = Caught(Tail(todo)) \/ Head(todo).try
  BY DEF Command
<1>4. /\ chip \in Chips
      /\ pin \in [hpd : {0, 1}, mux : {0, 1}] /\ output \subseteq Pins
  BY DEF Typed, Chips
<1> QED
  BY <1>1, <1>2, <1>3, <1>4, FirstItem

(* Nothing else touches the card.                                          *)
LEMMA Untouched ==
  ASSUME Next, ~Command PROVE UNCHANGED <<chip, pin, output, stray>>
<1>1. Decide => UNCHANGED <<chip, pin, output, stray>>
  BY DEF Decide, Unready, Alive, Ready, Refuse, CatchError, Edid, Frozen, Late, PollUnlocked,
     PollLocked, PollMatched, Matched, Expire, LockRead, WatchJudge, Diag, Known, Goes
<1>2. Operation => UNCHANGED <<chip, pin, output, stray>>
  BY DEF Operation, BeginBringup, BeginReload, BeginPulse, BeginSignal, BeginLock,
     BeginWatch, BeginDiag, BeginCsc, BeginColour, BeginRamtest, End, Begin
<1>3. Note \/ Borrow \/ Scan => UNCHANGED <<chip, pin, output, stray>>
  BY DEF Note, Borrow, Scan, others
<1> QED
  BY <1>1, <1>2, <1>3 DEF Next

-----------------------------------------------------------------------------
(***************************************************************************)
(* Every step keeps the types, and what the driver skips is there.         *)
(***************************************************************************)
LEMMA StepList ==
  ASSUME Typed, Followed(todo), Next, Chunks \in Nat
  PROVE  /\ op' \in Operations \cup {"idle"} /\ todo' \in Seq(Vocabulary(op'))
         /\ Followed(todo')
<1>1. CASE Passing
  <2>1. Passes /\ op' = op
    BY <1>1, PassingPasses
  <2>2. todo \in Seq(Vocabulary(op)) /\ op \in Operations \cup {"idle"}
    BY DEF Typed
  <2>3. todo' \in Seq(Vocabulary(op)) /\ Followed(todo')
    BY <2>1, <2>2, PassesList
  <2> QED
    BY <2>1, <2>2, <2>3
<1>2. CASE Splicing
  <2>1. /\ op' = op /\ todo # << >> /\ todo' = Splice \o Tail(todo)
        /\ Splice \in Seq(Vocabulary(op)) /\ Followed(Splice)
    BY <1>2, Spliced
  <2>2. todo \in Seq(Vocabulary(op)) /\ op \in Operations \cup {"idle"}
    BY DEF Typed
  <2>3. Tail(todo) \in Seq(Vocabulary(op)) /\ Followed(Tail(todo))
    BY <2>1, <2>2, TailPlaces, FollowedTail
  <2>4. /\ Splice \o Tail(todo) \in Seq(Vocabulary(op))
        /\ Followed(Splice \o Tail(todo))
    BY <2>1, <2>3, JoinPlaces, FollowedJoin
  <2> QED
    BY <2>1, <2>2, <2>4
<1>3. CASE Fetching
  <2>1. op' = op /\ op \in {"signal", "lock", "watch", "diag"} /\ Settable(todo', op)
    BY <1>3, Fetched
  <2> QED
    BY <2>1 DEF Settable, Operations
<1>4. CASE Beginning
  <2>1. op' \in Operations /\ Settable(todo', op')
    BY <1>4, Begun
  <2> QED
    BY <2>1 DEF Settable
<1>5. CASE Leaving
  <2>1. CASE End
    <3>1. op' = "idle" /\ todo' = << >>
      BY <2>1 DEF End
    <3> QED
      BY <3>1, FollowedNone
  <2>2. CASE Note \/ Borrow \/ Scan
    BY <2>2 DEF Note, Borrow, Scan, others, Typed
  <2> QED
    BY <1>5, <2>1, <2>2 DEF Leaving
<1> QED
  BY <1>1, <1>2, <1>3, <1>4, <1>5, Actions

Flags ==
    /\ failed \in BOOLEAN /\ ready \in BOOLEAN /\ locked \in BOOLEAN
    /\ right \in BOOLEAN /\ note \in BOOLEAN /\ matched \in BOOLEAN
    /\ down \in BOOLEAN /\ stuck \in BOOLEAN /\ once \in BOOLEAN /\ borrowed \in BOOLEAN
    /\ opt \in [async : BOOLEAN, windows : BOOLEAN]
    /\ op = "idle" => ~failed

LEMMA StepFlags ==
  ASSUME Typed, Next PROVE Flags'
<1>0. Flags
  BY DEF Typed, Flags
<1>1. CASE Command
  <2>1. stuck' \in BOOLEAN /\ failed' \in BOOLEAN
    <3>1. \/ stuck' = (stuck /\ chip'.frozen) /\ failed' = failed
          \/ /\ stuck' = (stuck \/ Head(todo).arg = "frozen")
             /\ failed' = (failed \/ ~Head(todo).try)
      BY <1>1 DEF Command
    <3>2. (stuck /\ chip'.frozen) \in BOOLEAN /\ (stuck \/ Head(todo).arg = "frozen") \in BOOLEAN
          /\ (failed \/ ~Head(todo).try) \in BOOLEAN
      OBVIOUS
    <3> QED
      BY <1>0, <3>1, <3>2, Zenon DEF Flags
  <2>2. /\ UNCHANGED <<opt, ready, locked, right, note, once, borrowed, matched, down>>
        /\ op' = op /\ op \in Operations
    BY <1>1, Commanded
  <2>3. op' # "idle"
    BY <2>2 DEF Operations
  <2> QED
    BY <1>0, <2>1, <2>2, <2>3 DEF Flags
<1>2. CASE Unready \/ Ready \/ Refuse \/ Late \/ Expire \/ Known \/ Edid \/ Frozen
  <2>1. op # "idle"
    BY <1>2 DEF Unready, Ready, Refuse, Late, Expire, Known, Edid, Frozen, AtStep
  <2> QED
    BY <1>0, <1>2, <2>1, ZenonT(30) DEF Flags, Unready, Ready, Refuse, Late, Expire, Known,
       Edid, Frozen, Goes, callers, past, history
<1>3. CASE Alive
  BY <1>0, <1>3 DEF Flags, Alive, Goes, past, history, AtStep
<1>4. CASE CatchError
  <2>1. /\ op # "idle" /\ op' = op /\ failed' \in BOOLEAN
        /\ UNCHANGED <<opt, ready, locked, right, note, once, borrowed, matched, down, stuck>>
    BY <1>4 DEF CatchError, callers, past
  <2> QED
    BY <1>0, <2>1, ZenonT(30) DEF Flags
<1>5. CASE Matched
  BY <1>0, <1>5 DEF Flags, Matched, AtStep
<1>6. CASE Fetching
  BY <1>0, <1>6 DEF Flags, Fetching, PollUnlocked, PollLocked, PollMatched, LockRead,
     WatchJudge, Diag, Goes, callers, past, AtStep
<1>7. CASE Beginning
  BY <1>0, <1>7 DEF Flags, Beginning, Begin, past, BeginBringup, BeginReload, BeginPulse,
     BeginSignal, BeginLock, BeginWatch, BeginDiag, BeginCsc, BeginColour, BeginRamtest
<1>8. CASE End
  BY <1>0, <1>8 DEF Flags, End, past
<1>9. CASE Note \/ Borrow \/ Scan
  <2>1. UNCHANGED <<opt, failed, right, once, matched, down, stuck, op>>
    BY <1>9 DEF Note, Borrow, Scan, others
  <2>2. borrowed' \in BOOLEAN
    BY <1>0, <1>9 DEF Flags, Note, Borrow, Scan
  <2>3. ready' \in BOOLEAN
    BY <1>0, <1>9 DEF Flags, Note, Borrow, Scan
  <2>4. locked' \in BOOLEAN
    BY <1>0, <1>9 DEF Flags, Note, Borrow, Scan
  <2>5. note' \in BOOLEAN
    BY <1>0, <1>9 DEF Flags, Note, Borrow, Scan
  <2> QED
    BY <1>0, <2>1, <2>2, <2>3, <2>4, <2>5 DEF Flags
<1> QED
  BY <1>1, <1>2, <1>3, <1>4, <1>5, <1>6, <1>7, <1>8, <1>9
     DEF Next, Decide, Operation, Fetching, Beginning

LEMMA StepTyped ==
  ASSUME Typed, Followed(todo), Next, Chunks \in Nat
  PROVE  Typed' /\ Followed(todo')
<1>1. /\ op' \in Operations \cup {"idle"} /\ todo' \in Seq(Vocabulary(op'))
      /\ Followed(todo')
  BY StepList
<1>2. Flags'
  BY StepFlags
<1>3. chip \in Chips /\ pin \in [hpd : {0, 1}, mux : {0, 1}] /\ output \subseteq Pins
  BY DEF Typed, Chips
<1>4. chip' \in Chips /\ pin' \in [hpd : {0, 1}, mux : {0, 1}] /\ output' \subseteq Pins
  <2>1. CASE Command
    <3>1. Head(todo) \in All
      BY <2>1, Commanded
    <3>2. Effect(Head(todo)) \/ UNCHANGED <<chip, pin, output>>
      BY <2>1, Commanded
    <3>3. Effect(Head(todo)) => chip' \in Chips
      BY <1>3, <3>1, ChipKept, ChipReset
    <3>4. Effect(Head(todo)) =>
            pin' \in [hpd : {0, 1}, mux : {0, 1}] /\ output' \subseteq Pins
      BY <1>3, <3>1, PinsMoved
    <3> QED
      BY <1>3, <3>2, <3>3, <3>4
  <2>2. CASE ~Command
    BY <1>3, <2>2, Untouched
  <2> QED
    BY <2>1, <2>2
<1> QED
  BY <1>1, <1>2, <1>4 DEF Typed, Flags, Chips

-----------------------------------------------------------------------------
(***************************************************************************)
(* Every write finds its bank.                                             *)
(***************************************************************************)
LEMMA FirstNow ==
  ASSUME NEW S, NEW L \in Seq(S), L # << >>, NEW needs, NEW makes, NEW breaks, NEW now,
         Kept(L, needs, makes, breaks, now), Head(L) \in needs
  PROVE  now
<1>1. 1 \in 1..Len(L) /\ L[1] \in needs
  BY TailPlaces
<1>2. Will(L, 1, makes, breaks, now)
  BY <1>1 DEF Kept
<1>3. \A j \in 1..1 - 1 : FALSE
  OBVIOUS
<1> QED
  BY <1>2, <1>3 DEF Will

LEMMA KeptFree ==
  ASSUME NEW L, Len(L) \in Nat, NEW needs, NEW makes, NEW breaks, NEW now,
         Free(L, breaks), now
  PROVE  Kept(L, needs, makes, breaks, now)
<1> SUFFICES ASSUME NEW k \in 1..Len(L) PROVE Will(L, k, makes, breaks, now)
  BY DEF Kept
<1>1. \A j \in 1..k - 1 : j \in 1..Len(L)
  OBVIOUS
<1> QED
  BY <1>1 DEF Will, Free

LEMMA KeptVoid ==
  ASSUME NEW L, NEW needs, NEW makes, NEW breaks, NEW now, Free(L, needs)
  PROVE  Kept(L, needs, makes, breaks, now)
BY DEF Kept, Free

LEMMA FreeJoin ==
  ASSUME NEW S, NEW X \in Seq(S), NEW L \in Seq(S), NEW breaks, Free(X, breaks), Free(L, breaks)
  PROVE  Free(X \o L, breaks)
<1> DEFINE M == X \o L
           n == Len(X)
<1>1. /\ n \in Nat /\ Len(L) \in Nat /\ Len(M) = n + Len(L)
      /\ \A i \in 1..n : M[i] = X[i]
      /\ \A i \in 1..Len(L) : M[n + i] = L[i]
  BY JoinPlaces
<1> SUFFICES ASSUME NEW k \in 1..Len(M) PROVE M[k] \notin breaks
  BY DEF Free
<1> HIDE DEF M
<1>2. CASE k \in 1..n
  BY <1>1, <1>2 DEF Free
<1>3. CASE k \notin 1..n
  <2>1. k - n \in 1..Len(L) /\ n + (k - n) = k
    BY <1>1, <1>3
  <2>2. M[k] = L[k - n]
    BY <1>1, <2>1
  <2> QED
    BY <2>1, <2>2 DEF Free
<1> QED
  BY <1>2, <1>3

LEMMA WriteBanks == \A i \in All : i.what = "write" => i.val.bank \in Banks
<1>1. \A i \in Batches : i.val.bank \in Banks
  BY Fields DEF Batches
<1>2. \A i \in HpdWrites \cup AutoWrites \cup FrozenWrites \cup LatchWrites : i.val.bank \in Banks
  BY Fields DEF HpdWrites, AutoWrites, FrozenWrites, LatchWrites, Banks
<1> QED
  BY <1>1, <1>2, Classes DEF All

(* The EDID is loaded without a look at the receiver.                      *)
Load == LoadEdid \o (IF op = "bringup" THEN <<Catch("edid")>> ELSE << >>)

LEMMA LoadItems ==
  ASSUME Chunks \in Nat
  PROVE  /\ Load \in Seq(All)
         /\ \A k \in 1..Len(Load) :
               \/ Load[k] \in {Try(Output("mux")), Try(SetPin("mux", 0)), Try(SetPin("mux", 1)),
                               Step("refuse"), Catch("mux"), Catch("edid")}
               \/ Load[k] \in EdidChunks
<1> DEFINE A == [i \in 1..Chunks |-> Item("edid", "none", i)]
           Q == {Try(Output("mux")), Try(SetPin("mux", 0)), Try(SetPin("mux", 1)),
                 Step("refuse"), Catch("mux"), Catch("edid")} \cup EdidChunks
<1>1. A \in Seq(Q)
  <2>1. \A i \in 1..Chunks : Item("edid", "none", i) \in EdidChunks
    BY DEF EdidChunks
  <2> QED
    BY <2>1
<1>2. /\ <<Try(Output("mux")), Try(SetPin("mux", 1))>> \in Seq(Q) /\ <<Step("refuse")>> \in Seq(Q)
      /\ <<Catch("mux"), Try(SetPin("mux", 0))>> \in Seq(Q) /\ <<Catch("edid")>> \in Seq(Q)
      /\ << >> \in Seq(Q)
  OBVIOUS
<1> HIDE DEF A, Q
<1>3. Load \in Seq(Q)
  <2>1. LoadEdid \in Seq(Q)
    BY <1>1, <1>2 DEF LoadEdid, A
  <2> QED
    BY <1>2, <2>1 DEF Load
<1>4. Q \subseteq All
  BY Alphabet DEF Q, All, Drives, Muxes
<1>5. Load \in Seq(All)
  BY <1>3, <1>4
<1>6. \A k \in 1..Len(Load) : Load[k] \in Q
  BY <1>3
<1> QED
  BY <1>5, <1>6 DEF Q

LEMMA StepBanked ==
  ASSUME Typed, Followed(todo), Banked, Next, Chunks \in Nat
  PROVE  Banked'
<1>0. Typed' /\ Followed(todo')
  BY StepTyped
<1> DEFINE Has(c, b) == c.bank = b \/ ~c.alive
<1>1. ASSUME op # "csc", NEW b \in Banks
      PROVE  Kept(todo, Writes(b), {Bank(b)}, Selectors, Has(chip, b))
  BY <1>1 DEF Banked
<1>2. ASSUME op # "csc", op' = op, Passing, NEW b \in Banks
      PROVE  Kept(todo', Writes(b), {Bank(b)}, Selectors, Has(chip', b))
  <2> DEFINE i == Head(todo)
  <2>1. Passes
    BY <1>2, PassingPasses
  <2>2. i \in All
    BY <2>1, FirstItem DEF Passes
  <2>3. /\ todo' = Caught(Tail(todo)) \/ (i \in {Bank(b)} => Has(chip', b))
        /\ i \notin Selectors /\ Has(chip, b) => Has(chip', b)
    <3>1. CASE Command
      <4>1. Effect(i) /\ i \notin Selectors => chip'.bank = chip.bank /\ chip'.alive = chip.alive
        BY <3>1, <2>2, Commanded, ChipKept DEF Selectors, Resets
      <4>2. Effect(i) /\ i = Bank(b) => chip'.bank = b \/ ~chip'.alive
        <5>1. i = Bank(b) => i \notin Resets /\ i.try = FALSE
          BY Classes, Fields DEF Resets, Bank, Item
        <5>2. Effect(i) /\ i = Bank(b) => chip'.alive = chip.alive
          BY <3>1, <2>2, <5>1, Commanded, ChipKept
        <5>3. Effect(i) /\ i = Bank(b) /\ chip.alive => chip'.bank = b
          BY <3>1, <2>2, Commanded, Landed
        <5> QED
          BY <5>2, <5>3
      <4>3. i = Bank(b) => ~i.try
        BY DEF Bank, Item
      <4>4. Effect(i) \/ todo' = Caught(Tail(todo)) \/ i.try
        BY <3>1, Commanded
      <4>5. Effect(i) \/ chip' = chip
        BY <3>1, Commanded
      <4> HIDE DEF i
      <4> QED
        BY <4>1, <4>2, <4>3, <4>4, <4>5
    <3>2. CASE ~Command
      <4>1. chip' = chip
        BY <3>2, Untouched
      <4>2. i.what \in {"step", "catch"}
        BY <1>2, <3>2, Names DEF Passing, Unready, Alive, Ready, Refuse, CatchError, Late, Matched,
           Expire, Known, AtStep
      <4>3. i # Bank(b)
        BY <4>2, Fields
      <4> QED
        BY <4>1, <4>3
    <3> QED
      BY <3>1, <3>2
  <2>4. \A x \in Writes(b) \cup {Bank(b)} : x.what # "catch"
    BY Fields, Names DEF Writes
  <2>5. /\ Batch(0) \notin {Bank(b)}
        /\ Try(SetPin("mux", 0)) \notin Writes(b) \cup {Bank(b)} \cup Selectors
    <3>1. Batch(0) # Bank(b) /\ Try(SetPin("mux", 0)) # Bank(b)
      BY Fields
    <3>2. Try(SetPin("mux", 0)) \notin Selectors
      BY NoSelector, Fields
    <3>3. Try(SetPin("mux", 0)) \notin Writes(b)
      BY Fields, Names DEF Writes
    <3> QED
      BY <3>1, <3>2, <3>3
  <2>6. todo \in Seq(Vocabulary(op))
    BY DEF Typed
  <2>7. Kept(todo, Writes(b), {Bank(b)}, Selectors, Has(chip, b))
    BY <1>1, <1>2
  <2> HIDE DEF i, Has
  <2> QED
    BY <2>1, <2>3, <2>4, <2>5, <2>6, <2>7, KeptPasses, ZenonT(60) DEF i
<1>3. ASSUME op # "csc", Splicing, NEW b \in Banks
      PROVE  Kept(todo', Writes(b), {Bank(b)}, Selectors, Has(chip', b))
  <2>1. /\ todo # << >> /\ todo' = Splice \o Tail(todo) /\ Splice \in Seq(Vocabulary(op))
        /\ chip' = chip
    BY <1>3, Spliced
  <2>2. todo \in Seq(Vocabulary(op)) /\ Len(Splice) \in Nat
    BY <2>1, LenProperties DEF Typed
  <2>3. Kept(todo, Writes(b), {Bank(b)}, Selectors, Has(chip, b))
    BY <1>1, <1>3
  <2>4. Head(todo) \notin {Bank(b)}
    BY <1>3, Names, Fields DEF Splicing, Edid, Frozen, AtStep
  <2>5. /\ Kept(Splice, Writes(b), {Bank(b)}, Selectors, Has(chip', b))
        /\ Head(todo) \notin Selectors => Free(Splice, Selectors)
    <3>1. CASE AtStep("edid") /\ Splice = Load
      <4>1. \A k \in 1..Len(Load) : /\ Load[k].what # "write" /\ Load[k] # Step("frozen")
                                    /\ Load[k] \notin Selectors
        <5>1. ASSUME NEW x \in {Try(Output("mux")), Try(SetPin("mux", 0)), Try(SetPin("mux", 1)),
                                Step("refuse"), Catch("mux"), Catch("edid")} \cup EdidChunks
              PROVE  x.what # "write" /\ x # Step("frozen") /\ x \notin Selectors
          <6>1. x.what # "write" /\ x # Step("frozen")
            BY <5>1, Fields, Names, Classes
          <6>2. Step("refuse") \notin Selectors
            BY Names, Classes DEF Selectors, Wakes
          <6>3. x # Step("refuse") => x.what \notin {"bank", "step"} /\ x.arg # "reset"
            BY <5>1, Fields, Names, Classes
          <6> QED
            BY <6>1, <6>2, <6>3, NoSelector
        <5> QED
          BY <5>1, LoadItems
      <4>2. Sound(Load)
        BY <4>1, SoundNone
      <4>3. Kept(Load, Writes(b), {Bank(b)}, Selectors, FALSE)
        BY <4>2 DEF Sound
      <4> QED
        BY <3>1, <4>1, <4>3, KeptAnyway, Zenon DEF Free
    <3>2. CASE AtStep("frozen") /\ Splice = Retime
      <4>1. Free(Retime, Selectors)
        <5>1. Step("late") \notin Selectors
          BY Names, Classes DEF Selectors, Wakes
        <5> QED
          BY <5>1, NoSelector, Fields, Names DEF Retime, Free
      <4>2. CASE b = 0
        <5>1. Head(todo) \in Writes(b)
          <6>1. Step("frozen") \in All
            BY Alphabet
          <6> QED
            BY <3>2, <4>2, <6>1 DEF Writes, AtStep
        <5>2. Has(chip, b)
          BY <2>1, <2>2, <2>3, <5>1, FirstNow, Zenon
        <5> QED
          BY <2>1, <2>2, <3>2, <4>1, <5>2, KeptFree
      <4>3. CASE b # 0
        <5>1. Free(Retime, Writes(b))
          BY <4>3, Fields, Names DEF Retime, Free, Writes
        <5> QED
          BY <3>2, <4>1, <5>1, KeptVoid, Zenon
      <4> QED
        BY <4>2, <4>3
    <3>3. CASE AtStep("alive") /\ Splice = Reset \o <<Bank(0), Step("again")>>
      <4>1. Sound(Splice)
        <5>1. Tame(Splice)
          BY <3>3, TamePieces, TameJoin
        <5> QED
          BY <5>1 DEF Tame
      <4>2. Kept(Splice, Writes(b), {Bank(b)}, Selectors, FALSE)
        BY <4>1 DEF Sound
      <4>3. Head(todo) \in Selectors
        BY <3>3 DEF AtStep, Selectors, Wakes
      <4> QED
        BY <4>2, <4>3, KeptAnyway, Zenon
    <3> QED
      BY <1>3, <3>1, <3>2, <3>3, Spliced DEF Load
  <2> HIDE DEF Has
  <2>6. Has(chip', b) <=> Has(chip, b)
    BY <2>1 DEF Has
  <2> QED
    BY <2>1, <2>2, <2>3, <2>4, <2>5, <2>6, KeptSplice, ZenonT(60)
<1>4. ASSUME op' # "csc", Fetching \/ Beginning, NEW b \in Banks
      PROVE  Kept(todo', Writes(b), {Bank(b)}, Selectors, Has(chip', b))
  <2>1. Settable(todo', op')
    BY <1>4, Fetched, Begun
  <2>2. Kept(todo', Writes(b), {Bank(b)}, Selectors, FALSE)
    BY <1>4, <2>1 DEF Settable, Sound
  <2> QED
    BY <2>2, KeptAnyway, Zenon
<1>5. ASSUME op' # "csc", Leaving, NEW b \in Banks
      PROVE  Kept(todo', Writes(b), {Bank(b)}, Selectors, Has(chip', b))
  <2>1. CASE End
    <3>1. todo' = << >> /\ Free(<< >>, Writes(b))
      BY <2>1 DEF End, Free
    <3> QED
      BY <3>1, KeptVoid, Zenon
  <2>2. CASE Note \/ Borrow \/ Scan
    <3>1. todo' = todo /\ chip' = chip /\ op' = op
      BY <2>2 DEF Note, Borrow, Scan, others
    <3> QED
      BY <1>1, <1>5, <3>1
  <2> QED
    BY <1>5, <2>1, <2>2 DEF Leaving
<1>6. ASSUME op' # "csc", NEW b \in Banks
      PROVE  Kept(todo', Writes(b), {Bank(b)}, Selectors, Has(chip', b))
  <2>1. Passing => op' = op
    BY PassingPasses
  <2>2. Splicing => op' = op
    BY Spliced
  <2> QED
    BY <1>2, <1>3, <1>4, <1>5, <1>6, <2>1, <2>2, Actions
<1>7. stray' \subseteq {"csc"}
  <2>1. stray \subseteq {"csc"}
    BY DEF Banked
  <2>2. CASE Command /\ Effect(Head(todo))
    <3> DEFINE i == Head(todo)
    <3>1. i \in All /\ todo # << >>
      BY <2>2, Commanded
    <3>2. CASE i.what = "write" /\ chip.alive /\ chip.bank # i.val.bank /\ op # "csc"
      <4>1. i.val.bank \in Banks /\ i \in Writes(i.val.bank)
        BY <3>1, <3>2, WriteBanks DEF Writes
      <4>2. Kept(todo, Writes(i.val.bank), {Bank(i.val.bank)}, Selectors, Has(chip, i.val.bank))
        BY <1>1, <3>2, <4>1
      <4>3. Has(chip, i.val.bank)
        <5>1. todo \in Seq(Vocabulary(op))
          BY DEF Typed
        <5> QED
          BY <3>1, <4>1, <4>2, <5>1, FirstNow, Zenon
      <4> QED
        BY <3>2, <4>3
    <3>3. CASE ~(i.what = "write" /\ chip.alive /\ chip.bank # i.val.bank /\ op # "csc")
      BY <2>1, <2>2, <3>3 DEF Effect
    <3> QED
      BY <3>2, <3>3
  <2>3. CASE ~(Command /\ Effect(Head(todo)))
    BY <2>1, <2>3, Commanded, Untouched
  <2> QED
    BY <2>2, <2>3
<1> QED
  BY <1>6, <1>7 DEF Banked

-----------------------------------------------------------------------------
(***************************************************************************)
(* The receiver runs only under the right polarity.                        *)
(***************************************************************************)
(* Which items an operation has not.                                       *)
LEMMA Owners ==
  ASSUME NEW o
  PROVE  /\ o # "bringup" => Vocabulary(o) \cap (Resets \cup Wakes) = {}
         /\ o # "bringup" => /\ Step("unready") \notin Vocabulary(o)
                             /\ Step("ready") \notin Vocabulary(o)
                             /\ Catch("edid") \notin Vocabulary(o)
         /\ o \notin Presenters => Vocabulary(o) \cap (HpdWrites \cup HpdPins \cup {Output("hpd")}) = {}
         /\ o \notin Loaders => Vocabulary(o) \cap (EdidChunks \cup {Step("edid")}) = {}
         /\ o # "signal" => Vocabulary(o) \cap LatchWrites = {}
         /\ o # "signal" => /\ Write("frozen", 0, 1) \notin Vocabulary(o)
                            /\ Step("frozen") \notin Vocabulary(o)
                            /\ Step("matched") \notin Vocabulary(o)
                            /\ Catch("thaw") \notin Vocabulary(o)
<1>1. o # "bringup" => Vocabulary(o) \cap (Resets \cup Wakes) = {}
  <2>1. \A i \in Wakes : i.what = "step" /\ i.arg \in {"alive", "again"}
    BY Names DEF Wakes
  <2>2. \A i \in Resets : i.what \in {"pin", "output"} /\ i.arg = "reset"
    BY Classes, Fields DEF Resets
  <2> QED
    BY <2>1, <2>2 DEF Vocabulary, Belongs
<1>2. /\ o # "bringup" => /\ Step("unready") \notin Vocabulary(o)
                          /\ Step("ready") \notin Vocabulary(o)
                          /\ Catch("edid") \notin Vocabulary(o)
      /\ o # "signal" => /\ Step("frozen") \notin Vocabulary(o)
                         /\ Step("matched") \notin Vocabulary(o)
                         /\ Catch("thaw") \notin Vocabulary(o)
  BY Names DEF Vocabulary, Belongs
<1>3. o \notin Presenters => Vocabulary(o) \cap (HpdWrites \cup HpdPins \cup {Output("hpd")}) = {}
  <2>1. \A i \in HpdWrites \cup HpdPins \cup {Output("hpd")} :
           i.what \in {"write", "pin", "output"} /\ i.arg = "hpd"
    BY Classes, Fields
  <2> QED
    BY <2>1 DEF Vocabulary, Belongs
<1>4. o \notin Loaders => Vocabulary(o) \cap (EdidChunks \cup {Step("edid")}) = {}
  <2>1. \A i \in EdidChunks : i.what = "edid"
    BY Classes
  <2> QED
    BY <2>1, Names DEF Vocabulary, Belongs
<1>5. o # "signal" => Vocabulary(o) \cap LatchWrites = {}
  BY Classes DEF Vocabulary, Belongs
<1>6. o # "signal" => Write("frozen", 0, 1) \notin Vocabulary(o)
  BY DEF Vocabulary, Belongs
<1> QED
  BY <1>1, <1>2, <1>3, <1>4, <1>5, <1>6

LEMMA DeadChip ==
  ASSUME NEW i, Effect(i), chip.alive = FALSE, i \notin Resets, i \in All PROVE chip' = chip
<1>1. ~(i.what = "pin" /\ i.arg = "reset") /\ ~(i.what = "output" /\ i.arg = "reset")
  BY Kinds DEF Resets
<1>2. i.what = "write" => Written(i) = chip
  BY DEF Written, Reaches
<1> QED
  BY <1>1, <1>2 DEF Effect

Lit == IF chip.alive THEN right /\ "reset" \in output ELSE chip = Blank

LEMMA StepLit ==
  ASSUME Typed, Power, Next PROVE Lit'
<1>1. Lit
  BY DEF Power, Lit
<1>2. CASE Command
  <2> DEFINE i == Head(todo)
  <2>1. /\ i \in All /\ todo # << >> /\ right' = right /\ chip \in Chips
        /\ pin \in [hpd : {0, 1}, mux : {0, 1}] /\ output \subseteq Pins
        /\ Effect(i) \/ (chip' = chip /\ output' = output)
    BY <1>2, Commanded
  <2>2. CASE Effect(i) /\ i \notin Resets
    <3>1. "reset" \in output' <=> "reset" \in output
      BY <2>1, <2>2, PinsMoved DEF Resets
    <3>2. chip.alive = FALSE => chip' = chip
      BY <2>1, <2>2, DeadChip
    <3>3. chip'.alive = chip.alive /\ chip.alive \in BOOLEAN
      BY <2>1, <2>2, ChipKept DEF Chips
    <3> QED
      BY <1>1, <2>1, <3>1, <3>2, <3>3 DEF Lit
  <2>3. CASE Effect(i) /\ i = Output("reset")
    <3>1. IF right THEN chip' = chip ELSE chip' = Blank
      BY <2>1, <2>3, ChipReset DEF Resets
    <3>2. output' = IF right THEN output \cup {"reset"} ELSE output \ {"reset"}
      BY <2>1, <2>3, PinsMoved
    <3>3. Blank.alive = FALSE
      BY DEF Blank
    <3> QED
      BY <1>1, <2>1, <3>1, <3>2, <3>3 DEF Lit
  <2>4. CASE Effect(i) /\ i \in ResetPins
    <3>1. \/ "reset" \notin output /\ chip' = chip
          \/ "reset" \in output /\ chip' = [Blank EXCEPT !.alive = (i.val = 1)]
      BY <2>1, <2>4, ChipReset DEF Resets
    <3>2. "reset" \in output' <=> "reset" \in output
      BY <2>1, <2>4, PinsMoved, Classes, Names
    <3>3. right \/ "reset" \notin output
      <4>1. /\ Kept(todo, ResetPins, {Output("reset")}, {Output("reset")} \cup Wakes,
                    right <=> "reset" \in output)
            /\ todo \in Seq(Vocabulary(op))
        BY DEF Power, Typed
      <4>2. right <=> "reset" \in output
        BY <2>1, <2>4, <4>1, FirstNow, Zenon
      <4> QED
        BY <4>2
    <3>4. (i.val = 1) = FALSE => [Blank EXCEPT !.alive = (i.val = 1)] = Blank
      <4>1. ASSUME NEW x, x = FALSE PROVE [Blank EXCEPT !.alive = x] = Blank
        <5>1. Blank \in Chips /\ Blank.alive = FALSE
          BY DEF Blank, Chips, Banks
        <5>2. \A c \in Chips : c.alive = x => [c EXCEPT !.alive = x] = c
          BY DEF Chips
        <5> QED
          BY <4>1, <5>1, <5>2
      <4> QED
        BY <4>1, Zenon
    <3>5. (i.val = 1) = TRUE => [Blank EXCEPT !.alive = (i.val = 1)].alive = TRUE
      BY DEF Blank
    <3>6. Blank.alive = FALSE /\ (i.val = 1) \in BOOLEAN
      BY DEF Blank
    <3> HIDE DEF i
    <3> QED
      BY <1>1, <2>1, <3>1, <3>2, <3>3, <3>4, <3>5, <3>6 DEF Lit
  <2>5. CASE chip' = chip /\ output' = output
    BY <1>1, <2>1, <2>5 DEF Lit
  <2> QED
    BY <2>1, <2>2, <2>3, <2>4, <2>5 DEF Resets
<1>3. CASE ~Command
  <2>1. chip' = chip /\ output' = output
    BY <1>3, Untouched
  <2>2. right' = right \/ chip.alive = FALSE
    <3>1. Decide => right' = right \/ ~chip.alive
      BY DEF Decide, Unready, Alive, Ready, Refuse, CatchError, Edid, Frozen, Late,
         PollUnlocked, PollLocked, PollMatched, Matched, Expire, LockRead, WatchJudge, Diag,
         Known, callers
    <3>2. Operation \/ Note \/ Borrow \/ Scan => right' = right
      BY DEF Operation, BeginBringup, BeginReload, BeginPulse, BeginSignal, BeginLock,
         BeginWatch, BeginDiag, BeginCsc, BeginColour, BeginRamtest, End, Begin, Note, Borrow, Scan,
         others
    <3>3. chip.alive \in BOOLEAN
      BY DEF Typed
    <3> QED
      BY <1>3, <3>1, <3>2, <3>3 DEF Next
  <2>3. chip.alive = FALSE => ~(chip.alive)
    OBVIOUS
  <2> QED
    BY <1>1, <2>1, <2>2, <2>3 DEF Lit
<1> QED
  BY <1>2, <1>3

(* What a bring-up begins with, and what it goes back to when the receiver *)
(* does not answer.                                                        *)
Opening == (<<Step("unready")>> \o Reset) \o <<Bank(0), Step("alive")>>
Again == Reset \o <<Bank(0), Step("again")>>

LEMMA OpeningItems ==
  /\ Len(Opening) = 7 /\ Opening[1] = Step("unready") /\ Opening[2] = Output("hpd")
  /\ Opening[3] = Output("reset") /\ Opening[4] = SetPin("reset", 0)
  /\ Opening[5] = SetPin("reset", 1) /\ Opening[6] = Bank(0) /\ Opening[7] = Step("alive")
  /\ Len(Again) = 6 /\ Again[1] = Output("hpd")
  /\ Again[2] = Output("reset") /\ Again[3] = SetPin("reset", 0)
  /\ Again[4] = SetPin("reset", 1) /\ Again[5] = Bank(0) /\ Again[6] = Step("again")
  /\ Tame(Opening) /\ Tame(Again) /\ Bringup = ((Opening \o InitRegs) \o Present) \o <<Step("ready")>>
<1>1. Tame(Opening) /\ Tame(Again)
  BY TamePieces, TameJoin DEF Opening, Again
<1>2. Bringup = ((Opening \o InitRegs) \o Present) \o <<Step("ready")>>
  BY DEF Bringup, Opening
<1>3. /\ Len(Opening) = 7 /\ Opening[1] = Step("unready") /\ Opening[2] = Output("hpd")
      /\ Opening[3] = Output("reset") /\ Opening[4] = SetPin("reset", 0)
      /\ Opening[5] = SetPin("reset", 1) /\ Opening[6] = Bank(0) /\ Opening[7] = Step("alive")
  BY Alphabet DEF Opening, Reset
<1>4. /\ Len(Again) = 6 /\ Again[1] = Output("hpd")
      /\ Again[2] = Output("reset") /\ Again[3] = SetPin("reset", 0)
      /\ Again[4] = SetPin("reset", 1) /\ Again[5] = Bank(0) /\ Again[6] = Step("again")
  BY Alphabet DEF Again, Reset
<1> QED
  BY <1>1, <1>2, <1>3, <1>4

(* The items no other piece of a bring-up has.                             *)
Special == Resets \cup Wakes \cup Catches

LEMMA NoReset ==
  /\ Free(InitRegs, Special \cup {Output("hpd")})
  /\ Free(Hpd(0), Special) /\ Free(Hpd(1), Special)
  /\ Free(<<Step("edid")>>, Special)
  /\ Free(<<Step("ready")>>, Special)
  /\ Free(Present, Special) /\ Free(Pulse, Special)
<1>1. \A i \in Special : /\ i.what \in {"pin", "output"} => i.arg = "reset"
                         /\ i.what \in {"pin", "output", "step", "catch"}
                         /\ i.what = "step" => i.arg \in {"alive", "again"}
  <2>1. \A i \in Wakes : i.what = "step" /\ i.arg \in {"alive", "again"}
    BY Names DEF Wakes
  <2>2. \A i \in Resets : i.what \in {"pin", "output"} /\ i.arg = "reset"
    BY Classes, Fields DEF Resets
  <2> QED
    BY <2>1, <2>2, Classes DEF Special
<1>2. Output("hpd").what = "output"
  BY Fields
<1>3. Free(InitRegs, Special \cup {Output("hpd")})
  <2> DEFINE M == InitRegs
  <2>1. Len(M) = 21
    BY DEF InitRegs
  <2>2. \A k \in 1..Len(M) : M[k].what \in {"bank", "write"} \/ M[k] = SetPin("hpd", 1)
    BY <2>1, Fields DEF InitRegs
  <2>3. SetPin("hpd", 1).what = "pin" /\ SetPin("hpd", 1).arg = "hpd"
    BY Fields
  <2> HIDE DEF M
  <2>4. \A k \in 1..Len(M) : M[k] \notin Special \cup {Output("hpd")}
    BY <1>1, <1>2, <2>2, <2>3
  <2> QED
    BY <2>4 DEF Free, M
<1>4. Free(Hpd(0), Special) /\ Free(Hpd(1), Special)
  BY <1>1, Fields DEF Free, Hpd
<1>5. Free(<<Step("edid")>>, Special) /\ Free(<<Step("ready")>>, Special)
  BY <1>1, Names DEF Free
<1>6. /\ Hpd(0) \in Seq(All) /\ Hpd(1) \in Seq(All) /\ <<Step("edid")>> \in Seq(All)
      /\ Hpd(0) \o <<Step("edid")>> \in Seq(All)
  BY TamePieces, TameJoin DEF Tame
<1>7. Free(Hpd(0) \o <<Step("edid")>>, Special)
  BY <1>4, <1>5, <1>6, FreeJoin, Zenon
<1>8. Free(Present, Special) /\ Free(Pulse, Special)
  BY <1>4, <1>6, <1>7, FreeJoin, Zenon DEF Present, Pulse
<1> QED
  BY <1>3, <1>4, <1>5, <1>8

LEMMA FreeLess ==
  ASSUME NEW L, NEW more, NEW less, Free(L, more), less \subseteq more PROVE Free(L, less)
BY DEF Free

(* What only the opening of a bring-up needs.                              *)
LEMMA KeptBringup ==
  ASSUME NEW needs, needs \subseteq Resets \cup Wakes, NEW makes, NEW breaks, NEW now,
         Kept(Opening, needs, makes, breaks, now)
  PROVE  Kept(Bringup, needs, makes, breaks, now)
<1>1. /\ Opening \in Seq(All) /\ InitRegs \in Seq(All) /\ Present \in Seq(All)
      /\ <<Step("ready")>> \in Seq(All)
  BY OpeningItems, TamePieces, TameLists DEF Tame
<1>2. Free(InitRegs, needs) /\ Free(Present, needs) /\ Free(<<Step("ready")>>, needs)
  BY NoReset DEF Free, Special
<1>3. /\ Kept(InitRegs, needs, makes, breaks, FALSE) /\ Kept(Present, needs, makes, breaks, FALSE)
      /\ Kept(<<Step("ready")>>, needs, makes, breaks, FALSE)
  BY <1>2, KeptVoid, Zenon
<1> DEFINE A == Opening \o InitRegs
           B == A \o Present
<1>4. Kept(A, needs, makes, breaks, now) /\ A \in Seq(All)
  BY <1>1, <1>3, KeptJoin, JoinPlaces, Zenon
<1> HIDE DEF A
<1>5. Kept(B, needs, makes, breaks, now) /\ B \in Seq(All)
  BY <1>1, <1>3, <1>4, KeptJoin, JoinPlaces, Zenon
<1> HIDE DEF B
<1>6. Kept(B \o <<Step("ready")>>, needs, makes, breaks, now)
  BY <1>1, <1>3, <1>5, KeptJoin, Zenon
<1> QED
  BY <1>6, OpeningItems DEF A, B

(* What only a bring-up needs, and loading the EDID does not touch.        *)
LEMMA StepOpening ==
  ASSUME Typed, Followed(todo), Next, Chunks \in Nat,
         NEW needs, needs \subseteq Resets \cup Wakes, NEW makes, NEW breaks, NEW now, NEW new,
         Wakes \subseteq breaks, breaks \subseteq {Output("hpd")} \cup Resets \cup Wakes,
         makes \subseteq {Output("hpd"), Output("reset"), SetPin("reset", 1)},
         Kept(todo, needs, makes, breaks, now),
         \A later : Kept(Opening, needs, makes, breaks, later),
         \A later : Kept(Again, needs, makes, breaks, later),
         Command => /\ todo' = Caught(Tail(todo)) \/ (Head(todo) \in makes => new)
                    /\ Head(todo) \notin breaks /\ now => new,
         ~Command /\ (todo # << >> => Head(todo) \notin Wakes) /\ now => new,
         (Note \/ Borrow \/ Scan) /\ now => new
  PROVE  Kept(todo', needs, makes, breaks, new)
<1>0. Typed'
  BY StepTyped
<1>1. todo \in Seq(Vocabulary(op)) /\ todo' \in Seq(Vocabulary(op'))
  BY <1>0 DEF Typed
<1>2. /\ \A i \in needs \cup makes : i.what # "catch"
      /\ Batch(0) \notin makes
      /\ Try(SetPin("mux", 0)) \notin needs \cup makes \cup breaks
      /\ \A i \in breaks : /\ i.what \in {"output", "pin", "step"}
                          /\ i.arg \in {"hpd", "reset", "alive", "again"}
      /\ \A i \in needs : i.what \in {"output", "step", "pin"} /\ i.arg \in {"reset", "alive", "again"}
      /\ \A i \in makes : i.what \in {"output", "pin"} /\ i.arg \in {"hpd", "reset"}
  <2>1. \A i \in Wakes : i.what = "step" /\ i.arg \in {"alive", "again"}
    BY Names DEF Wakes
  <2>2. \A i \in Resets : i.what \in {"output", "pin"} /\ i.arg = "reset"
    BY Classes, Fields DEF Resets
  <2>3. \A i \in {Output("hpd"), Output("reset"), SetPin("reset", 1)} :
           i.what \in {"output", "pin"} /\ i.arg \in {"hpd", "reset"}
    BY Fields
  <2>4. /\ Batch(0).what = "write" /\ Try(SetPin("mux", 0)).what = "pin"
        /\ Try(SetPin("mux", 0)).arg = "mux"
    BY Fields
  <2> QED
    BY <2>1, <2>2, <2>3, <2>4
<1>3. op' # "bringup" => Kept(todo', needs, makes, breaks, new)
  BY <1>1, Owners, KeptNone
<1>4. CASE Passing
  <2>1. Passes
    BY <1>4, PassingPasses
  <2>2. /\ todo' = Caught(Tail(todo)) \/ (Head(todo) \in makes => new)
        /\ Head(todo) \notin breaks /\ now => new
    <3>1. CASE ~Command
      <4>1. Head(todo).what \in {"step", "catch"}
        BY <1>4, <3>1, Names DEF Passing, Unready, Alive, Ready, Refuse, CatchError, Late, Matched,
           Expire, Known, AtStep
      <4> QED
        BY <1>2, <3>1, <4>1
    <3> QED
      BY <3>1
  <2> QED
    BY <1>1, <1>2, <2>1, <2>2, KeptPasses, ZenonT(60)
<1>5. CASE Splicing /\ op' = "bringup"
  <2>1. /\ todo # << >> /\ todo' = Splice \o Tail(todo) /\ Splice \in Seq(Vocabulary(op))
        /\ op = "bringup"
    BY <1>5, Spliced
  <2>2. Len(Splice) \in Nat /\ ~Command
    BY <1>5, <2>1, LenProperties, Names DEF Splicing, Edid, Frozen, AtStep, Command, Commands
  <2>3. Head(todo).what = "step"
    BY <1>5, Names DEF Splicing, Edid, Frozen, AtStep
  <2>4. CASE AtStep("edid") /\ Splice = Load
    <3>1. \A x \in {Try(Output("mux")), Try(SetPin("mux", 0)), Try(SetPin("mux", 1)),
                    Step("refuse"), Catch("mux"), Catch("edid")} \cup EdidChunks :
             /\ x.what \in {"output", "pin"} => x.arg = "mux"
             /\ x.what = "step" => x.arg = "refuse"
             /\ x.what \in {"output", "pin", "step", "catch", "edid"}
      BY Fields, Names, Classes
    <3>2. Free(Load, needs) /\ Free(Load, breaks)
      BY <1>2, <3>1, LoadItems DEF Free
    <3>3. Kept(Splice, needs, makes, breaks, new)
      BY <2>4, <3>2, KeptVoid, Zenon
    <3>4. Head(todo) \notin Wakes
      BY <2>4, Names DEF AtStep, Wakes
    <3>5. Head(todo) \notin makes
      BY <1>2, <2>3
    <3> QED
      BY <1>1, <2>1, <2>2, <2>4, <3>2, <3>3, <3>4, <3>5, KeptSplice, ZenonT(60)
  <2>5. CASE AtStep("alive") /\ Splice = Again
    <3>1. Head(todo) \in breaks /\ Head(todo) \notin makes
      BY <1>2, <2>5, Names DEF AtStep, Wakes
    <3> QED
      BY <1>1, <2>1, <2>2, <2>5, <3>1, KeptSplice, ZenonT(60)
  <2> QED
    BY <1>5, <2>1, <2>4, <2>5, Spliced DEF Load, Again
<1>6. CASE Fetching
  <2>1. op' # "bringup"
    BY <1>6, Fetched
  <2> QED
    BY <1>3, <2>1
<1>7. CASE Beginning /\ op' = "bringup"
  <2>1. todo' = Bringup
    BY <1>7, Begun
  <2> QED
    BY <2>1, KeptBringup, Zenon
<1>8. CASE Leaving /\ op' = "bringup"
  <2>1. todo' = todo /\ ~End
    BY <1>8 DEF Leaving, End, Note, Borrow, Scan, others
  <2>2. now => new
    BY <1>8, <2>1 DEF Leaving
  <2> QED
    BY <2>1, <2>2 DEF Kept, Will
<1> QED
  BY <1>3, <1>4, <1>5, <1>6, <1>7, <1>8, Actions

LEMMA StepPulses ==
  ASSUME Typed, Followed(todo), Power, Next, Chunks \in Nat
  PROVE  /\ Kept(todo', ResetPins, {Output("reset")}, {Output("reset")} \cup Wakes,
                right' <=> "reset" \in output')
         /\ Kept(todo', Wakes, {Output("hpd")}, {Output("hpd")} \cup Wakes,
                right' => "hpd" \in output')
         /\ Kept(todo', Wakes, {SetPin("reset", 1)}, Resets \cup Wakes, right' => chip'.alive)
<1>1. /\ Kept(todo, ResetPins, {Output("reset")}, {Output("reset")} \cup Wakes,
              right <=> "reset" \in output)
      /\ Kept(todo, Wakes, {Output("hpd")}, {Output("hpd")} \cup Wakes,
              right => "hpd" \in output)
      /\ Kept(todo, Wakes, {SetPin("reset", 1)}, Resets \cup Wakes, right => chip.alive)
  BY DEF Power
<1>2. /\ Output("hpd") # Output("reset") /\ Output("hpd") \notin ResetPins \cup Wakes
      /\ Output("reset") \notin ResetPins \cup Wakes
      /\ ResetPins \cap Wakes = {}
      /\ ~Output("hpd").try /\ ~Output("reset").try
      /\ \A i \in Wakes : i.what = "step"
  <2>1. \A i \in Wakes : i.what = "step"
    BY Names DEF Wakes
  <2> QED
    BY <2>1, Fields, Classes
<1>3. ASSUME NEW later
      PROVE  /\ Kept(Opening, ResetPins, {Output("reset")}, {Output("reset")} \cup Wakes, later)
             /\ Kept(Again, ResetPins, {Output("reset")}, {Output("reset")} \cup Wakes, later)
  <2>1. SetPin("reset", 0) \in ResetPins /\ SetPin("reset", 0).what = "pin"
    BY Fields DEF ResetPins
  <2>2. Bank(0) \notin ResetPins \cup Wakes /\ Step("alive") \notin ResetPins
        /\ Step("again") \notin ResetPins /\ Step("unready") \notin ResetPins
    BY <1>2, Fields, Names, Classes
  <2>3. \A k \in 1..Len(Opening) : Opening[k] \in ResetPins =>
           Near(Opening, k, {Output("reset")}, {Output("reset")} \cup Wakes)
    BY <1>2, <2>1, <2>2, OpeningItems DEF Near
  <2>4. \A k \in 1..Len(Again) : Again[k] \in ResetPins =>
           Near(Again, k, {Output("reset")}, {Output("reset")} \cup Wakes)
    BY <1>2, <2>1, <2>2, OpeningItems DEF Near
  <2>5. Len(Opening) \in Nat /\ Len(Again) \in Nat
    BY OpeningItems
  <2> QED
    BY <2>3, <2>4, <2>5, KeptNear, ZenonT(30)
<1>4. ASSUME NEW later
      PROVE  /\ Kept(Opening, Wakes, {Output("hpd")}, {Output("hpd")} \cup Wakes, later)
             /\ Kept(Again, Wakes, {Output("hpd")}, {Output("hpd")} \cup Wakes, later)
  <2>1. /\ SetPin("reset", 0).what = "pin" /\ SetPin("reset", 1).what = "pin"
        /\ SetPin("reset", 0).arg = "reset" /\ SetPin("reset", 1).arg = "reset"
        /\ Bank(0).what = "bank" /\ Output("reset").what = "output"
        /\ Output("hpd").what = "output"
    BY Fields
  <2>2. Step("unready") \notin Wakes
    BY Names DEF Wakes
  <2>3. /\ Output("reset") \notin {Output("hpd")} \cup Wakes
        /\ SetPin("reset", 0) \notin {Output("hpd")} \cup Wakes
        /\ SetPin("reset", 1) \notin {Output("hpd")} \cup Wakes
        /\ Bank(0) \notin {Output("hpd")} \cup Wakes
    BY <1>2, <2>1
  <2>4. ASSUME NEW k \in 1..Len(Opening), Opening[k] \in Wakes
        PROVE  Will(Opening, k, {Output("hpd")}, {Output("hpd")} \cup Wakes, later)
    <3>1. k = 7
      BY <2>2, <2>3, <2>4, <1>2, OpeningItems
    <3>2. 2 \in 1..k - 1 /\ \A i \in 2 + 1..k - 1 : i \in {3, 4, 5, 6}
      BY <3>1
    <3>3. \A i \in {3, 4, 5, 6} : /\ Opening[i] \notin {Output("hpd")} \cup Wakes
                                 /\ Opening[i].what # "catch"
      BY <2>1, <2>3, OpeningItems
    <3> QED
      BY <3>2, <3>3, OpeningItems DEF Will
  <2>5. ASSUME NEW k \in 1..Len(Again), Again[k] \in Wakes
        PROVE  Will(Again, k, {Output("hpd")}, {Output("hpd")} \cup Wakes, later)
    <3>1. k = 6
      BY <2>2, <2>3, <2>5, <1>2, OpeningItems
    <3>2. 1 \in 1..k - 1 /\ \A i \in 1 + 1..k - 1 : i \in {2, 3, 4, 5}
      BY <3>1
    <3>3. \A i \in {2, 3, 4, 5} : /\ Again[i] \notin {Output("hpd")} \cup Wakes
                                 /\ Again[i].what # "catch"
      BY <2>1, <2>3, OpeningItems
    <3> QED
      BY <3>2, <3>3, OpeningItems DEF Will
  <2> QED
    BY <2>4, <2>5 DEF Kept
<1>11. ASSUME NEW later
       PROVE  /\ Kept(Opening, Wakes, {SetPin("reset", 1)}, Resets \cup Wakes, later)
              /\ Kept(Again, Wakes, {SetPin("reset", 1)}, Resets \cup Wakes, later)
  <2>1. /\ SetPin("reset", 0).what = "pin" /\ SetPin("reset", 1).what = "pin"
        /\ Bank(0).what = "bank" /\ Output("reset").what = "output"
        /\ Output("hpd").what = "output"
    BY Fields
  <2>2. Step("unready") \notin Wakes
    BY Names DEF Wakes
  <2>3. Bank(0) \notin Resets \cup Wakes
    BY <1>2, Fields, Classes DEF Resets
  <2>4. ASSUME NEW k \in 1..Len(Opening), Opening[k] \in Wakes
        PROVE  Will(Opening, k, {SetPin("reset", 1)}, Resets \cup Wakes, later)
    <3>1. k = 7
      BY <2>1, <2>2, <2>3, <2>4, <1>2, OpeningItems
    <3>2. 5 \in 1..k - 1 /\ \A i \in 5 + 1..k - 1 : i = 6
      BY <3>1
    <3> QED
      BY <2>1, <2>3, <3>2, OpeningItems DEF Will
  <2>5. ASSUME NEW k \in 1..Len(Again), Again[k] \in Wakes
        PROVE  Will(Again, k, {SetPin("reset", 1)}, Resets \cup Wakes, later)
    <3>1. k = 6
      BY <2>1, <2>3, <2>5, <1>2, OpeningItems
    <3>2. 4 \in 1..k - 1 /\ \A i \in 4 + 1..k - 1 : i = 5
      BY <3>1
    <3> QED
      BY <2>1, <2>3, <3>2, OpeningItems DEF Will
  <2> QED
    BY <2>4, <2>5 DEF Kept
<1> DEFINE P(r, o) == r <=> "reset" \in o
           A(r, c) == r => c.alive
           H(r, o) == r => "hpd" \in o
<1>5. Command =>
        /\ todo' = Caught(Tail(todo)) \/ (Head(todo) \in {Output("reset")} => P(right', output'))
        /\ Head(todo) \notin {Output("reset")} \cup Wakes /\ P(right, output) =>
              P(right', output')
        /\ todo' = Caught(Tail(todo)) \/ (Head(todo) \in {Output("hpd")} => H(right', output'))
        /\ Head(todo) \notin {Output("hpd")} \cup Wakes /\ H(right, output) =>
              H(right', output')
        /\ todo' = Caught(Tail(todo)) \/ (Head(todo) \in {SetPin("reset", 1)} => A(right', chip'))
        /\ Head(todo) \notin Resets \cup Wakes /\ A(right, chip) => A(right', chip')
  <2> SUFFICES ASSUME Command
               PROVE  /\ todo' = Caught(Tail(todo)) \/ (Head(todo) \in {Output("reset")} => P(right', output'))
                      /\ Head(todo) \notin {Output("reset")} \cup Wakes /\ P(right, output) =>
                            P(right', output')
                      /\ todo' = Caught(Tail(todo)) \/ (Head(todo) \in {Output("hpd")} => H(right', output'))
                      /\ Head(todo) \notin {Output("hpd")} \cup Wakes /\ H(right, output) =>
                            H(right', output')
                      /\ todo' = Caught(Tail(todo)) \/ (Head(todo) \in {SetPin("reset", 1)} => A(right', chip'))
                      /\ Head(todo) \notin Resets \cup Wakes /\ A(right, chip) => A(right', chip')
    OBVIOUS
  <2> DEFINE i == Head(todo)
  <2>1. /\ i \in All /\ right' = right
        /\ Effect(i) \/ (output' = output /\ chip' = chip)
        /\ Effect(i) \/ todo' = Caught(Tail(todo)) \/ i.try
        /\ pin \in [hpd : {0, 1}, mux : {0, 1}] /\ output \subseteq Pins
    BY Commanded
  <2>2. Effect(i) =>
           \A p \in {"hpd", "reset"} :
               /\ i = Output(p) => output' = IF right THEN output \cup {p} ELSE output \ {p}
               /\ i # Output(p) => (p \in output' <=> p \in output)
    BY <2>1, PinsMoved
  <2>5. i = SetPin("reset", 1) => (right => "reset" \in output)
    <3>1. /\ i = SetPin("reset", 1) => i \in ResetPins
          /\ todo \in Seq(Vocabulary(op)) /\ todo # << >>
      BY Commanded DEF ResetPins, Typed
    <3> QED
      BY <1>1, <3>1, FirstNow, Zenon
  <2>6. Effect(i) /\ i = SetPin("reset", 1) => A(right', chip')
    <3>1. SetPin("reset", 1) \in Resets /\ SetPin("reset", 1) # Output("reset")
          /\ SetPin("reset", 1).val = 1 /\ SetPin("reset", 1) \in ResetPins
      BY <1>2, Fields DEF Resets, ResetPins, SetPin, Item
    <3>2. ASSUME Effect(i), i = SetPin("reset", 1), right PROVE chip'.alive
      <4>1. chip' = [Blank EXCEPT !.alive = (i.val = 1)]
        BY <2>1, <2>5, <3>1, <3>2, Commanded, ChipReset
      <4> QED
        BY <3>1, <3>2, <4>1 DEF Blank
    <3> QED
      BY <2>1, <3>2
  <2>7. i \notin Resets => chip'.alive = chip.alive
    BY <2>1, Commanded, ChipKept
  <2> HIDE DEF i
  <2>3. /\ Effect(i) /\ i = Output("reset") => P(right', output')
        /\ Effect(i) /\ i = Output("hpd") => H(right', output')
    BY <2>1, <2>2
  <2>4. /\ i # Output("reset") => ("reset" \in output' <=> "reset" \in output)
        /\ i # Output("hpd") => ("hpd" \in output' <=> "hpd" \in output)
    BY <2>1, <2>2
  <2>8. ~SetPin("reset", 1).try
    BY Classes DEF ResetPins
  <2>9. i \in {Output("hpd"), Output("reset"), SetPin("reset", 1)} =>
           Effect(i) \/ todo' = Caught(Tail(todo))
    BY <1>2, <2>1, <2>8
  <2>10. /\ i \notin {Output("reset")} \cup Wakes /\ P(right, output) => P(right', output')
         /\ i \notin {Output("hpd")} \cup Wakes /\ H(right, output) => H(right', output')
    BY <2>1, <2>4
  <2>11. i \notin Resets \cup Wakes /\ A(right, chip) => A(right', chip')
    BY <2>1, <2>7
  <2> HIDE DEF P, H, A
  <2> QED
    BY <2>3, <2>6, <2>9, <2>10, <2>11 DEF i
<1>6. ~Command /\ (todo # << >> => Head(todo) \notin Wakes) =>
        /\ P(right, output) => P(right', output')
        /\ H(right, output) => H(right', output')
        /\ A(right, chip) => A(right', chip')
  <2> SUFFICES ASSUME ~Command, todo # << >> => Head(todo) \notin Wakes
               PROVE  right' = right /\ output' = output /\ chip' = chip
    OBVIOUS
  <2>1. ~Alive
    BY DEF Alive, AtStep, Wakes
  <2>2. Decide => right' = right
    BY <2>1 DEF Decide, Unready, Ready, Refuse, CatchError, Edid, Frozen, Late,
       PollUnlocked, PollLocked, PollMatched, Matched, Expire, LockRead, WatchJudge, Diag,
       Known, callers
  <2>3. Operation \/ Note \/ Borrow \/ Scan => right' = right
    BY DEF Operation, BeginBringup, BeginReload, BeginPulse, BeginSignal, BeginLock,
       BeginWatch, BeginDiag, BeginCsc, BeginColour, BeginRamtest, End, Begin, Note, Borrow, Scan,
       others
  <2> QED
    BY <2>2, <2>3, Untouched DEF Next
<1>7. Note \/ Borrow \/ Scan =>
        /\ P(right, output) => P(right', output')
        /\ H(right, output) => H(right', output')
        /\ A(right, chip) => A(right', chip')
  BY DEF Note, Borrow, Scan, others
<1>8. /\ ResetPins \subseteq Resets \cup Wakes /\ Wakes \subseteq Resets \cup Wakes
      /\ \A p \in {"hpd", "reset"} :
            /\ Wakes \subseteq {Output(p)} \cup Wakes
            /\ {Output(p)} \cup Wakes \subseteq {Output("hpd")} \cup Resets \cup Wakes
            /\ {Output(p)} \subseteq {Output("hpd"), Output("reset"), SetPin("reset", 1)}
  BY DEF Resets
<1>9. Kept(todo', ResetPins, {Output("reset")}, {Output("reset")} \cup Wakes, P(right', output'))
  <2> DEFINE now == P(right, output)
             new == P(right', output')
             makes == {Output("reset")}
             breaks == {Output("reset")} \cup Wakes
  <2>1. Kept(todo, ResetPins, makes, breaks, now)
    BY <1>1
  <2>2. /\ ResetPins \subseteq Resets \cup Wakes /\ Wakes \subseteq breaks
        /\ breaks \subseteq {Output("hpd")} \cup Resets \cup Wakes
        /\ makes \subseteq {Output("hpd"), Output("reset"), SetPin("reset", 1)}
    BY <1>8
  <2>3. /\ \A later : Kept(Opening, ResetPins, makes, breaks, later)
        /\ \A later : Kept(Again, ResetPins, makes, breaks, later)
    BY <1>3
  <2>4. Command => /\ todo' = Caught(Tail(todo)) \/ (Head(todo) \in makes => new)
                   /\ Head(todo) \notin breaks /\ now => new
    BY <1>5
  <2>5. ~Command /\ (todo # << >> => Head(todo) \notin Wakes) /\ now => new
    BY <1>6
  <2>6. (Note \/ Borrow \/ Scan) /\ now => new
    BY <1>7
  <2> HIDE DEF now, new, makes, breaks
  <2>7. Kept(todo', ResetPins, makes, breaks, new)
    BY <2>1, <2>2, <2>3, <2>4, <2>5, <2>6, StepOpening, ZenonT(60)
  <2> QED
    BY <2>7 DEF new, makes, breaks
<1>10. Kept(todo', Wakes, {Output("hpd")}, {Output("hpd")} \cup Wakes, H(right', output'))
  <2> DEFINE now == H(right, output)
             new == H(right', output')
             makes == {Output("hpd")}
             breaks == {Output("hpd")} \cup Wakes
  <2>1. Kept(todo, Wakes, makes, breaks, now)
    BY <1>1
  <2>2. /\ Wakes \subseteq Resets \cup Wakes /\ Wakes \subseteq breaks
        /\ breaks \subseteq {Output("hpd")} \cup Resets \cup Wakes
        /\ makes \subseteq {Output("hpd"), Output("reset"), SetPin("reset", 1)}
    BY <1>8
  <2>3. /\ \A later : Kept(Opening, Wakes, makes, breaks, later)
        /\ \A later : Kept(Again, Wakes, makes, breaks, later)
    BY <1>4
  <2>4. Command => /\ todo' = Caught(Tail(todo)) \/ (Head(todo) \in makes => new)
                   /\ Head(todo) \notin breaks /\ now => new
    BY <1>5
  <2>5. ~Command /\ (todo # << >> => Head(todo) \notin Wakes) /\ now => new
    BY <1>6
  <2>6. (Note \/ Borrow \/ Scan) /\ now => new
    BY <1>7
  <2> HIDE DEF now, new, makes, breaks
  <2>7. Kept(todo', Wakes, makes, breaks, new)
    BY <2>1, <2>2, <2>3, <2>4, <2>5, <2>6, StepOpening, ZenonT(60)
  <2> QED
    BY <2>7 DEF new, makes, breaks
<1>12. Kept(todo', Wakes, {SetPin("reset", 1)}, Resets \cup Wakes, A(right', chip'))
  <2> DEFINE now == A(right, chip)
             new == A(right', chip')
             makes == {SetPin("reset", 1)}
             breaks == Resets \cup Wakes
  <2>1. Kept(todo, Wakes, makes, breaks, now)
    BY <1>1
  <2>2. /\ Wakes \subseteq Resets \cup Wakes /\ Wakes \subseteq breaks
        /\ breaks \subseteq {Output("hpd")} \cup Resets \cup Wakes
        /\ makes \subseteq {Output("hpd"), Output("reset"), SetPin("reset", 1)}
    BY <1>8
  <2>3. /\ \A later : Kept(Opening, Wakes, makes, breaks, later)
        /\ \A later : Kept(Again, Wakes, makes, breaks, later)
    BY <1>11
  <2>4. Command => /\ todo' = Caught(Tail(todo)) \/ (Head(todo) \in makes => new)
                   /\ Head(todo) \notin breaks /\ now => new
    BY <1>5
  <2>5. ~Command /\ (todo # << >> => Head(todo) \notin Wakes) /\ now => new
    BY <1>6
  <2>6. (Note \/ Borrow \/ Scan) /\ now => new
    BY <1>7
  <2> HIDE DEF now, new, makes, breaks
  <2>7. Kept(todo', Wakes, makes, breaks, new)
    BY <2>1, <2>2, <2>3, <2>4, <2>5, <2>6, StepOpening, ZenonT(60)
  <2> QED
    BY <2>7 DEF new, makes, breaks
<1> QED
  BY <1>9, <1>10, <1>12

-----------------------------------------------------------------------------
(***************************************************************************)
(* What is left to do after a step is some of what was left before, in the *)
(* same order.                                                             *)
(***************************************************************************)
Thins(M, L) ==
    \E f \in [1..Len(M) -> 1..Len(L)] :
       /\ \A i, j \in 1..Len(M) : i < j => f[i] < f[j]
       /\ \A i \in 1..Len(M) : f[i] > 1 /\ M[i] = L[f[i]]

LEMMA ThinsTail ==
  ASSUME NEW S, NEW L \in Seq(S), L # << >>
  PROVE  Thins(Tail(L), L) /\ Thins(Caught(Tail(L)), L) /\ Thins(<< >>, L)
<1> DEFINE R == Tail(L)
           n == Len(L)
<1>1. /\ R \in Seq(S) /\ Len(R) = n - 1 /\ n \in Nat \ {0}
      /\ \A i \in 1..n - 1 : R[i] = L[i + 1]
  BY TailPlaces
<1> HIDE DEF R, n
<1>2. Thins(R, L)
  <2> DEFINE f == [i \in 1..Len(R) |-> i + 1]
  <2>1. f \in [1..Len(R) -> 1..n]
    BY <1>1
  <2>2. /\ \A i, j \in 1..Len(R) : i < j => f[i] < f[j]
        /\ \A i \in 1..Len(R) : f[i] > 1 /\ R[i] = L[f[i]]
    BY <1>1
  <2> HIDE DEF f
  <2> QED
    BY <2>1, <2>2 DEF Thins, n
<1>3. Thins(<< >>, L)
  <2> DEFINE M == << >>
             f == [i \in 1..Len(M) |-> 1]
  <2>1. Len(M) = 0
    OBVIOUS
  <2> HIDE DEF M
  <2>2. f \in [1..Len(M) -> 1..n]
    BY <1>1
  <2>3. \A i \in 1..Len(M) : FALSE
    BY <2>1
  <2> HIDE DEF f
  <2>4. Thins(M, L)
    BY <2>2, <2>3 DEF Thins, n
  <2> QED
    BY <2>4 DEF M
<1>4. Thins(Caught(R), L)
  <2> DEFINE J == Caught(R)
  <2>1. CASE J = << >>
    BY <1>3, <2>1
  <2>2. CASE J # << >>
    <3>1. PICK c \in 1..Len(R) :
             /\ Len(J) = Len(R) - c + 1
             /\ \A i \in 1..Len(R) - c + 1 : J[i] = R[i + c - 1]
      BY <1>1, <2>2, JumpPlaces, ZenonT(30)
    <3> HIDE DEF J
    <3> DEFINE f == [i \in 1..Len(J) |-> i + c]
    <3>2. f \in [1..Len(J) -> 1..n]
      <4>1. Len(R) \in Nat /\ c \in 1..Len(R) /\ Len(J) \in Nat /\ n = Len(R) + 1
        BY <1>1, <3>1
      <4>2. \A i \in 1..Len(J) : i + c \in 1..n
        BY <3>1, <4>1
      <4> QED
        BY <4>2
    <3>3. /\ \A i, j \in 1..Len(J) : i < j => f[i] < f[j]
          /\ \A i \in 1..Len(J) : f[i] > 1
      <4>1. /\ c \in Nat /\ c >= 1
            /\ \A i \in 1..Len(J) : i \in Nat /\ i >= 1 /\ f[i] = i + c
        BY <1>1, <3>1
      <4> HIDE DEF f
      <4> QED
        BY <4>1
    <3>4. ASSUME NEW i \in 1..Len(J) PROVE J[i] = L[f[i]]
      <4>1. i + c - 1 \in 1..n - 1 /\ (i + c - 1) + 1 = i + c /\ i \in 1..Len(R) - c + 1
        BY <1>1, <3>1
      <4> QED
        BY <1>1, <3>1, <4>1
    <3> HIDE DEF f
    <3> QED
      BY <3>2, <3>3, <3>4 DEF Thins, n, J
  <2> QED
    BY <2>1, <2>2
<1> QED
  BY <1>2, <1>3, <1>4 DEF R

LEMMA ThinsThins ==
  ASSUME NEW M, NEW L, NEW K, Thins(M, L), Thins(L, K), Len(K) \in Nat
  PROVE  Thins(M, K)
<1>1. PICK f \in [1..Len(M) -> 1..Len(L)] :
        /\ \A i, j \in 1..Len(M) : i < j => f[i] < f[j]
        /\ \A i \in 1..Len(M) : f[i] > 1 /\ M[i] = L[f[i]]
  BY DEF Thins
<1>2. PICK g \in [1..Len(L) -> 1..Len(K)] :
        /\ \A i, j \in 1..Len(L) : i < j => g[i] < g[j]
        /\ \A i \in 1..Len(L) : g[i] > 1 /\ L[i] = K[g[i]]
  BY DEF Thins
<1> DEFINE h == [i \in 1..Len(M) |-> g[f[i]]]
<1>3. h \in [1..Len(M) -> 1..Len(K)]
  BY <1>1, <1>2
<1>4. /\ \A i, j \in 1..Len(M) : i < j => h[i] < h[j]
      /\ \A i \in 1..Len(M) : h[i] > 1 /\ M[i] = K[h[i]]
  BY <1>1, <1>2
<1> HIDE DEF h
<1> QED
  BY <1>3, <1>4 DEF Thins

LEMMA PassesThins ==
  ASSUME NEW S, todo \in Seq(S), Followed(todo), Passes PROVE Thins(todo', todo)
<1> DEFINE R == Tail(todo)
<1>1. /\ todo # << >> /\ R \in Seq(S) /\ Head(todo) = todo[1] /\ 1 \in 1..Len(todo)
      /\ Len(todo) \in Nat
  BY TailPlaces DEF Passes
<1>2. Thins(R, todo) /\ Thins(Caught(R), todo) /\ Thins(<< >>, todo)
  BY <1>1, ThinsTail
<1>3. CASE AtStep("late") /\ todo' = Tail(R)
  <2>1. 1 < Len(todo)
    BY <1>1, <1>3 DEF AtStep, Followed
  <2>2. R # << >>
    BY <1>1, <2>1, SecondPlace
  <2>3. Thins(Tail(R), R)
    BY <1>1, <2>2, ThinsTail
  <2> QED
    BY <1>1, <1>2, <1>3, <2>3, ThinsThins
<1>4. CASE Head(todo) = Catch("mux") /\ todo' = <<Head(R)>> \o Caught(Tail(R))
  <2>1. 1 < Len(todo)
    BY <1>1, <1>4 DEF Followed
  <2>2. R # << >> /\ Head(R) = todo[2] /\ todo[2] \in S /\ Tail(R) \in Seq(S)
    BY <1>1, <2>1, SecondPlace
  <2> DEFINE K == Caught(Tail(R))
  <2>3. Thins(K, R) /\ Thins(R, todo)
    BY <1>1, <1>2, <2>2, ThinsTail
  <2>4. K \in Seq(S) /\ Len(K) \in Nat
    <3>1. K \in Seq(S)
      BY <2>2, CaughtList
    <3> HIDE DEF K
    <3> QED
      BY <3>1
  <2>5. PICK f \in [1..Len(K) -> 1..Len(R)] :
          /\ \A i, j \in 1..Len(K) : i < j => f[i] < f[j]
          /\ \A i \in 1..Len(K) : f[i] > 1 /\ K[i] = R[f[i]]
    BY <2>3 DEF Thins
  <2>6. /\ Len(R) = Len(todo) - 1 /\ Len(R) \in Nat
        /\ \A i \in 1..Len(R) : R[i] = todo[i + 1]
    BY <1>1, TailPlaces
  <2> HIDE DEF K, R
  <2> DEFINE M == <<Head(R)>> \o K
             g == [i \in 1..Len(M) |-> IF i = 1 THEN 2 ELSE f[i - 1] + 1]
  <2>7. /\ Len(M) = Len(K) + 1 /\ M[1] = Head(R)
        /\ \A i \in 2..Len(M) : i - 1 \in 1..Len(K) /\ M[i] = K[i - 1]
    <3>1. Head(R) \in S
      BY <2>2
    <3>2. /\ Len(M) = Len(K) + 1 /\ M[1] = Head(R)
          /\ \A i \in 1..Len(K) : M[i + 1] = K[i]
      BY <2>4, <3>1
    <3>3. \A i \in 2..Len(M) : i - 1 \in 1..Len(K) /\ (i - 1) + 1 = i
      BY <2>4, <3>2
    <3> HIDE DEF M
    <3> QED
      BY <3>2, <3>3
  <2> HIDE DEF M
  <2>8. \A i \in 1..Len(M) : i = 1 \/ (i \in 2..Len(M) /\ i - 1 \in 1..Len(K))
    BY <2>4, <2>7
  <2>9. g \in [1..Len(M) -> 1..Len(todo)]
    BY <2>1, <2>5, <2>6, <2>8, <1>1
  <2>10. \A i, j \in 1..Len(M) : i < j => g[i] < g[j]
    <3> SUFFICES ASSUME NEW i \in 1..Len(M), NEW j \in 1..Len(M), i < j PROVE g[i] < g[j]
      OBVIOUS
    <3>1. j - 1 \in 1..Len(K) /\ f[j - 1] > 1 /\ f[j - 1] \in Nat /\ j # 1
      <4>1. i \in Nat /\ j \in Nat /\ i >= 1 /\ i < j
        BY <2>4, <2>7
      <4>2. j # 1
        BY <4>1
      <4>3. j - 1 \in 1..Len(K)
        BY <2>8, <4>2
      <4>4. f[j - 1] \in 1..Len(R) /\ f[j - 1] > 1
        BY <2>5, <4>3
      <4> QED
        BY <2>6, <4>2, <4>3, <4>4
    <3>2. CASE i = 1
      BY <3>1, <3>2
    <3>3. CASE i # 1
      <4>1. i - 1 \in 1..Len(K) /\ i - 1 < j - 1
        BY <2>8, <3>3, <3>1
      <4>2. f[i - 1] < f[j - 1] /\ f[i - 1] \in Nat
        <5>1. \A a, b \in 1..Len(K) : a < b => f[a] < f[b]
          BY <2>5
        <5>2. f[i - 1] < f[j - 1]
          BY <3>1, <4>1, <5>1
        <5>3. f[i - 1] \in 1..Len(R)
          BY <2>5, <4>1
        <5> QED
          BY <2>6, <5>2, <5>3
      <4> QED
        BY <3>1, <3>3, <4>2
    <3> QED
      BY <3>2, <3>3
  <2>11. \A i \in 1..Len(M) : g[i] > 1 /\ M[i] = todo[g[i]]
    <3> SUFFICES ASSUME NEW i \in 1..Len(M) PROVE g[i] > 1 /\ M[i] = todo[g[i]]
      OBVIOUS
    <3>1. CASE i = 1
      BY <2>2, <2>7, <3>1
    <3>2. CASE i # 1
      <4>1. i - 1 \in 1..Len(K) /\ M[i] = K[i - 1] /\ g[i] = f[i - 1] + 1
        BY <2>7, <2>8, <3>2
      <4>2. f[i - 1] \in 1..Len(R) /\ K[i - 1] = R[f[i - 1]]
        BY <2>5, <4>1
      <4> QED
        BY <2>6, <4>1, <4>2, SMTT(30)
    <3> QED
      BY <3>1, <3>2
  <2> HIDE DEF g
  <2>12. Thins(M, todo)
    BY <2>9, <2>10, <2>11 DEF Thins
  <2> QED
    BY <1>4, <2>12 DEF M, K, R
<1> QED
  BY <1>1, <1>2, <1>3, <1>4 DEF Passes

-----------------------------------------------------------------------------
(***************************************************************************)
(* A bring-up resets the receiver before it expects it to answer.          *)
(***************************************************************************)
(* The opening of a bring-up, and nothing of the kind after it.            *)
Opens(L) ==
    /\ Len(L) \in Nat /\ Len(L) >= 7 /\ L \in Seq(All)
    /\ \A k \in 1..7 : L[k] = Opening[k]
    /\ \A k \in 8..Len(L) : L[k] \notin Special

LEMMA OpensJoin ==
  ASSUME NEW L, NEW X \in Seq(All), Opens(L), Free(X, Special) PROVE Opens(L \o X)
<1> DEFINE M == L \o X
           n == Len(L)
<1>1. /\ M \in Seq(All) /\ Len(M) = n + Len(X) /\ n \in Nat /\ Len(X) \in Nat
      /\ \A i \in 1..n : M[i] = L[i]
      /\ \A i \in 1..Len(X) : M[n + i] = X[i]
  BY JoinPlaces, SMTT(30) DEF Opens
<1>2. n >= 7
  BY DEF Opens
<1> HIDE DEF M, n
<1>3. \A k \in 1..7 : M[k] = Opening[k]
  <2>1. \A k \in 1..7 : k \in 1..n
    BY <1>1, <1>2
  <2>2. \A k \in 1..7 : L[k] = Opening[k]
    BY DEF Opens
  <2> QED
    BY <1>1, <2>1, <2>2
<1>4. ASSUME NEW k \in 8..Len(M) PROVE M[k] \notin Special
  <2>1. CASE k <= n
    BY <1>1, <1>2, <2>1, SMTT(30) DEF Opens, n
  <2>2. CASE k > n
    <3>1. k - n \in 1..Len(X) /\ n + (k - n) = k
      BY <1>1, <2>2
    <3>2. M[k] = X[k - n]
      BY <1>1, <3>1
    <3> QED
      BY <3>1, <3>2 DEF Free
  <2> QED
    BY <1>1, <2>1, <2>2
<1>5. Opens(M)
  BY <1>1, <1>2, <1>3, <1>4 DEF Opens
<1> QED
  BY <1>5 DEF M

LEMMA BringupOpens ==
  /\ Opens(Bringup)
  /\ \A k \in 1..Len(Bringup) : Bringup[k] = Step("ready") => k = Len(Bringup)
<1>1. /\ Opening \in Seq(All) /\ InitRegs \in Seq(All) /\ Present \in Seq(All)
      /\ <<Step("ready")>> \in Seq(All)
  BY OpeningItems, TamePieces, TameLists DEF Tame
<1>2. Opens(Opening)
  BY <1>1, OpeningItems DEF Opens
<1> DEFINE A == Opening \o InitRegs
           B == A \o Present
<1>3. /\ Free(InitRegs, Special) /\ Free(Present, Special) /\ Free(<<Step("ready")>>, Special)
  BY NoReset DEF Free
<1>4. Opens(A)
  BY <1>1, <1>2, <1>3, OpensJoin
<1> HIDE DEF A
<1>5. Opens(B)
  BY <1>1, <1>3, <1>4, OpensJoin
<1> HIDE DEF B
<1>6. Opens(B \o <<Step("ready")>>)
  BY <1>1, <1>3, <1>5, OpensJoin
<1>7. Bringup = B \o <<Step("ready")>>
  BY OpeningItems DEF A, B
<1>8. Free(B, {Step("ready")})
  <2>1. Free(Opening, {Step("ready")})
    BY OpeningItems, Fields, Names DEF Free
  <2>2. Free(InitRegs, {Step("ready")})
    <3>1. Len(InitRegs) = 21
      BY DEF InitRegs
    <3>2. \A k \in 1..Len(InitRegs) : InitRegs[k].what \in {"bank", "write", "pin"}
      BY <3>1, Fields DEF InitRegs
    <3> QED
      BY <3>2, Names DEF Free
  <2>3. Free(Present, {Step("ready")})
    <3>1. Free(Hpd(0), {Step("ready")}) /\ Free(Hpd(1), {Step("ready")})
      BY Fields, Names DEF Hpd, Free
    <3>2. Free(<<Step("edid")>>, {Step("ready")})
      BY Names DEF Free
    <3>3. /\ Hpd(0) \in Seq(All) /\ Hpd(1) \in Seq(All) /\ <<Step("edid")>> \in Seq(All)
          /\ Hpd(0) \o <<Step("edid")>> \in Seq(All)
      BY TamePieces, TameJoin DEF Tame
    <3>4. Free(Hpd(0) \o <<Step("edid")>>, {Step("ready")})
      BY <3>1, <3>2, <3>3, FreeJoin, Zenon
    <3> QED
      BY <3>1, <3>3, <3>4, FreeJoin, Zenon DEF Present
  <2>4. A \in Seq(All) /\ Free(A, {Step("ready")})
    BY <1>1, <2>1, <2>2, FreeJoin, JoinPlaces, Zenon DEF A
  <2> QED
    BY <1>1, <2>3, <2>4, FreeJoin, Zenon DEF B
<1>9. ASSUME NEW k \in 1..Len(Bringup), Bringup[k] = Step("ready") PROVE k = Len(Bringup)
  <2>1. B \in Seq(All)
    BY <1>5 DEF Opens
  <2>2. /\ Len(Bringup) = Len(B) + 1 /\ Len(B) \in Nat
        /\ \A i \in 1..Len(B) : Bringup[i] = B[i]
    BY <1>1, <1>7, <2>1
  <2>3. k \notin 1..Len(B)
    BY <1>8, <1>9, <2>2 DEF Free
  <2> QED
    BY <2>2, <2>3
<1> QED
  BY <1>6, <1>7, <1>9

Waking(L) == \E k \in 1..Len(L) : L[k] \in Wakes

(* The order of a bring-up's items.                                        *)
Order(L) ==
    \A k \in 1..Len(L) :
       /\ L[k] \in Resets => \E m \in k + 1..Len(L) : L[m] \in Wakes
       /\ L[k] \in HpdWrites \cup HpdPins \cup {Step("edid")} =>
             \A m \in k + 1..Len(L) : L[m] \notin Wakes
       /\ L[k] \in Wakes => \A m \in 1..Len(L) : L[m].what # "catch"
       /\ L[k] = Step("ready") => k = Len(L)

LEMMA OrderTail ==
  ASSUME NEW S, NEW L \in Seq(S), L # << >>, Order(L) PROVE Order(Tail(L))
<1> DEFINE R == Tail(L)
<1>1. /\ Len(R) = Len(L) - 1 /\ Len(L) \in Nat \ {0}
      /\ \A i \in 1..Len(L) - 1 : R[i] = L[i + 1]
  BY TailPlaces
<1> HIDE DEF R
<1>2. \A k \in 1..Len(R) : k + 1 \in 1..Len(L) /\ R[k] = L[k + 1]
  BY <1>1
<1>3. ASSUME NEW k \in 1..Len(R), R[k] \in Resets
      PROVE  \E m \in k + 1..Len(R) : R[m] \in Wakes
  <2>1. PICK m \in (k + 1) + 1..Len(L) : L[m] \in Wakes
    BY <1>2, <1>3 DEF Order
  <2>2. m - 1 \in k + 1..Len(R) /\ m - 1 \in 1..Len(R) /\ (m - 1) + 1 = m
    BY <1>1, <2>1
  <2> QED
    BY <1>2, <2>1, <2>2
<1>4. ASSUME NEW k \in 1..Len(R), R[k] \in HpdWrites \cup HpdPins \cup {Step("edid")},
             NEW m \in k + 1..Len(R)
      PROVE  R[m] \notin Wakes
  <2>1. m + 1 \in (k + 1) + 1..Len(L) /\ m \in 1..Len(R)
    BY <1>1, <1>4
  <2> QED
    BY <1>2, <1>4, <2>1 DEF Order
<1>5. ASSUME NEW k \in 1..Len(R), R[k] \in Wakes, NEW m \in 1..Len(R)
      PROVE  R[m].what # "catch"
  BY <1>2, <1>5 DEF Order
<1>6. ASSUME NEW k \in 1..Len(R), R[k] = Step("ready") PROVE k = Len(R)
  <2>1. k + 1 = Len(L)
    BY <1>2, <1>6 DEF Order
  <2> QED
    BY <1>1, <2>1
<1>7. Order(R)
  BY <1>3, <1>4, <1>5, <1>6 DEF Order
<1> QED
  BY <1>7 DEF R

(* Once nothing is awaited.                                                *)
LEMMA OrderAwake ==
  ASSUME NEW L, Free(L, Resets \cup Wakes),
         \A k \in 1..Len(L) : L[k] = Step("ready") => k = Len(L),
         Len(L) \in Nat
  PROVE  Order(L) /\ ~Waking(L)
<1>1. \A k \in 1..Len(L) : L[k] \notin Resets /\ L[k] \notin Wakes
  BY DEF Free
<1>2. \A k \in 1..Len(L) : \A m \in k + 1..Len(L) : m \in 1..Len(L)
  OBVIOUS
<1> QED
  BY <1>1, <1>2 DEF Order, Waking

LEMMA AwakeFree ==
  ASSUME NEW L, Len(L) \in Nat, Order(L), ~Waking(L)
  PROVE  /\ Free(L, Resets \cup Wakes)
         /\ \A k \in 1..Len(L) : L[k] = Step("ready") => k = Len(L)
<1>1. \A k \in 1..Len(L) : \A m \in k + 1..Len(L) : m \in 1..Len(L)
  OBVIOUS
<1> QED
  BY <1>1 DEF Order, Waking, Free

LEMMA OrderThins ==
  ASSUME NEW M, NEW L, Thins(M, L), Order(L), ~Waking(L), Len(M) \in Nat, Len(L) \in Nat
  PROVE  Order(M) /\ ~Waking(M)
<1>1. PICK f \in [1..Len(M) -> 1..Len(L)] :
        /\ \A i, j \in 1..Len(M) : i < j => f[i] < f[j]
        /\ \A i \in 1..Len(M) : f[i] > 1 /\ M[i] = L[f[i]]
  BY DEF Thins
<1>2. /\ Free(L, Resets \cup Wakes)
      /\ \A k \in 1..Len(L) : L[k] = Step("ready") => k = Len(L)
  BY AwakeFree
<1>3. Free(M, Resets \cup Wakes)
  BY <1>1, <1>2 DEF Free
<1>4. ASSUME NEW k \in 1..Len(M), M[k] = Step("ready") PROVE k = Len(M)
  <2>1. f[k] = Len(L)
    BY <1>1, <1>2, <1>4
  <2> SUFFICES ASSUME k # Len(M) PROVE FALSE
    OBVIOUS
  <2>2. Len(M) \in 1..Len(M) /\ k < Len(M)
    OBVIOUS
  <2>3. f[k] < f[Len(M)] /\ f[Len(M)] \in 1..Len(L)
    BY <1>1, <2>2
  <2> QED
    BY <2>1, <2>3
<1> QED
  BY <1>3, <1>4, OrderAwake

LEMMA RevivedOrder ==
  Revived <=> (op = "bringup" /\ todo # << >> =>
                 ~ready /\ Order(todo) /\ (~Waking(todo) => Live))
BY DEF Revived, Order, Waking, Resets

LEMMA RevivedOrderNext ==
  Revived' <=> (op' = "bringup" /\ todo' # << >> =>
                 ~ready' /\ Order(todo') /\ (~Waking(todo') => Live'))
BY DEF Revived, Order, Waking, Resets

LEMMA LiveKept ==
  ASSUME Typed, Live, Next, Command => Head(todo) \notin Resets
  PROVE  Live'
<1>1. CASE Command
  <2> DEFINE i == Head(todo)
  <2>1. /\ i \in All /\ right' = right /\ chip \in Chips
        /\ pin \in [hpd : {0, 1}, mux : {0, 1}] /\ output \subseteq Pins
        /\ Effect(i) \/ (chip' = chip /\ output' = output)
    BY <1>1, Commanded
  <2>2. CASE Effect(i)
    <3>1. chip'.alive = chip.alive
      BY <1>1, <2>1, <2>2, ChipKept
    <3>2. i # Output("reset")
      BY <1>1 DEF Resets
    <3>3. "reset" \in output' <=> "reset" \in output
      BY <2>1, <2>2, <3>2, PinsMoved
    <3>4. "hpd" \in output => "hpd" \in output'
      <4>1. right
        BY DEF Live
      <4>2. i = Output("hpd") => output' = output \cup {"hpd"}
        BY <2>1, <2>2, <4>1, PinsMoved
      <4>3. i # Output("hpd") => ("hpd" \in output' <=> "hpd" \in output)
        BY <2>1, <2>2, PinsMoved
      <4> HIDE DEF i
      <4> QED
        BY <4>2, <4>3
    <3> HIDE DEF i
    <3> QED
      BY <2>1, <3>1, <3>3, <3>4 DEF Live
  <2>3. CASE chip' = chip /\ output' = output
    BY <2>1, <2>3 DEF Live
  <2> QED
    BY <2>1, <2>2, <2>3
<1>2. CASE ~Command
  <2>1. chip' = chip /\ output' = output
    BY <1>2, Untouched
  <2>2. right' = right
    <3>1. chip.alive
      BY DEF Live
    <3>2. Decide => right' = right
      BY <3>1 DEF Decide, Unready, Alive, Ready, Refuse, CatchError, Edid, Frozen, Late,
         PollUnlocked, PollLocked, PollMatched, Matched, Expire, LockRead, WatchJudge, Diag,
         Known, callers
    <3>3. Operation \/ Note \/ Borrow \/ Scan => right' = right
      BY DEF Operation, BeginBringup, BeginReload, BeginPulse, BeginSignal, BeginLock,
         BeginWatch, BeginDiag, BeginCsc, BeginColour, BeginRamtest, End, Begin, Note, Borrow, Scan,
         others
    <3> QED
      BY <1>2, <3>2, <3>3 DEF Next
  <2> QED
    BY <2>1, <2>2 DEF Live
<1> QED
  BY <1>1, <1>2

(* Who makes a receiver ready.                                             *)
LEMMA ReadyMoves ==
  ASSUME Typed, Next
  PROVE  /\ ready' => ready \/ Ready
         /\ ready /\ ~ready' => Unready \/ End \/ Scan
<1>1. Command => ready' = ready
  BY DEF Command, control
<1>2. Decide => ready' = ready \/ (Ready /\ ready' = TRUE) \/ (Unready /\ ready' = FALSE)
  BY DEF Decide, Unready, Alive, Ready, Refuse, CatchError, Edid, Frozen, Late,
     PollUnlocked, PollLocked, PollMatched, Matched, Expire, LockRead, WatchJudge, Diag,
     Known, callers, Goes
<1>3. Operation => ready' = ready \/ (End /\ (ready' => ready))
  BY DEF Operation, BeginBringup, BeginReload, BeginPulse, BeginSignal, BeginLock,
     BeginWatch, BeginDiag, BeginCsc, BeginColour, BeginRamtest, End, Begin
<1>4. Note => ready' = ready
  BY DEF Note
<1>5. (Scan => ready' = FALSE) /\ (Borrow => ready' = ready)
  BY DEF Scan, Borrow
<1>6. ready \in BOOLEAN /\ ready' \in BOOLEAN
  BY StepFlags DEF Typed, Flags
<1>7. CASE ready
  BY <1>1, <1>2, <1>3, <1>4, <1>5, <1>6, <1>7 DEF Next
<1>8. CASE ~ready
  BY <1>1, <1>2, <1>3, <1>4, <1>5, <1>6, <1>8 DEF Next
<1> QED
  BY <1>7, <1>8

(* Who changes the polarity, and who sees a receiver ready.                *)
LEMMA RightMoves == ASSUME Next PROVE right' = right \/ (Alive /\ ~chip.alive)
<1>1. Command => right' = right
  BY DEF Command, control
<1>2. Decide => right' = right \/ (Alive /\ ~chip.alive)
  BY DEF Decide, Unready, Alive, Ready, Refuse, CatchError, Edid, Frozen, Late,
     PollUnlocked, PollLocked, PollMatched, Matched, Expire, LockRead, WatchJudge, Diag,
     Known, callers
<1>3. Operation \/ Note \/ Borrow \/ Scan => right' = right
  BY DEF Operation, BeginBringup, BeginReload, BeginPulse, BeginSignal, BeginLock,
     BeginWatch, BeginDiag, BeginCsc, BeginColour, BeginRamtest, End, Begin, Note, Borrow,
     Scan, others
<1> QED
  BY <1>1, <1>2, <1>3 DEF Next

LEMMA OnceMoves ==
  ASSUME Typed, Next PROVE (once' => once \/ (Ready /\ ready')) /\ (once => once')
<1>1. Command => once' = once
  BY DEF Command, control, past
<1>2. Decide => once' = once \/ (Ready /\ ready' = TRUE /\ once' = TRUE)
  BY DEF Decide, Unready, Alive, Ready, Refuse, CatchError, Edid, Frozen, Late,
     PollUnlocked, PollLocked, PollMatched, Matched, Expire, LockRead, WatchJudge, Diag,
     Known, callers, past, Goes
<1>3. Operation \/ Note \/ Borrow \/ Scan => once' = once
  BY DEF Operation, BeginBringup, BeginReload, BeginPulse, BeginSignal, BeginLock,
     BeginWatch, BeginDiag, BeginCsc, BeginColour, BeginRamtest, End, Begin, past, Note,
     Borrow, Scan, others
<1> QED
  BY <1>1, <1>2, <1>3 DEF Next

LEMMA StepReady ==
  ASSUME Typed, Power, Revived, Next, Chunks \in Nat
  PROVE  /\ ready' => Live'
         /\ once' => right' /\ {"hpd", "reset"} \subseteq output'
         /\ op' \notin {"idle", "bringup", "pulse", "ramtest"} => once'
<1>1. ASSUME ready' PROVE Live'
  <2>1. CASE ready
    <3>1. Live
      BY <2>1 DEF Power
    <3>2. ASSUME Command PROVE Head(todo) \notin Resets
      <4>1. /\ todo # << >> /\ Head(todo) \in All /\ Belongs(Head(todo), op)
        BY <3>2, Commanded
      <4>2. op # "bringup"
        BY <2>1, <4>1, RevivedOrder
      <4>3. Head(todo) \in Vocabulary(op)
        BY <4>1 DEF Vocabulary
      <4> QED
        BY <4>2, <4>3, Owners
    <3> QED
      BY <3>1, <3>2, LiveKept
  <2>2. CASE Ready
    <3>1. AtStep("ready") /\ todo # << >> /\ op = "bringup"
      BY <2>2, StepOwners DEF Ready
    <3>2. Order(todo) /\ (~Waking(todo) => Live)
      BY <3>1, RevivedOrder
    <3>3. todo[1] = Step("ready") /\ 1 \in 1..Len(todo)
      BY <3>1, FirstItem DEF AtStep
    <3>4. 1 = Len(todo)
      BY <3>2, <3>3 DEF Order
    <3>5. Step("ready") \notin Wakes
      BY Names DEF Wakes
    <3>6. ~Waking(todo)
      BY <3>3, <3>4, <3>5 DEF Waking
    <3>7. ~Command
      BY <3>1, Names DEF Command, AtStep, Commands
    <3> QED
      BY <3>2, <3>6, <3>7, LiveKept
  <2> QED
    BY <1>1, <2>1, <2>2, ReadyMoves
<1>2. once => right' /\ {"hpd", "reset"} \subseteq output'
  <2> SUFFICES ASSUME once PROVE right' /\ {"hpd", "reset"} \subseteq output'
    OBVIOUS
  <2>1. right /\ {"hpd", "reset"} \subseteq output
    BY DEF Power
  <2>2. CASE Command
    <3> DEFINE i == Head(todo)
    <3>1. /\ i \in All /\ right' = right
          /\ pin \in [hpd : {0, 1}, mux : {0, 1}] /\ output \subseteq Pins
          /\ Effect(i) \/ output' = output
      BY <2>2, Commanded
    <3>2. Effect(i) =>
             \A p \in {"hpd", "reset"} :
                 /\ i = Output(p) => output' = IF right THEN output \cup {p} ELSE output \ {p}
                 /\ i # Output(p) => (p \in output' <=> p \in output)
      BY <3>1, PinsMoved
    <3> HIDE DEF i
    <3> QED
      BY <2>1, <3>1, <3>2
  <2>3. CASE ~Command
    <3>1. output' = output
      BY <2>3, Untouched
    <3>2. right' = right
      <4>1. Head(todo) \in Wakes /\ todo # << >> => chip.alive
        <5>1. /\ Kept(todo, Wakes, {SetPin("reset", 1)}, Resets \cup Wakes, right => chip.alive)
              /\ todo \in Seq(Vocabulary(op))
          BY DEF Power, Typed
        <5>2. Head(todo) \in Wakes /\ todo # << >> => (right => chip.alive)
          BY <5>1, FirstNow, Zenon
        <5> QED
          BY <2>1, <5>2
      <4>2. Alive => chip.alive
        BY <4>1 DEF Alive, AtStep, Wakes
      <4> QED
        BY <2>3, <4>2, RightMoves
    <3> QED
      BY <2>1, <3>1, <3>2
  <2> QED
    BY <2>2, <2>3
<1>3. once' => once \/ (Ready /\ ready')
  BY OnceMoves
<1>4. once' => right' /\ {"hpd", "reset"} \subseteq output'
  BY <1>1, <1>2, <1>3 DEF Live
<1>5. ASSUME op' \notin {"idle", "bringup", "pulse", "ramtest"} PROVE once'
  <2>1. CASE Beginning
    BY <1>5, <2>1, Begun
  <2>2. CASE ~Beginning
    <3>1. op' = op
      <4>1. ~End
        BY <1>5 DEF End
      <4>2. CASE Note \/ Borrow \/ Scan
        BY <4>2 DEF Note, Borrow, Scan, others
      <4>3. CASE ~(Note \/ Borrow \/ Scan)
        BY <2>2, <4>1, <4>3, Actions, PassingPasses, Spliced, Fetched DEF Leaving
      <4> QED
        BY <4>2, <4>3
    <3>2. once
      BY <1>5, <3>1 DEF Power
    <3> QED
      BY <3>2, OnceMoves
  <2> QED
    BY <2>1, <2>2
<1> QED
  BY <1>1, <1>4, <1>5

LEMMA StepPower ==
  ASSUME Typed, Followed(todo), Power, Revived, Next, Chunks \in Nat
  PROVE  Power'
<1>1. Lit'
  BY StepLit
<1>2. /\ Kept(todo', ResetPins, {Output("reset")}, {Output("reset")} \cup Wakes,
             right' <=> "reset" \in output')
      /\ Kept(todo', Wakes, {Output("hpd")}, {Output("hpd")} \cup Wakes,
             right' => "hpd" \in output')
      /\ Kept(todo', Wakes, {SetPin("reset", 1)}, Resets \cup Wakes, right' => chip'.alive)
  BY StepPulses
<1>3. /\ ready' => Live'
      /\ once' => right' /\ {"hpd", "reset"} \subseteq output'
      /\ op' \notin {"idle", "bringup", "pulse", "ramtest"} => once'
  BY StepReady
<1> QED
  BY <1>1, <1>2, <1>3 DEF Power, Lit

LEMMA StepRevived ==
  ASSUME Typed, Followed(todo), Power, Revived, Next, Chunks \in Nat
  PROVE  Revived'
<1>0. Typed'
  BY StepTyped
<1>1. /\ todo \in Seq(Vocabulary(op)) /\ todo' \in Seq(Vocabulary(op'))
      /\ Len(todo) \in Nat /\ Len(todo') \in Nat
  <2>1. todo \in Seq(Vocabulary(op)) /\ todo' \in Seq(Vocabulary(op'))
    BY <1>0 DEF Typed
  <2> QED
    BY <2>1, LenProperties
<1> SUFFICES ASSUME op' = "bringup", todo' # << >>
             PROVE  ~ready' /\ Order(todo') /\ (~Waking(todo') => Live')
  BY RevivedOrderNext
<1>2. CASE (Passing \/ Splicing \/ Note \/ Borrow \/ Scan) /\ op = "bringup" /\ todo # << >>
  <2>1. ~ready /\ Order(todo) /\ (~Waking(todo) => Live)
    BY <1>2, RevivedOrder
  <2>2. ~ready'
    <3>1. ASSUME Ready PROVE FALSE
      <4>1. todo[1] = Step("ready") /\ 1 \in 1..Len(todo)
        BY <1>2, <3>1, FirstItem DEF AtStep, Ready
      <4>2. Len(todo) = 1
        BY <2>1, <4>1 DEF Order
      <4>3. Tail(todo) = << >>
        <5>1. Tail(todo) \in Seq(Vocabulary(op)) /\ Len(Tail(todo)) = 0
          BY <1>1, <1>2, <4>2, TailPlaces
        <5> QED
          BY <5>1, EmptySeq
      <4> QED
        BY <3>1, <4>3 DEF Ready, Goes, Rest
    <3> QED
      BY <2>1, <3>1, ReadyMoves
  <2>3. CASE Passing /\ Waking(todo)
    <3>1. PICK w \in 1..Len(todo) : todo[w] \in Wakes
      BY <2>3 DEF Waking
    <3>2. \A k \in 1..Len(todo) : todo[k].what # "catch"
      BY <2>1, <3>1 DEF Order
    <3>3. todo' = Tail(todo)
      <4>1. Passes
        BY <2>3, PassingPasses
      <4>2. Caught(Tail(todo)) = << >>
        <5>1. Tail(todo) \in Seq(Vocabulary(op))
          BY <1>1, <1>2, TailPlaces
        <5>2. \A k \in 1..Len(Tail(todo)) : Tail(todo)[k].what # "catch"
          BY <1>1, <1>2, <3>2, TailPlaces
        <5> QED
          BY <5>1, <5>2, JumpPlaces
      <4>3. ~AtStep("late")
        BY <1>2, StepOwners
      <4>4. Head(todo) # Catch("mux")
        BY <1>2, <3>2, FirstItem, Names
      <4> QED
        BY <4>1, <4>2, <4>3, <4>4 DEF Passes
    <3>4. Order(todo')
      BY <1>1, <1>2, <2>1, <3>3, OrderTail
    <3>5. ASSUME ~Waking(todo') PROVE Live'
      <4>1. Head(todo) \in Wakes
        <5>1. w = 1 \/ w - 1 \in 1..Len(Tail(todo))
          BY <1>1, <1>2, TailPlaces
        <5>2. w # 1 => Tail(todo)[w - 1] = todo[w]
          <6>1. w # 1 => w - 1 \in 1..Len(todo) - 1 /\ (w - 1) + 1 = w
            BY <1>1
          <6> QED
            BY <1>1, <1>2, <6>1, TailPlaces
        <5>3. w = 1
          BY <3>1, <3>3, <3>5, <5>1, <5>2 DEF Waking
        <5> QED
          BY <1>2, <3>1, <5>3, FirstItem
      <4>2. Head(todo) \in {Step("alive"), Step("again")}
        BY <4>1 DEF Wakes
      <4>3. Alive
        BY <2>3, <4>2, Names DEF Passing, Command, Commands, Unready, Ready, Refuse, CatchError,
           Late, Matched, Expire, Known, AtStep
      <4>4. chip.alive
        <5>1. ~chip.alive => AtStep("again")
          BY <2>3, <4>2, <4>3, Names DEF Passing, Command, Commands, Unready, Ready, Refuse,
             CatchError, Late, Matched, Expire, Known, AtStep
        <5>2. ~chip.alive /\ AtStep("again") => todo' = << >>
          BY <4>3, Names DEF Alive, AtStep
        <5> QED
          BY <5>1, <5>2
      <4>5. /\ right' = right /\ chip' = chip /\ output' = output
        BY <4>3, <4>4 DEF Alive, Goes
      <4>6. right /\ "reset" \in output
        BY <4>4 DEF Power
      <4>7. right => "hpd" \in output
        <5>1. Kept(todo, Wakes, {Output("hpd")}, {Output("hpd")} \cup Wakes,
                   right => "hpd" \in output)
          BY DEF Power
        <5> QED
          BY <1>1, <1>2, <4>1, <5>1, FirstNow, Zenon
      <4> QED
        BY <4>4, <4>5, <4>6, <4>7 DEF Live
    <3> QED
      BY <2>2, <3>4, <3>5
  <2>4. CASE Passing /\ ~Waking(todo)
    <3>1. Passes
      BY <2>4, PassingPasses
    <3>2. Thins(todo', todo)
      BY <1>1, <3>1, PassesThins
    <3>3. Order(todo')
      BY <1>1, <2>1, <2>4, <3>2, OrderThins
    <3>4. Live
      BY <2>1, <2>4
    <3>5. Command => Head(todo) \notin Resets
      BY <1>1, <1>2, <2>1, <2>4, AwakeFree, FirstItem DEF Free
    <3>6. Live'
      BY <3>4, <3>5, LiveKept
    <3> QED
      BY <2>2, <3>3, <3>6
  <2>5. CASE Splicing
    <3>1. /\ todo' = Splice \o Tail(todo) /\ Splice \in Seq(Vocabulary(op))
          /\ chip' = chip /\ output' = output
      BY <2>5, Spliced
    <3>2. Tail(todo) \in Seq(Vocabulary(op)) /\ Order(Tail(todo))
      BY <1>1, <1>2, <2>1, OrderTail, TailPlaces
    <3> DEFINE X == Splice
               R == Tail(todo)
               n == Len(X)
    <3>3. /\ n \in Nat /\ Len(R) \in Nat /\ Len(todo') = n + Len(R)
          /\ \A i \in 1..n : todo'[i] = X[i]
          /\ \A i \in 1..Len(R) : todo'[n + i] = R[i]
      BY <3>1, <3>2, JoinPlaces
    <3>4. \A k \in 1..Len(todo') :
             (k \in 1..n /\ todo'[k] = X[k])
             \/ (k - n \in 1..Len(R) /\ n + (k - n) = k /\ todo'[k] = R[k - n])
      <4>1. \A k \in 1..Len(todo') : k \in 1..n \/ (k - n \in 1..Len(R) /\ n + (k - n) = k)
        BY <3>3
      <4> HIDE DEF X, R, n
      <4> QED
        BY <3>3, <4>1
    <3>5. CASE AtStep("edid") /\ X = Load /\ right' = right
      <4>1. todo[1] = Step("edid") /\ 1 \in 1..Len(todo)
        BY <1>2, <3>5, FirstItem DEF AtStep
      <4>2. ~Waking(todo)
        <5>1. \A m \in 1 + 1..Len(todo) : todo[m] \notin Wakes
          BY <2>1, <4>1 DEF Order
        <5>2. Step("edid") \notin Wakes
          BY Names DEF Wakes
        <5> QED
          BY <1>1, <4>1, <5>1, <5>2 DEF Waking
      <4>3. Free(todo, Resets \cup Wakes) /\ Live
        BY <1>1, <2>1, <4>2, AwakeFree
      <4>4. Free(R, Resets \cup Wakes) /\ \A k \in 1..Len(R) : R[k] = Step("ready") => k = Len(R)
        <5>1. ~Waking(R)
          <6>1. \A k \in 1..Len(R) : k + 1 \in 1..Len(todo) /\ R[k] = todo[k + 1]
            BY <1>1, <1>2, TailPlaces
          <6> QED
            BY <4>2, <6>1 DEF Waking
        <5> QED
          BY <3>2, <3>3, <5>1, AwakeFree
      <4>5. Free(X, Resets \cup Wakes) /\ Free(X, {Step("ready")})
        <5>1. \A x \in {Try(Output("mux")), Try(SetPin("mux", 0)), Try(SetPin("mux", 1)),
                        Step("refuse"), Catch("mux"), Catch("edid")} \cup EdidChunks :
                 /\ x.what \in {"output", "pin"} => x.arg = "mux"
                 /\ x.what = "step" => x.arg = "refuse"
                 /\ x.what \in {"output", "pin", "step", "catch", "edid"}
          BY Fields, Names, Classes
        <5>2. \A i \in Wakes : i.what = "step" /\ i.arg \in {"alive", "again"}
          BY Names DEF Wakes
        <5>3. \A i \in Resets : i.what \in {"output", "pin"} /\ i.arg = "reset"
          BY Classes, Fields DEF Resets
        <5>4. \A k \in 1..Len(Load) : /\ Load[k].what \in {"output", "pin"} => Load[k].arg = "mux"
                                      /\ Load[k].what = "step" => Load[k].arg = "refuse"
                                      /\ Load[k].what \in {"output", "pin", "step", "catch", "edid"}
          BY <5>1, LoadItems
        <5>5. Step("ready").what = "step" /\ Step("ready").arg = "ready"
          BY Names
        <5> QED
          BY <3>5, <5>2, <5>3, <5>4, <5>5 DEF Free
      <4> HIDE DEF X, R, n
      <4>6. Free(todo', Resets \cup Wakes)
        BY <3>4, <4>4, <4>5 DEF Free, n
      <4>7. ASSUME NEW k \in 1..Len(todo'), todo'[k] = Step("ready") PROVE k = Len(todo')
        <5>1. ~(k \in 1..n /\ todo'[k] = X[k])
          BY <4>5, <4>7 DEF Free, n
        <5>2. k - n \in 1..Len(R) /\ n + (k - n) = k /\ R[k - n] = Step("ready")
          BY <3>4, <4>7, <5>1
        <5>3. k - n = Len(R)
          BY <4>4, <5>2
        <5> QED
          BY <3>3, <5>2, <5>3
      <4>8. Order(todo')
        BY <1>1, <4>6, <4>7, OrderAwake
      <4>9. Live'
        BY <3>1, <3>5, <4>3 DEF Live
      <4> QED
        BY <2>2, <4>8, <4>9
    <3>6. CASE AtStep("alive") /\ X = Again
      <4>1. todo[1] = Step("alive") /\ 1 \in 1..Len(todo) /\ Step("alive") \in Wakes
        BY <1>2, <3>6, FirstItem DEF AtStep, Wakes
      <4>2. \A m \in 1..Len(todo) : todo[m].what # "catch"
        BY <2>1, <4>1 DEF Order
      <4>3. \A k \in 1..Len(R) : R[k].what # "catch"
        BY <1>1, <1>2, <4>2, TailPlaces
      <4>4. n = 6 /\ X[6] \in Wakes
        BY <3>6, OpeningItems DEF Wakes
      <4>5. \A k \in 1..6 : /\ X[k].what # "catch" /\ X[k] # Step("ready")
                            /\ X[k] \notin HpdWrites \cup HpdPins \cup {Step("edid")}
        <5>1. \A k \in 1..6 : X[k] \in {Output("hpd"), Output("reset"), SetPin("reset", 0),
                                        SetPin("reset", 1), Bank(0), Step("again")}
          BY <3>6, OpeningItems
        <5>2. \A x \in {Output("hpd"), Output("reset"), SetPin("reset", 0),
                        SetPin("reset", 1), Bank(0), Step("again")} :
                /\ x.what \in {"output", "pin", "bank", "step"}
                /\ x.what = "pin" => x.arg = "reset"
                /\ x.what = "step" => x.arg = "again"
          BY Fields, Names
        <5>3. /\ \A x \in HpdWrites : x.what = "write"
              /\ \A x \in HpdPins : x.what = "pin" /\ x.arg = "hpd"
              /\ Step("edid").what = "step" /\ Step("edid").arg = "edid"
              /\ Step("ready").what = "step" /\ Step("ready").arg = "ready"
          BY Classes, Names
        <5> HIDE DEF X
        <5> QED
          BY <5>1, <5>2, <5>3
      <4> HIDE DEF X, R, n
      <4>6. 6 \in 1..Len(todo') /\ todo'[6] \in Wakes
        BY <3>3, <4>4
      <4>7. ASSUME NEW k \in 1..Len(todo'), todo'[k] \in Resets
            PROVE  \E m \in k + 1..Len(todo') : todo'[m] \in Wakes
        <5>1. CASE k \in 1..5
          BY <4>6, <5>1
        <5>2. CASE k = 6
          <6>1. Wakes \cap Resets = {}
            BY Names, Classes, Fields DEF Wakes, Resets
          <6> QED
            BY <4>6, <4>7, <5>2, <6>1
        <5>3. CASE k > 6
          <6>1. k - n \in 1..Len(R) /\ n + (k - n) = k /\ R[k - n] \in Resets
            BY <3>4, <4>4, <4>7, <5>3
          <6>2. PICK m \in (k - n) + 1..Len(R) : R[m] \in Wakes
            BY <3>2, <6>1 DEF Order, R
          <6>3. n + m \in k + 1..Len(todo') /\ m \in 1..Len(R)
            BY <3>3, <4>4, <6>1, <6>2
          <6> QED
            BY <3>3, <6>2, <6>3
        <5> QED
          BY <5>1, <5>2, <5>3
      <4>8. ASSUME NEW k \in 1..Len(todo'),
                   todo'[k] \in HpdWrites \cup HpdPins \cup {Step("edid")},
                   NEW m \in k + 1..Len(todo')
            PROVE  todo'[m] \notin Wakes
        <5>1. k - n \in 1..Len(R) /\ R[k - n] \in HpdWrites \cup HpdPins \cup {Step("edid")}
          BY <3>4, <4>4, <4>5, <4>8
        <5>2. m - n \in (k - n) + 1..Len(R) /\ m - n \in 1..Len(R) /\ n + (m - n) = m
          BY <3>3, <4>4, <5>1, <4>8
        <5>3. R[m - n] \notin Wakes
          BY <3>2, <5>1, <5>2 DEF Order, R
        <5> QED
          BY <3>3, <5>2, <5>3
      <4>9. ASSUME NEW m \in 1..Len(todo') PROVE todo'[m].what # "catch"
        BY <3>4, <4>3, <4>4, <4>5
      <4>10. ASSUME NEW k \in 1..Len(todo'), todo'[k] = Step("ready") PROVE k = Len(todo')
        <5>1. k - n \in 1..Len(R) /\ n + (k - n) = k /\ R[k - n] = Step("ready")
          BY <3>4, <4>4, <4>5, <4>10
        <5>2. k - n = Len(R)
          BY <3>2, <5>1 DEF Order, R
        <5> QED
          BY <3>3, <5>1, <5>2
      <4>11. Order(todo')
        BY <4>7, <4>8, <4>9, <4>10 DEF Order
      <4>12. Waking(todo')
        BY <4>6 DEF Waking
      <4> QED
        BY <2>2, <4>11, <4>12
    <3> QED
      BY <1>2, <2>5, <3>5, <3>6, Spliced DEF Load, Again
  <2>6. CASE (Note \/ Borrow \/ Scan) /\ ~Passing
    <3>1. /\ op' = op /\ todo' = todo /\ chip' = chip /\ right' = right /\ output' = output
      BY <2>6 DEF Note, Borrow, Scan, others
    <3> QED
      BY <2>1, <2>2, <3>1 DEF Live
  <2> QED
    BY <1>2, <2>3, <2>4, <2>5, <2>6
<1>3. CASE Fetching
  BY <1>3, Fetched
<1>4. CASE Beginning
  <2>1. todo' = Bringup /\ ~ready
    BY <1>4, Begun
  <2>2. ~ready'
    BY <1>4, <2>1, Begun
  <2>3. Opens(todo') /\ \A k \in 1..Len(todo') : todo'[k] = Step("ready") => k = Len(todo')
    BY <2>1, BringupOpens
  <2>4. /\ 7 \in 1..Len(todo') /\ todo'[7] \in Wakes
        /\ \A k \in 1..6 : todo'[k] = Opening[k] /\ k \in 1..Len(todo')
        /\ \A k \in 8..Len(todo') : todo'[k] \notin Special
        /\ Len(todo') \in Nat /\ todo' \in Seq(All)
    BY <2>3, OpeningItems DEF Opens, Wakes
  <2>5. \A k \in 1..Len(todo') : k \in 1..6 \/ k = 7 \/ k \in 8..Len(todo')
    BY <2>4
  <2>6. \A k \in 1..7 : /\ Opening[k] \notin HpdWrites \cup HpdPins \cup {Step("edid")}
                        /\ Opening[k].what # "catch"
    <3>1. \A k \in 1..7 : Opening[k] \in {Step("unready"), Output("hpd"), Output("reset"),
                                         SetPin("reset", 0), SetPin("reset", 1), Bank(0),
                                         Step("alive")}
      BY OpeningItems
    <3>2. \A x \in {Step("unready"), Output("hpd"), Output("reset"), SetPin("reset", 0),
                    SetPin("reset", 1), Bank(0), Step("alive")} :
            /\ x.what \in {"output", "pin", "bank", "step"}
            /\ x.what = "pin" => x.arg = "reset"
            /\ x.what = "step" => x.arg \in {"unready", "alive"}
      BY Fields, Names
    <3>3. /\ \A x \in HpdWrites : x.what = "write"
          /\ \A x \in HpdPins : x.what = "pin" /\ x.arg = "hpd"
          /\ Step("edid").what = "step" /\ Step("edid").arg = "edid"
      BY Classes, Names
    <3> QED
      BY <3>1, <3>2, <3>3
  <2>7. Opening[7] \in Wakes /\ Opening[7] \notin Resets
    BY OpeningItems, Names, Classes, Fields DEF Wakes, Resets
  <2>8. todo'[7] = Opening[7]
    BY <2>3 DEF Opens
  <2>9. ASSUME NEW k \in 1..Len(todo'), todo'[k] \in Resets
        PROVE  \E m \in k + 1..Len(todo') : todo'[m] \in Wakes
    <3>1. k \in 1..6
      BY <2>4, <2>5, <2>7, <2>8, <2>9 DEF Special
    <3>2. 7 \in k + 1..Len(todo')
      BY <2>4, <3>1
    <3> QED
      BY <2>4, <3>2
  <2>10. ASSUME NEW k \in 1..Len(todo'),
                todo'[k] \in HpdWrites \cup HpdPins \cup {Step("edid")},
                NEW m \in k + 1..Len(todo')
         PROVE  todo'[m] \notin Wakes
    <3>1. k \in 8..Len(todo')
      <4>1. k \in 1..7 => todo'[k] = Opening[k]
        BY <2>3 DEF Opens
      <4> QED
        BY <2>5, <2>6, <2>10, <4>1
    <3>2. m \in 8..Len(todo')
      BY <2>4, <2>10, <3>1
    <3> QED
      BY <2>4, <3>2 DEF Special
  <2>11. ASSUME NEW m \in 1..Len(todo') PROVE todo'[m].what # "catch"
    <3>1. CASE m \in 8..Len(todo')
      <4>1. todo'[m] \in All /\ todo'[m] \notin Catches
        BY <2>4, <2>11, <3>1 DEF Special
      <4> QED
        BY <4>1, Kinds
    <3>2. CASE m \in 1..7
      <4>1. todo'[m] = Opening[m]
        BY <2>3, <3>2 DEF Opens
      <4> QED
        BY <2>6, <3>2, <4>1
    <3> QED
      BY <2>5, <3>1, <3>2
  <2>12. Order(todo')
    BY <2>3, <2>9, <2>10, <2>11 DEF Order
  <2> QED
    BY <2>2, <2>4, <2>12 DEF Waking
<1>5. CASE End
  BY <1>5 DEF End
<1> QED
  <2>1. (Passing \/ Splicing \/ Note \/ Borrow \/ Scan) => op' = op
    BY PassingPasses, Spliced DEF Note, Borrow, Scan, others
  <2>2. (Passing \/ Splicing \/ Note \/ Borrow \/ Scan) => todo # << >>
    BY PassingPasses, Spliced DEF Note, Borrow, Scan, others, Passes
  <2> QED
    BY <1>2, <1>3, <1>4, <1>5, <2>1, <2>2, Actions DEF Leaving

-----------------------------------------------------------------------------
(***************************************************************************)
(* The lock a caller notes was latched.                                    *)
(***************************************************************************)
LEMMA NoResetReady ==
  ASSUME Typed, Revived, Command, ready PROVE Head(todo) \notin Resets
<1>1. /\ todo # << >> /\ Head(todo) \in All /\ Belongs(Head(todo), op)
  BY Commanded
<1>2. op # "bringup"
  BY <1>1, RevivedOrder
<1>3. Head(todo) \in Vocabulary(op)
  BY <1>1 DEF Vocabulary
<1> QED
  BY <1>2, <1>3, Owners

LEMMA LatchKept ==
  ASSUME Typed, Next, chip.latched, Command => Head(todo) \notin Resets
  PROVE  chip'.latched
<1>1. CASE Command
  BY <1>1, Commanded, ChipKept
<1>2. CASE ~Command
  BY <1>2, Untouched
<1> QED
  BY <1>1, <1>2

(* Who notes the lock, and who loses it.                                   *)
LEMMA LockMoves ==
  ASSUME Typed, Next
  PROVE  /\ locked' => locked \/ note \/ borrowed'
         /\ note' => note \/ Matched
         /\ Unready => ~locked' /\ ~note'
         /\ ~Unready => (borrowed => borrowed')
<1>1. Command => locked' = locked /\ note' = note /\ borrowed' = borrowed
  BY DEF Command, control, past
<1>2. Decide => \/ locked' = locked /\ borrowed' = borrowed /\ (note' = note \/ Matched)
                \/ Unready /\ locked' = FALSE /\ note' = FALSE
  BY DEF Decide, Unready, Alive, Ready, Refuse, CatchError, Edid, Frozen, Late,
     PollUnlocked, PollLocked, PollMatched, Matched, Expire, LockRead, WatchJudge, Diag,
     Known, callers, past, Goes
<1>3. Operation => locked' = locked /\ note' = note /\ borrowed' = borrowed
  BY DEF Operation, BeginBringup, BeginReload, BeginPulse, BeginSignal, BeginLock,
     BeginWatch, BeginDiag, BeginCsc, BeginColour, BeginRamtest, End, Begin, past
<1>4. Note => /\ note \/ locked' = FALSE
              /\ note' = FALSE \/ note' = note
              /\ borrowed' = borrowed
  BY DEF Note
<1>5. Scan => locked' = locked /\ note' = note /\ borrowed' = borrowed
  BY DEF Scan
<1>6. Borrow => note' = note /\ borrowed' = TRUE
  BY DEF Borrow
<1>7. /\ locked \in BOOLEAN /\ locked' \in BOOLEAN /\ note \in BOOLEAN /\ note' \in BOOLEAN
      /\ borrowed \in BOOLEAN /\ borrowed' \in BOOLEAN
  BY StepFlags DEF Typed, Flags
<1>8. Unready => locked' = FALSE /\ note' = FALSE
  BY DEF Unready
<1> QED
  BY <1>1, <1>2, <1>3, <1>4, <1>5, <1>6, <1>7, <1>8 DEF Next

LEMMA StepLatched ==
  ASSUME Typed, Followed(todo), Power, Revived, Latched, Settled, Next, Chunks \in Nat
  PROVE  Latched'
<1>1. ASSUME Matched
      PROVE  (chip.latched \/ borrowed) /\ op = "signal" /\ chip' = chip
  <2>1. AtStep("matched")
    BY <1>1 DEF Matched
  <2>2. op = "signal" /\ todo # << >> /\ Head(todo) = Step("matched")
    BY <2>1, StepOwners
  <2>3. (chip.latched \/ borrowed \/ ~chip.alive) /\ chip.alive
    <3> DEFINE needs == {Step("matched")}
               makes == {Write("latch", 2, 1)}
               breaks == {}
               now == chip.latched \/ borrowed \/ ~chip.alive
               alive == chip.alive
    <3>1. /\ Kept(todo, needs, makes, breaks, now) /\ todo \in Seq(Vocabulary(op))
          /\ Kept(todo, needs, breaks, breaks, alive)
      BY DEF Settled, Typed
    <3>2. Head(todo) \in needs /\ todo # << >>
      BY <2>2
    <3> HIDE DEF needs, makes, breaks, now, alive
    <3>3. now /\ alive
      BY <3>1, <3>2, FirstNow
    <3> QED
      BY <3>3 DEF now, alive
  <2> QED
    BY <1>1, <2>2, <2>3 DEF Matched
<1>2. ASSUME locked' \/ note' PROVE chip'.latched \/ borrowed'
  <2>1. ~Unready
    BY <1>2, LockMoves
  <2>2. CASE borrowed
    BY <2>1, <2>2, LockMoves
  <2>3. CASE Matched /\ ~borrowed
    BY <1>1, <2>3
  <2>4. CASE ~Matched /\ ~borrowed /\ ~borrowed'
    <3>1. locked \/ note
      BY <1>2, <2>4, LockMoves
    <3>2. chip.latched
      BY <2>4, <3>1 DEF Latched
    <3>3. ASSUME Command PROVE Head(todo) \notin Resets
      <4>1. /\ todo # << >> /\ Head(todo) \in All /\ Belongs(Head(todo), op)
            /\ Head(todo).what \in Commands
        BY <3>3, Commanded
      <4>2. ~AtStep("unready")
        BY <4>1, Names DEF AtStep, Commands
      <4>3. op # "bringup"
        BY <2>4, <3>1, <4>2 DEF Latched
      <4>4. Head(todo) \in Vocabulary(op)
        BY <4>1 DEF Vocabulary
      <4> QED
        BY <4>3, <4>4, Owners
    <3> QED
      BY <3>2, <3>3, LatchKept
  <2> QED
    BY <2>2, <2>3, <2>4
<1>3. ASSUME op' = "bringup" PROVE AtStep("unready")' \/ (~note' /\ (locked' => borrowed'))
  <2>1. CASE Beginning
    <3>1. todo' = Bringup
      BY <1>3, <2>1, Begun
    <3>2. Head(todo') = Step("unready") /\ todo' # << >>
      <4>1. Bringup[1] = Step("unready") /\ Bringup \in Seq(All) /\ Len(Bringup) >= 7
        BY BringupOpens, OpeningItems DEF Opens
      <4> QED
        BY <3>1, <4>1
    <3> QED
      BY <1>3, <3>2 DEF AtStep, Step, Item
  <2>2. CASE ~Beginning
    <3>1. op = "bringup"
      <4>1. ~End
        BY <1>3 DEF End
      <4>2. CASE Note \/ Borrow \/ Scan
        BY <1>3, <4>2 DEF Note, Borrow, Scan, others
      <4>3. CASE ~(Note \/ Borrow \/ Scan)
        BY <1>3, <2>2, <4>1, <4>3, Actions, PassingPasses, Spliced, Fetched DEF Leaving
      <4> QED
        BY <4>2, <4>3
    <3>2. CASE Unready
      BY <3>2, LockMoves
    <3>3. CASE ~AtStep("unready") /\ ~Unready
      <4>1. ~note /\ (locked => borrowed)
        BY <3>1, <3>3 DEF Latched
      <4>2. ~Matched
        BY <3>1, <1>1
      <4> QED
        BY <3>3, <4>1, <4>2, LockMoves
    <3>4. CASE AtStep("unready") /\ ~Unready
      <4>1. Head(todo) = Step("unready") /\ todo # << >>
        BY <3>4 DEF AtStep
      <4>2. ~Command /\ ~CatchError /\ ~End
        BY <4>1, Names DEF Command, CatchError, Commands, End
      <4>3. \A name : AtStep(name) => name = "unready"
        BY <4>1, Names DEF AtStep
      <4>4. ~Decide
        BY <3>4, <4>2, <4>3 DEF Decide, Alive, Ready, Refuse, Edid, Frozen, Late,
           PollUnlocked, PollLocked, PollMatched, Matched, Expire, LockRead, WatchJudge,
           Diag, Known
      <4>5. Note \/ Borrow \/ Scan
        BY <2>2, <4>2, <4>4 DEF Next, Operation, Beginning
      <4> QED
        BY <1>3, <3>1, <3>4, <4>5 DEF Note, Borrow, Scan, others, AtStep
    <3> QED
      BY <3>2, <3>3, <3>4
  <2> QED
    BY <2>1, <2>2
<1> QED
  BY <1>2, <1>3 DEF Latched

-----------------------------------------------------------------------------
(***************************************************************************)
(* What holds when a mode is matched.                                      *)
(***************************************************************************)
LEMMA KeptLast ==
  ASSUME NEW S, NEW L \in Seq(S), NEW x \in S, NEW makes, NEW breaks, NEW now,
         Free(L, {x}), Will(L, Len(L) + 1, makes, breaks, now)
  PROVE  Kept(L \o <<x>>, {x}, makes, breaks, now)
<1> DEFINE M == L \o <<x>>
           n == Len(L)
<1>1. /\ Len(M) = n + 1 /\ n \in Nat
      /\ \A i \in 1..n : M[i] = L[i]
  OBVIOUS
<1> SUFFICES ASSUME NEW k \in 1..Len(M), M[k] \in {x}
             PROVE  Will(M, k, makes, breaks, now)
  BY DEF Kept
<1> HIDE DEF M
<1>2. k = n + 1
  BY <1>1 DEF Free
<1>3. (n + 1) \in Nat /\ \A i \in 1..(n + 1) - 1 : M[i] = L[i]
  BY <1>1
<1>4. Will(M, n + 1, makes, breaks, now)
  BY <1>3, WillSame
<1> QED
  BY <1>2, <1>4

(* What was made in the first part, and not broken in the second.          *)
LEMMA WillJoin ==
  ASSUME NEW S, NEW X \in Seq(S), NEW L \in Seq(S), NEW makes, NEW breaks, NEW now,
         Will(X, Len(X) + 1, makes, breaks, now), Free(L, breaks),
         \A k \in 1..Len(L) : L[k].what # "catch"
  PROVE  Will(X \o L, Len(X \o L) + 1, makes, breaks, now)
<1> DEFINE M == X \o L
           n == Len(X)
           m == Len(M)
<1>1. /\ n \in Nat /\ Len(L) \in Nat /\ m = n + Len(L)
      /\ \A i \in 1..n : M[i] = X[i]
      /\ \A i \in 1..Len(L) : M[n + i] = L[i]
  BY JoinPlaces
<1> HIDE DEF M, n, m
<1>2. ASSUME NEW i \in 1..m, i > n PROVE M[i] \notin breaks /\ M[i].what # "catch"
  <2>1. i - n \in 1..Len(L) /\ n + (i - n) = i
    BY <1>1, <1>2
  <2>2. M[i] = L[i - n]
    BY <1>1, <2>1
  <2> QED
    BY <2>1, <2>2 DEF Free
<1>3. (n + 1) - 1 = n /\ (m + 1) - 1 = m /\ \A i \in 1..n : i \in 1..m
  BY <1>1
<1>4. \A i \in 1..m : i \in 1..n \/ i > n
  BY <1>1
<1>5. CASE \E j \in 1..n :
              /\ X[j] \in makes
              /\ \A i \in j + 1..n : X[i] \notin breaks /\ X[i].what # "catch"
  <2>1. PICK j \in 1..n :
              /\ X[j] \in makes
              /\ \A i \in j + 1..n : X[i] \notin breaks /\ X[i].what # "catch"
    BY <1>5
  <2>2. \A i \in j + 1..m : i \in 1..m /\ (i \in 1..n => i \in j + 1..n)
    BY <1>1
  <2>3. \A i \in j + 1..m : M[i] \notin breaks /\ M[i].what # "catch"
    BY <1>1, <1>2, <1>4, <2>1, <2>2
  <2>4. M[j] \in makes /\ j \in 1..m
    BY <1>1, <1>3, <2>1
  <2> QED
    BY <1>3, <2>3, <2>4 DEF Will, M, m
<1>6. CASE now /\ \A j \in 1..n : X[j] \notin breaks
  <2>1. \A j \in 1..m : M[j] \notin breaks
    BY <1>1, <1>2, <1>4, <1>6
  <2> QED
    BY <1>3, <1>6, <2>1 DEF Will, M, m
<1>7. Will(X, n + 1, makes, breaks, now)
  BY DEF n
<1> QED
  BY <1>3, <1>5, <1>6, <1>7 DEF Will

(* What is made in the second part.                                        *)
LEMMA WillAfter ==
  ASSUME NEW S, NEW X \in Seq(S), NEW L \in Seq(S), NEW makes, NEW breaks, NEW now,
         Will(L, Len(L) + 1, makes, breaks, FALSE)
  PROVE  Will(X \o L, Len(X \o L) + 1, makes, breaks, now)
<1> DEFINE M == X \o L
           n == Len(X)
           m == Len(M)
<1>1. /\ n \in Nat /\ Len(L) \in Nat /\ m = n + Len(L)
      /\ \A i \in 1..Len(L) : M[n + i] = L[i]
  BY JoinPlaces
<1>2. (Len(L) + 1) - 1 = Len(L) /\ (m + 1) - 1 = m
  BY <1>1
<1>3. PICK j \in 1..Len(L) :
              /\ L[j] \in makes
              /\ \A i \in j + 1..Len(L) : L[i] \notin breaks /\ L[i].what # "catch"
  BY <1>2 DEF Will
<1> HIDE DEF M, n, m
<1>4. ASSUME NEW i \in (n + j) + 1..m PROVE M[i] \notin breaks /\ M[i].what # "catch"
  <2>1. i - n \in j + 1..Len(L) /\ i - n \in 1..Len(L) /\ n + (i - n) = i
    BY <1>1
  <2>2. M[i] = L[i - n]
    BY <1>1, <2>1
  <2> QED
    BY <1>3, <2>1, <2>2
<1>5. n + j \in 1..m /\ M[n + j] \in makes
  BY <1>1, <1>3
<1>6. Will(M, m + 1, makes, breaks, now)
  BY <1>2, <1>4, <1>5 DEF Will
<1> QED
  BY <1>6 DEF M, m

(* The parts of a commit.                                                  *)
LEMMA CommitParts ==
  \E X, G \in Seq(All) :
     /\ X = (IF locked THEN << >> ELSE Latch)
     /\ Commit = ((X \o <<Bank(0)>>) \o G) \o <<Step("frozen")>>
     /\ <<Bank(0)>> \in Seq(All) /\ <<Step("frozen")>> \in Seq(All)
     /\ (X \o <<Bank(0)>>) \in Seq(All) /\ ((X \o <<Bank(0)>>) \o G) \in Seq(All)
     /\ \A list \in {X, <<Bank(0)>>, G, <<Step("frozen")>>} :
           Free(list, AutoWrites \cup Catches \cup {Step("matched")})
<1> DEFINE X == IF locked THEN << >> ELSE Latch
           G == IF opt.windows THEN << >> ELSE <<Batch(0), Write("frozen", 0, 1)>>
           Q == AutoWrites \cup Catches \cup {Step("matched")}
<1>1. Commit = ((X \o <<Bank(0)>>) \o G) \o <<Step("frozen")>>
  BY DEF Commit
<1>2. X \in Seq(All) /\ Len(X) \in Nat
  BY TamePieces DEF Tame
<1>3. G \in Seq(All) /\ <<Bank(0)>> \in Seq(All) /\ <<Step("frozen")>> \in Seq(All)
  BY Alphabet
<1>4. /\ \A i \in Q : /\ i.what \in {"write", "step", "catch"}
                      /\ i.what = "write" => i.arg = "auto"
                      /\ i.what = "step" => i.arg = "matched"
  BY Classes, Names
<1>5. Free(X, Q)
  <2>1. \A k \in 1..Len(Latch) : Latch[k].what \in {"bank", "read", "write"} /\ Latch[k].arg # "auto"
    BY Fields DEF Latch, Bank, Read, Item
  <2> HIDE DEF Q
  <2>2. Free(Latch, Q)
    BY <1>4, <2>1 DEF Free
  <2>3. Free(<< >>, Q)
    BY DEF Free
  <2> QED
    BY <2>2, <2>3
<1>6. Free(<<Bank(0)>>, Q) /\ Free(<<Step("frozen")>>, Q)
  <2> HIDE DEF Q
  <2> QED
    BY <1>4, Fields, Names DEF Free
<1>7. Free(G, Q)
  <2> HIDE DEF Q
  <2>1. Free(<<Batch(0), Write("frozen", 0, 1)>>, Q) /\ Free(<< >>, Q)
    BY <1>4, Fields, Names DEF Free
  <2> QED
    BY <2>1
<1>8. X \o <<Bank(0)>> \in Seq(All)
  BY <1>2, <1>3, JoinPlaces
<1>9. (X \o <<Bank(0)>>) \o G \in Seq(All)
  BY <1>3, <1>8, JoinPlaces
<1>10. \A list \in {X, <<Bank(0)>>, G, <<Step("frozen")>>} : Free(list, Q)
  <2> HIDE DEF G, Q, X
  <2> QED
    BY <1>5, <1>6, <1>7
<1>11. X = (IF locked THEN << >> ELSE Latch)
  OBVIOUS
<1> HIDE DEF G, Q, X
<1>12. \E Y, H \in Seq(All) :
         /\ Y = (IF locked THEN << >> ELSE Latch)
         /\ Commit = ((Y \o <<Bank(0)>>) \o H) \o <<Step("frozen")>>
         /\ <<Bank(0)>> \in Seq(All) /\ <<Step("frozen")>> \in Seq(All)
         /\ (Y \o <<Bank(0)>>) \in Seq(All) /\ ((Y \o <<Bank(0)>>) \o H) \in Seq(All)
         /\ \A list \in {Y, <<Bank(0)>>, H, <<Step("frozen")>>} : Free(list, Q)
  <2> WITNESS X \in Seq(All), G \in Seq(All)
  <2> QED
    BY <1>1, <1>2, <1>3, <1>8, <1>9, <1>10, <1>11
<1> QED
  BY <1>12 DEF Q

LEMMA NoCatch ==
  ASSUME NEW L \in Seq(All), Free(L, Catches)
  PROVE  \A k \in 1..Len(L) : L[k].what # "catch"
BY Kinds DEF Free

LEMMA CommitFree ==
  /\ Commit \in Seq(All) /\ Free(Commit, AutoWrites) /\ Free(Commit, {Step("matched")})
  /\ \A k \in 1..Len(Commit) : Commit[k].what # "catch"
<1> DEFINE Q == AutoWrites \cup Catches \cup {Step("matched")}
           B == <<Bank(0)>>
           F == <<Step("frozen")>>
<1>1. PICK X, G \in Seq(All) :
         /\ Commit = ((X \o B) \o G) \o F
         /\ B \in Seq(All) /\ F \in Seq(All)
         /\ (X \o B) \in Seq(All) /\ ((X \o B) \o G) \in Seq(All)
         /\ \A list \in {X, B, G, F} : Free(list, Q)
  BY CommitParts
<1>2. Free(X, Q) /\ Free(B, Q) /\ Free(G, Q) /\ Free(F, Q)
  BY <1>1
<1> HIDE DEF Q, B, F
<1>3. Free(X \o B, Q)
  BY <1>1, <1>2, FreeJoin, Zenon
<1>4. Free((X \o B) \o G, Q)
  BY <1>1, <1>2, <1>3, FreeJoin, Zenon
<1>5. Free(Commit, Q) /\ Commit \in Seq(All)
  BY <1>1, <1>2, <1>4, FreeJoin, JoinPlaces, Zenon
<1>6. Free(Commit, AutoWrites) /\ Free(Commit, {Step("matched")}) /\ Free(Commit, Catches)
  BY <1>5 DEF Free, Q
<1> QED
  BY <1>5, <1>6, NoCatch

(* What a commit leaves.                                                   *)
LEMMA CommitWill ==
  ASSUME NEW settle \in AutoPosition(0)
  PROVE  /\ settle \o Commit \in Seq(All) /\ Free(settle \o Commit, {Step("matched")})
         /\ \A now : Will(settle \o Commit, Len(settle \o Commit) + 1, {Write("auto", 0, 0)},
                          AutoWrites, now)
         /\ \A now : Will(settle \o Commit, Len(settle \o Commit) + 1,
                          {Write("frozen", 0, 0), Step("frozen")},
                          FrozenWrites \cup {Step("frozen")}, now)
         /\ ~locked =>
              \A now : Will(settle \o Commit, Len(settle \o Commit) + 1,
                            {Write("latch", 2, 1)}, {}, now)
<1>1. settle = <<Bank(0), Write("auto", 0, 0)>> /\ settle \in Seq(All)
  <2>1. settle = <<Bank(0), Write("auto", 0, 0)>>
    BY DEF AutoPosition
  <2> QED
    BY <2>1, Alphabet
<1>2. Commit \in Seq(All) /\ settle \o Commit \in Seq(All)
  BY <1>1, CommitFree, JoinPlaces
<1>3. Free(settle \o Commit, {Step("matched")})
  <2>1. Free(settle, {Step("matched")})
    BY <1>1, Fields, Names DEF Free
  <2> QED
    BY <1>1, <1>2, <2>1, CommitFree, FreeJoin, Zenon
<1>4. ASSUME NEW now
      PROVE  Will(settle \o Commit, Len(settle \o Commit) + 1, {Write("auto", 0, 0)}, AutoWrites, now)
  <2>1. Will(settle, Len(settle) + 1, {Write("auto", 0, 0)}, AutoWrites, now)
    <3>1. Len(settle) = 2 /\ settle[2] = Write("auto", 0, 0)
      BY <1>1
    <3>2. 2 \in 1..(2 + 1) - 1 /\ \A i \in 2 + 1..(2 + 1) - 1 : FALSE
      OBVIOUS
    <3> QED
      BY <3>1, <3>2 DEF Will
  <2> QED
    BY <1>1, <1>2, <2>1, CommitFree, WillJoin, ZenonT(30)
<1> DEFINE B == <<Bank(0)>>
           F == <<Step("frozen")>>
           Q == AutoWrites \cup Catches \cup {Step("matched")}
<1>5. PICK X, G \in Seq(All) :
         /\ X = (IF locked THEN << >> ELSE Latch)
         /\ Commit = ((X \o B) \o G) \o F
         /\ B \in Seq(All) /\ F \in Seq(All)
         /\ (X \o B) \in Seq(All) /\ ((X \o B) \o G) \in Seq(All)
         /\ \A list \in {X, B, G, F} : Free(list, Q)
  BY CommitParts
<1>6. ASSUME NEW now
      PROVE  Will(settle \o Commit, Len(settle \o Commit) + 1,
                  {Write("frozen", 0, 0), Step("frozen")}, FrozenWrites \cup {Step("frozen")}, now)
  <2> DEFINE makes == {Write("frozen", 0, 0), Step("frozen")}
             breaks == FrozenWrites \cup {Step("frozen")}
  <2>1. Will(F, Len(F) + 1, makes, breaks, FALSE)
    <3>1. Len(F) = 1 /\ F[1] \in makes
      OBVIOUS
    <3>2. 1 \in 1..(1 + 1) - 1 /\ \A i \in 1 + 1..(1 + 1) - 1 : FALSE
      OBVIOUS
    <3> HIDE DEF F, makes
    <3> QED
      BY <3>1, <3>2 DEF Will
  <2> HIDE DEF makes, breaks, F, B
  <2>2. Will(Commit, Len(Commit) + 1, makes, breaks, FALSE)
    BY <1>5, <2>1, WillAfter, ZenonT(30)
  <2>3. Will(settle \o Commit, Len(settle \o Commit) + 1, makes, breaks, now)
    BY <1>1, <1>2, <2>2, WillAfter, ZenonT(30)
  <2> QED
    BY <2>3 DEF makes, breaks
<1>7. ASSUME ~locked, NEW now
      PROVE  Will(settle \o Commit, Len(settle \o Commit) + 1, {Write("latch", 2, 1)}, {}, now)
  <2> DEFINE makes == {Write("latch", 2, 1)}
             breaks == {}
  <2>1. Will(X, Len(X) + 1, makes, breaks, FALSE)
    <3>1. /\ Len(X) = 4 /\ X[3] \in makes /\ X[4] = Write("latch", 2, 0)
      BY <1>5, <1>7 DEF Latch
    <3>2. 3 \in 1..(4 + 1) - 1 /\ \A i \in 3 + 1..(4 + 1) - 1 : i = 4
      OBVIOUS
    <3>3. X[4].what # "catch"
      BY <3>1, Fields
    <3> HIDE DEF makes
    <3> QED
      BY <3>1, <3>2, <3>3 DEF Will
  <2>2. Free(X, Q) /\ Free(B, Q) /\ Free(G, Q) /\ Free(F, Q)
    BY <1>5
  <2>3. /\ \A k \in 1..Len(B) : B[k].what # "catch"
        /\ \A k \in 1..Len(G) : G[k].what # "catch"
        /\ \A k \in 1..Len(F) : F[k].what # "catch"
    <3>1. Free(B, Catches) /\ Free(G, Catches) /\ Free(F, Catches)
      BY <2>2 DEF Free
    <3> HIDE DEF B, F
    <3> QED
      BY <1>5, <3>1, NoCatch
  <2>4. Free(B, breaks) /\ Free(G, breaks) /\ Free(F, breaks)
    BY DEF Free
  <2> HIDE DEF makes, breaks, B, F, Q
  <2>5. Will(X \o B, Len(X \o B) + 1, makes, breaks, FALSE)
    BY <1>5, <2>1, <2>3, <2>4, WillJoin, ZenonT(30)
  <2>6. Will((X \o B) \o G, Len((X \o B) \o G) + 1, makes, breaks, FALSE)
    BY <1>5, <2>3, <2>4, <2>5, WillJoin, ZenonT(30)
  <2>7. Will(Commit, Len(Commit) + 1, makes, breaks, FALSE)
    BY <1>5, <2>3, <2>4, <2>6, WillJoin, ZenonT(30)
  <2>8. Will(settle \o Commit, Len(settle \o Commit) + 1, makes, breaks, now)
    BY <1>1, <1>2, <2>7, WillAfter, ZenonT(30)
  <2> QED
    BY <2>8 DEF makes, breaks
<1> QED
  BY <1>2, <1>3, <1>4, <1>6, <1>7

(* What the driver does when it has no mode yet.                           *)
LEMMA PollLists ==
  /\ \A seek \in {<< >>} \cup AutoPosition(1) :
        /\ seek \o Poll \in Seq(All) /\ Free(seek \o Poll, {Step("matched")})
        /\ seek \o <<Step("expire")>> \in Seq(All)
        /\ Free(seek \o <<Step("expire")>>, {Step("matched")})
  /\ Measure \o <<Step("judge")>> \in Seq(All)
  /\ Free(Measure \o <<Step("judge")>>, {Step("matched")})
  /\ Poll \in Seq(All) /\ Free(Poll, {Step("matched")})
<1> DEFINE none == {Step("matched")}
           hunt == <<Bank(0), Write("auto", 0, 1)>>
           last == <<Step("expire")>>
           judge == <<Step("judge")>>
<1>1. /\ << >> \in Seq(All) /\ hunt \in Seq(All) /\ Poll \in Seq(All) /\ Measure \in Seq(All)
      /\ last \in Seq(All) /\ judge \in Seq(All)
  <2>1. /\ Step("expire") \in All /\ Step("judge") \in All
    BY Alphabet
  <2> QED
    BY <2>1, TamePieces DEF Tame
<1>2. /\ Free(<< >>, none) /\ Free(last, none) /\ Free(judge, none)
  BY Names DEF Free
<1>3. Free(hunt, none) /\ Free(Poll, none)
  BY Names, Fields DEF Free, Poll
<1>4. Free(Measure, none)
  <2>1. \A k \in 1..Len(Measure) : Measure[k].what \in {"bank", "read"}
    BY Fields DEF Measure
  <2> QED
    BY <2>1, Names DEF Free
<1>5. \A seek \in {<< >>} \cup AutoPosition(1) : seek = << >> \/ seek = hunt
  BY DEF AutoPosition
<1> HIDE DEF none, hunt, last, judge
<1>6. ASSUME NEW seek \in {<< >>} \cup AutoPosition(1)
      PROVE  /\ seek \o Poll \in Seq(All) /\ Free(seek \o Poll, none)
             /\ seek \o last \in Seq(All) /\ Free(seek \o last, none)
  <2>1. seek \in Seq(All) /\ Free(seek, none)
    BY <1>1, <1>2, <1>3, <1>5
  <2>2. seek \o Poll \in Seq(All) /\ seek \o last \in Seq(All)
    BY <1>1, <2>1, JoinPlaces, Zenon
  <2> QED
    BY <1>1, <1>2, <1>3, <2>1, <2>2, FreeJoin, Zenon
<1>7. Measure \o judge \in Seq(All) /\ Free(Measure \o judge, none)
  <2>1. Measure \o judge \in Seq(All)
    BY <1>1, JoinPlaces, Zenon
  <2> QED
    BY <1>1, <1>2, <1>4, <2>1, FreeJoin, Zenon
<1> QED
  BY <1>1, <1>3, <1>6, <1>7 DEF none, last, judge

(* The place of a condition that must hold when a mode is matched.         *)
LEMMA StepMatching ==
  ASSUME Typed, Followed(todo), Next, Chunks \in Nat,
         NEW makes, NEW breaks, NEW now, NEW new,
         Kept(todo, {Step("matched")}, makes, breaks, now),
         \A i \in makes : i.what \in {"write", "step"} /\ i.arg \in {"auto", "latch", "frozen"},
         \A i \in breaks : i.what \in {"write", "step"} /\ i.arg \in {"auto", "frozen"},
         Command /\ op = "signal" =>
            /\ todo' = Caught(Tail(todo)) \/ (Head(todo) \in makes => new)
            /\ Head(todo) \notin breaks /\ now => new,
         (~Command \/ Note \/ Borrow \/ Scan) /\ op = "signal" /\ now => new,
         Step("frozen") \in makes => Will(Retime, Len(Retime) + 1, makes, breaks, new),
         Step("frozen") \notin breaks => Free(Retime, breaks),
         PollMatched => \A settle \in AutoPosition(0) :
            Will(settle \o Commit, Len(settle \o Commit) + 1, makes, breaks, new)
  PROVE  Kept(todo', {Step("matched")}, makes, breaks, new)
<1> DEFINE needs == {Step("matched")}
<1> SUFFICES Kept(todo', needs, makes, breaks, new)
  OBVIOUS
<1>0. Typed'
  BY StepTyped
<1>1. todo \in Seq(Vocabulary(op)) /\ todo' \in Seq(Vocabulary(op'))
  BY <1>0 DEF Typed
<1>2. /\ \A i \in needs \cup makes : i.what # "catch"
      /\ Batch(0) \notin makes
      /\ Try(SetPin("mux", 0)) \notin needs \cup makes \cup breaks
  <2>1. /\ Batch(0).arg = "other" /\ Try(SetPin("mux", 0)).what = "pin"
        /\ \A i \in needs : i.what = "step"
    BY Fields, Names
  <2> QED
    BY <2>1
<1>3. op' # "signal" => Kept(todo', needs, makes, breaks, new)
  <2>1. op' # "signal" => Vocabulary(op') \cap needs = {}
    BY Owners
  <2> HIDE DEF needs
  <2> QED
    BY <1>1, <2>1, KeptNone
<1>4. Kept(todo, needs, makes, breaks, now)
  OBVIOUS
<1> HIDE DEF needs
<1>5. CASE Passing /\ op' = "signal"
  <2>1. Passes /\ op = "signal"
    BY <1>5, PassingPasses
  <2>2. todo' = Caught(Tail(todo)) \/ (Head(todo) \in makes => new)
    <3>1. CASE ~Command
      <4>1. /\ Head(todo).what \in {"step", "catch"}
            /\ Head(todo).what = "step" => Head(todo).arg # "auto" /\ Head(todo).arg # "latch"
                                           /\ Head(todo).arg # "frozen"
        BY <1>5, <3>1, Names DEF Passing, Unready, Alive, Ready, Refuse, CatchError, Late, Matched,
           Expire, Known, AtStep
      <4> QED
        BY <4>1
    <3> QED
      BY <2>1, <3>1
  <2>3. Head(todo) \notin breaks /\ now => new
    BY <2>1
  <2> QED
    BY <1>1, <1>2, <1>4, <2>1, <2>2, <2>3, KeptPasses, ZenonT(60)
<1>6. CASE Splicing /\ op' = "signal"
  <2>1. /\ todo # << >> /\ todo' = Splice \o Tail(todo) /\ Splice \in Seq(Vocabulary(op))
        /\ op = "signal" /\ Splice = Retime /\ Head(todo) = Step("frozen")
    BY <1>6, Spliced DEF AtStep, Loaders
  <2>2. ~Command
    BY <2>1, Names DEF Command, Commands
  <2>3. Free(Splice, needs)
    <3>1. Free(Retime, needs)
      BY Fields, Names DEF Retime, Free, needs
    <3> QED
      BY <2>1, <3>1
  <2>4. Kept(Splice, needs, makes, breaks, new)
    BY <2>3, KeptVoid, Zenon
  <2>5. Head(todo) \in makes => Will(Splice, Len(Splice) + 1, makes, breaks, new)
    BY <2>1
  <2>6. Head(todo) \notin breaks /\ now => new /\ Free(Splice, breaks)
    BY <2>1, <2>2
  <2> QED
    BY <1>1, <1>4, <2>1, <2>4, <2>5, <2>6, KeptSplice, ZenonT(60)
<1>7. CASE Fetching /\ op' = "signal"
  <2>1. op = "signal"
    BY <1>7, Fetched
  <2>2. ~LockRead /\ ~WatchJudge /\ ~Diag
    BY <2>1, StepOwners DEF LockRead, WatchJudge, Diag
  <2>3. CASE PollUnlocked \/ PollLocked
    <3>1. Free(todo', needs)
      BY <2>3, PollLists DEF PollUnlocked, PollLocked, Goes, needs
    <3> QED
      BY <3>1, KeptVoid, Zenon
  <2>4. CASE PollMatched
    <3>1. PICK settle \in AutoPosition(0) : todo' = (settle \o Commit) \o <<Step("matched")>>
      BY <2>4 DEF PollMatched, Goes
    <3>2. Will(settle \o Commit, Len(settle \o Commit) + 1, makes, breaks, new)
      BY <2>4
    <3>3. settle \o Commit \in Seq(All) /\ Free(settle \o Commit, needs) /\ Step("matched") \in All
      BY CommitWill, Alphabet DEF needs
    <3>4. Kept((settle \o Commit) \o <<Step("matched")>>, needs, makes, breaks, new)
      BY <3>2, <3>3, KeptLast, ZenonT(60) DEF needs
    <3> QED
      BY <3>1, <3>4
  <2> QED
    BY <1>7, <2>2, <2>3, <2>4 DEF Fetching
<1>8. CASE Beginning /\ op' = "signal"
  <2>1. todo' = Poll
    BY <1>8, Begun
  <2>2. Free(Poll, needs)
    BY PollLists DEF needs
  <2> QED
    BY <2>1, <2>2, KeptVoid, Zenon
<1>9. CASE Leaving /\ op' = "signal"
  <2>1. todo' = todo /\ op = "signal" /\ (Note \/ Borrow \/ Scan)
    BY <1>9 DEF Leaving, End, Note, Borrow, Scan, others
  <2>2. now => new
    BY <2>1
  <2> QED
    BY <1>4, <2>1, <2>2 DEF Kept, Will
<1> QED
  BY <1>3, <1>5, <1>6, <1>7, <1>8, <1>9, Actions

(* What a command can do while a signal is read; a receiver that is held   *)
(* in reset stays as it is.                                                *)
LEMMA SignalCommand ==
  ASSUME Typed, Power, Banked, Command, op = "signal"
  PROVE  /\ Head(todo) \notin Resets
         /\ \A b \in Banks : Head(todo) \in Writes(b) => chip.bank = b \/ ~chip.alive
         /\ ~chip.alive /\ Effect(Head(todo)) => chip' = chip
<1>1. /\ todo # << >> /\ Head(todo) \in All /\ Belongs(Head(todo), op)
  BY Commanded
<1>2. Head(todo) \notin Resets
  <2>1. Head(todo) \in Vocabulary(op)
    BY <1>1 DEF Vocabulary
  <2> QED
    BY <2>1, Owners
<1>3. ~chip.alive /\ Effect(Head(todo)) => chip' = chip
  <2>1. chip.alive \in BOOLEAN
    BY DEF Typed
  <2> QED
    BY <1>1, <1>2, <2>1, DeadChip
<1>4. ASSUME NEW b \in Banks, Head(todo) \in Writes(b) PROVE chip.bank = b \/ ~chip.alive
  <2> DEFINE now == chip.bank = b \/ ~chip.alive
  <2>1. Kept(todo, Writes(b), {Bank(b)}, Selectors, now) /\ todo \in Seq(Vocabulary(op))
    BY DEF Banked, Typed
  <2> HIDE DEF now
  <2>2. now
    BY <1>1, <1>4, <2>1, FirstNow
  <2> QED
    BY <2>2 DEF now
<1> QED
  BY <1>2, <1>3, <1>4

LEMMA RetimeThaws ==
  Will(Retime, Len(Retime) + 1, {Write("frozen", 0, 0), Step("frozen")},
       FrozenWrites \cup {Step("frozen")}, FALSE)
<1> DEFINE makes == {Write("frozen", 0, 0), Step("frozen")}
           breaks == FrozenWrites \cup {Step("frozen")}
<1> SUFFICES Will(Retime, Len(Retime) + 1, makes, breaks, FALSE)
  OBVIOUS
<1>1. CASE opt.windows
  <2>1. Len(Retime) = 4 /\ Retime[4] \in makes
    BY <1>1 DEF Retime
  <2>2. 4 \in 1..(4 + 1) - 1 /\ \A i \in 4 + 1..(4 + 1) - 1 : FALSE
    OBVIOUS
  <2> HIDE DEF makes
  <2> QED
    BY <2>1, <2>2 DEF Will
<1>2. CASE ~opt.windows
  <2>1. /\ Len(Retime) = 5 /\ Retime[3] \in makes /\ Retime[4] = Step("late")
        /\ Retime[5] = Batch(0)
    BY <1>2 DEF Retime
  <2>2. 3 \in 1..(5 + 1) - 1 /\ \A i \in 3 + 1..(5 + 1) - 1 : i \in {4, 5}
    OBVIOUS
  <2>3. /\ Step("late") \notin breaks /\ Step("late").what # "catch"
        /\ Batch(0) \notin breaks /\ Batch(0).what # "catch"
    BY Names, Fields, Classes
  <2> HIDE DEF makes, breaks
  <2> QED
    BY <2>1, <2>2, <2>3 DEF Will
<1> QED
  BY <1>1, <1>2

LEMMA WillNow ==
  ASSUME NEW L, NEW k, NEW makes, NEW now, now PROVE Will(L, k, makes, {}, now)
BY DEF Will

(* Only Matched says so.                                                   *)
LEMMA MatchMoves ==
  ASSUME Typed, Next
  PROVE  \/ Matched
         \/ matched' = matched /\ todo = << >> /\ todo' = << >> /\ ~Command
         \/ matched' = matched /\ todo # << >>
         \/ matched' = FALSE
<1>1. CASE Command
  BY <1>1, Commanded
<1>2. CASE Decide
  BY <1>2 DEF Decide, Unready, Alive, Ready, Refuse, CatchError, Edid, Frozen, Late,
     PollUnlocked, PollLocked, PollMatched, Expire, LockRead, WatchJudge, Diag,
     Known, callers, Goes, history, AtStep
<1>3. CASE Beginning
  BY <1>3, Begun DEF Beginning, BeginBringup, BeginReload, BeginPulse, BeginSignal, BeginLock,
     BeginWatch, BeginDiag, BeginCsc, BeginColour, BeginRamtest, Begin
<1>4. CASE End \/ Note \/ Borrow \/ Scan
  BY <1>4 DEF End, Note, Borrow, Scan, others, Command
<1> QED
  BY <1>1, <1>2, <1>3, <1>4 DEF Next, Operation, Beginning

LEMMA StepSettled ==
  ASSUME Typed, Followed(todo), Power, Banked, Latched, Settled, Next, Chunks \in Nat
  PROVE  Settled'
<1> DEFINE i == Head(todo)
<1>0. /\ chip \in Chips
  BY DEF Typed, Chips
<1>1. Command /\ op = "signal" =>
        /\ i \in All /\ i \notin Resets
        /\ \A b \in Banks : i \in Writes(b) => chip.bank = b \/ ~chip.alive
        /\ ~chip.alive /\ Effect(i) => chip' = chip
        /\ Effect(i) \/ chip' = chip
        /\ Effect(i) \/ todo' = Caught(Tail(todo)) \/ i.try
  BY SignalCommand, Commanded
<1>9. ~chip.alive => chip.auto = FALSE /\ chip.frozen = FALSE
  BY DEF Power, Blank
<1>10. op = "signal" /\ borrowed => borrowed'
  <2>1. op = "signal" => ~Unready
    BY StepOwners DEF Unready
  <2> QED
    BY <2>1, LockMoves
<1>2. (~Command \/ Note \/ Borrow \/ Scan) => chip' = chip
  BY Untouched DEF Note, Borrow, Scan, others
<1>3. /\ Write("auto", 0, 0) \in Writes(0) /\ Write("frozen", 0, 0) \in Writes(0)
      /\ Write("latch", 2, 1) \in Writes(2)
      /\ Write("auto", 0, 0).try = FALSE /\ Write("frozen", 0, 0).try = FALSE
      /\ Write("latch", 2, 1).try = FALSE
      /\ 0 \in Banks /\ 2 \in Banks
  BY Alphabet, Fields DEF Writes, Write, Item
<1>4. PollMatched => /\ AtStep("judge") /\ op = "signal" /\ chip.alive /\ ~Command
                     /\ locked => chip.latched \/ borrowed
  <2>1. PollMatched => AtStep("judge") /\ op = "signal" /\ chip.alive
    BY StepOwners DEF PollMatched
  <2>2. AtStep("judge") => ~Command
    BY Names DEF AtStep, Command, Commands
  <2> QED
    BY <2>1, <2>2 DEF Latched
<1>5. Kept(todo', {Step("matched")}, {Write("auto", 0, 0)}, AutoWrites, ~chip'.auto)
  <2> DEFINE makes == {Write("auto", 0, 0)}
             breaks == AutoWrites
             now == ~chip.auto
             new == ~chip'.auto
  <2>1. Kept(todo, {Step("matched")}, makes, breaks, now)
    BY DEF Settled
  <2>2. \A x \in makes : x.what \in {"write", "step"} /\ x.arg \in {"auto", "latch", "frozen"}
    BY Fields
  <2>3. \A x \in breaks : x.what \in {"write", "step"} /\ x.arg \in {"auto", "frozen"}
    BY Classes
  <2>4. Command /\ op = "signal" =>
            /\ todo' = Caught(Tail(todo)) \/ (i \in makes => new)
            /\ i \notin breaks /\ now => new
    <3> SUFFICES ASSUME Command, op = "signal"
                 PROVE  /\ todo' = Caught(Tail(todo)) \/ (i \in makes => new)
                        /\ i \notin breaks /\ now => new
      OBVIOUS
    <3>1. Effect(i) /\ i \notin breaks => chip'.auto = chip.auto
      BY <1>0, <1>1, ChipKept
    <3>2. Effect(i) /\ i \in makes => chip'.auto = FALSE
      <4>1. SUFFICES ASSUME Effect(i), i = Write("auto", 0, 0), chip.alive
                     PROVE  chip'.auto = FALSE
        BY <1>1, <1>9
      <4>2. chip.bank = 0 /\ chip.alive /\ i \in All
        BY <1>1, <1>3, <4>1
      <4>3. chip'.auto = (0 = 1)
        BY <1>0, <4>1, <4>2, Landed
      <4>4. (0 = 1) = FALSE
        OBVIOUS
      <4> QED
        BY <4>3, <4>4, Zenon
    <3>3. i \in makes => i.try = FALSE
      BY <1>3
    <3> HIDE DEF i, makes, breaks
    <3> QED
      BY <1>1, <3>1, <3>2, <3>3
  <2>5. (~Command \/ Note \/ Borrow \/ Scan) /\ op = "signal" /\ now => new
    BY <1>2
  <2>6. Step("frozen") \in makes => Will(Retime, Len(Retime) + 1, makes, breaks, new)
    BY Names, Fields
  <2>7. Step("frozen") \notin breaks => Free(Retime, breaks)
    BY Names, Fields, Classes DEF Retime, Free
  <2>8. PollMatched => \A settle \in AutoPosition(0) :
            Will(settle \o Commit, Len(settle \o Commit) + 1, makes, breaks, new)
    BY CommitWill
  <2> HIDE DEF makes, breaks, now, new, i
  <2>9. Kept(todo', {Step("matched")}, makes, breaks, new)
    BY <2>1, <2>2, <2>3, <2>4, <2>5, <2>6, <2>7, <2>8, StepMatching, ZenonT(60) DEF i
  <2> QED
    BY <2>9 DEF makes, breaks, new
<1>6. Kept(todo', {Step("matched")}, {Write("latch", 2, 1)}, {},
           chip'.latched \/ borrowed' \/ ~chip'.alive)
  <2> DEFINE makes == {Write("latch", 2, 1)}
             breaks == {}
             now == chip.latched \/ borrowed \/ ~chip.alive
             new == chip'.latched \/ borrowed' \/ ~chip'.alive
  <2>1. Kept(todo, {Step("matched")}, makes, breaks, now)
    BY DEF Settled
  <2>2. \A x \in makes : x.what \in {"write", "step"} /\ x.arg \in {"auto", "latch", "frozen"}
    BY Fields
  <2>3. \A x \in breaks : x.what \in {"write", "step"} /\ x.arg \in {"auto", "frozen"}
    OBVIOUS
  <2>4. Command /\ op = "signal" =>
            /\ todo' = Caught(Tail(todo)) \/ (i \in makes => new)
            /\ i \notin breaks /\ now => new
    <3> SUFFICES ASSUME Command, op = "signal"
                 PROVE  /\ todo' = Caught(Tail(todo)) \/ (i \in makes => new)
                        /\ now => new
      OBVIOUS
    <3>1. Effect(i) => (chip.latched => chip'.latched) /\ chip'.alive = chip.alive
      BY <1>0, <1>1, ChipKept
    <3>2. Effect(i) /\ i \in makes /\ chip.alive => chip'.latched = TRUE
      BY <1>0, <1>1, <1>3, Landed
    <3>3. i \in makes => i.try = FALSE
      BY <1>3
    <3> HIDE DEF i, makes
    <3> QED
      BY <1>1, <1>10, <3>1, <3>2, <3>3
  <2>5. (~Command \/ Note \/ Borrow \/ Scan) /\ op = "signal" /\ now => new
    BY <1>2, <1>10
  <2>6. Step("frozen") \in makes => Will(Retime, Len(Retime) + 1, makes, breaks, new)
    BY Names, Fields
  <2>7. Step("frozen") \notin breaks => Free(Retime, breaks)
    BY DEF Free
  <2>8. PollMatched => \A settle \in AutoPosition(0) :
            Will(settle \o Commit, Len(settle \o Commit) + 1, makes, breaks, new)
    <3>1. CASE locked /\ PollMatched
      <4>1. new
        BY <1>2, <1>4, <1>10, <3>1
      <4> HIDE DEF new, makes
      <4> QED
        BY <4>1, WillNow
    <3>2. CASE ~locked
      BY <3>2, CommitWill
    <3> QED
      BY <3>1, <3>2
  <2> HIDE DEF makes, breaks, now, new, i
  <2>9. Kept(todo', {Step("matched")}, makes, breaks, new)
    BY <2>1, <2>2, <2>3, <2>4, <2>5, <2>6, <2>7, <2>8, StepMatching, ZenonT(60) DEF i
  <2> QED
    BY <2>9 DEF makes, breaks, new
<1>11. Kept(todo', {Step("matched")}, {}, {}, chip'.alive)
  <2> DEFINE none == {}
             now == chip.alive
             new == chip'.alive
  <2>1. Kept(todo, {Step("matched")}, none, none, now)
    BY DEF Settled
  <2>2. /\ \A x \in none : x.what \in {"write", "step"} /\ x.arg \in {"auto", "latch", "frozen"}
        /\ \A x \in none : x.what \in {"write", "step"} /\ x.arg \in {"auto", "frozen"}
    OBVIOUS
  <2>3. Command /\ op = "signal" =>
            /\ todo' = Caught(Tail(todo)) \/ (i \in none => new)
            /\ i \notin none /\ now => new
    BY <1>0, <1>1, ChipKept
  <2>4. (~Command \/ Note \/ Borrow \/ Scan) /\ op = "signal" /\ now => new
    BY <1>2
  <2>5. Step("frozen") \in none => Will(Retime, Len(Retime) + 1, none, none, new)
    OBVIOUS
  <2>6. Step("frozen") \notin none => Free(Retime, none)
    BY DEF Free
  <2>7. PollMatched => \A settle \in AutoPosition(0) :
            Will(settle \o Commit, Len(settle \o Commit) + 1, none, none, new)
    <3>1. PollMatched => new
      BY <1>2, <1>4
    <3> HIDE DEF new
    <3> QED
      BY <3>1, WillNow
  <2> HIDE DEF none, now, new, i
  <2>8. Kept(todo', {Step("matched")}, none, none, new)
    BY <2>1, <2>2, <2>3, <2>4, <2>5, <2>6, <2>7, StepMatching, ZenonT(60) DEF i
  <2> QED
    BY <2>8 DEF none, new
<1>7. Kept(todo', {Step("matched")}, {Write("frozen", 0, 0), Step("frozen")},
           FrozenWrites \cup {Step("frozen")}, ~chip'.frozen)
  <2> DEFINE makes == {Write("frozen", 0, 0), Step("frozen")}
             breaks == FrozenWrites \cup {Step("frozen")}
             now == ~chip.frozen
             new == ~chip'.frozen
  <2>1. Kept(todo, {Step("matched")}, makes, breaks, now)
    BY DEF Settled
  <2>2. \A x \in makes : x.what \in {"write", "step"} /\ x.arg \in {"auto", "latch", "frozen"}
    BY Fields, Names
  <2>3. \A x \in breaks : x.what \in {"write", "step"} /\ x.arg \in {"auto", "frozen"}
    BY Classes, Names
  <2>4. Command /\ op = "signal" =>
            /\ todo' = Caught(Tail(todo)) \/ (i \in makes => new)
            /\ i \notin breaks /\ now => new
    <3> SUFFICES ASSUME Command, op = "signal"
                 PROVE  /\ todo' = Caught(Tail(todo)) \/ (i \in makes => new)
                        /\ i \notin breaks /\ now => new
      OBVIOUS
    <3>1. Effect(i) /\ i \notin breaks => chip'.frozen = chip.frozen
      BY <1>0, <1>1, ChipKept
    <3>2. i # Step("frozen")
      BY Commanded, Names DEF Commands
    <3>3. Effect(i) /\ i \in makes => chip'.frozen = FALSE
      <4>1. SUFFICES ASSUME Effect(i), i = Write("frozen", 0, 0), chip.alive
                     PROVE  chip'.frozen = FALSE
        BY <1>1, <1>9, <3>2
      <4>2. chip.bank = 0 /\ chip.alive /\ i \in All
        BY <1>1, <1>3, <4>1
      <4>3. chip'.frozen = (0 = 1)
        BY <1>0, <4>1, <4>2, Landed
      <4>4. (0 = 1) = FALSE
        OBVIOUS
      <4> QED
        BY <4>3, <4>4, Zenon
    <3>4. i \in makes => i.try = FALSE
      BY <1>3, <3>2
    <3> HIDE DEF i, makes, breaks
    <3> QED
      BY <1>1, <3>1, <3>3, <3>4
  <2>5. (~Command \/ Note \/ Borrow \/ Scan) /\ op = "signal" /\ now => new
    BY <1>2
  <2>6. Step("frozen") \in makes => Will(Retime, Len(Retime) + 1, makes, breaks, new)
    BY RetimeThaws DEF Will
  <2>7. Step("frozen") \notin breaks => Free(Retime, breaks)
    OBVIOUS
  <2>8. PollMatched => \A settle \in AutoPosition(0) :
            Will(settle \o Commit, Len(settle \o Commit) + 1, makes, breaks, new)
    BY CommitWill
  <2> HIDE DEF makes, breaks, now, new, i
  <2>9. Kept(todo', {Step("matched")}, makes, breaks, new)
    BY <2>1, <2>2, <2>3, <2>4, <2>5, <2>6, <2>7, <2>8, StepMatching, ZenonT(60) DEF i
  <2> QED
    BY <2>9 DEF makes, breaks, new
<1>8. matched' => ~chip'.auto /\ ~chip'.frozen /\ todo' = << >>
  <2> SUFFICES ASSUME matched' PROVE ~chip'.auto /\ ~chip'.frozen /\ todo' = << >>
    OBVIOUS
  <2>1. CASE Matched
    <3>1. todo # << >> /\ i = Step("matched") /\ todo' = << >> /\ ~Command
      BY <2>1, Names DEF Matched, AtStep, Command, Commands
    <3>2. todo \in Seq(Vocabulary(op)) /\ i \in {Step("matched")}
      BY <3>1 DEF Typed
    <3>3. Kept(todo, {Step("matched")}, {Write("auto", 0, 0)}, AutoWrites, ~chip.auto)
      BY DEF Settled
    <3>4. Kept(todo, {Step("matched")}, {Write("frozen", 0, 0), Step("frozen")},
                FrozenWrites \cup {Step("frozen")}, ~chip.frozen)
      BY DEF Settled
    <3>5. ~chip.auto
      BY <3>1, <3>2, <3>3, FirstNow
    <3>6. ~chip.frozen
      BY <3>1, <3>2, <3>4, FirstNow
    <3> QED
      BY <1>2, <3>1, <3>5, <3>6
  <2>2. CASE matched' = matched
    <3>1. matched
      BY <2>2
    <3>2. ~chip.auto /\ ~chip.frozen /\ todo = << >>
      BY <3>1 DEF Settled
    <3>3. ~Matched
      BY <3>2 DEF Matched, AtStep
    <3>4. todo' = << >> /\ ~Command
      <4>1. CASE matched' = FALSE
        BY <4>1
      <4>2. CASE matched' # FALSE
        BY <3>2, <3>3, <4>2, MatchMoves
      <4> QED
        BY <4>1, <4>2
    <3> QED
      BY <1>2, <3>2, <3>4
  <2> QED
    BY <2>1, <2>2, MatchMoves
<1> QED
  BY <1>5, <1>6, <1>7, <1>8, <1>11 DEF Settled

-----------------------------------------------------------------------------
(***************************************************************************)
(* The freeze is undone by what follows it.                                *)
(***************************************************************************)
Suffix(M, L, d) ==
    /\ d \in Nat /\ Len(M) \in Nat /\ Len(L) = Len(M) + d
    /\ \A i \in 1..Len(M) : M[i] = L[i + d]

LEMMA TailSuffix ==
  ASSUME NEW S, NEW L \in Seq(S), L # << >>
  PROVE  /\ Suffix(Tail(L), L, 1)
         /\ Caught(Tail(L)) = << >> \/ \E d \in Nat : Suffix(Caught(Tail(L)), L, d)
<1>1. /\ Tail(L) \in Seq(S) /\ Len(Tail(L)) = Len(L) - 1 /\ Len(L) \in Nat \ {0}
      /\ \A i \in 1..Len(L) - 1 : Tail(L)[i] = L[i + 1]
  BY TailPlaces
<1>2. Suffix(Tail(L), L, 1)
  BY <1>1 DEF Suffix
<1>3. CASE Caught(Tail(L)) # << >>
  <2>1. PICK c \in 1..Len(Tail(L)) :
              /\ Len(Caught(Tail(L))) = Len(Tail(L)) - c + 1
              /\ \A i \in 1..Len(Tail(L)) - c + 1 : Caught(Tail(L))[i] = Tail(L)[i + c - 1]
    BY <1>1, <1>3, JumpPlaces, ZenonT(30)
  <2> DEFINE J == Caught(Tail(L))
             n == Len(L)
             T == Tail(L)
  <2> HIDE DEF J, n, T
  <2>2. /\ Len(J) = Len(T) - c + 1 /\ Len(T) = n - 1 /\ n \in Nat \ {0} /\ c \in 1..Len(T)
        /\ \A i \in 1..Len(T) - c + 1 : J[i] = T[i + c - 1]
        /\ \A i \in 1..n - 1 : T[i] = L[i + 1]
    BY <1>1, <2>1 DEF J, T, n
  <2>3. c \in Nat /\ Len(J) = n - c /\ Len(J) \in Nat
    BY <2>2
  <2>4. ASSUME NEW i \in 1..Len(J) PROVE J[i] = L[i + c]
    <3>1. i \in 1..Len(T) - c + 1 /\ i + c - 1 \in 1..n - 1 /\ (i + c - 1) + 1 = i + c
      BY <2>2, <2>3
    <3> QED
      BY <2>2, <3>1
  <2>5. n = Len(J) + c
    BY <2>2, <2>3
  <2>6. Suffix(J, L, c)
    BY <2>3, <2>4, <2>5 DEF Suffix, n
  <2> QED
    BY <1>2, <2>3, <2>6 DEF J
<1> QED
  BY <1>2, <1>3

(* An error before a catch item leads to it.                               *)
LEMMA CaughtFirst ==
  ASSUME NEW S, NEW L \in Seq(S), L # << >>, L[1].what = "catch"
  PROVE  Caught(L) = L
<1> DEFINE At == {k \in 1..Len(L) : L[k].what = "catch"}
           first == CHOOSE k \in At : \A j \in At : k <= j
<1>1. Len(L) \in Nat /\ Len(L) >= 1
  BY EmptySeq, LenProperties
<1>2. 1 \in At /\ \A j \in At : 1 <= j
  BY <1>1
<1>3. first = 1
  <2>1. first \in At /\ \A j \in At : first <= j
    <3> HIDE DEF At
    <3> QED
      BY <1>2
  <2> HIDE DEF first
  <2>2. first \in Nat /\ first <= 1 /\ 1 <= first
    BY <1>1, <1>2, <2>1
  <2> QED
    BY <2>2
<1>4. Caught(L) = SubSeq(L, first, Len(L))
  <2>1. At # {}
    BY <1>2
  <2> QED
    BY <2>1 DEF Caught
<1>5. SubSeq(L, 1, Len(L)) = L
  BY <1>1
<1> HIDE DEF first
<1> QED
  BY <1>3, <1>4, <1>5

LEMMA UndoesSuffix ==
  ASSUME NEW M, NEW L, NEW d, Suffix(M, L, d), NEW k \in Nat, Undoes(L, k + d)
  PROVE  Undoes(M, k)
<1>1. ASSUME NEW j \in Nat, NEW x, Holds(L, (k + d) + j, x), j > 0
      PROVE  Holds(M, k + j, x)
  <2>1. d \in Nat /\ Len(M) \in Nat /\ Len(L) = Len(M) + d
    BY DEF Suffix
  <2>2. (k + d) + j \in 1..Len(L) /\ L[(k + d) + j] = x
    BY <1>1 DEF Holds
  <2>3. k + j \in 1..Len(M) /\ (k + j) + d = (k + d) + j
    BY <1>1, <2>1, <2>2
  <2> QED
    BY <2>2, <2>3 DEF Holds, Suffix
<1>2. \A j \in {1, 2, 3, 4} : \A x : Holds(L, (k + d) + j, x) => Holds(M, k + j, x)
  BY <1>1
<1> HIDE DEF Holds
<1> QED
  BY <1>2 DEF Undoes

LEMMA UndoneSuffix ==
  ASSUME NEW M, NEW L, NEW d, Suffix(M, L, d), Undone(L)
  PROVE  Undone(M)
<1> SUFFICES ASSUME NEW k \in 1..Len(M), M[k] = Write("frozen", 0, 1)
             PROVE  Undoes(M, k)
  BY DEF Undone
<1>1. d \in Nat /\ Len(M) \in Nat /\ Len(L) = Len(M) + d /\ M[k] = L[k + d]
  BY DEF Suffix
<1>2. k + d \in 1..Len(L) /\ k \in Nat
  BY <1>1
<1>3. Undoes(L, k + d)
  BY <1>1, <1>2 DEF Undone
<1> QED
  BY <1>2, <1>3, UndoesSuffix

LEMMA PassesSuffix ==
  ASSUME NEW S, todo \in Seq(S), Followed(todo), Passes, Head(todo) # Catch("mux")
  PROVE  todo' = << >> \/ \E d \in Nat : Suffix(todo', todo, d)
<1>1. todo # << >>
  BY DEF Passes
<1>2. CASE todo' = Tail(todo)
  BY <1>1, <1>2, TailSuffix
<1>3. CASE todo' = Caught(Tail(todo))
  BY <1>1, <1>3, TailSuffix
<1>4. CASE AtStep("late") /\ todo' = Tail(Tail(todo))
  <2>1. /\ Tail(todo) \in Seq(S) /\ Head(todo) = todo[1]
        /\ Len(Tail(todo)) = Len(todo) - 1 /\ Len(todo) \in Nat \ {0}
        /\ \A i \in 1..Len(todo) - 1 : Tail(todo)[i] = todo[i + 1]
    BY <1>1, TailPlaces
  <2>2. Len(todo) > 1
    <3>1. 1 \in 1..Len(todo) /\ todo[1] = Step("late")
      BY <1>4, <2>1 DEF AtStep
    <3> QED
      BY <2>1, <3>1 DEF Followed
  <2>3. Tail(todo) # << >>
    <3>1. Len(Tail(todo)) # 0
      BY <2>1, <2>2
    <3>2. Len(<< >>) = 0
      OBVIOUS
    <3> QED
      BY <3>1, <3>2, Zenon
  <2>4. /\ Tail(Tail(todo)) \in Seq(S) /\ Len(Tail(Tail(todo))) = Len(Tail(todo)) - 1
        /\ \A i \in 1..Len(Tail(todo)) - 1 : Tail(Tail(todo))[i] = Tail(todo)[i + 1]
    BY <2>1, <2>3, TailPlaces
  <2> DEFINE M == Tail(Tail(todo))
             T == Tail(todo)
             n == Len(todo)
  <2> HIDE DEF M, T, n
  <2>5. /\ n \in Nat /\ n > 1 /\ Len(T) = n - 1 /\ Len(M) = Len(T) - 1
        /\ \A i \in 1..n - 1 : T[i] = todo[i + 1]
        /\ \A i \in 1..Len(T) - 1 : M[i] = T[i + 1]
    BY <2>1, <2>2, <2>4 DEF M, T, n
  <2>6. Len(M) \in Nat /\ n = Len(M) + 2
    BY <2>5
  <2>7. ASSUME NEW i \in 1..Len(M) PROVE M[i] = todo[i + 2]
    <3>1. i \in 1..Len(T) - 1 /\ i + 1 \in 1..n - 1 /\ (i + 1) + 1 = i + 2
      BY <2>5
    <3> QED
      BY <2>5, <3>1
  <2>8. Suffix(M, todo, 2)
    BY <2>6, <2>7 DEF Suffix, n
  <2> QED
    BY <1>4, <2>8 DEF M
<1> QED
  BY <1>2, <1>3, <1>4 DEF Passes

(* The lists that freeze the output undo it.                               *)
LEMMA UndoneJoin ==
  ASSUME NEW S, NEW X \in Seq(S), NEW L \in Seq(S), Undone(X), Undone(L)
  PROVE  Undone(X \o L)
<1> DEFINE J == X \o L
           n == Len(X)
<1>1. /\ Len(J) = n + Len(L) /\ n \in Nat /\ Len(L) \in Nat
      /\ \A i \in 1..n : J[i] = X[i]
      /\ \A i \in 1..Len(L) : J[n + i] = L[i]
  BY JoinPlaces
<1> HIDE DEF J, n
<1>2. ASSUME NEW k \in 1..Len(J), J[k] = Write("frozen", 0, 1)
      PROVE  Undoes(J, k)
  <2>1. CASE k \in 1..n
    <3>1. Undoes(X, k)
      BY <1>1, <1>2, <2>1 DEF Undone, n
    <3>2. ASSUME NEW j, NEW x, Holds(X, j, x) PROVE Holds(J, j, x)
      BY <1>1, <3>2 DEF Holds, n
    <3> HIDE DEF Holds
    <3> QED
      BY <3>1, <3>2 DEF Undoes
  <2>2. CASE k \notin 1..n
    <3> DEFINE m == k - n
    <3>1. m \in 1..Len(L) /\ k = n + m /\ m \in Nat
      BY <1>1, <2>2
    <3>2. Undoes(L, m)
      BY <1>1, <1>2, <3>1 DEF Undone
    <3> HIDE DEF m
    <3>3. ASSUME NEW j \in {1, 2, 3, 4}, NEW x, Holds(L, m + j, x) PROVE Holds(J, k + j, x)
      <4>1. m + j \in 1..Len(L) /\ L[m + j] = x
        BY <3>3 DEF Holds
      <4>2. k + j = n + (m + j) /\ k + j \in 1..Len(J)
        BY <1>1, <3>1, <4>1
      <4> QED
        BY <1>1, <4>1, <4>2 DEF Holds
    <3> HIDE DEF Holds
    <3> QED
      BY <3>2, <3>3 DEF Undoes
  <2> QED
    BY <2>1, <2>2
<1> QED
  BY <1>2 DEF Undone, J

LEMMA UndoneFree ==
  ASSUME NEW L, \A k \in 1..Len(L) : L[k] # Write("frozen", 0, 1) PROVE Undone(L)
BY DEF Undone

LEMMA UndonePieces ==
  /\ Undone(Retime) /\ Undoes(Retime, 0)
  /\ \A on \in {0, 1} : \A list \in AutoPosition(on) : Undone(list \o Commit) /\ Undone(list)
  /\ Undone(Poll) /\ Undone(Measure) /\ Undone(<< >>)
  /\ \A name : Undone(<<Step(name)>>)
<1>1. /\ Write("frozen", 0, 1).what = "write" /\ Write("frozen", 0, 1).arg = "frozen"
      /\ Write("frozen", 0, 1) # Write("frozen", 0, 0)
  BY Names
<1>2. Undone(Retime) /\ Undoes(Retime, 0)
  <2>1. CASE opt.windows
    <3>1. /\ Len(Retime) = 4 /\ Retime[1] = Write("frozen", 0, 1) /\ Retime[2] = Batch(0)
          /\ Retime[3] = Catch("thaw") /\ Retime[4] = Write("frozen", 0, 0)
      BY <2>1 DEF Retime
    <3>2. /\ Batch(0) # Write("frozen", 0, 1) /\ Catch("thaw") # Write("frozen", 0, 1)
      BY <1>1, Fields, Names
    <3>3. Undoes(Retime, 0) /\ Undoes(Retime, 1)
      BY <3>1 DEF Undoes, Holds
    <3>4. \A k \in 1..4 : Retime[k] = Write("frozen", 0, 1) => k = 1
      BY <1>1, <3>1, <3>2
    <3> QED
      BY <3>1, <3>3, <3>4 DEF Undone
  <2>2. CASE ~opt.windows
    <3>1. /\ Len(Retime) = 5 /\ Retime[1] = Batch(0)
          /\ Retime[2] = Catch("thaw") /\ Retime[3] = Write("frozen", 0, 0)
          /\ Retime[4] = Step("late") /\ Retime[5] = Batch(0)
      BY <2>2 DEF Retime
    <3>2. /\ Batch(0) # Write("frozen", 0, 1) /\ Catch("thaw") # Write("frozen", 0, 1)
          /\ Step("late") # Write("frozen", 0, 1)
      BY <1>1, Fields, Names
    <3>3. Undoes(Retime, 0)
      BY <3>1 DEF Undoes, Holds
    <3>4. \A k \in 1..5 : Retime[k] # Write("frozen", 0, 1)
      BY <1>1, <3>1, <3>2
    <3> QED
      BY <3>1, <3>3, <3>4 DEF Undone
  <2> QED
    BY <2>1, <2>2
<1>3. Undone(Poll) /\ Undone(Measure) /\ Undone(<< >>)
  <2>1. \A k \in 1..Len(Poll) : Poll[k].what \in {"bank", "read", "step"}
    BY Fields, Names DEF Poll
  <2>2. \A k \in 1..Len(Measure) : Measure[k].what \in {"bank", "read"}
    BY Fields DEF Measure
  <2> QED
    BY <1>1, <2>1, <2>2, UndoneFree
<1>4. \A name : Undone(<<Step(name)>>)
  <2>1. ASSUME NEW name PROVE Undone(<<Step(name)>>)
    <3>1. \A k \in 1..Len(<<Step(name)>>) : <<Step(name)>>[k] # Write("frozen", 0, 1)
      BY <1>1, Names
    <3> QED
      BY <3>1, UndoneFree, Zenon
  <2> QED
    BY <2>1
<1>5. ASSUME NEW on \in {0, 1}, NEW list \in AutoPosition(on) PROVE Undone(list) /\ list \in Seq(All)
  <2>1. list = << >> \/ list = <<Bank(0), Write("auto", 0, on)>>
    BY <1>5 DEF AutoPosition
  <2>2. Undone(<<Bank(0), Write("auto", 0, on)>>)
    <3>1. \A k \in 1..Len(<<Bank(0), Write("auto", 0, on)>>) :
             <<Bank(0), Write("auto", 0, on)>>[k] # Write("frozen", 0, 1)
      BY <1>1, Fields
    <3> QED
      BY <3>1, UndoneFree, Zenon
  <2>3. list \in Seq(All)
    BY TameLists DEF Tame
  <2> QED
    BY <1>3, <2>1, <2>2, <2>3
<1>6. Undone(Commit) /\ Commit \in Seq(All)
  <2> DEFINE X == IF locked THEN << >> ELSE Latch
             B == <<Bank(0)>>
             G == IF opt.windows THEN << >> ELSE <<Batch(0), Write("frozen", 0, 1)>>
             F == <<Step("frozen")>>
  <2>1. Commit = (X \o B) \o (G \o F)
    <3>1. Commit = ((X \o B) \o G) \o F
      BY DEF Commit
    <3>2. X \in Seq(All) /\ B \in Seq(All) /\ G \in Seq(All) /\ F \in Seq(All)
      BY TamePieces, Alphabet DEF Tame
    <3>3. X \o B \in Seq(All) /\ G \o F \in Seq(All) /\ (X \o B) \o G \in Seq(All)
      BY <3>2, JoinPlaces
    <3> HIDE DEF X, B, G, F
    <3> QED
      BY <3>1, <3>2, <3>3, ConcatAssociative, SMTT(30)
  <2>2. X \in Seq(All) /\ B \in Seq(All) /\ X \o B \in Seq(All)
    <3>1. X \in Seq(All) /\ B \in Seq(All)
      BY TamePieces, Alphabet DEF Tame
    <3> HIDE DEF X, B
    <3> QED
      BY <3>1, JoinPlaces
  <2>3. G \in Seq(All) /\ F \in Seq(All) /\ G \o F \in Seq(All)
    <3>1. G \in Seq(All) /\ F \in Seq(All)
      BY Alphabet
    <3> HIDE DEF G, F
    <3> QED
      BY <3>1, JoinPlaces
  <2>4. Undone(G \o F)
    <3>1. CASE opt.windows
      <4>1. G = << >> /\ Undone(G) /\ Undone(F)
        BY <1>3, <1>4, <3>1
      <4> HIDE DEF G, F
      <4> QED
        BY <2>3, <4>1, UndoneJoin
    <3>2. CASE ~opt.windows
      <4> DEFINE D == G \o F
      <4>1. /\ Len(D) = Len(G) + Len(F)
            /\ \A i \in 1..Len(G) : D[i] = G[i]
            /\ \A i \in 1..Len(F) : D[Len(G) + i] = F[i]
        <5> HIDE DEF G, F
        <5> QED
          BY <2>3, JoinPlaces
      <4>2. /\ Len(G) = 2 /\ G[1] = Batch(0) /\ G[2] = Write("frozen", 0, 1)
            /\ Len(F) = 1 /\ F[1] = Step("frozen")
        BY <3>2
      <4>3. Batch(0) # Write("frozen", 0, 1) /\ Step("frozen") # Write("frozen", 0, 1)
        BY <1>1, Fields, Names
      <4> HIDE DEF D, G, F
      <4>4. Len(D) = 3 /\ D[1] = Batch(0) /\ D[2] = Write("frozen", 0, 1) /\ D[3] = Step("frozen")
        BY <4>1, <4>2
      <4>5. Undoes(D, 2)
        BY <4>4 DEF Undoes, Holds
      <4>6. \A k \in 1..3 : D[k] = Write("frozen", 0, 1) => k = 2
        BY <4>3, <4>4
      <4>7. Undone(D)
        BY <4>4, <4>5, <4>6 DEF Undone
      <4> QED
        BY <4>7 DEF D
    <3> QED
      BY <3>1, <3>2
  <2>5. Undone(X) /\ Undone(B)
    <3>1. \A k \in 1..Len(Latch) : Latch[k] # Write("frozen", 0, 1)
      BY <1>1, Fields DEF Latch
    <3>2. Undone(Latch)
      BY <3>1, UndoneFree
    <3>3. \A k \in 1..Len(B) : B[k] # Write("frozen", 0, 1)
      BY <1>1, Fields
    <3> HIDE DEF B
    <3>4. Undone(B)
      BY <3>3, UndoneFree
    <3> QED
      BY <1>3, <3>2, <3>4
  <2> HIDE DEF X, B, G, F
  <2>6. Undone(X \o B)
    BY <2>2, <2>5, UndoneJoin
  <2>7. Undone(Commit)
    BY <2>1, <2>2, <2>3, <2>4, <2>6, UndoneJoin
  <2> QED
    BY <2>7, CommitFree
<1>7. ASSUME NEW on \in {0, 1}, NEW list \in AutoPosition(on) PROVE Undone(list \o Commit)
  BY <1>5, <1>6, UndoneJoin
<1> QED
  BY <1>2, <1>3, <1>4, <1>5, <1>7

LEMMA StepUndone ==
  ASSUME Typed, Followed(todo), Thaws, Next, Chunks \in Nat
  PROVE  Undone(todo')
<1>0. todo \in Seq(Vocabulary(op)) /\ todo' \in Seq(Vocabulary(op')) /\ Undone(todo)
  BY StepTyped DEF Typed, Thaws
<1>1. CASE op' # "signal"
  <2>1. Write("frozen", 0, 1) \notin Vocabulary(op')
    BY <1>1, Owners
  <2>2. \A k \in 1..Len(todo') : todo'[k] \in Vocabulary(op')
    BY <1>0
  <2> QED
    BY <2>1, <2>2, UndoneFree
<1>2. CASE Passing /\ op' = "signal"
  <2>1. Passes /\ op = "signal"
    BY <1>2, PassingPasses
  <2>2. todo # << >> /\ Head(todo) # Catch("mux")
    <3>1. todo # << >>
      BY <2>1 DEF Passes
    <3>2. Belongs(Head(todo), "signal")
      BY <2>1, <3>1, FirstItem
    <3> QED
      BY <3>1, <3>2, Names DEF Belongs, Loaders
  <2>3. todo' = << >> \/ \E d \in Nat : Suffix(todo', todo, d)
    BY <1>0, <2>1, <2>2, PassesSuffix
  <2> QED
    BY <1>0, <2>3, UndoneSuffix, UndonePieces
<1>3. CASE Splicing /\ op' = "signal"
  <2>1. /\ todo # << >> /\ todo' = Splice \o Tail(todo) /\ Splice \in Seq(Vocabulary(op))
        /\ op = "signal" /\ Splice = Retime
    BY <1>3, Spliced DEF Loaders
  <2>2. Tail(todo) \in Seq(Vocabulary(op)) /\ Undone(Tail(todo))
    BY <1>0, <2>1, TailPlaces, TailSuffix, UndoneSuffix
  <2>3. Undone(Retime)
    BY UndonePieces
  <2> QED
    BY <2>1, <2>2, <2>3, UndoneJoin
<1>4. CASE Fetching /\ op' = "signal"
  <2>1. op = "signal"
    BY <1>4, Fetched
  <2>2. ~LockRead /\ ~WatchJudge /\ ~Diag
    BY <2>1, StepOwners DEF LockRead, WatchJudge, Diag
  <2> DEFINE last == <<Step("expire")>>
             judge == <<Step("judge")>>
             done == <<Step("matched")>>
  <2>3. /\ last \in Seq(All) /\ judge \in Seq(All) /\ done \in Seq(All)
        /\ Undone(last) /\ Undone(judge) /\ Undone(done)
        /\ Poll \in Seq(All) /\ Measure \in Seq(All)
    BY Alphabet, UndonePieces, TamePieces DEF Tame
  <2>4. \A seek \in {<< >>} \cup AutoPosition(1) : seek \in Seq(All) /\ Undone(seek)
    <3>1. << >> \in Seq(All) /\ Undone(<< >>)
      BY UndonePieces
    <3>2. \A seek \in AutoPosition(1) : seek \in Seq(All) /\ Undone(seek)
      <4>1. 1 \in {0, 1}
        OBVIOUS
      <4> QED
        BY <4>1, UndonePieces, TameLists, Zenon DEF Tame
    <3> QED
      BY <3>1, <3>2
  <2>5. CASE PollUnlocked
    <3>1. \E seek \in {<< >>} \cup AutoPosition(1) : todo' = seek \o Poll \/ todo' = seek \o last
      BY <2>5 DEF PollUnlocked, Goes
    <3>2. Undone(Poll)
      BY UndonePieces
    <3> HIDE DEF last
    <3> QED
      BY <2>3, <2>4, <3>1, <3>2, UndoneJoin
  <2>6. CASE PollLocked
    <3>1. todo' = Measure \o judge /\ Undone(Measure)
      BY <2>6, UndonePieces DEF PollLocked, Goes
    <3> HIDE DEF judge
    <3> QED
      BY <2>3, <3>1, UndoneJoin
  <2>7. CASE PollMatched
    <3>1. PICK settle \in AutoPosition(0) : todo' = (settle \o Commit) \o done
      BY <2>7 DEF PollMatched, Goes
    <3>2. settle \o Commit \in Seq(All) /\ Undone(settle \o Commit)
      BY CommitWill, UndonePieces
    <3> HIDE DEF done
    <3> QED
      BY <2>3, <3>1, <3>2, UndoneJoin
  <2> QED
    BY <1>4, <2>2, <2>5, <2>6, <2>7 DEF Fetching
<1>5. CASE Beginning /\ op' = "signal"
  BY <1>5, Begun, UndonePieces
<1>6. CASE Leaving /\ op' = "signal"
  <2>1. todo' = todo
    BY <1>6 DEF Leaving, End, Note, Borrow, Scan, others
  <2> QED
    BY <1>0, <2>1
<1> QED
  BY <1>1, <1>2, <1>3, <1>4, <1>5, <1>6, Actions

LEMMA StepThaws ==
  ASSUME Typed, Followed(todo), Power, Banked, Thaws, Next, Chunks \in Nat
  PROVE  Thaws'
<1>0. todo \in Seq(Vocabulary(op)) /\ Undone(todo) /\ chip \in Chips
      /\ stuck \in BOOLEAN /\ stuck' \in BOOLEAN
  BY StepFlags DEF Typed, Thaws, Chips, Flags
<1>1. ASSUME todo # << >>
      PROVE  /\ Len(todo) \in Nat \ {0} /\ Head(todo) = todo[1] /\ 1 \in 1..Len(todo)
             /\ Suffix(Tail(todo), todo, 1)
  BY <1>0, <1>1, TailPlaces, TailSuffix
<1>2. ASSUME chip.frozen, ~stuck
      PROVE  /\ todo # << >>
             /\ Head(todo) \in {Step("frozen"), Write("frozen", 0, 0), Catch("thaw"), Batch(0),
                                Write("frozen", 0, 1)}
             /\ Head(todo) \notin {Step("frozen"), Write("frozen", 0, 0)} => Undoes(Tail(todo), 0)
             /\ Head(todo) = Batch(0) => Tail(todo) # << >> /\ Tail(todo)[1] = Catch("thaw")
  <2>1. Undoes(todo, 0)
    BY <1>2 DEF Thaws
  <2>2. todo # << >>
    <3>1. \A j \in {1, 2, 3, 4} : \A x : ~Holds(<< >>, 0 + j, x)
      BY DEF Holds
    <3> HIDE DEF Holds
    <3> QED
      BY <2>1, <3>1 DEF Undoes
  <2>3. /\ Len(todo) \in Nat \ {0} /\ Head(todo) = todo[1] /\ Suffix(Tail(todo), todo, 1)
    BY <1>1, <2>2
  <2>4. /\ Batch(0).what = "write" /\ Batch(0).arg = "other" /\ Catch("thaw").what = "catch"
        /\ Step("frozen").what = "step"
        /\ Write("frozen", 0, 0).arg = "frozen" /\ Write("frozen", 0, 1).arg = "frozen"
        /\ Write("frozen", 0, 0).what = "write" /\ Write("frozen", 0, 1).what = "write"
        /\ Write("frozen", 0, 0) # Write("frozen", 0, 1)
    BY Fields, Names
  <2>5. ASSUME NEW j \in {1, 2, 3}, NEW x, Holds(todo, j + 1, x) PROVE Holds(Tail(todo), j, x)
    <3>1. /\ j + 1 \in 1..Len(todo) /\ todo[j + 1] = x /\ Len(Tail(todo)) \in Nat
          /\ Len(todo) = Len(Tail(todo)) + 1
      BY <2>3, <2>5 DEF Holds, Suffix
    <3>2. j \in 1..Len(Tail(todo))
      BY <3>1
    <3> QED
      BY <2>3, <3>1, <3>2 DEF Holds, Suffix
  <2>6. \A x : Holds(todo, 1, x) => Head(todo) = x
    BY <2>3 DEF Holds
  <2>7. \A x : /\ Holds(todo, 2, x) => Holds(Tail(todo), 1, x)
               /\ Holds(todo, 3, x) => Holds(Tail(todo), 2, x)
               /\ Holds(todo, 4, x) => Holds(Tail(todo), 3, x)
    BY <2>5
  <2>8. \/ Holds(todo, 1, Step("frozen")) \/ Holds(todo, 1, Write("frozen", 0, 0))
        \/ Holds(todo, 1, Catch("thaw")) /\ Holds(todo, 2, Write("frozen", 0, 0))
        \/ /\ Holds(todo, 1, Batch(0)) /\ Holds(todo, 2, Catch("thaw"))
           /\ Holds(todo, 3, Write("frozen", 0, 0))
        \/ /\ Holds(todo, 1, Write("frozen", 0, 1)) /\ Holds(todo, 2, Batch(0))
           /\ Holds(todo, 3, Catch("thaw")) /\ Holds(todo, 4, Write("frozen", 0, 0))
    BY <2>1 DEF Undoes
  <2>9. Holds(Tail(todo), 1, Catch("thaw")) => Tail(todo) # << >> /\ Tail(todo)[1] = Catch("thaw")
    <3>1. Holds(<< >>, 1, Catch("thaw")) = FALSE
      BY DEF Holds
    <3>2. Holds(Tail(todo), 1, Catch("thaw")) => Tail(todo)[1] = Catch("thaw")
      BY DEF Holds
    <3> HIDE DEF Holds
    <3> QED
      BY <3>1, <3>2, Zenon
  <2>10. /\ Holds(Tail(todo), 1, Write("frozen", 0, 0)) => Undoes(Tail(todo), 0)
         /\ Holds(Tail(todo), 1, Catch("thaw")) /\ Holds(Tail(todo), 2, Write("frozen", 0, 0))
               => Undoes(Tail(todo), 0)
         /\ (/\ Holds(Tail(todo), 1, Batch(0)) /\ Holds(Tail(todo), 2, Catch("thaw"))
             /\ Holds(Tail(todo), 3, Write("frozen", 0, 0)))
               => Undoes(Tail(todo), 0)
    <3>1. 0 + 1 = 1 /\ 0 + 2 = 2 /\ 0 + 3 = 3 /\ 0 + 4 = 4
      OBVIOUS
    <3> HIDE DEF Holds
    <3> QED
      BY <3>1 DEF Undoes
  <2> HIDE DEF Holds
  <2> QED
    BY <2>2, <2>4, <2>6, <2>7, <2>8, <2>9, <2>10
<1>3. ASSUME chip'.frozen, ~stuck'
      PROVE  Undoes(todo', 0)
  <2>1. CASE Command
    <3> DEFINE i == Head(todo)
    <3>1. /\ todo # << >> /\ i \in All /\ Belongs(i, op) /\ i.what \in Commands
          /\ Effect(i) \/ chip' = chip
      BY <2>1, Commanded
    <3>2. \/ Effect(i) /\ todo' = Tail(todo) /\ stuck' = (stuck /\ chip'.frozen)
          \/ /\ todo' = IF i.try THEN Tail(todo) ELSE Caught(Tail(todo))
             /\ stuck' = (stuck \/ i.arg = "frozen")
      BY <2>1 DEF Command
    <3>3. CASE Effect(i) /\ todo' = Tail(todo) /\ stuck' = (stuck /\ chip'.frozen)
      <4>1. ~stuck
        BY <1>0, <1>3, <3>3
      <4>2. CASE chip.frozen
        <5>1. i # Step("frozen")
          BY <3>1, Names DEF Commands
        <5>2. i # Write("frozen", 0, 0)
          <6> SUFFICES ASSUME i = Write("frozen", 0, 0) PROVE chip'.frozen = FALSE
            BY <1>3
          <6>1. chip.alive
            <7>1. Blank.frozen = FALSE
              BY DEF Blank
            <7> QED
              BY <4>2, <7>1 DEF Power
          <6>2. i \in Writes(0) /\ 0 \in Banks /\ op # "csc"
            BY <3>1, Alphabet, Fields DEF Writes, Belongs
          <6>3. chip.bank = 0
            <7> DEFINE now == chip.bank = 0 \/ ~chip.alive
            <7>1. Kept(todo, Writes(0), {Bank(0)}, Selectors, now)
              BY <6>2 DEF Banked
            <7> HIDE DEF now, i
            <7>2. now
              BY <1>0, <3>1, <6>2, <7>1, FirstNow DEF i
            <7> QED
              BY <6>1, <7>2 DEF now
          <6>4. chip'.frozen = (0 = 1)
            BY <1>0, <3>1, <3>3, <6>1, <6>3, Landed
          <6>5. (0 = 1) = FALSE
            OBVIOUS
          <6> QED
            BY <6>4, <6>5, Zenon
        <5> QED
          BY <1>2, <3>3, <4>1, <4>2, <5>1, <5>2
      <4>3. CASE ~chip.frozen
        <5>1. i = Write("frozen", 0, 1)
          <6>1. i \notin Resets
            <7>1. i \in Resets => chip' = chip \/ chip'.frozen = FALSE
              BY <1>0, <3>1, <3>3, ChipReset
            <7> QED
              BY <1>3, <4>3, <7>1
          <6>2. i \in FrozenWrites
            BY <1>0, <1>3, <3>1, <3>3, <4>3, <6>1, ChipKept
          <6>3. i = Write("frozen", 0, 0) => chip'.frozen = FALSE
            <7> SUFFICES ASSUME i = Write("frozen", 0, 0) PROVE chip'.frozen = FALSE
              OBVIOUS
            <7>1. /\ i.what = "write" /\ i.arg = "frozen" /\ i.val.bit = 0
              BY Fields
            <7>2. chip' = Written(i)
              BY <3>3, <7>1 DEF Effect
            <7>3. chip' = chip \/ chip' = [chip EXCEPT !.frozen = (i.val.bit = 1)]
              BY <7>1, <7>2 DEF Written
            <7>4. (i.val.bit = 1) = FALSE
              BY <7>1
            <7>5. chip' = chip \/ chip' = [chip EXCEPT !.frozen = FALSE]
              BY <7>3, <7>4, Zenon
            <7> QED
              BY <1>0, <4>3, <7>5 DEF Chips
          <6> QED
            BY <1>3, <6>2, <6>3 DEF FrozenWrites
        <5>2. Undoes(todo, 1)
          BY <1>0, <1>1, <3>1, <5>1 DEF Undone
        <5>3. Undoes(todo, 0 + 1) /\ Suffix(Tail(todo), todo, 1)
          BY <1>1, <3>1, <5>2
        <5> QED
          BY <3>3, <5>3, UndoesSuffix
      <4> QED
        BY <4>2, <4>3
    <3>4. CASE /\ todo' = IF i.try THEN Tail(todo) ELSE Caught(Tail(todo))
               /\ stuck' = (stuck \/ i.arg = "frozen")
      <4>1. ~stuck /\ i.arg # "frozen"
        BY <1>0, <1>3, <3>4
      <4>2. chip.frozen
        <5>1. i \notin FrozenWrites
          BY <4>1, Classes
        <5>2. i \in Resets => chip' = chip \/ chip'.frozen = FALSE \/ ~Effect(i)
          BY <1>0, <3>1, ChipReset
        <5>3. i \notin Resets /\ Effect(i) => chip'.frozen = chip.frozen
          BY <1>0, <3>1, <5>1, ChipKept
        <5> QED
          BY <1>3, <3>1, <5>2, <5>3
      <4>3. i = Batch(0)
        <5>1. i.what # "step" /\ i.what # "catch"
          BY <3>1 DEF Commands
        <5> QED
          BY <1>2, <4>1, <4>2, <5>1, Names
      <4>4. /\ Tail(todo) # << >> /\ Tail(todo)[1] = Catch("thaw") /\ Undoes(Tail(todo), 0)
            /\ i.try = FALSE
        <5>1. Batch(0) \notin {Step("frozen"), Write("frozen", 0, 0)} /\ Batch(0).try = FALSE
          BY Fields, Names
        <5> QED
          BY <1>2, <4>1, <4>2, <4>3, <5>1
      <4>5. Tail(todo) \in Seq(Vocabulary(op))
        BY <1>0, <3>1, TailPlaces
      <4>6. Caught(Tail(todo)) = Tail(todo)
        <5>1. Tail(todo)[1].what = "catch"
          BY <4>4, Names
        <5> QED
          BY <4>4, <4>5, <5>1, CaughtFirst
      <4> QED
        BY <3>4, <4>4, <4>6
    <3> QED
      BY <3>2, <3>3, <3>4
  <2>2. CASE ~Command
    <3>1. chip' = chip /\ stuck' = stuck
      <4>1. chip' = chip
        BY <2>2, Untouched
      <4>2. Decide => stuck' = stuck
        BY DEF Decide, Unready, Alive, Ready, Refuse, CatchError, Edid, Frozen, Late,
           PollUnlocked, PollLocked, PollMatched, Matched, Expire, LockRead, WatchJudge, Diag,
           Known, callers
      <4>3. Operation \/ Note \/ Borrow \/ Scan => stuck' = stuck
        BY DEF Operation, BeginBringup, BeginReload, BeginPulse, BeginSignal, BeginLock,
           BeginWatch, BeginDiag, BeginCsc, BeginColour, BeginRamtest, End, Begin, Note, Borrow, Scan,
           others
      <4> QED
        BY <2>2, <4>1, <4>2, <4>3 DEF Next
    <3>2. chip.frozen /\ ~stuck
      BY <1>3, <3>1
    <3>3. todo # << >> /\ op # "idle"
      BY <1>2, <3>2, Idle
    <3>4. CASE Decide
      <4>1. Head(todo).what \in {"step", "catch"}
        BY <3>4, Names DEF Decide, Unready, Alive, Ready, Refuse, CatchError, Edid, Frozen, Late,
           PollUnlocked, PollLocked, PollMatched, Matched, Expire, LockRead, WatchJudge, Diag,
           Known, AtStep
      <4>2. Head(todo) = Step("frozen") \/ Head(todo) = Catch("thaw")
        BY <1>2, <3>2, <4>1, Names, Fields
      <4>3. CASE Head(todo) = Step("frozen")
        <5>1. \A name : AtStep(name) => name = "frozen"
          BY <4>3, Names DEF AtStep
        <5>2. Frozen
          BY <3>4, <4>3, <5>1, Names DEF Decide, Unready, Alive, Ready, Refuse, CatchError, Edid, Late,
           PollUnlocked, PollLocked, PollMatched, Matched, Expire, LockRead, WatchJudge, Diag,
           Known
        <5>3. todo' = Retime \o Tail(todo)
          BY <5>2 DEF Frozen, Goes, Rest
        <5>4. Retime \in Seq(All) /\ Tail(todo) \in Seq(All) /\ Undoes(Retime, 0)
          <6>1. op = "signal"
            BY <5>2, StepOwners DEF Frozen
          <6>2. Retime \in Seq(Vocabulary(op)) /\ Tail(todo) \in Seq(Vocabulary(op))
            BY <1>0, <3>3, <6>1, Sentences, TailPlaces DEF Operations
          <6>3. Vocabulary(op) \subseteq All
            BY DEF Vocabulary
          <6> QED
            BY <6>2, <6>3, UndonePieces
        <5>5. ASSUME NEW j, NEW x, Holds(Retime, j, x) PROVE Holds(Retime \o Tail(todo), j, x)
          <6> HIDE DEF Retime
          <6> QED
            BY <5>4, <5>5, JoinPlaces DEF Holds
        <5> HIDE DEF Holds
        <5>6. Undoes(Retime \o Tail(todo), 0)
          BY <5>4, <5>5 DEF Undoes
        <5> QED
          BY <5>3, <5>6
      <4>4. CASE Head(todo) = Catch("thaw")
        <5>1. \A name : ~AtStep(name)
          BY <4>4, Names DEF AtStep
        <5>2. CatchError
          BY <3>4, <5>1 DEF Decide, Unready, Alive, Ready, Refuse, Edid, Frozen, Late,
           PollUnlocked, PollLocked, PollMatched, Matched, Expire, LockRead, WatchJudge, Diag,
           Known
        <5>3. todo' = Tail(todo)
          BY <4>4, <5>2, Names DEF CatchError, Rest
        <5>4. Catch("thaw") \notin {Step("frozen"), Write("frozen", 0, 0)}
          BY Names
        <5> QED
          BY <1>2, <3>2, <4>4, <5>3, <5>4
      <4> QED
        BY <4>2, <4>3, <4>4
    <3>5. CASE Operation
      BY <3>3, <3>5 DEF Operation, BeginBringup, BeginReload, BeginPulse, BeginSignal, BeginLock,
         BeginWatch, BeginDiag, BeginCsc, BeginColour, BeginRamtest, End, Begin
    <3>6. CASE Note \/ Borrow \/ Scan
      <4>1. todo' = todo
        BY <3>6 DEF Note, Borrow, Scan, others
      <4> QED
        BY <3>2, <4>1 DEF Thaws
    <3> QED
      BY <2>2, <3>4, <3>5, <3>6 DEF Next
  <2> QED
    BY <2>1, <2>2
<1> QED
  BY <1>3, StepUndone DEF Thaws

-----------------------------------------------------------------------------
(***************************************************************************)
(* The EDID is loaded while no sink is seen, and the sink is seen after.   *)
(***************************************************************************)
LEMMA HpdItems ==
  ASSUME NEW on \in {0, 1}
  PROVE  /\ Hpd(on) \in Seq(All) /\ Len(Hpd(on)) = 5
         /\ Hpd(on)[1] = Bank(0) /\ Hpd(on)[2] = Write("hpd", 0, on)
         /\ Hpd(on)[3] = Output("hpd") /\ Hpd(on)[4] = SetPin("hpd", 1 - on)
         /\ Hpd(on)[5] = Read
<1>1. Hpd(on) \in Seq(All)
  BY TamePieces DEF Tame
<1> QED
  BY <1>1 DEF Hpd

LEMMA PresentItems ==
  /\ Present \in Seq(All) /\ Len(Present) = 11
  /\ \A k \in 1..5 : Present[k] = Hpd(0)[k] /\ Present[k + 6] = Hpd(1)[k]
  /\ Present[6] = Step("edid")
  /\ Pulse \in Seq(All) /\ Len(Pulse) = 10
  /\ \A k \in 1..5 : Pulse[k] = Hpd(0)[k] /\ Pulse[k + 5] = Hpd(1)[k]
<1> DEFINE A == Hpd(0)
           B == Hpd(1)
           E == <<Step("edid")>>
<1>0. A \in Seq(All) /\ B \in Seq(All) /\ E \in Seq(All)
  BY HpdItems, Alphabet
<1>1. /\ Len(A) = 5 /\ Len(B) = 5 /\ Len(E) = 1 /\ E[1] = Step("edid")
  BY HpdItems, Alphabet
<1>2. Pulse = A \o B /\ Present = (A \o E) \o B
  BY DEF Pulse, Present
<1> HIDE DEF A, B, E
<1> DEFINE D == A \o E
<1>3. /\ D \in Seq(All) /\ Len(D) = 6
      /\ \A i \in 1..5 : D[i] = A[i]
      /\ D[6] = E[1]
  <2>1. /\ D \in Seq(All) /\ Len(D) = Len(A) + Len(E)
        /\ \A i \in 1..Len(A) : D[i] = A[i]
        /\ \A i \in 1..Len(E) : D[Len(A) + i] = E[i]
    BY <1>0, JoinPlaces
  <2> HIDE DEF D
  <2> QED
    BY <1>1, <2>1
<1>4. Present = D \o B
  BY <1>2
<1> HIDE DEF D
<1>5. /\ Present \in Seq(All) /\ Len(Present) = 11
      /\ \A i \in 1..6 : Present[i] = D[i]
      /\ \A i \in 1..5 : Present[6 + i] = B[i]
  <2>1. /\ Present \in Seq(All) /\ Len(Present) = Len(D) + Len(B)
        /\ \A i \in 1..Len(D) : Present[i] = D[i]
        /\ \A i \in 1..Len(B) : Present[Len(D) + i] = B[i]
    <3>1. D \in Seq(All)
      BY <1>3
    <3> QED
      BY <1>0, <1>4, <3>1, JoinPlaces
  <2> QED
    BY <1>1, <1>3, <2>1
<1>6. /\ Pulse \in Seq(All) /\ Len(Pulse) = 10
      /\ \A i \in 1..5 : Pulse[i] = A[i]
      /\ \A i \in 1..5 : Pulse[5 + i] = B[i]
  <2>1. /\ Pulse \in Seq(All) /\ Len(Pulse) = Len(A) + Len(B)
        /\ \A i \in 1..Len(A) : Pulse[i] = A[i]
        /\ \A i \in 1..Len(B) : Pulse[Len(A) + i] = B[i]
    BY <1>0, <1>2, JoinPlaces
  <2> QED
    BY <1>1, <2>1
<1>7. /\ \A k \in 1..5 : Present[k] = A[k] /\ Present[k + 6] = B[k]
      /\ Present[6] = Step("edid")
  BY <1>1, <1>3, <1>5
<1>8. \A k \in 1..5 : Pulse[k] = A[k] /\ Pulse[k + 5] = B[k]
  BY <1>6
<1> QED
  BY <1>5, <1>6, <1>7, <1>8 DEF A, B

(* Where the pin is driven it is an output, but in a pulse of the pin that *)
(* comes before any bring-up.                                              *)
LEMMA PinObeys ==
  ASSUME Typed, Power, Revived, Command, Head(todo) \in HpdPins \cup HpdWrites
  PROVE  /\ op = "bringup" \/ ready => Live
         /\ op # "pulse" => "hpd" \in output
<1>1. /\ todo # << >> /\ Head(todo) = todo[1] /\ 1 \in 1..Len(todo) /\ Len(todo) \in Nat
      /\ Belongs(Head(todo), op)
  BY Commanded, FirstItem, LenProperties DEF Typed
<1>2. op \in Presenters
  <2>1. Head(todo) \in Vocabulary(op)
    BY <1>1, Commanded DEF Vocabulary
  <2> QED
    BY <2>1, Owners
<1>3. CASE op # "bringup"
  <2>1. ready => Live
    BY DEF Power
  <2>2. op # "pulse" => once
    BY <1>2, <1>3 DEF Power, Presenters
  <2>3. once => "hpd" \in output
    BY DEF Power
  <2> QED
    BY <1>3, <2>1, <2>2, <2>3
<1>4. CASE op = "bringup"
  <2>1. Order(todo) /\ (~Waking(todo) => Live)
    BY <1>1, <1>4, RevivedOrder
  <2>2. \A m \in 1 + 1..Len(todo) : todo[m] \notin Wakes
    BY <1>1, <2>1 DEF Order
  <2>3. todo[1] \notin Wakes
    BY <1>1, Names, Classes DEF Wakes
  <2>4. \A m \in 1..Len(todo) : m = 1 \/ m \in 1 + 1..Len(todo)
    BY <1>1
  <2>5. ~Waking(todo)
    BY <2>2, <2>3, <2>4 DEF Waking
  <2> QED
    BY <2>1, <2>5 DEF Live
<1> QED
  BY <1>3, <1>4

LEMMA LoadFree ==
  ASSUME Chunks \in Nat
  PROVE  /\ Load \in Seq(All)
         /\ Free(Load, HpdPins \cup HpdWrites \cup Resets \cup Wakes \cup {Step("edid")})
<1> DEFINE Q == HpdPins \cup HpdWrites \cup Resets \cup Wakes \cup {Step("edid")}
<1>1. \A x \in {Try(Output("mux")), Try(SetPin("mux", 0)), Try(SetPin("mux", 1)),
                    Step("refuse"), Catch("mux"), Catch("edid")} \cup EdidChunks :
             /\ x.what \in {"output", "pin"} => x.arg = "mux"
             /\ x.what = "step" => x.arg = "refuse"
             /\ x.what \in {"output", "pin", "step", "catch", "edid"}
  BY Fields, Names, Classes
<1>2. \A x \in Q : /\ x.what \in {"output", "pin"} => x.arg \in {"hpd", "reset"}
                   /\ x.what = "step" => x.arg \in {"alive", "again", "edid"}
                   /\ x.what \in {"output", "pin", "step", "write"}
  BY Fields, Names, Classes DEF Wakes, Resets
<1> HIDE DEF Q
<1>3. Free(Load, Q)
  BY <1>1, <1>2, LoadItems DEF Free
<1> QED
  BY <1>3, LoadItems DEF Q

LEMMA HiddenLists ==
  ASSUME NEW later, Chunks \in Nat
  PROVE  /\ Kept(Bringup, EdidChunks \cup {Step("edid")}, {SetPin("hpd", 1)}, HpdPins, later)
         /\ Kept(Present, EdidChunks \cup {Step("edid")}, {SetPin("hpd", 1)}, HpdPins, later)
<1> DEFINE needs == EdidChunks \cup {Step("edid")}
           makes == {SetPin("hpd", 1)}
           last == <<Step("ready")>>
<1>1. \A i \in needs : i.what = "edid" \/ (i.what = "step" /\ i.arg = "edid")
  BY Classes, Names
<1>2. Read.what = "read" /\ Read \notin HpdPins /\ SetPin("hpd", 1).what = "pin"
  BY Fields, Classes
<1>3. \A later2 : Kept(Present, needs, makes, HpdPins, later2)
  <2> SUFFICES ASSUME NEW later2, NEW k \in 1..Len(Present), Present[k] \in needs
               PROVE  Will(Present, k, makes, HpdPins, later2)
    BY DEF Kept
  <2>1. \A j \in 1..5 : \A on \in {0, 1} : Hpd(on)[j] \notin needs
    <3>1. ASSUME NEW on \in {0, 1}, NEW j \in 1..5
          PROVE  Hpd(on)[j].what \in {"bank", "write", "output", "pin", "read"}
      BY HpdItems, Fields
    <3> HIDE DEF needs
    <3> QED
      BY <1>1, <3>1
  <2>2. k = 6
    <3>1. k \in 1..11
      BY PresentItems
    <3>2. k \in 1..5 => Present[k] = Hpd(0)[k]
      BY PresentItems
    <3>3. ASSUME k \in 7..11 PROVE Present[k] = Hpd(1)[k - 6] /\ k - 6 \in 1..5
      <4>1. k - 6 \in 1..5 /\ (k - 6) + 6 = k
        BY <3>3
      <4> QED
        BY <4>1, PresentItems
    <3> HIDE DEF needs
    <3> QED
      BY <2>1, <3>1, <3>2, <3>3
  <2>3. Present[4] = SetPin("hpd", 1) /\ Present[5] = Read
    BY PresentItems, HpdItems
  <2>4. 4 \in 1..k - 1 /\ \A i \in 4 + 1..k - 1 : i = 5
    BY <2>2
  <2>5. Present[4] \in makes
    BY <2>3
  <2> HIDE DEF makes
  <2> QED
    BY <1>2, <2>3, <2>4, <2>5 DEF Will
<1>4. Free(Opening, needs) /\ Free(InitRegs, needs) /\ Free(last, needs)
  <2>1. \A k \in 1..Len(Opening) : Opening[k] \notin needs
    <3>1. \A k \in 1..7 : Opening[k].what # "edid" /\ (Opening[k].what = "step" => Opening[k].arg # "edid")
      BY OpeningItems, Fields, Names
    <3> HIDE DEF needs
    <3> QED
      BY <1>1, <3>1, OpeningItems
  <2>2. \A k \in 1..Len(InitRegs) : InitRegs[k].what \in {"bank", "write", "pin"}
    BY Fields DEF InitRegs
  <2>3. \A k \in 1..Len(last) : last[k].what = "step" /\ last[k].arg = "ready"
    BY Names
  <2> HIDE DEF needs, last
  <2> QED
    BY <1>1, <2>1, <2>2, <2>3 DEF Free
<1>5. /\ Opening \in Seq(All) /\ InitRegs \in Seq(All) /\ Present \in Seq(All) /\ last \in Seq(All)
  BY OpeningItems, TamePieces, PresentItems, Alphabet DEF Tame
<1>6. Bringup = ((Opening \o InitRegs) \o Present) \o last
  BY OpeningItems
<1> HIDE DEF needs, makes, last
<1>7. \A later2 : /\ Kept(Opening, needs, makes, HpdPins, later2)
                  /\ Kept(InitRegs, needs, makes, HpdPins, later2)
                  /\ Kept(last, needs, makes, HpdPins, later2)
  BY <1>4, KeptVoid, Zenon
<1>8. Opening \o InitRegs \in Seq(All) /\ (Opening \o InitRegs) \o Present \in Seq(All)
  BY <1>5, JoinPlaces, Zenon
<1>9. Kept(Opening \o InitRegs, needs, makes, HpdPins, later)
  BY <1>5, <1>7, KeptJoin, Zenon
<1>10. Kept((Opening \o InitRegs) \o Present, needs, makes, HpdPins, later)
  BY <1>3, <1>5, <1>8, <1>9, KeptJoin, Zenon
<1>11. Kept(Bringup, needs, makes, HpdPins, later)
  BY <1>5, <1>6, <1>7, <1>8, <1>10, KeptJoin, Zenon
<1> QED
  BY <1>3, <1>11 DEF needs, makes

LEMMA StepHidden ==
  ASSUME Typed, Followed(todo), Power, Revived, Hidden, Next, Chunks \in Nat
  PROVE  Hidden'
<1> DEFINE needs == EdidChunks \cup {Step("edid")}
           makes == {SetPin("hpd", 1)}
           now == pin.hpd = 1
           new == pin'.hpd = 1
<1> SUFFICES Kept(todo', needs, makes, HpdPins, new)
  BY DEF Hidden
<1>0. /\ todo \in Seq(Vocabulary(op)) /\ todo' \in Seq(Vocabulary(op'))
      /\ Kept(todo, needs, makes, HpdPins, now)
  BY StepTyped DEF Typed, Hidden
<1>1. op' \notin Loaders => Kept(todo', needs, makes, HpdPins, new)
  <2>1. op' \notin Loaders => Vocabulary(op') \cap needs = {}
    BY Owners
  <2> HIDE DEF needs, makes, new
  <2> QED
    BY <1>0, <2>1, KeptNone
<1>2. /\ \A i \in needs \cup makes : i.what # "catch"
      /\ Batch(0) \notin makes
      /\ Try(SetPin("mux", 0)) \notin needs \cup makes \cup HpdPins
      /\ \A i \in makes : i.what = "pin"
  <2>1. /\ \A i \in needs : i.what \in {"edid", "step"}
        /\ \A i \in makes : i.what = "pin" /\ i.arg = "hpd"
        /\ \A i \in HpdPins : i.arg = "hpd"
    BY Classes, Names, Fields
  <2>2. Batch(0).what = "write" /\ Try(SetPin("mux", 0)).what = "pin" /\ Try(SetPin("mux", 0)).arg = "mux"
    BY Fields
  <2> HIDE DEF needs, makes
  <2> QED
    BY <2>1, <2>2
<1>3. CASE Passing /\ op' \in Loaders
  <2> DEFINE i == Head(todo)
  <2>1. Passes /\ op' = op
    BY <1>3, PassingPasses
  <2>2. /\ todo' = Caught(Tail(todo)) \/ (Head(todo) \in makes => new)
        /\ Head(todo) \notin HpdPins /\ now => new
    <3>1. CASE Command
      <4>1. /\ i \in All /\ pin \in [hpd : {0, 1}, mux : {0, 1}] /\ output \subseteq Pins
            /\ Effect(i) \/ pin' = pin
            /\ Effect(i) \/ todo' = Caught(Tail(todo)) \/ i.try
        BY <3>1, Commanded
      <4>2. i \in makes => i \in HpdPins /\ i.try = FALSE /\ i = SetPin("hpd", 1)
        <5>1. SetPin("hpd", 1) \in HpdPins
          BY DEF HpdPins
        <5> QED
          BY <5>1, Classes
      <4>3. i \in makes => "hpd" \in output
        BY <1>3, <2>1, <3>1, <4>2, PinObeys DEF Loaders
      <4>4. i \in makes /\ Effect(i) => new
        BY <4>1, <4>2, <4>3, PinsMoved
      <4>5. i \notin HpdPins /\ now /\ Effect(i) => new
        BY <4>1, PinsMoved
      <4>6. now /\ pin' = pin => new
        OBVIOUS
      <4> HIDE DEF i, makes, now, new
      <4> QED
        BY <4>1, <4>2, <4>4, <4>5, <4>6 DEF i
    <3>2. CASE ~Command
      <4>1. pin' = pin
        BY <3>2, Untouched
      <4>2. Head(todo).what \in {"step", "catch"}
        BY <1>3, <3>2, Names DEF Passing, Unready, Alive, Ready, Refuse, CatchError, Late, Matched,
           Expire, Known, AtStep
      <4> QED
        BY <1>2, <4>1, <4>2
    <3> QED
      BY <3>1, <3>2
  <2> HIDE DEF needs, makes, now, new
  <2> QED
    BY <1>0, <1>2, <2>1, <2>2, KeptPasses, ZenonT(60)
<1>4. CASE Splicing /\ op' \in Loaders
  <2>1. /\ todo # << >> /\ todo' = Splice \o Tail(todo) /\ Splice \in Seq(Vocabulary(op))
        /\ op = op' /\ pin' = pin
    BY <1>4, Spliced
  <2>2. Head(todo).what = "step"
    BY <1>4, Names DEF Splicing, Edid, Frozen, AtStep
  <2>3. Head(todo) \notin makes
    BY <1>2, <2>2
  <2>4. now => new
    BY <2>1
  <2>5. CASE AtStep("edid") /\ Splice = Load
    <3>1. Head(todo) \in needs
      BY <2>5 DEF AtStep
    <3>2. now
      <4> HIDE DEF needs, makes, now
      <4> QED
        BY <1>0, <2>1, <3>1, FirstNow
    <3>3. Free(Splice, HpdPins)
      BY <2>5, LoadFree DEF Free
    <3>4. new /\ Len(Splice) \in Nat
      BY <2>1, <2>4, <3>2, LenProperties
    <3> HIDE DEF needs, makes, now, new
    <3>5. Kept(Splice, needs, makes, HpdPins, new)
      BY <3>3, <3>4, KeptFree
    <3> QED
      BY <1>0, <2>1, <2>3, <2>4, <3>3, <3>5, KeptSplice, ZenonT(60)
  <2>6. CASE AtStep("alive") /\ Splice = Again
    <3>1. \A k \in 1..6 : /\ Again[k].what \in {"output", "pin", "bank", "step"}
                          /\ Again[k].what = "step" => Again[k].arg = "again"
                          /\ Again[k].what = "pin" => Again[k].arg = "reset"
      BY OpeningItems, Fields, Names
    <3>2. \A x \in needs : x.what = "edid" \/ (x.what = "step" /\ x.arg = "edid")
      BY Classes, Names
    <3>3. \A x \in HpdPins : x.what = "pin" /\ x.arg = "hpd"
      BY Classes
    <3> HIDE DEF needs, makes, now, new
    <3>6. Len(Again) = 6
      BY OpeningItems
    <3>7. \A k \in 1..6 : Again[k] \notin needs /\ Again[k] \notin HpdPins
      <4> SUFFICES ASSUME NEW k \in 1..6 PROVE Again[k] \notin needs /\ Again[k] \notin HpdPins
        OBVIOUS
      <4> DEFINE x == Again[k]
      <4>1. /\ x.what \in {"output", "pin", "bank", "step"}
            /\ x.what = "step" => x.arg = "again"
            /\ x.what = "pin" => x.arg = "reset"
        BY <3>1
      <4> HIDE DEF x
      <4>2. x \notin needs
        BY <3>2, <4>1
      <4>3. x \notin HpdPins
        BY <3>3, <4>1
      <4> QED
        BY <4>2, <4>3 DEF x
    <3>4. Free(Again, needs) /\ Free(Again, HpdPins)
      BY <3>6, <3>7 DEF Free
    <3>5. Kept(Splice, needs, makes, HpdPins, new)
      BY <2>6, <3>4, KeptVoid, Zenon
    <3> QED
      BY <1>0, <2>1, <2>3, <2>4, <2>6, <3>4, <3>5, KeptSplice, ZenonT(60)
  <2> QED
    BY <1>4, <2>1, <2>5, <2>6, Spliced DEF Load, Again, Loaders
<1>5. CASE Fetching
  <2>1. op' \notin Loaders
    BY <1>5, Fetched DEF Loaders
  <2> QED
    BY <1>1, <2>1
<1>6. CASE Beginning /\ op' \in Loaders
  <2>1. todo' = Bringup \/ todo' = Present
    BY <1>6, Begun DEF Loaders
  <2> QED
    BY <2>1, HiddenLists
<1>7. CASE Leaving /\ op' \in Loaders
  <2>1. todo' = todo /\ pin' = pin
    BY <1>7 DEF Leaving, End, Note, Borrow, Scan, others, Loaders
  <2> QED
    BY <1>0, <2>1
<1> QED
  BY <1>1, <1>3, <1>4, <1>5, <1>6, <1>7, Actions

(***************************************************************************)
(* What holds at the end of a list.                                        *)
(***************************************************************************)
Ends(L, makes, breaks, now) == Will(L, Len(L) + 1, makes, breaks, now)

LEMMA EndsTail ==
  ASSUME NEW S, NEW L \in Seq(S), L # << >>, NEW makes, NEW breaks, NEW now, NEW new,
         Ends(L, makes, breaks, now),
         Head(L) \in makes => new, Head(L) \notin breaks /\ now => new
  PROVE  Ends(Tail(L), makes, breaks, new)
<1>1. Len(Tail(L)) + 1 = Len(L) /\ Len(L) \in 1..Len(L)
  <2>1. Len(L) \in Nat \ {0} /\ Len(Tail(L)) = Len(L) - 1
    BY TailPlaces
  <2> QED
    BY <2>1
<1>2. Will(L, Len(L) + 1, makes, breaks, now)
  BY DEF Ends
<1>3. Will(Tail(L), Len(L), makes, breaks, new)
  BY <1>1, <1>2, WillTail, ZenonT(30)
<1> QED
  BY <1>1, <1>3 DEF Ends

LEMMA EndsCaught ==
  ASSUME NEW S, NEW L \in Seq(S), L # << >>, NEW makes, NEW breaks, NEW now, NEW new,
         Ends(L, makes, breaks, now), \A i \in makes : i.what # "catch",
         Head(L) \notin breaks /\ now => new
  PROVE  Caught(Tail(L)) = << >> \/ Ends(Caught(Tail(L)), makes, breaks, new)
<1> DEFINE T == Tail(L)
           J == Caught(Tail(L))
           n == Len(L)
<1>1. /\ T \in Seq(S) /\ Len(T) = n - 1 /\ n \in Nat \ {0}
      /\ \A i \in 1..n - 1 : T[i] = L[i + 1]
      /\ Head(L) = L[1]
  BY TailPlaces
<1>2. SUFFICES ASSUME J # << >> PROVE Ends(J, makes, breaks, new)
  OBVIOUS
<1>3. PICK c \in 1..Len(T) :
              /\ T[c].what = "catch" /\ Len(J) = Len(T) - c + 1
              /\ \A i \in 1..Len(T) - c + 1 : J[i] = T[i + c - 1]
  <2>1. T \in Seq(S)
    BY <1>1
  <2>2. Caught(T) # << >>
    BY <1>2
  <2> HIDE DEF T
  <2>3. \E c \in 1..Len(T) :
           /\ T[c].what = "catch"
           /\ \A i \in 1..c - 1 : T[i].what # "catch"
           /\ Caught(T) \in Seq(S) /\ Len(Caught(T)) = Len(T) - c + 1
           /\ \A i \in 1..Len(T) - c + 1 : Caught(T)[i] = T[i + c - 1]
    BY <2>1, <2>2, JumpPlaces
  <2>4. J = Caught(T)
    BY DEF T
  <2> HIDE DEF J
  <2> QED
    BY <2>3, <2>4
<1> HIDE DEF T, J, n
<1> DEFINE d == c + 1
<1>4. d \in 2..n /\ L[d].what = "catch" /\ c \in Nat /\ c \in 1..n - 1
  <2>1. c \in 1..n - 1 /\ n \in Nat
    BY <1>1, <1>3
  <2>2. c \in Nat /\ d \in 2..n
    BY <2>1
  <2> QED
    BY <1>1, <1>3, <2>1, <2>2
<1>5. ASSUME NEW i \in 1..n - d + 1 PROVE J[i] = L[i + d - 1]
  <2>1. i \in 1..Len(T) - c + 1 /\ i + c - 1 \in 1..n - 1 /\ (i + c - 1) + 1 = i + d - 1
    BY <1>1, <1>4
  <2> QED
    BY <1>1, <1>3, <2>1
<1>6. Len(J) + 1 = n - d + 2 /\ n - d + 2 \in 2..n - d + 2 /\ (n - d + 2) + d - 1 = n + 1
  <2>1. Len(J) = (n - 1) - c + 1 /\ n \in Nat /\ c \in Nat /\ c <= n - 1
    BY <1>1, <1>3, <1>4
  <2> HIDE DEF J
  <2> QED
    BY <2>1
<1>7. Will(L, (n - d + 2) + d - 1, makes, breaks, now)
  BY <1>6 DEF Ends, n
<1>8. /\ n \in Nat /\ (L[1] \notin breaks /\ now => new)
  BY <1>1
<1> HIDE DEF d
<1>9. \A i \in 1..Len(L) - d + 1 : J[i] = L[i + d - 1]
  BY <1>5 DEF n
<1>10. d \in 2..Len(L) /\ Len(L) \in Nat /\ Len(L) - d + 2 \in 2..Len(L) - d + 2
  BY <1>4, <1>6, <1>8 DEF n
<1> DEFINE k == Len(L) - d + 2
<1>11. Will(L, k + d - 1, makes, breaks, now) /\ k \in 2..Len(L) - d + 2
  BY <1>7, <1>10 DEF n
<1>13. L[d].what = "catch" /\ d \in 2..Len(L) /\ Len(L) \in Nat
       /\ (L[1] \notin breaks /\ now => new)
  BY <1>4, <1>8, <1>10
<1> HIDE DEF k
<1>12. Will(J, k, makes, breaks, new)
  BY <1>9, <1>11, <1>13, WillJump, ZenonT(60)
<1> QED
  BY <1>6, <1>12 DEF Ends, n, k

LEMMA EndsCons ==
  ASSUME NEW S, NEW L \in Seq(S), NEW x \in S, NEW makes, NEW breaks, NEW now,
         Ends(L, makes, breaks, now), x \notin breaks
  PROVE  Ends(<<x>> \o L, makes, breaks, now)
<1> DEFINE M == <<x>> \o L
           n == Len(L)
<1>1. /\ Len(M) = 1 + n /\ n \in Nat /\ M[1] = x
      /\ \A i \in 1..n : M[1 + i] = L[i]
  <2> DEFINE X == <<x>>
  <2>1. X \in Seq(S) /\ Len(X) = 1 /\ X[1] = x
    OBVIOUS
  <2> HIDE DEF X
  <2>2. /\ Len(X \o L) = Len(X) + Len(L) /\ Len(L) \in Nat
        /\ \A i \in 1..Len(X) : (X \o L)[i] = X[i]
        /\ \A i \in 1..Len(L) : (X \o L)[Len(X) + i] = L[i]
    <3>1. X \in Seq(S)
      BY <2>1
    <3> QED
      BY <3>1, JoinPlaces
  <2>3. 1 \in 1..1
    OBVIOUS
  <2> QED
    BY <2>1, <2>2, <2>3 DEF X
<1>2. Will(L, n + 1, makes, breaks, now)
  BY DEF Ends
<1> HIDE DEF M, n
<1>3. ASSUME NEW j \in 1..(n + 1) - 1, L[j] \in makes,
             \A i \in j + 1..(n + 1) - 1 : L[i] \notin breaks /\ L[i].what # "catch"
      PROVE  Will(M, (1 + n) + 1, makes, breaks, now)
  <2>1. 1 + j \in 1..((1 + n) + 1) - 1 /\ M[1 + j] = L[j]
    BY <1>1, <1>3
  <2>2. ASSUME NEW i \in (1 + j) + 1..((1 + n) + 1) - 1
        PROVE  M[i] \notin breaks /\ M[i].what # "catch"
    <3>1. i - 1 \in j + 1..(n + 1) - 1 /\ i - 1 \in 1..n /\ 1 + (i - 1) = i
      BY <1>1
    <3>2. M[i] = L[i - 1]
      BY <1>1, <3>1
    <3> QED
      BY <1>3, <3>1, <3>2
  <2> QED
    BY <1>3, <2>1, <2>2 DEF Will
<1>4. ASSUME now, \A j \in 1..(n + 1) - 1 : L[j] \notin breaks
      PROVE  Will(M, (1 + n) + 1, makes, breaks, now)
  <2>1. ASSUME NEW i \in 1..((1 + n) + 1) - 1 PROVE M[i] \notin breaks
    <3>1. CASE i = 1
      BY <1>1, <3>1
    <3>2. CASE i # 1
      <4>1. i - 1 \in 1..(n + 1) - 1 /\ i - 1 \in 1..n /\ 1 + (i - 1) = i
        BY <1>1, <3>2
      <4>2. M[i] = L[i - 1]
        BY <1>1, <4>1
      <4> QED
        BY <1>4, <4>1, <4>2
    <3> QED
      BY <3>1, <3>2
  <2> QED
    BY <1>4, <2>1 DEF Will
<1>5. Will(M, (1 + n) + 1, makes, breaks, now)
  BY <1>2, <1>3, <1>4 DEF Will
<1> QED
  BY <1>1, <1>5 DEF Ends, M

LEMMA EndsSplice ==
  ASSUME NEW S, NEW L \in Seq(S), L # << >>, NEW X \in Seq(S), NEW makes, NEW breaks,
         NEW now, Ends(L, makes, breaks, now), Head(L) \notin makes,
         Head(L) \notin breaks => Free(X, breaks)
  PROVE  Ends(X \o Tail(L), makes, breaks, now)
<1>1. /\ Len(Tail(L)) = Len(L) - 1 /\ Len(L) \in Nat \ {0} /\ Tail(L) \in Seq(S)
  BY TailPlaces
<1>2. Len(X \o Tail(L)) = Len(X) + Len(Tail(L)) /\ Len(X) \in Nat
  BY <1>1, JoinPlaces
<1>3. Len(X \o Tail(L)) + 1 = Len(X) + Len(L) /\ Len(L) \in 1..Len(L)
  BY <1>1, <1>2
<1>4. Will(L, Len(L) + 1, makes, breaks, now)
  BY DEF Ends
<1>5. /\ Head(L) \in makes => Will(X, Len(X) + 1, makes, breaks, now)
      /\ Head(L) \notin breaks /\ now => now /\ Free(X, breaks)
  OBVIOUS
<1>6. Will(X \o Tail(L), Len(X) + Len(L), makes, breaks, now)
  BY <1>3, <1>4, <1>5, WillSplice, ZenonT(60)
<1> QED
  BY <1>3, <1>6 DEF Ends

(* One step of an operation.                                               *)
LEMMA EndsPasses ==
  ASSUME NEW S, todo \in Seq(S), Followed(todo), Passes, ~AtStep("late"), todo' # << >>,
         NEW makes, NEW breaks, NEW now, NEW new,
         Ends(todo, makes, breaks, now),
         \A i \in makes : i.what # "catch",
         Try(SetPin("mux", 0)) \notin makes \cup breaks,
         todo' = Caught(Tail(todo)) \/ (Head(todo) \in makes => new),
         Head(todo) \notin breaks /\ now => new
  PROVE  \/ Ends(todo', makes, breaks, new)
         \/ todo' = <<Try(SetPin("mux", 0))>>
<1>1. todo # << >>
  BY DEF Passes
<1>2. CASE todo' = Caught(Tail(todo))
  <2>1. Caught(Tail(todo)) = << >> \/ Ends(Caught(Tail(todo)), makes, breaks, new)
    BY <1>1, EndsCaught, ZenonT(60)
  <2> QED
    BY <1>2, <2>1
<1>3. CASE todo' = Tail(todo) /\ todo' # Caught(Tail(todo))
  <2>1. Ends(Tail(todo), makes, breaks, new)
    BY <1>1, <1>3, EndsTail, ZenonT(60)
  <2> QED
    BY <1>3, <2>1
<1>4. CASE /\ Head(todo) = Catch("mux") /\ todo' # Caught(Tail(todo))
           /\ todo' = <<Head(Tail(todo))>> \o Caught(Tail(Tail(todo)))
  <2> DEFINE T == Tail(todo)
             x == Try(SetPin("mux", 0))
  <2>1. /\ T \in Seq(S) /\ Head(todo) = todo[1] /\ Len(todo) \in Nat \ {0}
    BY <1>1, TailPlaces
  <2>2. Len(todo) > 1 /\ todo[2] = x
    <3>1. 1 \in 1..Len(todo) /\ todo[1] = Catch("mux") /\ 1 + 1 = 2
      BY <1>4, <2>1
    <3>2. 1 < Len(todo) /\ todo[1 + 1] = x
      BY <3>1 DEF Followed
    <3> QED
      BY <2>1, <3>1, <3>2
  <2>3. T # << >> /\ Head(T) = x /\ x \in S /\ Tail(T) \in Seq(S)
    BY <1>1, <2>1, <2>2, SecondPlace
  <2> HIDE DEF T, x
  <2>4. Ends(T, makes, breaks, new)
    <3>1. Head(todo) \in makes => new
      BY <1>4
    <3> QED
      BY <1>1, <3>1, EndsTail, ZenonT(60) DEF T
  <2>5. x \notin makes /\ x \notin breaks
    BY DEF x
  <2>6. Caught(Tail(T)) = << >> \/ Ends(Caught(Tail(T)), makes, breaks, new)
    <3>1. Head(T) \notin breaks /\ new => new
      OBVIOUS
    <3> QED
      BY <2>1, <2>3, <2>4, <3>1, EndsCaught, ZenonT(60)
  <2>7. todo' = <<x>> \o Caught(Tail(T)) /\ Caught(Tail(T)) \in Seq(S)
    BY <1>4, <2>3, CaughtList DEF T
  <2>8. CASE Caught(Tail(T)) = << >>
    <3>1. <<x>> \o << >> = <<x>> /\ <<x>> \in Seq(S)
      BY <2>3
    <3> QED
      BY <2>7, <2>8, <3>1 DEF x
  <2>9. CASE Ends(Caught(Tail(T)), makes, breaks, new)
    <3>1. Ends(<<x>> \o Caught(Tail(T)), makes, breaks, new)
      BY <2>3, <2>5, <2>7, <2>9, EndsCons, ZenonT(60)
    <3> QED
      BY <2>7, <3>1
  <2> QED
    BY <2>6, <2>8, <2>9
<1> QED
  BY <1>2, <1>3, <1>4 DEF Passes

LEMMA FirstCaught ==
  ASSUME NEW S, NEW L \in Seq(S), Caught(L) # << >>
  PROVE  Caught(L)[1].what = "catch" /\ Len(Caught(L)) \in Nat \ {0}
<1>1. PICK c \in 1..Len(L) :
              /\ L[c].what = "catch"
              /\ Len(Caught(L)) = Len(L) - c + 1
              /\ \A i \in 1..Len(L) - c + 1 : Caught(L)[i] = L[i + c - 1]
  BY JumpPlaces
<1>2. Len(L) \in Nat
  BY LenProperties
<1>3. 1 \in 1..Len(L) - c + 1 /\ 1 + c - 1 = c
  BY <1>2
<1> QED
  BY <1>1, <1>2, <1>3

(* The EDID is loaded once.                                                *)
OnceIn(L) ==
    \A k \in 1..Len(L) : L[k] = Step("edid") =>
       \A j \in 1..k - 1 : L[j].what # "catch" /\ L[j] # Step("edid")
Plain(X) == \A k \in 1..Len(X) : X[k].what # "catch" /\ X[k] # Step("edid")

LEMMA OnceJoin ==
  ASSUME NEW S, NEW X \in Seq(S), NEW L \in Seq(S), Plain(X), OnceIn(L)
  PROVE  OnceIn(X \o L) /\ OnceIn(L \o X)
<1>1. OnceIn(X \o L)
  <2> DEFINE J == X \o L
             n == Len(X)
  <2>1. /\ Len(J) = n + Len(L) /\ n \in Nat /\ Len(L) \in Nat
        /\ \A i \in 1..n : J[i] = X[i]
        /\ \A i \in 1..Len(L) : J[n + i] = L[i]
    BY JoinPlaces
  <2>2. \A i \in 1..n : X[i].what # "catch" /\ X[i] # Step("edid")
    BY DEF Plain
  <2> HIDE DEF J, n
  <2>3. ASSUME NEW k \in 1..Len(J), J[k] = Step("edid"), NEW j \in 1..k - 1
        PROVE  J[j].what # "catch" /\ J[j] # Step("edid")
    <3>1. CASE j \in 1..n
      BY <2>1, <2>2, <3>1
    <3>2. CASE j \notin 1..n
      <4>1. /\ j - n \in 1..(k - n) - 1 /\ k - n \in 1..Len(L) /\ j - n \in 1..Len(L)
            /\ n + (k - n) = k /\ n + (j - n) = j
        BY <2>1, <2>3, <3>2
      <4>2. L[k - n] = Step("edid") /\ J[j] = L[j - n]
        BY <2>1, <2>3, <4>1
      <4> QED
        BY <4>1, <4>2 DEF OnceIn
    <3> QED
      BY <3>1, <3>2
  <2> QED
    BY <2>3 DEF OnceIn, J
<1>2. OnceIn(L \o X)
  <2> DEFINE J == L \o X
             n == Len(L)
  <2>1. /\ Len(J) = n + Len(X) /\ n \in Nat /\ Len(X) \in Nat
        /\ \A i \in 1..n : J[i] = L[i]
        /\ \A i \in 1..Len(X) : J[n + i] = X[i]
    BY JoinPlaces
  <2>2. \A i \in 1..Len(X) : X[i] # Step("edid")
    BY DEF Plain
  <2> HIDE DEF J, n
  <2>3. ASSUME NEW k \in 1..Len(J), J[k] = Step("edid"), NEW j \in 1..k - 1
        PROVE  J[j].what # "catch" /\ J[j] # Step("edid")
    <3>1. k \in 1..n
      <4>1. CASE k \notin 1..n
        <5>1. k - n \in 1..Len(X) /\ n + (k - n) = k
          BY <2>1, <2>3, <4>1
        <5> QED
          BY <2>1, <2>2, <2>3, <5>1
      <4> QED
        BY <4>1
    <3>2. j \in 1..n /\ L[k] = Step("edid")
      BY <2>1, <2>3, <3>1
    <3>3. L[j].what # "catch" /\ L[j] # Step("edid")
      BY <2>3, <3>1, <3>2 DEF OnceIn, n
    <3> QED
      BY <2>1, <3>2, <3>3
  <2> QED
    BY <2>3 DEF OnceIn, J
<1> QED
  BY <1>1, <1>2

LEMMA PlainPieces ==
  Plain(Opening) /\ Plain(InitRegs) /\ Plain(<<Step("ready")>>) /\ Plain(Again)
<1>1. Step("edid").what = "step" /\ Step("edid").arg = "edid"
  BY Names
<1>2. Plain(Opening) /\ Plain(Again)
  <2>1. \A k \in 1..7 : /\ Opening[k].what \in {"step", "output", "pin", "bank"}
                        /\ Opening[k].what = "step" => Opening[k].arg # "edid"
    BY OpeningItems, Fields, Names
  <2>2. \A k \in 1..6 : /\ Again[k].what \in {"step", "output", "pin", "bank"}
                        /\ Again[k].what = "step" => Again[k].arg # "edid"
    BY OpeningItems, Fields, Names
  <2>3. Len(Opening) = 7 /\ Len(Again) = 6
    BY OpeningItems
  <2>4. \A x : /\ x.what \in {"step", "output", "pin", "bank"}
               /\ x.what = "step" => x.arg # "edid"
               => x.what # "catch" /\ x # Step("edid")
    BY <1>1
  <2> QED
    BY <2>1, <2>2, <2>3, <2>4 DEF Plain
<1>3. Plain(InitRegs)
  <2>1. \A k \in 1..Len(InitRegs) : InitRegs[k].what \in {"bank", "write", "pin"}
    BY Fields DEF InitRegs
  <2> QED
    BY <1>1, <2>1 DEF Plain
<1>4. Plain(<<Step("ready")>>)
  <2>1. Step("ready").what = "step" /\ Step("ready").arg = "ready"
    BY Names
  <2> QED
    BY <1>1, <2>1 DEF Plain
<1> QED
  BY <1>2, <1>3, <1>4

LEMMA OnceLists ==
  OnceIn(Present) /\ OnceIn(Bringup)
<1>1. OnceIn(Present)
  <2>1. \A k \in 1..5 : \A on \in {0, 1} :
           Hpd(on)[k].what \in {"bank", "write", "output", "pin", "read"}
    <3>1. ASSUME NEW on \in {0, 1}, NEW j \in 1..5
          PROVE  Hpd(on)[j].what \in {"bank", "write", "output", "pin", "read"}
      BY HpdItems, Fields
    <3> QED
      BY <3>1
  <2>2. Step("edid").what = "step"
    BY Names
  <2>3. \A k \in 1..5 : /\ Present[k].what # "catch" /\ Present[k] # Step("edid")
                        /\ Present[k + 6] # Step("edid")
    BY <2>1, <2>2, PresentItems
  <2>4. ASSUME NEW k \in 1..11, Present[k] = Step("edid") PROVE k = 6
    <3>1. CASE k \in 7..11
      <4>1. k - 6 \in 1..5 /\ (k - 6) + 6 = k
        BY <3>1
      <4> QED
        BY <2>3, <2>4, <4>1
    <3>2. CASE k \in 1..5
      BY <2>3, <2>4, <3>2
    <3> QED
      BY <3>1, <3>2
  <2>5. Len(Present) = 11
    BY PresentItems
  <2> QED
    BY <2>3, <2>4, <2>5 DEF OnceIn
<1>2. OnceIn(Bringup)
  <2> DEFINE last == <<Step("ready")>>
             A == Opening \o InitRegs
  <2>1. /\ Opening \in Seq(All) /\ InitRegs \in Seq(All) /\ Present \in Seq(All) /\ last \in Seq(All)
        /\ Plain(Opening) /\ Plain(InitRegs) /\ Plain(last)
    BY OpeningItems, TamePieces, PresentItems, Alphabet, PlainPieces DEF Tame
  <2>2. Bringup = (A \o Present) \o last
    BY OpeningItems
  <2> HIDE DEF last
  <2>3. InitRegs \o Present \in Seq(All) /\ OnceIn(InitRegs \o Present)
    BY <1>1, <2>1, OnceJoin, JoinPlaces
  <2>4. Opening \o (InitRegs \o Present) \in Seq(All) /\ OnceIn(Opening \o (InitRegs \o Present))
    BY <2>1, <2>3, OnceJoin, JoinPlaces
  <2>5. A \o Present = Opening \o (InitRegs \o Present)
    BY <2>1, ConcatAssociative
  <2> HIDE DEF A
  <2> QED
    BY <2>1, <2>2, <2>4, <2>5, OnceJoin
<1> QED
  BY <1>1, <1>2

LEMMA StepOnce ==
  ASSUME Typed, Followed(todo), Once, Next, Chunks \in Nat
  PROVE  Once'
<1>0. /\ todo \in Seq(Vocabulary(op)) /\ todo' \in Seq(Vocabulary(op'))
      /\ Len(todo) \in Nat /\ Len(todo') \in Nat
  BY StepTyped, LenProperties DEF Typed
<1>1. CASE op' \notin Loaders
  <2>1. \A k \in 1..Len(todo') : todo'[k] # Step("edid")
    BY <1>0, <1>1, Owners
  <2> QED
    BY <2>1 DEF Once
<1>2. CASE Passing
  <2>1. Passes
    BY <1>2, PassingPasses
  <2>2. PICK f \in [1..Len(todo') -> 1..Len(todo)] :
           /\ \A i, j \in 1..Len(todo') : i < j => f[i] < f[j]
           /\ \A i \in 1..Len(todo') : f[i] > 1 /\ todo'[i] = todo[f[i]]
    BY <1>0, <2>1, PassesThins DEF Thins
  <2>3. ASSUME NEW k \in 1..Len(todo'), todo'[k] = Step("edid")
        PROVE  ~failed' /\ \A j \in 1..k - 1 : todo'[j].what # "catch" /\ todo'[j] # Step("edid")
    <3>1. /\ f[k] \in 1..Len(todo) /\ todo[f[k]] = Step("edid")
      BY <2>2, <2>3
    <3>2. ~failed /\ \A j \in 1..f[k] - 1 : todo[j].what # "catch" /\ todo[j] # Step("edid")
      BY <3>1 DEF Once
    <3>3. ASSUME NEW j \in 1..k - 1 PROVE todo'[j].what # "catch" /\ todo'[j] # Step("edid")
      <4>1. j \in 1..Len(todo') /\ j < k
        BY <1>0
      <4>2. f[j] < f[k] /\ f[j] \in 1..Len(todo) /\ todo'[j] = todo[f[j]]
        BY <2>2, <4>1
      <4>3. f[j] \in 1..f[k] - 1
        BY <1>0, <3>1, <4>2
      <4> QED
        BY <3>2, <4>2, <4>3
    <3>4. todo' # << >> /\ todo # << >>
      <4>1. Len(<< >>) = 0
        OBVIOUS
      <4> QED
        BY <2>1, <2>3, <4>1 DEF Passes
    <3>5. todo' # Caught(Tail(todo))
      <4>1. SUFFICES ASSUME todo' = Caught(Tail(todo)) PROVE FALSE
        OBVIOUS
      <4>2. Tail(todo) \in Seq(Vocabulary(op))
        BY <1>0, <3>4, TailPlaces
      <4>3. todo'[1].what = "catch"
        BY <3>4, <4>1, <4>2, FirstCaught
      <4>4. Step("edid").what = "step"
        BY Names
      <4>5. k = 1 \/ 1 \in 1..k - 1
        BY <1>0
      <4> QED
        BY <2>3, <3>3, <4>3, <4>4, <4>5
    <3>6. failed' => failed
      <4>1. CASE Command
        BY <3>5, <3>2, <4>1 DEF Command, Typed
      <4>2. CASE ~Command
        <5>1. Passing /\ ~Command =>
                 \/ failed' = failed
                 \/ failed' = (failed /\ Head(todo).arg \notin {"edid", "forget"})
                 \/ todo' = << >> \/ todo' = Caught(Tail(todo))
          BY DEF Passing, Unready, Alive, Ready, Refuse, CatchError, Late, Matched, Expire, Known,
             Goes, Rest
        <5> QED
          BY <1>2, <3>4, <3>5, <4>2, <5>1
      <4> QED
        BY <4>1, <4>2
    <3> QED
      BY <3>2, <3>3, <3>6
  <2> QED
    BY <2>3 DEF Once
<1>3. CASE Splicing /\ op' \in Loaders
  <2>1. /\ todo # << >> /\ todo' = Splice \o Tail(todo) /\ Splice \in Seq(Vocabulary(op))
        /\ op = op' /\ failed' = failed
    BY <1>3, Spliced
  <2>2. /\ Tail(todo) \in Seq(Vocabulary(op)) /\ Len(Tail(todo)) = Len(todo) - 1
        /\ \A i \in 1..Len(todo) - 1 : Tail(todo)[i] = todo[i + 1]
        /\ Head(todo) = todo[1] /\ Len(todo) \in Nat \ {0}
    BY <1>0, <2>1, TailPlaces
  <2>3. OnceIn(Tail(todo)) /\ \A k \in 1..Len(Tail(todo)) : Tail(todo)[k] = Step("edid") => ~failed
    <3>1. ASSUME NEW k \in 1..Len(Tail(todo)), Tail(todo)[k] = Step("edid")
          PROVE  /\ ~failed
                 /\ \A j \in 1..k - 1 : Tail(todo)[j].what # "catch" /\ Tail(todo)[j] # Step("edid")
      <4>1. k + 1 \in 1..Len(todo) /\ todo[k + 1] = Step("edid")
        BY <2>2, <3>1
      <4>2. ~failed /\ \A j \in 1..(k + 1) - 1 : todo[j].what # "catch" /\ todo[j] # Step("edid")
        BY <4>1 DEF Once
      <4>3. ASSUME NEW j \in 1..k - 1
            PROVE  Tail(todo)[j].what # "catch" /\ Tail(todo)[j] # Step("edid")
        <5>1. j + 1 \in 1..(k + 1) - 1 /\ j \in 1..Len(todo) - 1
          BY <2>2
        <5> QED
          BY <2>2, <4>2, <5>1
      <4> QED
        BY <4>2, <4>3
    <3> QED
      BY <3>1 DEF OnceIn
  <2>4. /\ Len(todo') = Len(Splice) + Len(Tail(todo)) /\ Len(Splice) \in Nat
        /\ \A i \in 1..Len(Splice) : todo'[i] = Splice[i]
        /\ \A i \in 1..Len(Tail(todo)) : todo'[Len(Splice) + i] = Tail(todo)[i]
    BY <2>1, <2>2, JoinPlaces
  <2>5. ASSUME NEW k \in 1..Len(todo'), todo'[k] = Step("edid"), Free(Splice, {Step("edid")})
        PROVE  k - Len(Splice) \in 1..Len(Tail(todo)) /\ Tail(todo)[k - Len(Splice)] = Step("edid")
    <3>1. k \notin 1..Len(Splice)
      BY <2>4, <2>5 DEF Free
    <3>2. k - Len(Splice) \in 1..Len(Tail(todo)) /\ Len(Splice) + (k - Len(Splice)) = k
      BY <2>2, <2>4, <3>1
    <3> QED
      BY <2>4, <2>5, <3>2
  <2>6. CASE AtStep("edid") /\ Splice = Load
    <3>1. Free(Splice, {Step("edid")})
      BY <2>6, LoadFree DEF Free
    <3>2. \A m \in 1..Len(Tail(todo)) : Tail(todo)[m] # Step("edid")
      <4> SUFFICES ASSUME NEW m \in 1..Len(Tail(todo)), Tail(todo)[m] = Step("edid") PROVE FALSE
        OBVIOUS
      <4>1. m + 1 \in 1..Len(todo) /\ todo[m + 1] = Step("edid") /\ 1 \in 1..(m + 1) - 1
        BY <2>2
      <4>2. todo[1] # Step("edid")
        BY <4>1 DEF Once
      <4> QED
        BY <2>2, <2>6, <4>2 DEF AtStep
    <3>3. \A k \in 1..Len(todo') : todo'[k] # Step("edid")
      BY <2>5, <3>1, <3>2
    <3> QED
      BY <3>3 DEF Once
  <2>7. CASE AtStep("alive") /\ Splice = Again
    <3>1. Plain(Splice)
      BY <2>7, PlainPieces
    <3>2. OnceIn(todo')
      BY <2>1, <2>2, <2>3, <3>1, OnceJoin
    <3>3. Free(Splice, {Step("edid")})
      BY <3>1 DEF Plain, Free
    <3>4. \A k \in 1..Len(todo') : todo'[k] = Step("edid") => ~failed'
      BY <2>1, <2>3, <2>5, <3>3
    <3> QED
      BY <3>2, <3>4 DEF Once, OnceIn
  <2> QED
    BY <1>3, <2>1, <2>6, <2>7, Spliced DEF Load, Again, Loaders
<1>4. CASE Fetching
  <2>1. op' \notin Loaders
    BY <1>4, Fetched DEF Loaders
  <2> QED
    BY <1>1, <2>1
<1>5. CASE Beginning /\ op' \in Loaders
  <2>1. (todo' = Bringup \/ todo' = Present) /\ failed' = FALSE
    BY <1>5, Begun DEF Loaders
  <2>2. OnceIn(todo')
    BY <2>1, OnceLists
  <2> QED
    BY <2>1, <2>2 DEF Once, OnceIn
<1>6. CASE Leaving /\ op' \in Loaders
  <2>1. todo' = todo /\ failed' = failed
    BY <1>6 DEF Leaving, End, Note, Borrow, Scan, others, Loaders
  <2> QED
    BY <2>1 DEF Once
<1> QED
  BY <1>1, <1>2, <1>3, <1>4, <1>5, <1>6, Actions

(* The sink is seen at the end.                                            *)
Unseeing == HpdWrites \cup Resets \cup Wakes
Showing(L, raised, low) ==
    /\ Ends(L, {Write("hpd", 0, 1)}, Unseeing, raised)
    /\ Ends(L, {SetPin("hpd", 0)}, HpdPins, low)

LEMMA ShowsShowing ==
  /\ \A L : Shows(L) <=> Showing(L, chip.hpd, pin.hpd = 0)
  /\ Shows(todo)' <=> Showing(todo', chip'.hpd, pin'.hpd = 0)
<1>1. HpdWrites \cup ResetPins \cup {Output("reset")} \cup Wakes = Unseeing
  BY DEF Unseeing, Resets
<1>2. \A L : Shows(L) <=> Showing(L, chip.hpd, pin.hpd = 0)
  BY <1>1, Zenon DEF Shows, Showing, Ends
<1>3. Shows(todo)' <=> Showing(todo', chip'.hpd, pin'.hpd = 0)
  BY <1>1, Zenon DEF Shows, Showing, Ends
<1> QED
  BY <1>2, <1>3

LEMMA HpdShows ==
  Showing(Hpd(1), FALSE, FALSE)
<1>1. /\ Len(Hpd(1)) = 5 /\ Hpd(1)[2] = Write("hpd", 0, 1) /\ Hpd(1)[3] = Output("hpd")
      /\ Hpd(1)[4] = SetPin("hpd", 0) /\ Hpd(1)[5] = Read
  <2>1. 1 - 1 = 0
    OBVIOUS
  <2> QED
    BY <2>1, HpdItems
<1>2. /\ Output("hpd").what = "output" /\ Output("hpd").arg = "hpd"
      /\ SetPin("hpd", 0).what = "pin" /\ SetPin("hpd", 0).arg = "hpd" /\ Read.what = "read"
  BY Fields
<1>3. \A x \in Unseeing : /\ x.what \in {"write", "pin", "output", "step"}
                          /\ x.what \in {"pin", "output"} => x.arg = "reset"
  BY Classes, Names, Fields DEF Unseeing, Resets, Wakes
<1>4. \A x \in HpdPins : x.what = "pin"
  BY Classes
<1>5. Ends(Hpd(1), {Write("hpd", 0, 1)}, Unseeing, FALSE)
  <2> DEFINE makes == {Write("hpd", 0, 1)}
  <2>1. Hpd(1)[2] \in makes
    BY <1>1
  <2>2. 2 \in 1..(5 + 1) - 1 /\ \A i \in 2 + 1..(5 + 1) - 1 : i \in {3, 4, 5}
    OBVIOUS
  <2>3. \A i \in {3, 4, 5} : Hpd(1)[i] \notin Unseeing /\ Hpd(1)[i].what # "catch"
    BY <1>1, <1>2, <1>3
  <2> HIDE DEF makes
  <2>4. Will(Hpd(1), Len(Hpd(1)) + 1, makes, Unseeing, FALSE)
    BY <1>1, <2>1, <2>2, <2>3 DEF Will
  <2> QED
    BY <2>4 DEF Ends, makes
<1>6. Ends(Hpd(1), {SetPin("hpd", 0)}, HpdPins, FALSE)
  <2> DEFINE makes == {SetPin("hpd", 0)}
  <2>1. Hpd(1)[4] \in makes
    BY <1>1
  <2>2. 4 \in 1..(5 + 1) - 1 /\ \A i \in 4 + 1..(5 + 1) - 1 : i = 5
    OBVIOUS
  <2>3. Hpd(1)[5] \notin HpdPins /\ Hpd(1)[5].what # "catch"
    BY <1>1, <1>2, <1>4
  <2> HIDE DEF makes
  <2>4. Will(Hpd(1), Len(Hpd(1)) + 1, makes, HpdPins, FALSE)
    BY <1>1, <2>1, <2>2, <2>3 DEF Will
  <2> QED
    BY <2>4 DEF Ends, makes
<1> QED
  BY <1>5, <1>6 DEF Showing

LEMMA ShowsAfter ==
  ASSUME NEW S, NEW X \in Seq(S), NEW L \in Seq(S), Showing(L, FALSE, FALSE), NEW a, NEW b
  PROVE  Showing(X \o L, a, b)
<1>1. /\ Will(L, Len(L) + 1, {Write("hpd", 0, 1)}, Unseeing, FALSE)
      /\ Will(L, Len(L) + 1, {SetPin("hpd", 0)}, HpdPins, FALSE)
  BY DEF Showing, Ends
<1>2. Will(X \o L, Len(X \o L) + 1, {Write("hpd", 0, 1)}, Unseeing, a)
  BY <1>1, WillAfter, Zenon
<1>3. Will(X \o L, Len(X \o L) + 1, {SetPin("hpd", 0)}, HpdPins, b)
  BY <1>1, WillAfter, Zenon
<1> QED
  BY <1>2, <1>3 DEF Showing, Ends

LEMMA ShowsLists ==
  ASSUME NEW a, NEW b
  PROVE  Showing(Bringup, a, b) /\ Showing(Present, a, b) /\ Showing(Pulse, a, b)
<1> DEFINE A == Hpd(0)
           B == Hpd(1)
           E == <<Step("edid")>>
           last == <<Step("ready")>>
<1>1. /\ A \in Seq(All) /\ B \in Seq(All) /\ E \in Seq(All) /\ last \in Seq(All)
      /\ Opening \in Seq(All) /\ InitRegs \in Seq(All) /\ Present \in Seq(All)
  BY HpdItems, Alphabet, OpeningItems, TamePieces, PresentItems DEF Tame
<1>2. Pulse = A \o B /\ Present = (A \o E) \o B
  BY DEF Pulse, Present
<1>3. Bringup = ((Opening \o InitRegs) \o Present) \o last
  BY OpeningItems
<1>4. Showing(B, FALSE, FALSE)
  BY HpdShows
<1>5. Free(last, Unseeing) /\ Free(last, HpdPins) /\ \A k \in 1..Len(last) : last[k].what # "catch"
  <2>1. Step("ready").what = "step" /\ Step("ready").arg = "ready"
    BY Names
  <2>2. \A x \in Unseeing \cup HpdPins : x.what = "step" => x.arg \in {"alive", "again"}
    BY Classes, Names, Fields DEF Unseeing, Resets, Wakes
  <2> QED
    BY <2>1, <2>2 DEF Free
<1> HIDE DEF A, B, E, last
<1>6. A \o E \in Seq(All) /\ Opening \o InitRegs \in Seq(All)
  BY <1>1, JoinPlaces, Zenon
<1>7. \A x, y : Showing(Present, x, y)
  BY <1>1, <1>2, <1>4, <1>6, ShowsAfter, Zenon
<1>8. Showing(Pulse, a, b)
  BY <1>1, <1>2, <1>4, ShowsAfter, Zenon
<1> DEFINE M == (Opening \o InitRegs) \o Present
<1>9. Showing(M, a, b)
  BY <1>1, <1>6, <1>7, ShowsAfter, Zenon
<1>10. M \in Seq(All)
  BY <1>1, <1>6, JoinPlaces, Zenon
<1> HIDE DEF M
<1>11. /\ Will(M, Len(M) + 1, {Write("hpd", 0, 1)}, Unseeing, a)
       /\ Will(M, Len(M) + 1, {SetPin("hpd", 0)}, HpdPins, b)
  BY <1>9 DEF Showing, Ends
<1>12. Will(M \o last, Len(M \o last) + 1, {Write("hpd", 0, 1)}, Unseeing, a)
  BY <1>1, <1>5, <1>10, <1>11, WillJoin, ZenonT(30)
<1>13. Will(M \o last, Len(M \o last) + 1, {SetPin("hpd", 0)}, HpdPins, b)
  BY <1>1, <1>5, <1>10, <1>11, WillJoin, ZenonT(30)
<1>14. Showing(Bringup, a, b)
  BY <1>3, <1>12, <1>13 DEF Showing, Ends, M
<1> QED
  BY <1>7, <1>8, <1>14

LEMMA ShownAtEnd ==
  Showing(<< >>, chip.hpd, pin.hpd = 0) => Seen
<1>1. Len(<< >>) + 1 = 1 /\ ~\E j \in 1..1 - 1 : TRUE
  OBVIOUS
<1>2. \A makes, breaks : Ends(<< >>, makes, breaks, chip.hpd) => chip.hpd
  BY <1>1 DEF Ends, Will
<1>3. \A makes, breaks : Ends(<< >>, makes, breaks, pin.hpd = 0) => pin.hpd = 0
  BY <1>1 DEF Ends, Will
<1> QED
  BY <1>2, <1>3 DEF Showing, Seen

(* What a step does to what is shown.                                      *)
LEMMA ShowCommand ==
  ASSUME Typed, Power, Revived, Banked, Command, op = "bringup" \/ ready
  PROVE  /\ \/ todo' = Caught(Tail(todo)) /\ failed'
            \/ /\ todo' = Tail(todo)
               /\ Head(todo) = Write("hpd", 0, 1) => chip'.hpd
               /\ Head(todo) = SetPin("hpd", 0) => pin'.hpd = 0
         /\ Head(todo) \notin HpdWrites \cup Resets /\ chip.hpd => chip'.hpd
         /\ Head(todo) \notin HpdPins /\ pin.hpd = 0 => pin'.hpd = 0
<1> DEFINE i == Head(todo)
<1>1. /\ todo # << >> /\ i \in All /\ Belongs(i, op) /\ chip \in Chips
      /\ pin \in [hpd : {0, 1}, mux : {0, 1}] /\ output \subseteq Pins
      /\ Effect(i) \/ (chip' = chip /\ pin' = pin)
      /\ \/ todo' = Tail(todo) /\ (Effect(i) \/ i.try)
         \/ todo' = Caught(Tail(todo)) /\ failed'
  <2>1. \/ todo' = Tail(todo) /\ (Effect(i) \/ i.try)
        \/ todo' = Caught(Tail(todo)) /\ failed' = (failed \/ TRUE)
    BY DEF Command
  <2> QED
    BY <2>1, Commanded
<1>2. ASSUME i = Write("hpd", 0, 1), Effect(i) PROVE chip'.hpd
  <2>1. chip.alive
    <3>1. i \in HpdWrites
      BY <1>2 DEF HpdWrites
    <3> QED
      BY <3>1, PinObeys DEF Live
  <2>2. i \in Writes(0) /\ 0 \in Banks /\ op # "csc"
    BY <1>1, <1>2, Alphabet, Fields DEF Writes, Belongs, Presenters
  <2>3. chip.bank = 0
    <3> DEFINE now == chip.bank = 0 \/ ~chip.alive
    <3>1. Kept(todo, Writes(0), {Bank(0)}, Selectors, now) /\ todo \in Seq(Vocabulary(op))
      BY <2>2 DEF Banked, Typed
    <3> HIDE DEF now, i
    <3>2. now
      BY <1>1, <2>2, <3>1, FirstNow DEF i
    <3> QED
      BY <2>1, <3>2 DEF now
  <2>4. chip'.hpd = (1 = 1)
    BY <1>1, <1>2, <2>1, <2>3, Landed
  <2> QED
    BY <2>4
<1>3. ASSUME i = SetPin("hpd", 0), Effect(i) PROVE pin'.hpd = 0
  <2>1. "hpd" \in output
    <3>1. i \in HpdPins
      BY <1>3 DEF HpdPins
    <3> QED
      BY <3>1, PinObeys DEF Live
  <2> QED
    BY <1>1, <1>3, <2>1, PinsMoved
<1>4. i = Write("hpd", 0, 1) \/ i = SetPin("hpd", 0) => i.try = FALSE
  <2>1. Write("hpd", 0, 1) \in HpdWrites /\ SetPin("hpd", 0) \in HpdPins
    BY DEF HpdWrites, HpdPins
  <2> QED
    BY <2>1, Classes
<1>5. i \notin HpdWrites \cup Resets /\ Effect(i) => chip'.hpd = chip.hpd
  BY <1>1, ChipKept
<1>6. i \notin HpdPins /\ Effect(i) => pin'.hpd = pin.hpd
  BY <1>1, PinsMoved
<1> HIDE DEF i
<1>7. \/ todo' = Caught(Tail(todo)) /\ failed'
      \/ /\ todo' = Tail(todo)
         /\ i = Write("hpd", 0, 1) => chip'.hpd
         /\ i = SetPin("hpd", 0) => pin'.hpd = 0
  BY <1>1, <1>2, <1>3, <1>4
<1>8. i \notin HpdWrites \cup Resets /\ chip.hpd => chip'.hpd
  BY <1>1, <1>5
<1>9. i \notin HpdPins /\ pin.hpd = 0 => pin'.hpd = 0
  BY <1>1, <1>6
<1> QED
  BY <1>7, <1>8, <1>9 DEF i

LEMMA DownMoves ==
  ASSUME Next, ~End PROVE down' = down
<1>1. CASE Command
  BY <1>1 DEF Command, history
<1>2. CASE Decide
  BY <1>2 DEF Decide, Unready, Alive, Ready, Refuse, CatchError, Edid, Frozen, Late,
     PollUnlocked, PollLocked, PollMatched, Matched, Expire, LockRead, WatchJudge, Diag,
     Known, callers, history
<1>3. CASE Operation \/ Note \/ Borrow \/ Scan
  BY <1>3 DEF Operation, BeginBringup, BeginReload, BeginPulse, BeginSignal, BeginLock,
     BeginWatch, BeginDiag, BeginCsc, BeginColour, BeginRamtest, Begin, Note, Borrow, Scan,
     others
<1> QED
  BY <1>1, <1>2, <1>3 DEF Next

(* Nobody else touches what is shown.                                      *)
LEMMA SeenKept ==
  ASSUME Typed, Next, op \notin Presenters, Seen
  PROVE  Seen'
<1>1. CASE ~Command
  BY <1>1, Untouched DEF Seen
<1>2. CASE Command
  <2> DEFINE i == Head(todo)
  <2>1. /\ i \in All /\ Belongs(i, op) /\ chip \in Chips
        /\ pin \in [hpd : {0, 1}, mux : {0, 1}] /\ output \subseteq Pins
        /\ Effect(i) \/ (chip' = chip /\ pin' = pin)
    BY <1>2, Commanded
  <2>2. i \notin HpdWrites \cup HpdPins \cup Resets
    <3>1. i \in Vocabulary(op) /\ op # "bringup"
      BY <2>1 DEF Vocabulary, Presenters
    <3> QED
      BY <3>1, Owners
  <2>3. Effect(i) => chip'.hpd = chip.hpd /\ pin'.hpd = pin.hpd
    BY <2>1, <2>2, ChipKept, PinsMoved
  <2> HIDE DEF i
  <2> QED
    BY <2>1, <2>3 DEF Seen
<1> QED
  BY <1>1, <1>2

LEMMA PassWays ==
  ASSUME Typed, Power, Revived, Banked, Passing, op \in Presenters, op = "bringup" \/ ready
  PROVE  \/ /\ todo' = Tail(todo)
            /\ Head(todo) = Write("hpd", 0, 1) => chip'.hpd
            /\ Head(todo) = SetPin("hpd", 0) => pin'.hpd = 0
         \/ /\ failed'
            /\ \/ todo' = Caught(Tail(todo)) \/ todo' = << >>
               \/ /\ Head(todo) = Catch("mux")
                  /\ todo' = <<Head(Tail(todo))>> \o Caught(Tail(Tail(todo)))
<1>1. CASE Command
  BY <1>1, ShowCommand
<1>2. CASE ~Command
  <2>1. ~Late /\ ~Matched /\ ~Expire /\ ~Known
    BY StepOwners DEF Late, Matched, Expire, Known, Presenters
  <2>2. Head(todo).what \in {"step", "catch"}
    BY <1>2, <2>1, Names DEF Passing, Unready, Alive, Ready, Refuse, CatchError, AtStep
  <2>3. Head(todo) # Write("hpd", 0, 1) /\ Head(todo) # SetPin("hpd", 0)
    BY <2>2, Fields
  <2>4. Unready \/ Ready => todo' = Tail(todo)
    BY DEF Unready, Ready, Goes, Rest
  <2>5. Alive /\ (chip.alive \/ AtStep("again")) =>
           \/ todo' = Tail(todo)
           \/ failed' /\ todo' = << >>
    <3>1. AtStep("again") => ~AtStep("alive")
      BY Names DEF AtStep
    <3> QED
      BY <3>1 DEF Alive, Goes, Rest
  <2>6. Refuse => failed' /\ todo' = Caught(Tail(todo))
    BY DEF Refuse, Rest
  <2>7. CatchError => \/ todo' = Tail(todo)
                      \/ /\ Head(todo) = Catch("mux") /\ failed'
                         /\ todo' = <<Head(Tail(todo))>> \o Caught(Tail(Tail(todo)))
    <3> SUFFICES ASSUME CatchError, todo' # Tail(todo)
                 PROVE  /\ Head(todo) = Catch("mux") /\ failed'
                        /\ todo' = <<Head(Tail(todo))>> \o Caught(Tail(Tail(todo)))
      OBVIOUS
    <3>1. /\ todo # << >> /\ Head(todo).what = "catch" /\ Head(todo).arg = "mux" /\ failed
          /\ todo' = <<Head(Tail(todo))>> \o Caught(Tail(Tail(todo)))
          /\ failed' = (failed /\ Head(todo).arg \notin {"edid", "forget"})
      BY DEF CatchError, Rest
    <3>2. Head(todo) \in Catches
      BY <3>1, FirstItem, Kinds
    <3>3. Head(todo) = Catch("mux")
      BY <3>1, <3>2, Names DEF Catches
    <3>4. failed'
      BY <3>1
    <3> QED
      BY <3>1, <3>3, <3>4
  <2> QED
    BY <1>2, <2>1, <2>3, <2>4, <2>5, <2>6, <2>7 DEF Passing
<1> QED
  BY <1>1, <1>2

LEMMA StepPassingShows ==
  ASSUME Typed, Followed(todo), Power, Revived, Banked, Passing, Next,
         op \in Presenters, op = "bringup" \/ ready, Shows(todo)
  PROVE  \/ failed' /\ \A k \in 1..Len(todo') : todo'[k] # Catch("edid")
         \/ Shows(todo)'
<1>1. Passes /\ todo \in Seq(Vocabulary(op)) /\ todo # << >> /\ op # "signal"
  BY PassingPasses DEF Typed, Passes, Presenters
<1>2. ~AtStep("late")
  BY <1>1, StepOwners
<1> DEFINE wm == {Write("hpd", 0, 1)}
           pm == {SetPin("hpd", 0)}
           raised == chip.hpd
           raisedNext == chip'.hpd
           low == pin.hpd = 0
           lowNext == pin'.hpd = 0
<1>3. Ends(todo, wm, Unseeing, raised) /\ Ends(todo, pm, HpdPins, low)
  BY ShowsShowing DEF Showing
<1>4. /\ Head(todo) \notin Unseeing /\ raised => raisedNext
      /\ Head(todo) \notin HpdPins /\ low => lowNext
  <2>1. CASE Command
    BY <2>1, ShowCommand DEF Unseeing
  <2>2. CASE ~Command
    BY <2>2, Untouched
  <2> QED
    BY <2>1, <2>2
<1>5. \/ /\ todo' = Tail(todo)
         /\ Head(todo) \in wm => raisedNext
         /\ Head(todo) \in pm => lowNext
      \/ /\ failed'
         /\ \/ todo' = Caught(Tail(todo)) \/ todo' = << >>
            \/ Head(todo) = Catch("mux")
  BY PassWays
<1>6. /\ \A i \in wm \cup pm : i.what # "catch"
      /\ Try(SetPin("mux", 0)) \notin wm \cup Unseeing \cup pm \cup HpdPins
      /\ Catch("mux") \notin wm \cup pm
      /\ Try(SetPin("mux", 0)) # Catch("edid")
  <2>1. /\ Try(SetPin("mux", 0)).what = "pin" /\ Try(SetPin("mux", 0)).arg = "mux"
        /\ Write("hpd", 0, 1).what = "write" /\ SetPin("hpd", 0).what = "pin"
        /\ SetPin("hpd", 0).arg = "hpd"
        /\ Catch("mux").what = "catch" /\ Catch("edid").what = "catch"
    BY Fields, Names
  <2>2. \A x \in Unseeing \cup HpdPins : x.what = "pin" => x.arg \in {"reset", "hpd"}
    BY Classes, Names, Fields DEF Unseeing, Resets, Wakes
  <2> QED
    BY <2>1, <2>2
<1>7. Ends(todo', wm, Unseeing, raisedNext) /\ Ends(todo', pm, HpdPins, lowNext) => Shows(todo)'
  BY ShowsShowing DEF Showing
<1> HIDE DEF wm, pm, raised, raisedNext, low, lowNext
<1>8. CASE /\ todo' = Tail(todo)
           /\ Head(todo) \in wm => raisedNext
           /\ Head(todo) \in pm => lowNext
  <2>1. Ends(Tail(todo), wm, Unseeing, raisedNext)
    BY <1>1, <1>3, <1>4, <1>8, EndsTail, ZenonT(30)
  <2>2. Ends(Tail(todo), pm, HpdPins, lowNext)
    BY <1>1, <1>3, <1>4, <1>8, EndsTail, ZenonT(30)
  <2> QED
    BY <1>7, <1>8, <2>1, <2>2
<1>9. CASE failed' /\ todo' = << >>
  <2>1. \A k \in 1..Len(todo') : FALSE
    BY <1>9
  <2> QED
    BY <1>9, <2>1
<1>10. CASE failed' /\ todo' = <<Try(SetPin("mux", 0))>>
  <2>1. \A k \in 1..Len(todo') : todo'[k] = Try(SetPin("mux", 0))
    BY <1>10
  <2> QED
    BY <1>6, <1>10, <2>1
<1>11. CASE /\ failed' /\ todo' # << >> /\ todo' # <<Try(SetPin("mux", 0))>>
            /\ todo' = Caught(Tail(todo)) \/ Head(todo) = Catch("mux")
  <2>1. /\ todo' = Caught(Tail(todo)) \/ (Head(todo) \in wm => raisedNext)
        /\ todo' = Caught(Tail(todo)) \/ (Head(todo) \in pm => lowNext)
    BY <1>6, <1>11
  <2>2. /\ \A i \in wm : i.what # "catch"
        /\ \A i \in pm : i.what # "catch"
        /\ Try(SetPin("mux", 0)) \notin wm \cup Unseeing
        /\ Try(SetPin("mux", 0)) \notin pm \cup HpdPins
    BY <1>6
  <2>3. Ends(todo', wm, Unseeing, raisedNext)
    BY <1>1, <1>2, <1>3, <1>4, <1>11, <2>1, <2>2, EndsPasses, ZenonT(60)
  <2>4. Ends(todo', pm, HpdPins, lowNext)
    BY <1>1, <1>2, <1>3, <1>4, <1>11, <2>1, <2>2, EndsPasses, ZenonT(60)
  <2> QED
    BY <1>7, <2>3, <2>4
<1> QED
  BY <1>5, <1>8, <1>9, <1>10, <1>11

(* A failure stays one.                                                    *)
Spent == failed /\ \A k \in 1..Len(todo) : todo[k] # Catch("edid")

LEMMA StepSpent ==
  ASSUME Typed, Followed(todo), Passing, op \in Presenters, Spent
  PROVE  Spent'
<1>1. Passes /\ todo \in Seq(Vocabulary(op)) /\ todo # << >>
  BY PassingPasses DEF Typed, Passes
<1>2. failed'
  <2>1. CASE Command
    BY <2>1 DEF Command, Spent
  <2>2. CASE CatchError
    <3>1. /\ Head(todo).what = "catch" /\ failed
          /\ failed' = (failed /\ Head(todo).arg \notin {"edid", "forget"})
      BY <2>2 DEF CatchError, Spent
    <3>2. Head(todo) \in Catches /\ Belongs(Head(todo), op) /\ Head(todo) = todo[1]
          /\ 1 \in 1..Len(todo)
      BY <1>1, <3>1, FirstItem, Kinds
    <3>3. Head(todo).arg # "edid"
      <4>1. Head(todo) # Catch("edid")
        BY <3>2 DEF Spent
      <4> QED
        BY <3>1, <3>2, <4>1, Names DEF Catches
    <3>4. Head(todo).arg # "forget"
      BY <3>1, <3>2 DEF Belongs, Presenters
    <3> QED
      BY <3>1, <3>3, <3>4
  <2>3. CASE ~Command /\ ~CatchError
    BY <2>3 DEF Passing, Unready, Alive, Ready, Refuse, Late, Matched, Expire, Known, Goes,
       callers, Spent
  <2> QED
    BY <2>1, <2>2, <2>3
<1>3. PICK f \in [1..Len(todo') -> 1..Len(todo)] :
         \A i \in 1..Len(todo') : todo'[i] = todo[f[i]]
  BY <1>1, PassesThins DEF Thins
<1>4. \A k \in 1..Len(todo') : todo'[k] # Catch("edid")
  BY <1>3 DEF Spent
<1> QED
  BY <1>2, <1>4 DEF Spent

LEMMA SplicedShows ==
  ASSUME Typed, Once, Splicing, Next, op \in Presenters, Chunks \in Nat, Spent \/ Shows(todo)
  PROVE  Spent' \/ Shows(todo)'
<1>1. /\ op' = op /\ todo # << >> /\ todo' = Splice \o Tail(todo)
      /\ Splice \in Seq(Vocabulary(op)) /\ failed' = failed /\ chip' = chip /\ pin' = pin
      /\ \/ AtStep("edid") /\ Splice = Load
         \/ AtStep("alive") /\ Splice = Again
  BY Spliced DEF Load, Again, Presenters
<1>2. /\ todo \in Seq(Vocabulary(op)) /\ Tail(todo) \in Seq(Vocabulary(op))
      /\ Head(todo) = todo[1] /\ Len(todo) \in Nat \ {0} /\ Len(Tail(todo)) = Len(todo) - 1
      /\ \A i \in 1..Len(todo) - 1 : Tail(todo)[i] = todo[i + 1]
  BY <1>1, TailPlaces DEF Typed
<1> DEFINE wm == {Write("hpd", 0, 1)}
           pm == {SetPin("hpd", 0)}
           raised == chip.hpd
           low == pin.hpd = 0
<1>3. Shows(todo) => Ends(todo, wm, Unseeing, raised) /\ Ends(todo, pm, HpdPins, low)
  BY ShowsShowing DEF Showing
<1>4. Ends(todo', wm, Unseeing, raised) /\ Ends(todo', pm, HpdPins, low) => Shows(todo)'
  BY <1>1, ShowsShowing DEF Showing
<1>5. Head(todo) \notin wm \cup pm
  <2>1. Head(todo).what = "step"
    BY <1>1, Names DEF AtStep
  <2> QED
    BY <2>1, Fields
<1> HIDE DEF wm, pm, raised, low
<1>6. ASSUME Shows(todo),
             Head(todo) \notin Unseeing => Free(Splice, Unseeing),
             Head(todo) \notin HpdPins => Free(Splice, HpdPins)
      PROVE  Shows(todo)'
  <2>1. Head(todo) \notin wm /\ Head(todo) \notin pm
    BY <1>5
  <2>2. Ends(todo, wm, Unseeing, raised) /\ Ends(todo, pm, HpdPins, low)
    BY <1>3, <1>6
  <2>3. Ends(Splice \o Tail(todo), wm, Unseeing, raised)
    BY <1>1, <1>2, <1>6, <2>1, <2>2, EndsSplice, ZenonT(60)
  <2>4. Ends(Splice \o Tail(todo), pm, HpdPins, low)
    BY <1>1, <1>2, <1>6, <2>1, <2>2, EndsSplice, ZenonT(60)
  <2> QED
    BY <1>1, <1>4, <2>3, <2>4
<1>7. CASE AtStep("edid") /\ Splice = Load
  <2>1. ~failed
    <3>1. 1 \in 1..Len(todo) /\ todo[1] = Step("edid")
      BY <1>2, <1>7 DEF AtStep
    <3> QED
      BY <3>1 DEF Once
  <2>2. Shows(todo)
    BY <2>1 DEF Spent
  <2>3. Free(Splice, Unseeing) /\ Free(Splice, HpdPins)
    BY <1>7, LoadFree DEF Free, Unseeing
  <2> QED
    BY <1>6, <2>2, <2>3
<1>8. CASE AtStep("alive") /\ Splice = Again
  <2>1. Head(todo) \in Unseeing
    BY <1>8 DEF AtStep, Unseeing, Wakes
  <2>2. Free(Splice, HpdPins)
    <3>1. \A k \in 1..6 : Again[k].what = "pin" => Again[k].arg = "reset"
      BY OpeningItems, Fields, Names
    <3>2. \A x \in HpdPins : x.what = "pin" /\ x.arg = "hpd"
      BY Classes, Fields DEF HpdPins
    <3>3. Len(Again) = 6
      BY OpeningItems
    <3> QED
      BY <1>8, <3>1, <3>2, <3>3 DEF Free
  <2>3. ASSUME Spent PROVE Spent'
    <3>1. \A k \in 1..Len(Splice) : Splice[k] # Catch("edid")
      <4>1. Catch("edid").what = "catch"
        BY Names
      <4> QED
        BY <1>8, <4>1, PlainPieces DEF Plain
    <3>2. /\ Len(todo') = Len(Splice) + Len(Tail(todo)) /\ Len(Splice) \in Nat
          /\ \A i \in 1..Len(Splice) : todo'[i] = Splice[i]
          /\ \A i \in 1..Len(Tail(todo)) : todo'[Len(Splice) + i] = Tail(todo)[i]
      BY <1>1, <1>2, JoinPlaces
    <3>3. \A i \in 1..Len(Tail(todo)) : Tail(todo)[i] # Catch("edid")
      BY <1>2, <2>3 DEF Spent
    <3>4. ASSUME NEW k \in 1..Len(todo'), k \notin 1..Len(Splice)
          PROVE  k - Len(Splice) \in 1..Len(Tail(todo)) /\ Len(Splice) + (k - Len(Splice)) = k
      BY <1>2, <3>2, <3>4
    <3>5. ASSUME NEW k \in 1..Len(todo') PROVE todo'[k] # Catch("edid")
      <4>1. CASE k \in 1..Len(Splice)
        BY <3>1, <3>2, <4>1
      <4>2. CASE k \notin 1..Len(Splice)
        <5>1. todo'[k] = Tail(todo)[k - Len(Splice)]
          BY <3>2, <3>4, <4>2
        <5> QED
          BY <3>3, <3>4, <4>2, <5>1
      <4> QED
        BY <4>1, <4>2
    <3> QED
      BY <1>1, <2>3, <3>5 DEF Spent
  <2> QED
    BY <1>6, <2>1, <2>2, <2>3
<1> QED
  BY <1>1, <1>7, <1>8

LEMMA StepPresented ==
  ASSUME Typed, Followed(todo), Banked, Power, Revived, Once, Presented, Next, Chunks \in Nat
  PROVE  Presented'
<1>1. Presented = IF op \in Presenters THEN Spent \/ Shows(todo) \/ (op # "bringup" /\ ~ready)
                  ELSE ready /\ ~down => Seen
  BY DEF Presented, Presenters, Spent
<1>2. Presented' = IF op' \in Presenters THEN Spent' \/ Shows(todo)' \/ (op' # "bringup" /\ ~ready')
                   ELSE ready' /\ ~down' => Seen'
  BY DEF Presented, Presenters, Spent
<1>0. Passing \/ Splicing \/ (Leaving /\ ~End) =>
         op' = op /\ (op # "bringup" /\ ready' => ready)
  <2>1. Passing \/ Splicing \/ Note \/ Borrow \/ Scan => op' = op
    BY PassingPasses, Spliced DEF Note, Borrow, Scan, others
  <2>2. op # "bringup" /\ ready' => ready
    BY ReadyMoves, StepOwners DEF Ready
  <2> QED
    BY <2>1, <2>2 DEF Leaving
<1>3. CASE op' \notin Presenters /\ op \in Presenters
  <2>1. End
    <3>1. Passing \/ Splicing \/ Fetching \/ Note \/ Borrow \/ Scan => op' = op
      BY PassingPasses, Spliced, Fetched DEF Note, Borrow, Scan, others
    <3>2. Beginning => op = "idle"
      BY Begun
    <3> QED
      BY <1>3, <3>1, <3>2, Actions DEF Leaving, Presenters
  <2>2. /\ todo = << >> /\ down' = failed /\ chip' = chip /\ pin' = pin
        /\ ready' = (ready /\ ~(op = "bringup" /\ failed))
    BY <1>3, <2>1 DEF End, Presenters
  <2>3. ASSUME ~down', ready' PROVE Seen'
    <3>0. ~failed /\ ready
      BY <2>2, <2>3
    <3>1. Shows(<< >>)
      BY <1>1, <1>3, <2>2, <3>0 DEF Spent
    <3>2. Seen
      BY <3>1, ShowsShowing, ShownAtEnd
    <3> QED
      BY <2>2, <3>2 DEF Seen
  <2> QED
    BY <1>2, <1>3, <2>3
<1>4. CASE op' \notin Presenters /\ op \notin Presenters
  <2>1. ready' => ready
    BY <1>4, ReadyMoves, StepOwners DEF Ready, Presenters
  <2>2. down' = down
    <3>1. CASE End
      BY <1>4, <3>1 DEF End, Presenters
    <3> QED
      BY <3>1, DownMoves
  <2> QED
    BY <1>1, <1>2, <1>4, <2>1, <2>2, SeenKept
<1>5. CASE op' \in Presenters /\ Beginning
  <2>1. todo' = Bringup \/ todo' = Present \/ todo' = Pulse
    BY <1>5, Begun DEF Presenters
  <2>2. Showing(todo', chip'.hpd, pin'.hpd = 0)
    BY <2>1, ShowsLists, Zenon
  <2> QED
    BY <1>2, <1>5, <2>2, ShowsShowing
<1>6. CASE op' \in Presenters /\ Passing
  <2>1. op \in Presenters /\ op' = op /\ (op # "bringup" /\ ready' => ready)
    BY <1>0, <1>6
  <2>2. CASE op # "bringup" /\ ~ready'
    BY <1>2, <1>6, <2>1, <2>2
  <2>3. CASE op = "bringup" \/ ready'
    <3>1. op = "bringup" \/ ready
      BY <2>1, <2>3
    <3>2. Spent \/ Shows(todo)
      BY <1>1, <2>1, <3>1
    <3> QED
      BY <1>2, <1>6, <2>1, <3>1, <3>2, StepSpent, StepPassingShows DEF Spent
  <2> QED
    BY <2>2, <2>3
<1>7. CASE op' \in Presenters /\ Splicing
  <2>1. op \in Presenters /\ op' = op /\ (op # "bringup" /\ ready' => ready)
    BY <1>0, <1>7
  <2>2. CASE op # "bringup" /\ ~ready'
    BY <1>2, <1>7, <2>1, <2>2
  <2>3. CASE op = "bringup" \/ ready'
    <3>1. Spent \/ Shows(todo)
      BY <1>1, <2>1, <2>3
    <3> QED
      BY <1>2, <1>7, <2>1, <3>1, SplicedShows
  <2> QED
    BY <2>2, <2>3
<1>8. CASE op' \in Presenters /\ Fetching
  BY <1>8, Fetched DEF Presenters
<1>9. CASE op' \in Presenters /\ Leaving
  <2>1. /\ op' = op /\ todo' = todo /\ failed' = failed /\ chip' = chip /\ pin' = pin
    BY <1>9 DEF Leaving, End, Note, Borrow, Scan, others, Presenters
  <2>2. Shows(todo) => Shows(todo)'
    BY <2>1, ShowsShowing
  <2>3. op # "bringup" /\ ready' => ready
    BY ReadyMoves, StepOwners DEF Ready
  <2> QED
    BY <1>1, <1>2, <1>9, <2>1, <2>2, <2>3 DEF Spent
<1> QED
  BY <1>3, <1>4, <1>5, <1>6, <1>7, <1>8, <1>9, Actions

-----------------------------------------------------------------------------
(***************************************************************************)
(* The invariant is inductive, and what it implies.                        *)
(***************************************************************************)
LEMMA InitInv ==
  ASSUME Options \subseteq [async : BOOLEAN, windows : BOOLEAN], Init PROVE IInv
<1>1. /\ op = "idle" /\ todo = << >> /\ failed = FALSE /\ ready = FALSE /\ locked = FALSE
      /\ note = FALSE /\ matched = FALSE /\ down = FALSE /\ stuck = FALSE
      /\ once = FALSE /\ borrowed = FALSE
      /\ chip = Blank /\ output = Pins /\ stray = {} /\ right \in BOOLEAN
      /\ opt \in [async : BOOLEAN, windows : BOOLEAN] /\ pin \in [hpd : {0, 1}, mux : {0}]
  BY DEF Init
<1>2. \A k \in 1..Len(todo) : FALSE
  BY <1>1
<1>3. \A needs, makes, breaks, now : Kept(todo, needs, makes, breaks, now)
  BY <1>2 DEF Kept
<1>4. /\ Blank \in [alive : BOOLEAN, bank : Banks, hpd : BOOLEAN, auto : BOOLEAN,
                   frozen : BOOLEAN, latched : BOOLEAN]
      /\ Blank.alive = FALSE /\ Blank.frozen = FALSE
  BY DEF Blank, Banks
<1>5. Typed
  <2>1. todo \in Seq(Vocabulary(op))
    BY <1>1
  <2>2. pin \in [hpd : {0, 1}, mux : {0, 1}]
    <3>1. {0} \subseteq {0, 1}
      OBVIOUS
    <3> QED
      BY <1>1, <3>1
  <2> QED
    BY <1>1, <1>4, <2>1, <2>2 DEF Typed
<1>6. Followed(todo) /\ Once
  BY <1>2 DEF Followed, Once
<1>7. Banked
  BY <1>1, <1>3 DEF Banked
<1>8. Power
  BY <1>1, <1>3, <1>4 DEF Power
<1>9. Revived /\ Latched
  BY <1>1 DEF Revived, Latched
<1>10. Settled /\ Hidden
  BY <1>1, <1>3 DEF Settled, Hidden
<1>11. Thaws
  BY <1>1, <1>2, <1>4 DEF Thaws, Undone
<1>12. Presented
  BY <1>1 DEF Presented
<1> QED
  BY <1>5, <1>6, <1>7, <1>8, <1>9, <1>10, <1>11, <1>12 DEF IInv

LEMMA StepInv ==
  ASSUME Chunks \in Nat, IInv, [Next]_vars
  PROVE  IInv'
<1>1. CASE Next
  <2>1. /\ Typed /\ Followed(todo) /\ Banked /\ Power /\ Revived /\ Latched /\ Settled
        /\ Thaws /\ Hidden /\ Once /\ Presented
    BY DEF IInv
  <2>2. Typed' /\ Followed(todo')
    BY <1>1, <2>1, StepTyped
  <2>3. Banked' /\ Power' /\ Revived'
    BY <1>1, <2>1, StepBanked, StepPower, StepRevived
  <2>4. Latched' /\ Settled' /\ Thaws'
    BY <1>1, <2>1, StepLatched, StepSettled, StepThaws
  <2>5. Hidden' /\ Once' /\ Presented'
    BY <1>1, <2>1, StepHidden, StepOnce, StepPresented
  <2> QED
    BY <2>2, <2>3, <2>4, <2>5 DEF IInv
<1>2. CASE UNCHANGED vars
  <2>1. /\ Typed' = Typed /\ Followed(todo)' = Followed(todo) /\ Banked' = Banked
        /\ Power' = Power /\ Revived' = Revived /\ Hidden' = Hidden /\ Once' = Once
    BY <1>2 DEF vars, Typed, Banked, Power, Live, Revived, Hidden, Once
  <2>2. Latched' = Latched /\ Settled' = Settled /\ Thaws' = Thaws
    BY <1>2 DEF vars, Latched, AtStep, Settled, Thaws
  <2>3. Presented' = Presented
    BY <1>2 DEF vars, Presented, Shows, Seen
  <2> QED
    BY <2>1, <2>2, <2>3 DEF IInv
<1> QED
  BY <1>1, <1>2

(* What the code relies on when it looks at the receiver.                  *)
LEMMA Safe ==
  ASSUME IInv
  PROVE  /\ TypeOK /\ EdidUnseen /\ ReadyIsPresented /\ Thawed /\ MatchedIsSettled
         /\ OwnLockIsLatched /\ OnlyCscStrays
<1>1. /\ Typed /\ Banked /\ Power /\ Latched /\ Settled /\ Thaws /\ Hidden /\ Presented
      /\ op = "idle" => todo = << >>
  BY Idle DEF IInv
<1>2. TypeOK
  <2>1. \A k \in 1..Len(todo) : todo[k].what \in Commands \cup {"step", "catch"}
    <3> SUFFICES ASSUME NEW k \in 1..Len(todo)
                 PROVE  todo[k].what \in Commands \cup {"step", "catch"}
      OBVIOUS
    <3>1. todo[k] \in Vocabulary(op)
      BY <1>1 DEF Typed
    <3> QED
      BY <3>1, Kinds DEF Vocabulary
  <2>2. /\ op \in Operations \cup {"idle"}
        /\ op = "idle" => todo = <<>> /\ ~failed
        /\ chip.bank \in Banks /\ output \subseteq Pins
        /\ pin \in [hpd : {0, 1}, mux : {0, 1}]
    BY <1>1 DEF Typed
  <2>3. stray \subseteq Operations
    BY <1>1 DEF Banked, Operations
  <2>4. ready => chip.alive /\ right /\ Pins \ {"mux"} \subseteq output
    BY <1>1 DEF Power, Live, Pins
  <2> QED
    BY <2>1, <2>2, <2>3, <2>4 DEF TypeOK
<1>3. EdidUnseen
  <2> SUFFICES ASSUME todo # << >>, Head(todo).what = "edid" PROVE pin.hpd = 1
    BY DEF EdidUnseen, Seen
  <2>1. Head(todo) \in EdidChunks \cup {Step("edid")} /\ todo \in Seq(Vocabulary(op))
    BY <1>1, FirstItem, Kinds DEF Typed
  <2> DEFINE needs == EdidChunks \cup {Step("edid")}
  <2>2. Kept(todo, needs, {SetPin("hpd", 1)}, HpdPins, pin.hpd = 1)
    BY <1>1 DEF Hidden
  <2>3. Head(todo) \in needs
    BY <2>1
  <2> HIDE DEF needs
  <2> QED
    BY <2>1, <2>2, <2>3, FirstNow
<1>4. ReadyIsPresented
  BY <1>1 DEF Presented, ReadyIsPresented
<1>5. Thawed
  <2>1. ~Undoes(<< >>, 0)
    <3>1. \A k : k \notin 1..Len(<< >>)
      OBVIOUS
    <3> QED
      BY <3>1 DEF Undoes, Holds
  <2> QED
    BY <1>1, <2>1 DEF Thaws, Thawed
<1>6. MatchedIsSettled /\ OwnLockIsLatched /\ OnlyCscStrays
  BY <1>1 DEF Settled, MatchedIsSettled, Latched, OwnLockIsLatched, Banked, OnlyCscStrays
<1> QED
  BY <1>2, <1>3, <1>4, <1>5, <1>6
=============================================================================
