-------------------------- MODULE RawDeliveryProofs -------------------------
(***************************************************************************)
(* Proofs about RawDelivery, for every number of slots, set of layouts and *)
(* number of pictures, buffers and calls.                                  *)
(*                                                                         *)
(* What makes the worker right is a statement about each slot: unless the  *)
(* card started on it while it was wanted (lapped), or the worker handled  *)
(* it by another geometry (resized), a slot is cleared, or being filled    *)
(* and not yet taken for a picture, or blank, or its luma rows are one     *)
(* picture.  The worker only takes slots of the last sort, and while it    *)
(* holds one the card cannot start on it without lapping it.  Without a    *)
(* lap, a drop or a moved geometry since the restart, the pictures not     *)
(* delivered yet are the newest ones, and the rotation stands at the       *)
(* oldest of them.                                                         *)
(***************************************************************************)
EXTENDS RawDelivery, WellFoundedInduction, TLAPS

(* There are slots and raw layouts, and H.264 is not a layout.             *)
Sizes ==
    /\ Slots \in Nat \ {0} /\ MaxFrames \in Nat /\ MaxBuffers \in Nat
    /\ MaxCalls \in Nat
    /\ Layouts # {} /\ H264 \notin Layouts /\ None.kind \notin Layouts

-----------------------------------------------------------------------------
(***************************************************************************)
(* The inductive invariant.                                                *)
(***************************************************************************)
Plain == Cells \ Sentinels

(* The card is in slot s; it has not filled the luma rows yet.             *)
Writing(s) == card.phase # "idle" /\ card.slot = s
Early(s) == Writing(s) /\ (card.phase = "clear" \/ card.at <= 4)

Holding == w.pc \in {"arm", "copy", "verify"}
Copying(s) == w.pc \in {"copy", "verify"} /\ w.s = s
Copied(c) == (w.pc = "verify" /\ c <= End) \/ (w.pc = "copy" /\ c < w.at)

(* Slots about which nothing is claimed.                                   *)
Spoilt == lapped \cup resized

(* No sentinel of the card's geometry is poison.                           *)
Whole(s) == \A c \in Sentinels : slot[s][c] # Poison

(* The slot the card writes picture g into.                                *)
Home(g) == (g - 1 - base) % Slots

CardType ==
    card \in [phase : {"idle", "clear", "fill"}, slot : SlotIds,
              gen : 0..MaxFrames, at : Cells]
SlotType == slot \in [SlotIds -> [Cells -> Values]]
FormatType ==
    /\ raw \in BOOLEAN /\ layout \in Layouts /\ pending \in BOOLEAN
    /\ size \in Geometries
    /\ saved \in {None} \cup [kind : {"try"}, raw : BOOLEAN, layout : Layouts,
                              size : Geometries]
    /\ tries \in 0..MaxCalls
AppType ==
    /\ app \in {"idle", "ready", "starting", "streaming", "stopping"}
    /\ planes \in [raw : BOOLEAN, size : Geometries, tried : BOOLEAN]
    /\ queued \in 0..MaxBuffers + 1
    /\ running \in BOOLEAN /\ cardRaw \in BOOLEAN
WorkerType ==
    w \in [pc : {"idle", "take", "arm", "copy", "verify"}, s : SlotIds,
           frame : Geometries, keep : [Cells -> Values],
           dst : [Cells -> Values], at : Cells, as : Layouts \cup {H264},
           tried : BOOLEAN]
OutType ==
    out \in {None} \cup [kind : Layouts \cup {H264}, cells : [Cells -> Values],
                         sized : BOOLEAN, tried : BOOLEAN, moved : BOOLEAN,
                         resized : BOOLEAN, lapped : BOOLEAN]
HistoryType ==
    /\ next \in SlotIds /\ given \subseteq Values /\ lapped \subseteq SlotIds
    /\ resized \subseteq SlotIds
    /\ behind \in BOOLEAN /\ base \in 0..MaxFrames /\ base <= card.gen

Types == /\ CardType /\ SlotType /\ FormatType /\ AppType /\ WorkerType
         /\ OutType /\ HistoryType

(* Who runs when, and who has the buffers.                                 *)
Sessions ==
    /\ card.phase # "idle" => running
    /\ app = "starting" => ~running /\ w.pc = "idle"
    /\ Holding => /\ app \in {"streaming", "stopping"} /\ planes.raw
                  /\ queued <= MaxBuffers

(* The planes were sized for what the node delivers.                       *)
Kinds ==
    /\ app # "idle" /\ ~planes.tried
           => planes.raw = IF saved = None THEN raw ELSE saved.raw
    /\ Copied(ChromaAt) => w.as \in Layouts
    /\ KindFitsPlanes

(* The card writes a slot from its first cell to its last, so a slot whose *)
(* last sentinel was written has no poison where no sentinel is put.       *)
Written ==
    /\ \A s \in SlotIds \ resized :
         slot[s][6] # Poison => \A d \in Plain : slot[s][d] # Poison
    /\ card.phase # "idle" /\ card.slot \notin resized =>
         \A d \in Plain : card.phase = "fill" \/ d < card.at
                             => slot[card.slot][d] # Poison
    /\ Holding /\ w.s \notin resized =>
         /\ w.frame = "full"
         /\ \A d \in Plain : slot[w.s][d] # Poison
         /\ \A c \in Sentinels : w.keep[c] # Poison
         /\ \A d \in Plain : Copied(d) => w.dst[d] # Poison
    /\ NoPoison

(* Pictures are numbered, and each has a slot of its own.                  *)
Mine(g, s) == g > Clear => g \in base + 1..card.gen /\ Home(g) = s
Numbers ==
    /\ card.phase # "idle" => card.gen > base /\ card.slot = Home(card.gen)
    /\ \A s \in SlotIds : \A c \in Cells : Mine(slot[s][c], s)
    /\ \A c \in Cells : Copied(c) => Mine(w.dst[c], w.s)
    /\ \A g \in given : g <= card.gen

(* A slot the card has not come round to.                                  *)
Full(s) ==
    /\ slot[s][3] > Clear /\ slot[s][1] = slot[s][3]
    /\ slot[s][2] = Poison \/ slot[s][2] = slot[s][3]
Cleared(s) ==
    \A c \in Cells : /\ c < card.at => slot[s][c] = Clear
                     /\ c >= card.at /\ c \in Sentinels => slot[s][c] = Poison
Filling(s) ==
    \A c \in Cells : slot[s][c] = IF c < card.at THEN card.gen ELSE Clear
Sound(s) ==
    /\ Writing(s) /\ card.phase = "clear" => Cleared(s)
    /\ Writing(s) /\ card.phase = "fill" /\ card.at <= 4 => Filling(s)
    /\ ~Early(s) => \/ Full(s)
                    \/ ~Writing(s) /\ \A c \in Cells : slot[s][c] = Poison

(* What the worker took of it.                                             *)
Taken ==
    /\ ~Early(w.s) /\ Full(w.s) /\ slot[w.s][3] \notin given
    /\ Holding => w.frame = "full" /\ w.keep[2] = slot[w.s][3]
    /\ Copying(w.s) =>
         /\ slot[w.s][2] = Poison
         /\ Copied(1) => w.dst[1] = slot[w.s][3]
         /\ Copied(3) => w.dst[3] = slot[w.s][3]

Laps ==
    /\ \A s \in SlotIds \ Spoilt : Sound(s)
    /\ w.pc # "idle" /\ w.s \notin Spoilt => Taken
    /\ LumaWhole /\ NothingFromBefore

(* A picture that was delivered is in a slot that is armed.                *)
Once ==
    /\ \A s \in SlotIds \ Spoilt :
         ~Early(s) /\ slot[s][3] > Clear /\ slot[s][3] \in given
             => slot[s][2] = Poison
    /\ card.slot \notin Spoilt /\ Early(card.slot) => card.gen \notin given

(* The pictures up to l were delivered; those after l wait in their slots. *)
Waiting(g, s) ==
    /\ g < card.gen => ~Writing(s)
    /\ ~Early(s) => /\ slot[s][3] = g /\ slot[s][4] = g
                    /\ Whole(s) \/ Copying(s)
UpTo(l) ==
    /\ \A g \in given : g > base => g <= l
    /\ base + 1..l \subseteq given
    /\ next = (l - base) % Slots
    /\ w.pc # "idle" => w.s = next /\ l < card.gen /\ slot[next][3] = l + 1
    /\ \A g \in l + 1..card.gen, s \in SlotIds : s = Home(g) => Waiting(g, s)
Rotation == ~behind => Spoilt = {} /\ \E l \in base..card.gen : UpTo(l)

IInv == /\ Types /\ Sessions /\ Kinds /\ Written /\ Numbers /\ Laps /\ Once
        /\ Rotation

-----------------------------------------------------------------------------
(***************************************************************************)
(* Division, and what the updates of the slots do cell by cell.            *)
(***************************************************************************)
LEMMA Multiples ==
  ASSUME NEW n \in Nat \ {0}, NEW k \in Int
  PROVE  /\ k >= 1 => n * k >= n
         /\ k <= -1 => n * k <= -n
OBVIOUS

LEMMA Division ==
  ASSUME NEW n \in Nat \ {0}, NEW a \in Int
  PROVE  /\ a \div n \in Int /\ a % n \in 0..n - 1
         /\ a = n * (a \div n) + (a % n)
<1>1. a \div n \in Int /\ a % n \in 0..n - 1
  OBVIOUS
<1>2. a = n * (a \div n) + (a % n)
  OBVIOUS
<1> QED
  BY <1>1, <1>2

LEMMA Remainder ==
  ASSUME NEW n \in Nat \ {0}, NEW a \in Int, NEW q \in Int, NEW r \in 0..n - 1,
         a = n * q + r
  PROVE  a % n = r
<1> DEFINE p == a \div n
           s == a % n
<1>1. p \in Int /\ a = n * p + s /\ s \in 0..n - 1
  BY Division
<1> HIDE DEF p, s
<1>2. n * p \in Int /\ n * q \in Int
  BY <1>1
<1>3. n * p - n * q = r - s
  BY <1>1, <1>2
<1>4. n * p - n * q = n * (p - q)
  BY <1>1
<1>5. p - q \in Int /\ r - s < n /\ r - s > -n
  BY <1>1
<1>6. ~(p - q >= 1) /\ ~(p - q <= -1)
  BY <1>3, <1>4, <1>5, Multiples
<1>7. n * (p - q) = 0
  <2>1. p - q = 0
    BY <1>5, <1>6
  <2> QED
    BY <2>1
<1> QED
  BY <1>1, <1>3, <1>4, <1>7 DEF s

LEMMA NextRemainder ==
  ASSUME NEW n \in Nat \ {0}, NEW a \in Int
  PROVE  (a + 1) % n = ((a % n) + 1) % n
<1> DEFINE p == a \div n
           s == a % n
<1>1. p \in Int /\ a = n * p + s /\ s \in 0..n - 1
  BY Division
<1> HIDE DEF p, s
<1>2. CASE s + 1 < n
  <2>1. a + 1 = n * p + (s + 1) /\ s + 1 \in 0..n - 1
    BY <1>1, <1>2
  <2>2. (a + 1) % n = s + 1
    BY <2>1, <1>1, Remainder
  <2>3. (s + 1) % n = s + 1
    BY <2>1
  <2> QED
    BY <2>2, <2>3 DEF s
<1>3. CASE s + 1 = n
  <2>1. n * (p + 1) = n * p + n
    BY <1>1
  <2>2. a + 1 = n * (p + 1) + 0 /\ n = n * 1 + 0
    BY <1>1, <1>3, <2>1
  <2>3. (a + 1) % n = 0
    BY <2>2, <1>1, Remainder
  <2>4. n % n = 0
    BY <2>2, Remainder
  <2> QED
    BY <2>3, <2>4, <1>3 DEF s
<1> QED
  BY <1>1, <1>2, <1>3

LEMMA HomeIsSlot ==
  ASSUME Sizes, Types, NEW g \in Int
  PROVE  Home(g) \in SlotIds
<1>1. Slots \in Nat \ {0} /\ g - 1 - base \in Int
  BY DEF Sizes, Types, HistoryType
<1> QED
  BY <1>1, Division DEF Home, SlotIds

LEMMA CellsAre ==
  /\ Cells = {1, 2, 3, 4, 5, 6} /\ Sentinels = {2, 5, 6} /\ Plain = {1, 3, 4}
  /\ Luma = {1, 2, 3} /\ Chroma = {4, 5, 6} /\ Last = 6
BY DEF Cells, Sentinels, Plain, Luma, Chroma, Last

LEMMA WrittenCell ==
  ASSUME SlotType, NEW s \in SlotIds, NEW c \in Cells, NEW v \in Values,
         slot' = [slot EXCEPT ![s][c] = v]
  PROVE  /\ SlotType'
         /\ \A t \in SlotIds : \A d \in Cells :
              slot'[t][d] = IF t = s /\ d = c THEN v ELSE slot[t][d]
<1> USE DEF SlotType
<1> HIDE DEF SlotIds, Cells, Values
<1>1. slot' = [slot EXCEPT ![s] = [slot[s] EXCEPT ![c] = v]]
  OBVIOUS
<1>2. [slot[s] EXCEPT ![c] = v] \in [Cells -> Values]
  OBVIOUS
<1>3. slot' \in [SlotIds -> [Cells -> Values]]
  BY <1>1, <1>2
<1>4. ASSUME NEW t \in SlotIds, NEW d \in Cells
      PROVE  slot'[t][d] = IF t = s /\ d = c THEN v ELSE slot[t][d]
  BY <1>1
<1> QED
  BY <1>3, <1>4 DEF Values

LEMMA RepoisonedCells ==
  ASSUME SlotType, NEW s \in SlotIds, slot' = Repoisoned(s)
  PROVE  /\ SlotType'
         /\ \A t \in SlotIds : \A d \in Cells :
              slot'[t][d] = IF t = s /\ d \in SentinelsOf(size) THEN Poison ELSE slot[t][d]
<1> DEFINE row == [c \in Cells |-> IF c \in SentinelsOf(size) THEN Poison ELSE slot[s][c]]
<1>1. row \in [Cells -> Values]
  BY DEF SlotType, Values
<1>2. \A d \in Cells : row[d] = IF d \in SentinelsOf(size) THEN Poison ELSE slot[s][d]
  OBVIOUS
<1>3. slot' = [slot EXCEPT ![s] = row]
  BY DEF Repoisoned
<1> HIDE DEF row
<1>4. slot' \in [SlotIds -> [Cells -> Values]]
  BY <1>1, <1>3 DEF SlotType
<1>5. \A t \in SlotIds : slot'[t] = IF t = s THEN row ELSE slot[t]
  BY <1>3 DEF SlotType
<1> QED
  BY <1>2, <1>4, <1>5 DEF SlotType, Values

-----------------------------------------------------------------------------
(***************************************************************************)
(* The rotation finds a slot that is ready, and the next one if that is.   *)
(***************************************************************************)
LEMMA LeastOf ==
  ASSUME NEW T \in SUBSET Nat, T # {}
  PROVE  \E m \in T : \A k \in T : m <= k
<1>1. \E x \in T : \A y \in T : ~(<<y, x>> \in OpToRel(<, Nat))
  BY NatLessThanWellFounded, WFMin, Zenon
<1>2. PICK x \in T : \A y \in T : ~(y < x)
  BY <1>1, Zenon DEF OpToRel
<1> QED
  BY <1>2

LEMMA FirstReadyIsReady ==
  ASSUME Sizes, next \in SlotIds, Ready # {}
  PROVE  /\ FirstReady \in Ready /\ FirstReady \in SlotIds
         /\ next \in Ready => FirstReady = next
<1> DEFINE Near(j) == /\ Rotated(j) \in Ready
                      /\ \A k \in 0..j - 1 : Rotated(k) \notin Ready
           i == CHOOSE j \in 0..Slots - 1 : Near(j)
           T == {j \in 0..Slots - 1 : Rotated(j) \in Ready}
<1>1. Slots \in Nat \ {0} /\ next \in 0..Slots - 1 /\ Ready \subseteq 0..Slots - 1
  BY DEF Sizes, SlotIds, Ready
<1>2. ASSUME NEW t \in 0..Slots - 1
      PROVE  \E j \in 0..Slots - 1 : Rotated(j) = t
  <2>1. CASE t >= next
    <3>1. t - next \in 0..Slots - 1 /\ next + (t - next) = Slots * 0 + t
      BY <1>1, <2>1
    <3>2. (next + (t - next)) % Slots = t
      BY <1>1, <3>1, Remainder
    <3> QED
      BY <3>1, <3>2 DEF Rotated
  <2>2. CASE t < next
    <3> DEFINE j == t - next + Slots
    <3>1. j \in 0..Slots - 1 /\ next + j = Slots * 1 + t
      BY <1>1, <2>2
    <3>2. (next + j) % Slots = t
      BY <1>1, <3>1, Remainder
    <3> QED
      BY <3>1, <3>2 DEF Rotated
  <2> QED
    BY <1>1, <2>1, <2>2
<1>3. T # {} /\ T \in SUBSET Nat
  <2>1. PICK t \in 0..Slots - 1 : t \in Ready
    BY <1>1
  <2>2. PICK j \in 0..Slots - 1 : Rotated(j) = t
    BY <1>2
  <2>3. j \in T
    BY <2>1, <2>2
  <2>4. T \in SUBSET Nat
    BY <1>1
  <2> QED
    BY <2>3, <2>4
<1>4. PICK m \in T : \A k \in T : m <= k
  <2> HIDE DEF T
  <2> QED
    BY <1>3, LeastOf
<1>5. m \in 0..Slots - 1 /\ Near(m)
  BY <1>1, <1>4
<1>6. i \in 0..Slots - 1 /\ Near(i)
  <2> HIDE DEF Near
  <2> QED
    BY <1>5
<1>7. FirstReady = Rotated(i)
  BY DEF FirstReady
<1>8. FirstReady \in Ready
  BY <1>6, <1>7
<1>9. ASSUME next \in Ready PROVE FirstReady = next
  <2>1. next + 0 = Slots * 0 + next
    BY <1>1
  <2>2. Rotated(0) = next
    BY <1>1, <2>1, Remainder DEF Rotated
  <2>3. ~(i > 0)
    BY <1>1, <1>6, <1>9, <2>2
  <2> QED
    BY <1>6, <1>7, <2>2, <2>3
<1> QED
  BY <1>1, <1>8, <1>9 DEF SlotIds

-----------------------------------------------------------------------------
(***************************************************************************)
(* The initial states.                                                     *)
(***************************************************************************)
LEMMA BlankIs == Blank \in [Cells -> Values] /\ \A c \in Cells : Blank[c] = Poison
BY DEF Blank, Values

LEMMA IdleIs ==
  ASSUME Sizes
  PROVE  Idle \in [pc : {"idle"}, s : SlotIds, frame : {"full"},
                   keep : [Cells -> Values], dst : [Cells -> Values],
                   at : Cells, as : Layouts \cup {H264}, tried : BOOLEAN]
<1>1. 0 \in SlotIds /\ 1 \in Cells
  BY DEF Sizes, SlotIds, Cells, Last
<1> QED
  BY <1>1, BlankIs DEF Idle

LEMMA InitTypes == ASSUME Sizes, Init PROVE Types
<1> USE DEF Init
<1>1. 0 \in SlotIds /\ 1 \in Cells
  BY DEF Sizes, SlotIds, Cells, Last
<1>2. CardType
  BY <1>1 DEF CardType, Sizes
<1>3. SlotType
  BY BlankIs DEF SlotType
<1>4. FormatType
  <2>1. layout \in Layouts
    <3>1. \E l \in Layouts : TRUE
      BY DEF Sizes
    <3> QED
      BY <3>1
  <2>2. raw \in BOOLEAN /\ pending = FALSE /\ saved = None /\ tries = 0
        /\ size = "full"
    OBVIOUS
  <2> HIDE DEF Init
  <2>3. tries \in 0..MaxCalls
    BY <2>2 DEF Sizes
  <2> QED
    BY <2>1, <2>2, <2>3 DEF FormatType, Geometries
<1>5. AppType
  <2>1. app = "idle" /\ queued = 0
        /\ planes = [raw |-> FALSE, size |-> "full", tried |-> FALSE]
        /\ running = FALSE /\ cardRaw = FALSE
    OBVIOUS
  <2> HIDE DEF Init
  <2>2. queued \in 0..MaxBuffers + 1
    BY <2>1 DEF Sizes
  <2> QED
    BY <2>1, <2>2 DEF AppType, Geometries
<1>6. WorkerType
  BY IdleIs DEF WorkerType, Geometries
<1>7. OutType
  BY DEF OutType
<1>8. HistoryType
  <2>1. next = 0 /\ given = {} /\ lapped = {} /\ resized = {} /\ behind = FALSE
        /\ base = 0 /\ card.gen = 0
    OBVIOUS
  <2> HIDE DEF Init
  <2>2. base \in 0..MaxFrames /\ base <= card.gen
    BY <2>1 DEF Sizes
  <2> QED
    BY <1>1, <2>1, <2>2 DEF HistoryType
<1> QED
  BY <1>2, <1>3, <1>4, <1>5, <1>6, <1>7, <1>8 DEF Types

LEMMA InitInv == ASSUME Sizes, Init PROVE IInv
<1> USE DEF Init
<1>1. Types
  BY InitTypes
<1>2. w.pc = "idle" /\ card.phase = "idle" /\ card.gen = 0 /\ out = None
      /\ ~RawOut
  BY DEF Idle, None, RawOut, Sizes
<1>3. \A s \in SlotIds : \A c \in Cells : slot[s][c] = Poison
  BY BlankIs
<1>4. Sessions
  BY <1>2 DEF Sessions, Holding
<1>5. Kinds
  BY <1>2 DEF Kinds, Copied, KindFitsPlanes, None
<1>6. Written
  BY <1>2, <1>3, CellsAre DEF Written, Holding, NoPoison
<1>7. Numbers
  BY <1>2, <1>3 DEF Numbers, Copied, Mine, Poison, Clear
<1>8. Laps
  BY <1>2, <1>3 DEF Laps, Sound, Writing, LumaWhole, NothingFromBefore
<1>9. Once
  BY <1>2 DEF Once, Early, Writing
<1>10. Rotation
  <2>1. UpTo(0)
    <3>1. 0 = (0 - base) % Slots
      <4>1. Slots \in Nat \ {0}
        BY DEF Sizes
      <4>2. 0 = Slots * 0 + 0 /\ 0 \in 0..Slots - 1
        BY <4>1
      <4>3. 0 % Slots = 0
        BY <4>1, <4>2, Remainder
      <4> QED
        BY <4>3
    <3> QED
      BY <3>1, <1>2 DEF UpTo
  <2> QED
    BY <2>1, <1>2 DEF Rotation, Spoilt
<1> QED
  BY <1>1, <1>4, <1>5, <1>6, <1>7, <1>8, <1>9, <1>10 DEF IInv

-----------------------------------------------------------------------------
(***************************************************************************)
(* Types.                                                                  *)
(***************************************************************************)
LEMMA RestoredType ==
  ASSUME WorkerType
  PROVE  Restored \in [Cells -> Values]
<1>1. w.keep \in [Cells -> Values] /\ w.dst \in [Cells -> Values]
  BY DEF WorkerType
<1>2. \A c \in Cells : w.keep[c] \in Values /\ w.dst[c] \in Values
  BY <1>1
<1> QED
  BY <1>2 DEF Restored, Values

LEMMA CardTypes == ASSUME Sizes, Types, CardBegin \/ CardWrite PROVE Types'
<1>1. CASE CardBegin
  <2>1. card.gen \in 0..MaxFrames /\ card.gen < MaxFrames /\ base \in 0..card.gen
        /\ Slots \in Nat \ {0} /\ MaxFrames \in Nat
    BY <1>1 DEF CardBegin, Types, CardType, HistoryType, Sizes
  <2> DEFINE s == (card.gen - base) % Slots
  <2>2. s \in SlotIds
    <3>1. card.gen - base \in Int
      BY <2>1
    <3> QED
      BY <2>1, <3>1, Division DEF SlotIds
  <2>3. card' = [phase |-> "clear", slot |-> s, gen |-> card.gen + 1, at |-> 1]
        /\ lapped' \in {lapped \cup {s}, lapped \ {s}} /\ behind' \in BOOLEAN
        /\ resized' \in {resized, resized \ {s}}
        /\ UNCHANGED <<slot, raw, layout, size, saved, pending, tries, app, planes,
                       queued, running, cardRaw, next, w, out, given, base>>
    BY <1>1 DEF CardBegin, formatVars, appVars, Types, HistoryType
  <2> HIDE DEF s
  <2>4. card.gen + 1 \in 0..MaxFrames /\ base <= card.gen + 1 /\ 1 \in Cells
    BY <2>1 DEF Cells, Last
  <2>5. CardType'
    BY <2>2, <2>3, <2>4 DEF CardType, SlotIds
  <2>6. HistoryType'
    BY <2>2, <2>3, <2>4 DEF HistoryType, Types, SlotIds, Values
  <2> QED
    BY <2>3, <2>5, <2>6 DEF Types, SlotType, FormatType, AppType, WorkerType, OutType,
       SlotIds, Cells, Values
<1>2. CASE CardWrite
  <2>1. card.slot \in SlotIds /\ card.at \in Cells /\ card.gen \in 0..MaxFrames
    BY DEF Types, CardType
  <2> DEFINE v == IF card.phase = "clear" THEN Clear ELSE card.gen
  <2>2. v \in Values
    BY <2>1 DEF Values, Clear
  <2>3. SlotType'
    BY <1>2, <2>1, <2>2, WrittenCell DEF CardWrite, Types
  <2>4. CardType' /\ card'.gen = card.gen
    <3>1. CASE card.at < Last
      <4>1. card' = [card EXCEPT !.at = card.at + 1]
        BY <1>2, <3>1 DEF CardWrite
      <4>2. card.at + 1 \in Cells
        BY <2>1, <3>1 DEF Cells, Last
      <4> QED
        BY <4>1, <4>2 DEF CardType, Types, SlotIds, Cells
    <3>2. CASE ~(card.at < Last)
      <4> DEFINE p == IF card.phase = "clear" THEN "fill" ELSE "idle"
      <4>1. card' = [card EXCEPT !.at = 1, !.phase = p]
        BY <1>2, <3>2 DEF CardWrite
      <4>2. p \in {"idle", "clear", "fill"} /\ 1 \in Cells
        BY DEF Cells, Last
      <4> HIDE DEF p
      <4> QED
        BY <4>1, <4>2 DEF CardType, Types, SlotIds, Cells
    <3> QED
      BY <3>1, <3>2
  <2> QED
    BY <1>2, <2>3, <2>4 DEF CardWrite, Types, FormatType, AppType, WorkerType, OutType,
       HistoryType, formatVars, appVars
<1> QED
  BY <1>1, <1>2

(* What the worker leaves alone.                                           *)
LEMMA WorkerFrameTypes ==
  ASSUME Types, UNCHANGED workerFrame
  PROVE  /\ CardType' /\ FormatType'
         /\ queued' \in 0..MaxBuffers + 1 => AppType'
         /\ next' \in SlotIds /\ given' \subseteq Values /\ behind' \in BOOLEAN
            /\ resized' \subseteq SlotIds
              => HistoryType'
BY DEF Types, workerFrame, cardVars, formatVars, appVars, CardType, FormatType,
   AppType, HistoryType

(* A step that reads the geometry spoils the slot, or saw the card's.      *)
LEMMA ReadsOf ==
  ASSUME NEW s, Reads(s)
  PROVE  /\ resized' \in {resized, resized \cup {s}}
         /\ s \notin resized' => size = "full" /\ resized' = resized
         /\ size = "full" => resized' = resized
BY DEF Reads

(* The slots a step of the worker spoils.                                  *)
LEMMA WorkerReads ==
  ASSUME Worker
  PROVE  /\ DeliverEncoded \/ Copy => resized' = resized
         /\ Scan => Reads(FirstReady)
         /\ TakeGone \/ TakeDrop \/ TakeSave \/ Arm \/ Torn \/ Deliver
               => Reads(w.s)
         /\ \/ resized' = resized
            \/ Reads(FirstReady) /\ Scan
            \/ Reads(w.s) /\ w.pc # "idle"
         /\ resized \subseteq resized'
         /\ ~behind' /\ ~(DeliverEncoded \/ Copy) => size = "full" /\ ~behind
BY DEF Worker, DeliverEncoded, Scan, TakeGone, TakeDrop, TakeSave, Arm, Copy, Torn,
   Deliver, Reads, Strays

LEMMA WorkerTypes == ASSUME Sizes, Types, Sessions, Worker PROVE Types'
<1> DEFINE Rest == UNCHANGED workerFrame
<1>1. /\ w.s \in SlotIds /\ w.at \in Cells /\ w.keep \in [Cells -> Values]
      /\ w.dst \in [Cells -> Values] /\ w.as \in Layouts \cup {H264}
      /\ w.tried \in BOOLEAN /\ 1 \in Cells /\ w.frame \in Geometries
      /\ size \in Geometries
  BY DEF Types, WorkerType, FormatType, Cells, Last
<1>2. /\ next \in SlotIds /\ given \subseteq Values /\ behind \in BOOLEAN
      /\ queued \in 0..MaxBuffers + 1 /\ MaxBuffers \in Nat
  BY DEF Types, AppType, HistoryType, Sizes
<1>3. UNCHANGED workerFrame
  BY DEF Worker, DeliverEncoded, Scan, TakeGone, TakeDrop, TakeSave, Arm, Copy,
     Torn, Deliver
<1>4. queued' \in 0..MaxBuffers + 1
  <2>1. CASE Torn
    <3>1. queued <= MaxBuffers
      BY <2>1 DEF Torn, Sessions, Holding
    <3> QED
      BY <1>2, <2>1, <3>1 DEF Torn
  <2>2. CASE ~Torn
    BY <1>2, <2>2 DEF Worker, DeliverEncoded, Scan, TakeGone, TakeDrop, TakeSave, Arm,
       Copy, Deliver
  <2> QED
    BY <2>1, <2>2
<1>5. next' \in SlotIds /\ given' \subseteq Values /\ behind' \in BOOLEAN
      /\ resized' \subseteq SlotIds
  <2>1. CASE Deliver
    <3>1. Shown \in Values
      BY <1>1, CellsAre DEF Shown
    <3>2. (w.s + 1) % Slots \in SlotIds
      BY <1>1, Division DEF SlotIds, Sizes
    <3>3. resized' \subseteq SlotIds
      BY <1>1, <2>1, ReadsOf DEF Deliver, Types, HistoryType
    <3> QED
      BY <1>2, <2>1, <3>1, <3>2, <3>3 DEF Deliver, Strays
  <2>2. CASE Scan
    <3>1. FirstReady \in SlotIds
      BY <1>2, <2>2, FirstReadyIsReady DEF Scan
    <3>2. resized' \subseteq SlotIds
      BY <2>2, <3>1, ReadsOf DEF Scan, Types, HistoryType
    <3> QED
      BY <1>2, <2>2, <3>2 DEF Scan, Strays
  <2>3. CASE DeliverEncoded \/ Copy
    BY <1>2, <2>3 DEF DeliverEncoded, Copy, Types, HistoryType
  <2>4. CASE TakeGone \/ TakeDrop \/ TakeSave \/ Arm \/ Torn
    <3>1. Reads(w.s)
      BY <2>4 DEF TakeGone, TakeDrop, TakeSave, Arm, Torn
    <3>2. resized' \subseteq SlotIds
      BY <1>1, <3>1, ReadsOf DEF Types, HistoryType
    <3> QED
      BY <1>2, <2>4, <3>2 DEF TakeGone, TakeDrop, TakeSave, Arm, Torn, Strays
  <2> QED
    BY <2>1, <2>2, <2>3, <2>4 DEF Worker
<1>6. SlotType'
  <2>1. CASE TakeDrop \/ Arm
    BY <1>1, <2>1, RepoisonedCells DEF TakeDrop, Arm, Types
  <2>2. CASE ~(TakeDrop \/ Arm)
    BY <2>2 DEF Worker, DeliverEncoded, Scan, TakeGone, TakeSave, Copy, Torn, Deliver,
       Types, SlotType
  <2> QED
    BY <2>1, <2>2
<1>7. WorkerType'
  <2>1. CASE DeliverEncoded
    BY <2>1 DEF DeliverEncoded, Types, WorkerType
  <2>2. CASE Scan
    <3> DEFINE b == saved # None
    <3>1. FirstReady \in SlotIds
      BY <1>2, <2>2, FirstReadyIsReady DEF Scan
    <3>2. w' = [Idle EXCEPT !.pc = "take", !.s = FirstReady, !.tried = b] /\ b \in BOOLEAN
      BY <2>2 DEF Scan
    <3> HIDE DEF b
    <3> QED
      BY <3>1, <3>2, IdleIs DEF WorkerType, Geometries
  <2>3. CASE TakeGone \/ TakeDrop \/ Torn \/ Deliver
    BY <2>3, IdleIs DEF TakeGone, TakeDrop, Torn, Deliver, WorkerType, Geometries
  <2>4. CASE TakeSave
    <3>1. slot[w.s] \in [Cells -> Values]
      BY <1>1 DEF Types, SlotType
    <3>2. w' = [w EXCEPT !.pc = "arm", !.keep = slot[w.s], !.frame = size]
      BY <2>4 DEF TakeSave
    <3> QED
      BY <1>1, <3>1, <3>2 DEF Types, WorkerType
  <2>5. CASE Arm
    BY <1>1, <2>5 DEF Arm, Types, WorkerType
  <2>6. CASE Copy
    <3> DEFINE v == slot[w.s][w.at]
               d == [w.dst EXCEPT ![w.at] = v]
               a == IF w.at = ChromaAt THEN layout ELSE w.as
               n == IF w.at < End THEN w.at + 1 ELSE 1
               p == IF w.at < End THEN w.pc ELSE "verify"
    <3>1. w' = [w EXCEPT !.dst = d, !.as = a, !.at = n, !.pc = p]
      BY <2>6 DEF Copy
    <3>2. d \in [Cells -> Values]
      <4>1. v \in Values
        BY <1>1 DEF Types, SlotType
      <4> HIDE DEF v
      <4> QED
        BY <1>1, <4>1
    <3>3. a \in Layouts \cup {H264} /\ n \in Cells
      BY <1>1, CellsAre DEF Types, FormatType, Cells, Last, End
    <3>4. p \in {"copy", "verify"}
      BY <2>6 DEF Copy
    <3> HIDE DEF d, a, n, p
    <3>5. [w EXCEPT !.dst = d, !.as = a]
            \in [pc : {"idle", "take", "arm", "copy", "verify"}, s : SlotIds,
                 frame : Geometries, keep : [Cells -> Values],
                 dst : [Cells -> Values], at : Cells, as : Layouts \cup {H264},
                 tried : BOOLEAN]
      BY <3>2, <3>3 DEF Types, WorkerType
    <3>6. w' = [[w EXCEPT !.dst = d, !.as = a] EXCEPT !.at = n, !.pc = p]
      BY <3>1 DEF Types, WorkerType
    <3> QED
      BY <3>3, <3>4, <3>5, <3>6 DEF WorkerType
  <2> QED
    BY <2>1, <2>2, <2>3, <2>4, <2>5, <2>6 DEF Worker
<1>8. OutType'
  <2>1. CASE DeliverEncoded
    <3> DEFINE b == planes.tried \/ saved # None
    <3>1. b \in BOOLEAN /\ planes.raw \in BOOLEAN /\ Blank \in [Cells -> Values]
      BY BlankIs DEF Types, AppType
    <3>2. out' = [kind |-> H264, cells |-> Blank, sized |-> planes.raw, tried |-> b,
                  moved |-> FALSE, resized |-> FALSE, lapped |-> FALSE]
      BY <2>1 DEF DeliverEncoded
    <3> HIDE DEF b
    <3> QED
      BY <3>1, <3>2 DEF OutType, Values
  <2>2. CASE Deliver
    <3> DEFINE b == w.tried \/ planes.tried
               m == w.as # layout
               l == w.s \in lapped
               z == w.s \in resized'
    <3>1. b \in BOOLEAN /\ m \in BOOLEAN /\ l \in BOOLEAN /\ z \in BOOLEAN /\ planes.raw \in BOOLEAN
      BY DEF Types, AppType
    <3>2. out' = [kind |-> w.as, cells |-> Restored, sized |-> planes.raw, tried |-> b,
                  moved |-> m, resized |-> z, lapped |-> l]
      BY <2>2 DEF Deliver
    <3>3. Restored \in [Cells -> Values]
      BY RestoredType DEF Types
    <3>4. w.as \in Layouts \cup {H264}
      BY <1>1
    <3> HIDE DEF b, m, l, z
    <3> QED
      BY <3>4, <3>1, <3>2, <3>3 DEF OutType, Values
  <2>3. CASE ~DeliverEncoded /\ ~Deliver
    BY <2>3 DEF Worker, Scan, TakeGone, TakeDrop, TakeSave, Arm, Copy, Torn, Types, OutType
  <2> QED
    BY <2>1, <2>2, <2>3
<1> QED
  BY <1>3, <1>4, <1>5, <1>6, <1>7, <1>8, WorkerFrameTypes DEF Types

LEMMA IoctlTypes == ASSUME Sizes, Types, Ioctl PROVE Types'
<1>1. UNCHANGED formatFrame
  BY DEF Ioctl, TryEnd, TryBegin, SetFormat
<1>2. FormatType'
  <2> USE DEF Types, FormatType
  <2>1. tries' \in 0..MaxCalls
    BY DEF Ioctl, TryEnd, TryBegin, SetFormat, CardType, Sizes
  <2>2. CASE TryEnd
    <3>1. saved \in [kind : {"try"}, raw : BOOLEAN, layout : Layouts,
                     size : Geometries]
      BY <2>2 DEF TryEnd
    <3> QED
      BY <2>1, <2>2, <3>1 DEF TryEnd
  <2>3. ASSUME NEW kind \in Layouts \cup {H264}, NEW z \in Geometries, TryBegin(kind, z)
        PROVE  FormatType'
    <3>1. saved' = [kind |-> "try", raw |-> raw, layout |-> layout, size |-> size]
          /\ layout' \in Layouts /\ raw' \in BOOLEAN /\ size' = z /\ UNCHANGED pending
      BY <2>3 DEF TryBegin, IsRaw
    <3> QED
      BY <2>1, <3>1
  <2>4. ASSUME NEW kind \in Layouts \cup {H264}, NEW z \in Geometries, SetFormat(kind, z)
        PROVE  FormatType'
    <3>1. layout' \in Layouts /\ raw' \in BOOLEAN /\ pending' \in BOOLEAN
          /\ size' \in Geometries /\ UNCHANGED saved
      BY <2>4 DEF SetFormat, IsRaw
    <3> QED
      BY <2>1, <3>1
  <2> QED
    BY <2>2, <2>3, <2>4 DEF Ioctl
<1> QED
  BY <1>1, <1>2 DEF Types, formatFrame, cardVars, appVars, CardType, SlotType, AppType,
     WorkerType, OutType, HistoryType

LEMMA ApplicationTypes == ASSUME Sizes, Types, Application PROVE Types'
<1>1. UNCHANGED appFrame
  BY DEF Application, RequestBuffers, FreeBuffers, QueueBuffer, Attach, Restart,
     PostProc, StopBegin, StopEnd
<1>2. FormatType' /\ WorkerType'
  <2>1. pending' \in BOOLEAN
    BY DEF Application, RequestBuffers, FreeBuffers, QueueBuffer, Attach, Restart,
       PostProc, StopBegin, StopEnd, Types, FormatType
  <2> QED
    BY <1>1, <2>1 DEF appFrame, Types, FormatType, WorkerType
<1>3. AppType'
  <2>1. queued' \in 0..MaxBuffers + 1
    BY DEF Application, RequestBuffers, FreeBuffers, QueueBuffer, Attach, Restart,
       PostProc, StopBegin, StopEnd, Types, AppType, Sizes
  <2>2. app' \in {"idle", "ready", "starting", "streaming", "stopping"}
        /\ running' \in BOOLEAN /\ cardRaw' \in BOOLEAN
    BY DEF Application, RequestBuffers, FreeBuffers, QueueBuffer, Attach, Restart,
       PostProc, StopBegin, StopEnd, Types, AppType, FormatType, cardVars, appVars
  <2>3. planes' \in [raw : BOOLEAN, size : Geometries, tried : BOOLEAN]
    <3>1. CASE RequestBuffers
      <4> DEFINE b == saved # None
      <4>1. planes' = [raw |-> raw, size |-> size, tried |-> b] /\ b \in BOOLEAN
            /\ raw \in BOOLEAN /\ size \in Geometries
        BY <3>1 DEF RequestBuffers, Types, FormatType
      <4> HIDE DEF b
      <4> QED
        BY <4>1
    <3>2. CASE ~RequestBuffers
      BY <3>2 DEF Application, FreeBuffers, QueueBuffer, Attach, Restart, PostProc,
         StopBegin, StopEnd, Types, AppType, appVars
    <3> QED
      BY <3>1, <3>2
  <2> QED
    BY <2>1, <2>2, <2>3 DEF AppType
<1>4. CASE Restart
  <2>1. CardType'
    <3>1. card' = [card EXCEPT !.phase = "idle", !.at = 1] /\ 1 \in Cells
      BY <1>4 DEF Restart, Cells, Last
    <3> QED
      BY <3>1 DEF Types, CardType, SlotIds, Cells
  <2>2. SlotType'
    BY <1>4, BlankIs DEF Restart, Poisoned, SlotType, Values
  <2>3. OutType'
    BY <1>4 DEF Restart, OutType
  <2>4. HistoryType'
    <3>1. card'.gen = card.gen /\ card.gen \in 0..MaxFrames
      BY <1>4 DEF Restart, Types, CardType
    <3>2. base' = card.gen /\ lapped' = {} /\ resized' = {} /\ behind' \in BOOLEAN
      BY <1>4 DEF Restart
    <3> QED
      BY <1>1, <3>1, <3>2 DEF appFrame, Types, HistoryType, SlotIds, Values
  <2> QED
    BY <1>2, <1>3, <2>1, <2>2, <2>3, <2>4 DEF Types
<1>5. CASE ~Restart
  <2>1. UNCHANGED <<card, slot, out, lapped, resized, base, behind>>
    BY <1>5 DEF Application, RequestBuffers, FreeBuffers, QueueBuffer, Attach,
       PostProc, StopBegin, StopEnd, cardVars
  <2> QED
    BY <1>1, <1>2, <1>3, <2>1 DEF appFrame, Types, CardType, SlotType, OutType, HistoryType
<1> QED
  BY <1>4, <1>5

-----------------------------------------------------------------------------
(***************************************************************************)
(* What each step of the worker does to it.                                *)
(***************************************************************************)
LEMMA ScanWorker ==
  ASSUME Scan
  PROVE  w.pc = "idle" /\ w'.pc = "take" /\ w'.s = FirstReady
BY DEF Scan, Idle

LEMMA IdleWorker ==
  ASSUME TakeGone \/ TakeDrop \/ Torn \/ Deliver
  PROVE  w'.pc = "idle"
BY DEF TakeGone, TakeDrop, Torn, Deliver, Idle

LEMMA SaveWorker ==
  ASSUME Types, TakeSave
  PROVE  w.pc = "take" /\ w'.pc = "arm" /\ w'.s = w.s /\ w'.keep = slot[w.s]
         /\ w'.frame = size
BY DEF TakeSave, Types, WorkerType

LEMMA ArmWorker ==
  ASSUME Types, Arm
  PROVE  w.pc = "arm" /\ w'.pc = "copy" /\ w'.s = w.s /\ w'.keep = w.keep /\ w'.at = 1
         /\ w'.frame = w.frame
BY DEF Arm, Types, WorkerType

LEMMA CopyWorker ==
  ASSUME Types, Copy
  PROVE  /\ w.pc = "copy" /\ w'.s = w.s /\ w'.keep = w.keep /\ w'.frame = w.frame
         /\ \A c \in Cells : w'.dst[c] = IF c = w.at THEN slot[w.s][c] ELSE w.dst[c]
         /\ w'.as = IF w.at = ChromaAt THEN layout ELSE w.as
         /\ w'.pc = IF w.at < End THEN "copy" ELSE "verify"
         /\ w.at < End => w'.at = w.at + 1
         /\ w.at \in Cells
         /\ \A c \in Cells : Copied(c)' => c <= w.at
         /\ w.at <= End => \A c \in Cells : Copied(c)' <=> c <= w.at
<1> DEFINE v == slot[w.s][w.at]
           a == IF w.at = ChromaAt THEN layout ELSE w.as
           n == IF w.at < End THEN w.at + 1 ELSE 1
           p == IF w.at < End THEN w.pc ELSE "verify"
<1>1. w' = [w EXCEPT !.dst[w.at] = v, !.as = a, !.at = n, !.pc = p] /\ w.pc = "copy"
  BY DEF Copy
<1>2. w.at \in Cells /\ w.dst \in [Cells -> Values]
  BY DEF Types, WorkerType
<1> HIDE DEF v, a, n, p
<1>3. w'.s = w.s /\ w'.keep = w.keep /\ w'.as = a /\ w'.at = n /\ w'.pc = p
      /\ w'.dst = [w.dst EXCEPT ![w.at] = v]
  BY <1>1 DEF Types, WorkerType
<1>4. \A c \in Cells : w'.dst[c] = IF c = w.at THEN v ELSE w.dst[c]
  BY <1>2, <1>3
<1>5. w.pc = "copy" /\ p = IF w.at < End THEN "copy" ELSE "verify"
  BY <1>1 DEF p
<1>6. w'.frame = w.frame /\ End' = End /\ End \in {1, 6}
  <2>1. w'.frame = w.frame
    BY <1>1 DEF Types, WorkerType
  <2> QED
    BY <2>1, CellsAre DEF End
<1>7. /\ \A c \in Cells : Copied(c)' => c <= w.at
      /\ w.at <= End => \A c \in Cells : Copied(c)' <=> c <= w.at
  BY <1>2, <1>3, <1>5, <1>6, CellsAre DEF n, Copied
<1> QED
  BY <1>2, <1>3, <1>4, <1>5, <1>6, <1>7 DEF v, a, n

-----------------------------------------------------------------------------
(***************************************************************************)
(* Who runs when.                                                          *)
(***************************************************************************)
LEMMA SessionsStep ==
  ASSUME Sizes, Types, Sessions, Next
  PROVE  Sessions'
<1>1. CASE CardBegin
  BY <1>1 DEF CardBegin, Sessions, Holding, formatVars, appVars
<1>2. CASE CardWrite
  BY <1>2 DEF CardWrite, Sessions, Holding, formatVars, appVars
<1>3. CASE Worker
  <2>1. UNCHANGED <<card, running, app, planes>>
    BY <1>3 DEF Worker, DeliverEncoded, Scan, TakeGone, TakeDrop, TakeSave, Arm, Copy,
       Torn, Deliver, workerFrame, cardVars, appVars
  <2>2. app # "starting"
    BY <1>3 DEF Sessions, Worker, DeliverEncoded, Scan, TakeGone, TakeDrop, TakeSave,
       Arm, Copy, Torn, Deliver
  <2>3. Holding' => app \in {"streaming", "stopping"} /\ planes.raw
                    /\ queued' <= MaxBuffers
    <3>1. CASE DeliverEncoded
      BY <3>1 DEF DeliverEncoded, Holding
    <3>2. CASE Scan \/ TakeGone \/ TakeDrop \/ Torn \/ Deliver
      BY <3>2, ScanWorker, IdleWorker DEF Holding
    <3>3. CASE TakeSave
      <4>1. app = "streaming" /\ planes.raw /\ queued' = queued - 1
        BY <3>3 DEF TakeSave, Fits
      <4>2. queued \in 0..MaxBuffers + 1 /\ MaxBuffers \in Nat
        BY DEF Types, AppType, Sizes
      <4> QED
        BY <4>1, <4>2
    <3>4. CASE Arm \/ Copy
      BY <3>4 DEF Arm, Copy, Sessions, Holding
    <3> QED
      BY <1>3, <3>1, <3>2, <3>3, <3>4 DEF Worker
  <2> QED
    BY <2>1, <2>2, <2>3 DEF Sessions
<1>4. CASE Ioctl
  BY <1>4 DEF Ioctl, TryEnd, TryBegin, SetFormat, formatFrame, cardVars, appVars,
     Sessions, Holding
<1>5. CASE Application
  <2>1. CASE RequestBuffers \/ FreeBuffers
    BY <2>1 DEF RequestBuffers, FreeBuffers, Sessions, Holding, appFrame, cardVars
  <2>2. CASE QueueBuffer
    BY <2>2 DEF QueueBuffer, Sessions, Holding, appFrame, cardVars, appVars, Types,
       AppType, Sizes
  <2>3. CASE Attach \/ PostProc
    BY <2>3 DEF Attach, PostProc, Sessions, Holding, appFrame, cardVars
  <2>4. CASE Restart
    BY <2>4 DEF Restart, Sessions, Holding, appFrame, Types, CardType
  <2>5. CASE StopBegin \/ StopEnd
    BY <2>5 DEF StopBegin, StopEnd, Sessions, Holding, appFrame, cardVars
  <2> QED
    BY <1>5, <2>1, <2>2, <2>3, <2>4, <2>5 DEF Application
<1> QED
  BY <1>1, <1>2, <1>3, <1>4, <1>5 DEF Next

-----------------------------------------------------------------------------
(***************************************************************************)
(* The planes were sized for what the node delivers.                       *)
(***************************************************************************)
LEMMA KindsStep ==
  ASSUME Sizes, Types, Sessions, Kinds, Next
  PROVE  Kinds'
<1> DEFINE True == IF saved = None THEN raw ELSE saved.raw
<1>1. CASE CardBegin \/ CardWrite
  BY <1>1 DEF CardBegin, CardWrite, Kinds, Copied, ChromaAt, End, KindFitsPlanes,
     RawOut, formatVars, appVars
<1>2. CASE Worker
  <2>1. UNCHANGED <<app, planes, saved, raw, layout>>
    BY <1>2 DEF Worker, DeliverEncoded, Scan, TakeGone, TakeDrop, TakeSave, Arm, Copy,
       Torn, Deliver, workerFrame, formatVars, appVars
  <2>2. Copied(ChromaAt)' => w'.as \in Layouts
    <3>1. CASE Copy
      <4>1. w'.as = (IF w.at = ChromaAt THEN layout ELSE w.as) /\ ChromaAt' = ChromaAt
            /\ w.at \in Cells /\ ChromaAt \in Cells /\ w.pc = "copy"
        BY <3>1, CopyWorker, CellsAre DEF ChromaAt
      <4>2. CASE w.at = ChromaAt
        BY <4>1, <4>2 DEF Types, FormatType
      <4>3. CASE w.at < ChromaAt
        <5>1. ~Copied(ChromaAt)'
          BY <3>1, <4>1, <4>3, CopyWorker, CellsAre
        <5> QED
          BY <4>1, <5>1
      <4>4. CASE w.at > ChromaAt
        <5>1. Copied(ChromaAt) /\ w'.as = w.as
          BY <4>1, <4>4, CellsAre DEF Copied
        <5> QED
          BY <5>1 DEF Kinds
      <4> QED
        BY <4>1, <4>2, <4>3, <4>4, CellsAre
    <3>2. CASE Arm
      <4>1. w'.pc = "copy" /\ w'.at = 1 /\ ChromaAt' \in {1, 4}
        BY <3>2, ArmWorker DEF ChromaAt
      <4> QED
        BY <4>1 DEF Copied
    <3>3. CASE DeliverEncoded
      BY <3>3 DEF DeliverEncoded, Kinds, Copied, ChromaAt, End
    <3>4. CASE Scan \/ TakeGone \/ TakeDrop \/ Torn \/ Deliver \/ TakeSave
      BY <3>4, ScanWorker, IdleWorker, SaveWorker DEF Copied
    <3> QED
      BY <1>2, <3>1, <3>2, <3>3, <3>4 DEF Worker
  <2>3. KindFitsPlanes'
    <3>1. CASE DeliverEncoded
      <4>1. out'.kind = H264 /\ out'.sized = planes.raw
            /\ out'.tried = (planes.tried \/ saved # None) /\ ~raw /\ app = "streaming"
        BY <3>1 DEF DeliverEncoded
      <4> QED
        BY <4>1 DEF KindFitsPlanes, RawOut, Kinds, Sizes
    <3>2. CASE Deliver
      <4>1. out'.kind = w.as /\ out'.sized = planes.raw
        BY <3>2 DEF Deliver
      <4>2. w.as \in Layouts /\ planes.raw
        <5>1. w.pc = "verify" /\ Copied(ChromaAt)
          BY <3>2, CellsAre DEF Deliver, Copied, ChromaAt, End
        <5> QED
          BY <5>1 DEF Kinds, Sessions, Holding
      <4> QED
        BY <4>1, <4>2 DEF KindFitsPlanes, RawOut
    <3>3. CASE Scan
      BY <3>3 DEF Scan, KindFitsPlanes, None
    <3>4. CASE TakeGone \/ TakeDrop \/ Torn \/ TakeSave \/ Arm \/ Copy
      BY <3>4 DEF TakeGone, TakeDrop, Torn, TakeSave, Arm, Copy, Kinds, KindFitsPlanes,
         RawOut
    <3> QED
      BY <1>2, <3>1, <3>2, <3>3, <3>4 DEF Worker
  <2> QED
    BY <2>1, <2>2, <2>3 DEF Kinds
<1>3. CASE Ioctl
  <2>1. UNCHANGED <<app, planes, w, out>>
    BY <1>3 DEF Ioctl, TryEnd, TryBegin, SetFormat, formatFrame, appVars
  <2>2. app # "idle" => True' = True
    <3>1. CASE TryEnd
      BY <3>1 DEF TryEnd
    <3>2. ASSUME NEW kind \in Layouts \cup {H264}, NEW z \in Geometries,
                 TryBegin(kind, z)
          PROVE  True' = True
      BY <3>2 DEF TryBegin, None
    <3>3. ASSUME NEW kind \in Layouts \cup {H264}, NEW z \in Geometries,
                 SetFormat(kind, z), app # "idle"
          PROVE  True' = True
      BY <3>3 DEF SetFormat, Busy
    <3> QED
      BY <1>3, <3>1, <3>2, <3>3 DEF Ioctl
  <2> QED
    BY <2>1, <2>2 DEF Kinds, Copied, ChromaAt, End, KindFitsPlanes, RawOut
<1>4. CASE Application
  <2>1. UNCHANGED <<raw, saved, w>> /\ out' \in {out, None}
    BY <1>4 DEF Application, RequestBuffers, FreeBuffers, QueueBuffer, Attach, Restart,
       PostProc, StopBegin, StopEnd, appFrame
  <2>2. KindFitsPlanes'
    BY <2>1 DEF Kinds, KindFitsPlanes, RawOut, None
  <2>3. app' # "idle" /\ ~planes'.tried => planes'.raw = True
    <3>1. CASE RequestBuffers
      BY <3>1 DEF RequestBuffers
    <3>2. CASE ~RequestBuffers
      <4>1. planes' = planes /\ (app = "idle" => app' = "idle")
        BY <1>4, <3>2 DEF Application, FreeBuffers, QueueBuffer, Attach, Restart,
           PostProc, StopBegin, StopEnd, appVars
      <4> QED
        BY <4>1 DEF Kinds
    <3> QED
      BY <3>1, <3>2
  <2> QED
    BY <2>1, <2>2, <2>3 DEF Kinds, Copied, ChromaAt, End
<1> QED
  BY <1>1, <1>2, <1>3, <1>4 DEF Next

-----------------------------------------------------------------------------
(***************************************************************************)
(* The ioctls, and an application that does not restart the pipeline,      *)
(* touch nothing the rest of the invariant is about.                       *)
(***************************************************************************)
pictureVars == <<card, slot, next, w, out, given, lapped, resized, behind, base>>

LEMMA Quiet ==
  ASSUME Ioctl \/ (Application /\ ~Restart)
  PROVE  UNCHANGED pictureVars
<1>1. CASE Ioctl
  BY <1>1 DEF Ioctl, TryEnd, TryBegin, SetFormat, formatFrame, cardVars, pictureVars
<1>2. CASE Application /\ ~Restart
  BY <1>2 DEF Application, RequestBuffers, FreeBuffers, QueueBuffer, Attach, PostProc,
     StopBegin, StopEnd, appFrame, cardVars, pictureVars
<1> QED
  BY <1>1, <1>2

LEMMA QuietStep ==
  ASSUME UNCHANGED pictureVars
  PROVE  /\ Written => Written'
         /\ Numbers => Numbers'
         /\ Laps => Laps'
         /\ Once => Once'
         /\ Rotation => Rotation'
<1> USE DEF pictureVars
<1>1. /\ \A s : Writing(s)' = Writing(s) /\ Early(s)' = Early(s) /\ Full(s)' = Full(s)
                /\ Whole(s)' = Whole(s) /\ Copying(s)' = Copying(s)
      /\ \A c : Copied(c)' = Copied(c)
      /\ \A g : Home(g)' = Home(g)
      /\ Spoilt' = Spoilt
  BY DEF Writing, Early, Full, Whole, Copying, Copied, End, Home, Spoilt
<1>2. Written => Written'
  BY <1>1 DEF Written, Holding, NoPoison, RawOut
<1>3. Numbers => Numbers'
  BY <1>1 DEF Numbers, Mine
<1>4. Laps => Laps'
  BY <1>1 DEF Laps, Sound, Cleared, Filling, Taken, Holding, LumaWhole, NothingFromBefore,
     RawOut
<1>5. Once => Once'
  BY <1>1 DEF Once
<1>6. Rotation => Rotation'
  BY <1>1 DEF Rotation, UpTo, Waiting
<1> QED
  BY <1>2, <1>3, <1>4, <1>5, <1>6

(* A restart makes every slot blank, and finds the worker idle.            *)
LEMMA Restarted ==
  ASSUME Restart
  PROVE  /\ w' = w /\ w.pc = "idle" /\ card'.phase = "idle"
         /\ \A s \in SlotIds : \A c \in Cells : slot'[s][c] = Poison
         /\ out' = None /\ lapped' = {} /\ resized' = {} /\ Spoilt' = {}
         /\ base' = card.gen /\ next' = next
         /\ given' = given /\ (behind' <=> next # 0)
<1>1. card'.phase = "idle"
  BY DEF Restart
<1>2. \A s \in SlotIds : \A c \in Cells : slot'[s][c] = Poison
  BY BlankIs DEF Restart, Poisoned
<1> QED
  BY <1>1, <1>2 DEF Restart, appFrame, Spoilt

(* What the card writes.                                                   *)
LEMMA CardWrites ==
  ASSUME Sizes, Types, CardWrite
  PROVE  /\ card.phase \in {"clear", "fill"} /\ card.slot \in SlotIds /\ card.at \in Cells
         /\ \A s \in SlotIds : \A c \in Cells :
              slot'[s][c] = IF s = card.slot /\ c = card.at
                            THEN IF card.phase = "clear" THEN Clear ELSE card.gen
                            ELSE slot[s][c]
         /\ UNCHANGED <<next, w, out, given, lapped, resized, behind, base>>
         /\ Spoilt' = Spoilt
         /\ card'.slot = card.slot /\ card'.gen = card.gen
         /\ card'.at = IF card.at < Last THEN card.at + 1 ELSE 1
         /\ card'.phase = IF card.at < Last THEN card.phase
                          ELSE IF card.phase = "clear" THEN "fill" ELSE "idle"
<1>1. card.slot \in SlotIds /\ card.at \in Cells /\ card.gen \in 0..MaxFrames
      /\ card.phase \in {"clear", "fill"}
  BY DEF Types, CardType, CardWrite
<1> DEFINE v == IF card.phase = "clear" THEN Clear ELSE card.gen
<1>2. v \in Values
  BY <1>1 DEF Values, Clear, Sizes
<1>3. slot' = [slot EXCEPT ![card.slot][card.at] = v]
  BY DEF CardWrite
<1> HIDE DEF v
<1>4. \A s \in SlotIds : \A c \in Cells :
        slot'[s][c] = IF s = card.slot /\ c = card.at THEN v ELSE slot[s][c]
  <2> DEFINE x == card.slot
             y == card.at
  <2>1. SlotType /\ x \in SlotIds /\ y \in Cells /\ slot' = [slot EXCEPT ![x][y] = v]
    BY <1>1, <1>3 DEF Types
  <2> HIDE DEF x, y
  <2>2. \A s \in SlotIds : \A c \in Cells :
          slot'[s][c] = IF s = x /\ c = y THEN v ELSE slot[s][c]
    BY <2>1 DEF SlotType
  <2> QED
    BY <2>2 DEF x, y
<1>5. UNCHANGED <<next, w, out, given, lapped, resized, behind, base, Spoilt>>
  BY DEF CardWrite, Spoilt
<1>6. /\ card'.slot = card.slot /\ card'.gen = card.gen
      /\ card'.at = IF card.at < Last THEN card.at + 1 ELSE 1
      /\ card'.phase = IF card.at < Last THEN card.phase
                       ELSE IF card.phase = "clear" THEN "fill" ELSE "idle"
  <2>1. CASE card.at < Last
    <3>1. card' = [card EXCEPT !.at = card.at + 1]
      BY <2>1 DEF CardWrite
    <3> QED
      BY <2>1, <3>1 DEF Types, CardType
  <2>2. CASE ~(card.at < Last)
    <3> DEFINE p == IF card.phase = "clear" THEN "fill" ELSE "idle"
    <3>1. card' = [card EXCEPT !.at = 1, !.phase = p]
      BY <2>2 DEF CardWrite
    <3> HIDE DEF p
    <3>2. card'.slot = card.slot /\ card'.gen = card.gen /\ card'.at = 1 /\ card'.phase = p
      BY <3>1 DEF Types, CardType
    <3> QED
      BY <2>2, <3>2 DEF p
  <2> QED
    BY <2>1, <2>2
<1> QED
  BY <1>1, <1>4, <1>5, <1>6 DEF v

LEMMA CardBegins ==
  ASSUME Sizes, Types, CardBegin
  PROVE  LET s == (card.gen - base) % Slots
             wanted == ~Armed(s) \/ (w.pc # "idle" /\ w.s = s)
         IN  /\ s \in SlotIds
             /\ card.phase = "idle" /\ card'.phase = "clear" /\ card'.slot = s
             /\ card'.gen = card.gen + 1 /\ card'.at = 1
             /\ lapped' = IF wanted THEN lapped \cup {s} ELSE lapped \ {s}
             /\ resized' = IF wanted THEN resized ELSE resized \ {s}
             /\ Spoilt' = IF wanted THEN Spoilt \cup {s} ELSE Spoilt \ {s}
             /\ (behind' <=> (behind \/ wanted))
             /\ UNCHANGED <<slot, next, w, out, given, base>>
<1> DEFINE s == (card.gen - base) % Slots
           wanted == ~Armed(s) \/ (w.pc # "idle" /\ w.s = s)
<1>1. card.phase = "idle"
      /\ card' = [phase |-> "clear", slot |-> s, gen |-> card.gen + 1, at |-> 1]
      /\ lapped' = (IF wanted THEN lapped \cup {s} ELSE lapped \ {s})
      /\ resized' = (IF wanted THEN resized ELSE resized \ {s})
      /\ behind' = (behind \/ wanted)
      /\ UNCHANGED <<slot, next, w, out, given, base>>
  BY DEF CardBegin
<1>2. s \in SlotIds
  <2>1. card.gen - base \in Int /\ Slots \in Nat \ {0}
    BY DEF Types, CardType, HistoryType, Sizes
  <2> QED
    BY <2>1, Division DEF SlotIds
<1> HIDE DEF s, wanted
<1>3. Spoilt' = IF wanted THEN Spoilt \cup {s} ELSE Spoilt \ {s}
  BY <1>1 DEF Spoilt
<1> QED
  BY <1>1, <1>2, <1>3 DEF s, wanted

-----------------------------------------------------------------------------
(***************************************************************************)
(* Poison.                                                                 *)
(***************************************************************************)
LEMMA GenIs ==
  ASSUME Sizes, Types
  PROVE  /\ card.gen \in 0..MaxFrames /\ base \in 0..card.gen /\ MaxFrames \in Nat
         /\ Poison = -1 /\ Clear = 0 /\ Values = {-1, 0} \cup 1..MaxFrames
         /\ w.s \in SlotIds /\ card.slot \in SlotIds /\ card.at \in Cells
         /\ \A s \in SlotIds : \A c \in Cells : slot[s][c] \in Values
         /\ \A c \in Cells : w.dst[c] \in Values /\ w.keep[c] \in Values
<1>1. card.gen \in 0..MaxFrames /\ base \in 0..MaxFrames /\ base <= card.gen
      /\ MaxFrames \in Nat /\ w.s \in SlotIds /\ card.slot \in SlotIds /\ card.at \in Cells
      /\ slot \in [SlotIds -> [Cells -> Values]] /\ w.dst \in [Cells -> Values]
      /\ w.keep \in [Cells -> Values]
  BY DEF Sizes, Types, CardType, SlotType, WorkerType, HistoryType
<1>2. base \in 0..card.gen
  BY <1>1
<1>3. /\ \A s \in SlotIds : \A c \in Cells : slot[s][c] \in Values
      /\ \A c \in Cells : w.dst[c] \in Values /\ w.keep[c] \in Values
  BY <1>1
<1> QED
  BY <1>1, <1>2, <1>3 DEF Poison, Clear, Values

(* What arming a slot leaves of it, when the geometry was the card's.      *)
LEMMA WorkerCells ==
  ASSUME Sizes, Types, Worker
  PROVE  \A s \in SlotIds : \A c \in Cells :
           \/ slot'[s][c] = slot[s][c]
           \/ slot'[s][c] = Poison /\ (s \in resized' \/ c \in Sentinels)
<1>1. CASE TakeDrop \/ Arm
  <2>1. SlotType /\ w.s \in SlotIds /\ slot' = Repoisoned(w.s) /\ Reads(w.s)
    BY <1>1, GenIs DEF TakeDrop, Arm, Types
  <2>2. w.s \in resized' \/ SentinelsOf(size) = Sentinels
    BY <2>1 DEF Reads, SentinelsOf
  <2> QED
    BY <2>1, <2>2, RepoisonedCells
<1>2. CASE ~(TakeDrop \/ Arm)
  BY <1>2 DEF Worker, DeliverEncoded, Scan, TakeGone, TakeSave, Copy, Torn, Deliver
<1> QED
  BY <1>1, <1>2

LEMMA WrittenStep ==
  ASSUME Sizes, Types, Sessions, Written, Next
  PROVE  Written'
<1>1. CASE CardBegin
  <2> DEFINE t == (card.gen - base) % Slots
             wanted == ~Armed(t) \/ (w.pc # "idle" /\ w.s = t)
  <2>1. /\ card'.phase = "clear" /\ card'.slot = t /\ card'.at = 1 /\ t \in SlotIds
        /\ resized' = IF wanted THEN resized ELSE resized \ {t}
        /\ UNCHANGED <<slot, w, out>>
    BY <1>1, CardBegins
  <2> HIDE DEF t
  <2>2. ASSUME NEW s \in SlotIds \ resized', slot[s][6] # Poison, NEW d \in Plain
        PROVE  slot[s][d] # Poison
    <3>1. s \notin resized
      BY <2>1, <2>2, CellsAre DEF Armed
    <3> QED
      BY <2>2, <3>1 DEF Written
  <2>3. \A d \in Plain : ~(card'.phase = "fill" \/ d < card'.at)
    BY <2>1, CellsAre
  <2>4. Holding /\ w.s \notin resized' => w.s \notin resized
    BY <2>1 DEF Holding
  <2> QED
    BY <2>1, <2>2, <2>3, <2>4 DEF Written, Holding, Copied, End, NoPoison, RawOut
<1>2. CASE CardWrite
  <2>0. resized' = resized
    BY <1>2, CardWrites
  <2>1. ASSUME NEW s \in SlotIds \ resized, slot'[s][6] # Poison, NEW d \in Plain
        PROVE  slot'[s][d] # Poison
    <3>1. d \in Cells /\ 6 \in Cells
      BY CellsAre
    <3>2. CASE s = card.slot /\ (card.phase = "fill" \/ d < card.at)
      BY <1>2, <2>1, <3>1, <3>2, CardWrites, GenIs DEF Written
    <3>3. CASE s = card.slot /\ d = card.at
      BY <1>2, <3>1, <3>3, CardWrites, GenIs
    <3>4. CASE (s = card.slot /\ d > card.at) \/ s # card.slot
      <4>1. slot'[s][6] = slot[s][6] /\ slot'[s][d] = slot[s][d]
        BY <1>2, <3>1, <3>4, CardWrites, CellsAre
      <4> QED
        BY <2>1, <4>1 DEF Written
    <3> QED
      BY <3>1, <3>2, <3>3, <3>4, CellsAre, GenIs
  <2>2. ASSUME card'.phase # "idle", card.slot \notin resized, NEW d \in Plain,
               card'.phase = "fill" \/ d < card'.at
        PROVE  slot'[card'.slot][d] # Poison
    <3>1. d \in Cells
      BY CellsAre
    <3>2. d = card.at \/ card.phase = "fill" \/ d < card.at
      BY <1>2, <2>2, <3>1, CardWrites, CellsAre
    <3> QED
      BY <1>2, <2>2, <3>1, <3>2, CardWrites, GenIs DEF Written
  <2>3. ASSUME Holding, w.s \notin resized
        PROVE  \A d \in Plain : slot'[w.s][d] # Poison
    BY <1>2, <2>3, CardWrites, GenIs, CellsAre DEF Written
  <2> QED
    BY <1>2, <2>0, <2>1, <2>2, <2>3, CardWrites DEF Written, Holding, Copied, End, NoPoison,
       RawOut
<1>3. CASE Worker
  <2>1. card' = card
    BY <1>3 DEF Worker, DeliverEncoded, Scan, TakeGone, TakeDrop, TakeSave, Arm, Copy,
       Torn, Deliver, workerFrame, cardVars
  <2>2. \A s \in SlotIds \ resized' : \A c \in Cells :
           slot'[s][c] = slot[s][c] \/ (c \in Sentinels /\ slot'[s][c] = Poison)
    BY <1>3, WorkerCells
  <2>0. resized \subseteq resized'
    BY <1>3, WorkerReads
  <2>3. \A s \in SlotIds \ resized' :
           slot'[s][6] # Poison => \A d \in Plain : slot'[s][d] # Poison
    BY <2>0, <2>2, CellsAre DEF Written
  <2>4. card.phase # "idle" /\ card.slot \notin resized' =>
          \A d \in Plain : card.phase = "fill" \/ d < card.at
                              => slot'[card.slot][d] # Poison
    BY <2>0, <2>2, CellsAre, GenIs DEF Written
  <2>5. NoPoison'
    <3>1. CASE DeliverEncoded
      BY <3>1 DEF DeliverEncoded, NoPoison, RawOut, Sizes
    <3>2. CASE Scan
      BY <3>2 DEF Scan, NoPoison, RawOut, Sizes
    <3>3. CASE Deliver
      <4>1. w.pc = "verify" /\ out'.cells = Restored /\ out'.moved = (w.as # layout)
            /\ out'.resized = (w.s \in resized') /\ Reads(w.s)
        BY <3>3 DEF Deliver
      <4>2. ASSUME w.as = layout, w.s \notin resized', NEW c \in Cells
            PROVE  Restored[c] # Poison
        <5>1. size = "full" /\ w.frame = "full" /\ w.s \notin resized /\ Holding
          BY <2>0, <4>1, <4>2, ReadsOf DEF Written, Holding
        <5>2. Restored[c] = IF c \in Sentinels THEN w.keep[c] ELSE w.dst[c]
          BY <4>2, <5>1 DEF Restored, SentinelsOf
        <5>3. Copied(c)
          BY <4>1, <5>1, CellsAre DEF Copied, End
        <5> QED
          BY <5>1, <5>2, <5>3 DEF Written, Plain
      <4> QED
        BY <4>1, <4>2 DEF NoPoison, RawOut
    <3>4. CASE TakeGone \/ TakeDrop \/ Torn \/ TakeSave \/ Arm \/ Copy
      BY <3>4 DEF TakeGone, TakeDrop, Torn, TakeSave, Arm, Copy, Written, NoPoison, RawOut
    <3> QED
      BY <1>3, <3>1, <3>2, <3>3, <3>4 DEF Worker
  <2>6. Holding' /\ w'.s \notin resized' =>
                    /\ w'.frame = "full"
                    /\ \A d \in Plain : slot'[w'.s][d] # Poison
                    /\ \A c \in Sentinels : w'.keep[c] # Poison
                    /\ \A d \in Plain : Copied(d)' => w'.dst[d] # Poison
    <3>1. CASE DeliverEncoded
      BY <3>1 DEF DeliverEncoded, Holding
    <3>2. CASE Scan \/ TakeGone \/ TakeDrop \/ Torn \/ Deliver
      BY <3>2, ScanWorker, IdleWorker DEF Holding
    <3>3. CASE TakeSave
      <4>1. Landed(w.s) /\ slot' = slot /\ Reads(w.s)
        BY <3>3 DEF TakeSave
      <4>2. w.s \notin resized' => w.s \notin resized /\ size = "full"
        BY <4>1, <2>0, ReadsOf
      <4> QED
        BY <3>3, <4>1, <4>2, SaveWorker, CellsAre, GenIs DEF Written, Landed, SentinelsOf,
           Copied
    <3>4. CASE Arm
      <4>1. Holding /\ w'.s = w.s /\ w'.keep = w.keep /\ w'.frame = w.frame
            /\ w'.pc = "copy" /\ w'.at = 1 /\ w.s \in SlotIds
        BY <3>4, ArmWorker, GenIs DEF Holding
      <4> QED
        BY <2>0, <2>2, <4>1, CellsAre DEF Written, Copied
    <3>5. CASE Copy
      <4>1. slot' = slot /\ Holding /\ resized' = resized
        BY <3>5 DEF Copy, Holding
      <4>2. ASSUME w.s \notin resized, NEW d \in Plain, Copied(d)'
            PROVE  w'.dst[d] # Poison
        <5>1. d \in Cells /\ d <= w.at
          BY <3>5, <4>2, CopyWorker, CellsAre
        <5>2. CASE d = w.at
          BY <3>5, <4>1, <4>2, <5>1, <5>2, CopyWorker DEF Written
        <5>3. CASE d < w.at
          BY <3>5, <4>1, <4>2, <5>1, <5>3, CopyWorker DEF Written, Copied
        <5> QED
          BY <3>5, <5>1, <5>2, <5>3, CopyWorker, CellsAre
      <4> QED
        BY <3>5, <4>1, <4>2, CopyWorker DEF Written
    <3> QED
      BY <1>3, <3>1, <3>2, <3>3, <3>4, <3>5 DEF Worker
  <2> QED
    BY <2>1, <2>3, <2>4, <2>5, <2>6 DEF Written
<1>4. CASE Ioctl \/ (Application /\ ~Restart)
  BY <1>4, Quiet, QuietStep
<1>5. CASE Restart
  BY <1>5, Restarted, CellsAre DEF Written, Holding, NoPoison, RawOut, Sizes
<1> QED
  BY <1>1, <1>2, <1>3, <1>4, <1>5 DEF Next, Application

-----------------------------------------------------------------------------
(***************************************************************************)
(* Pictures are numbered.                                                  *)
(***************************************************************************)
LEMMA ShownIsMine ==
  ASSUME Sizes, Types, Numbers, w.pc = "verify"
  PROVE  Mine(Shown, w.s) /\ Shown \in Values
<1>1. (w.frame = "full" => Copied(3)) /\ Copied(1) /\ 1 \in Cells /\ 3 \in Cells
  BY CellsAre DEF Copied, End
<1> QED
  BY <1>1, GenIs DEF Numbers, Shown

LEMMA NumbersStep ==
  ASSUME Sizes, Types, Sessions, Numbers, Next
  PROVE  Numbers'
<1>1. CASE CardBegin
  <2> DEFINE s == (card.gen - base) % Slots
  <2>1. /\ card'.slot = s /\ card'.gen = card.gen + 1
        /\ UNCHANGED <<slot, next, w, out, given, base>>
    BY <1>1, CardBegins
  <2>2. s = Home(card.gen + 1)
    <3>1. (card.gen + 1) - 1 - base = card.gen - base
      BY GenIs
    <3>2. Home(card.gen + 1) = ((card.gen + 1) - 1 - base) % Slots
      BY DEF Home
    <3> HIDE DEF s
    <3>3. s = (card.gen - base) % Slots
      BY DEF s
    <3> QED
      BY <3>1, <3>2, <3>3
  <2> HIDE DEF s
  <2>3. \A g : Home(g)' = Home(g)
    BY <2>1 DEF Home
  <2>4. card'.gen > base'
    BY <2>1, GenIs
  <2>6. \A g \in given : g \in Int /\ g <= card'.gen
    BY <2>1, GenIs DEF Numbers, Types, HistoryType
  <2>7. \A c \in Cells : (Copied(c)' <=> Copied(c)) /\ w.dst[c] \in Int
        /\ \A t \in SlotIds : slot[t][c] \in Int
    BY <2>1, GenIs DEF Copied, End
  <2>8. /\ \A t \in SlotIds : \A c \in Cells : Mine(slot[t][c], t)'
        /\ \A c \in Cells : Copied(c) => Mine(w.dst[c], w.s)'
    <3>1. ASSUME NEW t \in SlotIds, NEW c \in Cells PROVE Mine(slot[t][c], t)'
      <4> DEFINE g == slot[t][c]
      <4>1. g \in Int /\ Mine(g, t) /\ g' = g
        BY <2>1, <2>7 DEF Numbers
      <4>2. g > Clear => g \in base + 1..card.gen + 1 /\ Home(g) = t
        BY <4>1, GenIs DEF Mine
      <4> HIDE DEF g
      <4>3. Mine(g, t)'
        BY <2>1, <2>3, <4>1, <4>2 DEF Mine
      <4> QED
        BY <4>3 DEF g
    <3>2. ASSUME NEW c \in Cells, Copied(c) PROVE Mine(w.dst[c], w.s)'
      <4> DEFINE g == w.dst[c]
                 t == w.s
      <4>1. g \in Int /\ Mine(g, t) /\ g' = g /\ t' = t
        BY <2>1, <2>7, <3>2 DEF Numbers
      <4>2. g > Clear => g \in base + 1..card.gen + 1 /\ Home(g) = t
        BY <4>1, GenIs DEF Mine
      <4> HIDE DEF g, t
      <4>3. Mine(g, t)'
        BY <2>1, <2>3, <4>1, <4>2 DEF Mine
      <4> QED
        BY <4>3 DEF g, t
    <3> QED
      BY <3>1, <3>2
  <2> QED
    BY <2>1, <2>2, <2>3, <2>4, <2>6, <2>7, <2>8 DEF Numbers
<1>2. CASE CardWrite
  <2>1. /\ card'.gen = card.gen /\ card'.slot = card.slot /\ card.phase # "idle"
        /\ UNCHANGED <<w, given, base>>
    BY <1>2, CardWrites
  <2>2. \A g : Home(g)' = Home(g)
    BY <2>1 DEF Home
  <2>3. \A g, t : Mine(g, t)' <=> Mine(g, t)
    BY <2>1, <2>2 DEF Mine
  <2>4. card.gen > base /\ card.slot = Home(card.gen)
    BY <2>1 DEF Numbers
  <2>5. Mine(card.gen, card.slot) /\ \A t : Mine(Clear, t)
    BY <2>4, GenIs DEF Mine
  <2>6. \A t \in SlotIds : \A c \in Cells : Mine(slot'[t][c], t)
    BY <1>2, <2>5, CardWrites DEF Numbers
  <2>7. \A c : Copied(c)' <=> Copied(c)
    BY <2>1 DEF Copied, End
  <2>8. /\ \A t \in SlotIds : \A c \in Cells : Mine(slot[t][c], t)'
        /\ \A c \in Cells : Copied(c)' => Mine(w.dst[c], w.s)'
    BY <2>1, <2>2, <2>6, <2>7 DEF Numbers, Mine
  <2> QED
    BY <2>1, <2>2, <2>4, <2>8 DEF Numbers
<1>3. CASE Worker
  <2>1. UNCHANGED <<card, base>>
    BY <1>3 DEF Worker, DeliverEncoded, Scan, TakeGone, TakeDrop, TakeSave, Arm, Copy,
       Torn, Deliver, workerFrame, cardVars
  <2>2. \A g : Home(g)' = Home(g)
    BY <2>1 DEF Home
  <2>3. \A g, t : Mine(g, t)' <=> Mine(g, t)
    BY <2>1, <2>2 DEF Mine
  <2>4. \A s \in SlotIds : \A c \in Cells :
           slot'[s][c] = slot[s][c] \/ slot'[s][c] = Poison
    BY <1>3, WorkerCells
  <2>5. \A t \in SlotIds : \A c \in Cells : Mine(slot'[t][c], t)
    <3>1. \A t : Mine(Poison, t)
      BY GenIs DEF Mine
    <3> QED
      BY <2>4, <3>1 DEF Numbers
  <2>6. \A c \in Cells : Copied(c)' => Mine(w'.dst[c], w'.s)
    <3>1. CASE DeliverEncoded
      BY <3>1 DEF DeliverEncoded, Copied
    <3>2. CASE Scan \/ TakeGone \/ TakeDrop \/ Torn \/ Deliver \/ TakeSave \/ Arm
      BY <3>2, ScanWorker, IdleWorker, SaveWorker, ArmWorker, CellsAre DEF Copied
    <3>3. CASE Copy
      <4> SUFFICES ASSUME NEW c \in Cells, Copied(c)' PROVE Mine(w'.dst[c], w'.s)
        OBVIOUS
      <4>1. c <= w.at /\ w'.s = w.s /\ w.pc = "copy"
        BY <3>3, CopyWorker
      <4>2. CASE c = w.at
        <5>1. w'.dst[c] = slot[w.s][c]
          BY <3>3, <4>2, CopyWorker
        <5> QED
          BY <4>1, <5>1, GenIs DEF Numbers
      <4>3. CASE c < w.at
        <5>1. w'.dst[c] = w.dst[c] /\ Copied(c)
          BY <3>3, <4>1, <4>3, CopyWorker, CellsAre DEF Copied
        <5> QED
          BY <4>1, <5>1 DEF Numbers
      <4>4. c = w.at \/ c < w.at
        <5>1. w.at \in 1..6 /\ c \in 1..6
          BY DEF Types, WorkerType, Cells, Last
        <5> QED
          BY <4>1, <5>1
      <4> QED
        BY <4>2, <4>3, <4>4
    <3> QED
      BY <1>3, <3>1, <3>2, <3>3 DEF Worker
  <2>7. \A g \in given' : g <= card.gen
    <3>1. CASE Deliver
      <4>1. given' = given \cup {Shown} /\ w.pc = "verify"
        BY <3>1 DEF Deliver
      <4>2. Mine(Shown, w.s) /\ Shown \in Values
        BY <4>1, ShownIsMine
      <4>3. Shown <= card.gen
        BY <4>2, GenIs DEF Mine
      <4> QED
        BY <4>1, <4>3 DEF Numbers
    <3>2. CASE ~Deliver
      BY <1>3, <3>2 DEF Worker, DeliverEncoded, Scan, TakeGone, TakeDrop, TakeSave, Arm,
         Copy, Torn, Numbers
    <3> QED
      BY <3>1, <3>2
  <2>8. /\ \A t \in SlotIds : \A c \in Cells : Mine(slot[t][c], t)'
        /\ \A c \in Cells : Copied(c)' => Mine(w.dst[c], w.s)'
    BY <2>1, <2>2, <2>5, <2>6 DEF Mine
  <2> QED
    BY <2>1, <2>2, <2>7, <2>8 DEF Numbers
<1>4. CASE Ioctl \/ (Application /\ ~Restart)
  BY <1>4, Quiet, QuietStep
<1>5. CASE Restart
  <2>1. \A t \in SlotIds : \A c \in Cells : Mine(slot[t][c], t)'
    BY <1>5, Restarted, GenIs DEF Mine
  <2>2. \A g \in given' : g <= card'.gen
    BY <1>5, Restarted DEF Restart, Numbers, Types, CardType
  <2> QED
    BY <1>5, <2>1, <2>2, Restarted DEF Numbers, Copied
<1> QED
  BY <1>1, <1>2, <1>3, <1>4, <1>5 DEF Next, Application

-----------------------------------------------------------------------------
(***************************************************************************)
(* The slots the card has not come round to.                               *)
(***************************************************************************)

(* A ready slot is one whose luma rows are a picture.                      *)
LEMMA ReadyIsFull ==
  ASSUME Sizes, Types, NEW s \in SlotIds, Sound(s), s \in Ready, size = "full"
  PROVE  ~Early(s) /\ Full(s) /\ slot[s][2] # Poison
<1>1. /\ slot[s][2] # Poison /\ slot[s][5] # Poison /\ slot[s][6] # Poison
      /\ slot[s][3] # Clear
      /\ \E c \in Chroma : slot[s][c] # Clear
  BY CellsAre DEF Ready, Landed, SentinelsOf, Filled, ChromaFilled
<1>2. card.at \in 1..6
  BY GenIs DEF Cells, Last
<1>3. ~(Writing(s) /\ card.phase = "clear")
  BY <1>1, <1>2, CellsAre DEF Sound, Cleared
<1>4. ~(Writing(s) /\ card.phase = "fill" /\ card.at <= 4)
  BY <1>1, <1>2, CellsAre DEF Sound, Filling
<1>5. ~Early(s)
  BY <1>3, <1>4 DEF Early, Writing, Types, CardType
<1>6. Full(s)
  BY <1>1, <1>5, CellsAre DEF Sound
<1> QED
  BY <1>1, <1>5, <1>6

(* The card writes on in a slot that is sound.                             *)
LEMMA CardWriteSound ==
  ASSUME Sizes, Types, Numbers, CardWrite, NEW s \in SlotIds, Sound(s)
  PROVE  /\ Sound(s)'
         /\ ~Early(s) => ~Early(s)' /\ slot'[s][3] = slot[s][3] /\ slot'[s][4] = slot[s][4]
                         /\ slot'[s][2] = slot[s][2] /\ slot'[s][1] = slot[s][1]
         /\ Early(s) /\ ~Early(s)' => /\ slot'[s][3] = card.gen /\ slot'[s][4] = card.gen
                                      /\ Whole(s)'
<1>1. /\ card.at \in 1..6 /\ card.phase \in {"clear", "fill"}
      /\ card.gen \in Int /\ card.gen > base /\ base \in Nat
  BY GenIs, CardWrites DEF Numbers, Cells, Last
<1>2. CASE s # card.slot
  <2>1. /\ ~Writing(s) /\ ~Writing(s)' /\ ~Early(s) /\ ~Early(s)'
        /\ \A c \in Cells : slot'[s][c] = slot[s][c]
    BY <1>2, CardWrites DEF Writing, Early
  <2> QED
    BY <2>1, CellsAre DEF Sound, Full
<1>3. CASE s = card.slot /\ card.phase = "clear"
  <2>1. /\ Writing(s) /\ Early(s) /\ Cleared(s) /\ Writing(s)' /\ Early(s)'
        /\ card.at < Last => card'.at = card.at + 1 /\ card'.phase = "clear"
        /\ ~(card.at < Last) => card'.at = 1 /\ card'.phase = "fill"
        /\ \A c \in Cells : slot'[s][c] = IF c = card.at THEN Clear ELSE slot[s][c]
    BY <1>1, <1>3, CardWrites DEF Writing, Early, Sound
  <2>2. CASE card.at < Last
    <3>1. Cleared(s)'
      BY <1>1, <2>1, <2>2, CellsAre DEF Cleared
    <3> QED
      BY <2>1, <2>2, <3>1 DEF Sound
  <2>3. CASE ~(card.at < Last)
    <3>1. Filling(s)'
      BY <1>1, <2>1, <2>3, CellsAre DEF Cleared, Filling
    <3> QED
      BY <2>1, <2>3, <3>1 DEF Sound
  <2> QED
    BY <2>2, <2>3
<1>4. CASE s = card.slot /\ card.phase = "fill" /\ card.at < 4
  <2>1. /\ Early(s) /\ Filling(s) /\ Writing(s)' /\ Early(s)'
        /\ card'.at = card.at + 1 /\ card'.phase = "fill" /\ card'.gen = card.gen
        /\ \A c \in Cells : slot'[s][c] = IF c = card.at THEN card.gen ELSE slot[s][c]
    BY <1>1, <1>4, CardWrites, CellsAre DEF Writing, Early, Sound
  <2>2. Filling(s)'
    BY <1>1, <1>4, <2>1, CellsAre DEF Filling
  <2> QED
    BY <2>1, <2>2 DEF Sound
<1>5. CASE s = card.slot /\ card.phase = "fill" /\ card.at = 4
  <2>1. /\ Early(s) /\ Filling(s) /\ ~Early(s)'
        /\ card'.at = 5 /\ card'.phase = "fill" /\ card'.gen = card.gen
        /\ \A c \in Cells : slot'[s][c] = IF c = 4 THEN card.gen ELSE slot[s][c]
    BY <1>1, <1>5, CardWrites, CellsAre DEF Writing, Early, Sound
  <2>2. /\ slot'[s][1] = card.gen /\ slot'[s][2] = card.gen /\ slot'[s][3] = card.gen
        /\ slot'[s][4] = card.gen /\ slot'[s][5] = Clear /\ slot'[s][6] = Clear
    BY <1>5, <2>1, CellsAre DEF Filling
  <2>3. Full(s)' /\ Whole(s)'
    BY <1>1, <2>2, CellsAre, GenIs DEF Full, Whole
  <2> QED
    BY <2>1, <2>2, <2>3 DEF Sound, Early
<1>6. CASE s = card.slot /\ card.phase = "fill" /\ card.at > 4
  <2>1. /\ ~Early(s) /\ ~Early(s)'
        /\ card'.phase # "clear" /\ (card'.phase = "fill" => ~(card'.at <= 4))
        /\ \A c \in {1, 2, 3, 4} : slot'[s][c] = slot[s][c]
    BY <1>1, <1>6, CardWrites, CellsAre DEF Writing, Early
  <2>2. Full(s)'
    <3>1. Full(s)
      BY <1>6, <2>1 DEF Sound, Writing
    <3> QED
      BY <2>1, <3>1 DEF Full
  <2> QED
    BY <2>1, <2>2 DEF Sound
<1> QED
  BY <1>1, <1>2, <1>3, <1>4, <1>5, <1>6, CellsAre

(* What is taken out of a sound slot by arming it stays sound.             *)
LEMMA RepoisonSound ==
  ASSUME Sizes, Types, NEW s \in SlotIds, UNCHANGED card,
         \A c \in Cells : slot'[s][c] = IF c \in Sentinels THEN Poison ELSE slot[s][c],
         Full(s), ~Early(s)
  PROVE  Sound(s)' /\ Full(s)' /\ ~Early(s)' /\ slot'[s][2] = Poison
<1>1. slot'[s][2] = Poison /\ slot'[s][3] = slot[s][3] /\ slot'[s][1] = slot[s][1]
  BY CellsAre
<1>2. Full(s)' /\ ~Early(s)'
  BY <1>1 DEF Full, Early, Writing
<1> QED
  BY <1>1, <1>2 DEF Sound, Early, Writing

LEMMA SameSlot ==
  ASSUME UNCHANGED card, NEW s \in SlotIds, slot'[s] = slot[s]
  PROVE  /\ Sound(s)' = Sound(s) /\ Early(s)' = Early(s) /\ Full(s)' = Full(s)
         /\ Writing(s)' = Writing(s) /\ Whole(s)' = Whole(s)
BY DEF Sound, Early, Writing, Full, Cleared, Filling, Whole

(* The worker only arms slots it holds, or drops.                          *)
LEMMA WorkerSlots ==
  ASSUME Sizes, Types, Worker
  PROVE  /\ UNCHANGED <<card, base, lapped>> /\ Spoilt' = lapped \cup resized'
         /\ Spoilt \subseteq Spoilt'
         /\ TakeDrop \/ Arm =>
              /\ \A s \in SlotIds \ {w.s} : slot'[s] = slot[s]
              /\ w.s \notin resized' =>
                   \A c \in Cells : slot'[w.s][c] = IF c \in Sentinels THEN Poison
                                                     ELSE slot[w.s][c]
         /\ ~(TakeDrop \/ Arm) => slot' = slot
<1>1. UNCHANGED <<card, base, lapped>>
  BY DEF Worker, DeliverEncoded, Scan, TakeGone, TakeDrop, TakeSave, Arm, Copy, Torn,
     Deliver, workerFrame, cardVars
<1>2. Spoilt' = lapped \cup resized' /\ Spoilt \subseteq Spoilt'
  BY <1>1, WorkerReads DEF Spoilt
<1>3. CASE TakeDrop \/ Arm
  <2>1. slot' = Repoisoned(w.s) /\ SlotType /\ w.s \in SlotIds /\ Reads(w.s)
    BY <1>3, GenIs DEF TakeDrop, Arm, Types
  <2>2. \A s \in SlotIds \ {w.s} : slot'[s] = slot[s]
    BY <2>1 DEF Repoisoned, SlotType
  <2>3. w.s \notin resized' =>
          \A c \in Cells : slot'[w.s][c] = IF c \in Sentinels THEN Poison
                                            ELSE slot[w.s][c]
    <3>1. w.s \notin resized' => SentinelsOf(size) = Sentinels
      BY <2>1, ReadsOf DEF SentinelsOf
    <3> QED
      BY <2>1, <3>1, RepoisonedCells
  <2> QED
    BY <1>1, <1>2, <1>3, <2>2, <2>3
<1>4. CASE ~(TakeDrop \/ Arm)
  BY <1>1, <1>2, <1>4 DEF Worker, DeliverEncoded, Scan, TakeGone, TakeSave, Copy, Torn,
     Deliver
<1> QED
  BY <1>3, <1>4

LEMMA SoundStep ==
  ASSUME Sizes, Types, Sessions, Numbers, Laps, Next
  PROVE  \A s \in SlotIds \ Spoilt' : Sound(s)'
<1> SUFFICES ASSUME NEW s \in SlotIds, s \notin Spoilt' PROVE Sound(s)'
  OBVIOUS
<1>1. CASE CardBegin
  <2> DEFINE t == (card.gen - base) % Slots
             wanted == ~Armed(t) \/ (w.pc # "idle" /\ w.s = t)
  <2>1. /\ card.phase = "idle" /\ card'.phase = "clear" /\ card'.slot = t /\ card'.at = 1
        /\ slot' = slot /\ Spoilt' = IF wanted THEN Spoilt \cup {t} ELSE Spoilt \ {t}
    BY <1>1, CardBegins
  <2> HIDE DEF t
  <2>2. CASE s = t
    <3>1. Armed(s)
      BY <2>1, <2>2
    <3>2. Writing(s)' /\ Early(s)'
      BY <2>1, <2>2 DEF Writing, Early
    <3>3. Cleared(s)'
      BY <2>1, <3>1, CellsAre DEF Cleared, Armed
    <3> QED
      BY <2>1, <3>2, <3>3 DEF Sound
  <2>3. CASE s # t
    <3>1. s \notin Spoilt /\ ~Writing(s) /\ ~Writing(s)' /\ ~Early(s) /\ ~Early(s)'
      BY <2>1, <2>3 DEF Writing, Early
    <3> QED
      BY <2>1, <3>1 DEF Laps, Sound, Full
  <2> QED
    BY <2>2, <2>3
<1>2. CASE CardWrite
  <2>1. s \notin Spoilt
    BY <1>2, CardWrites
  <2> QED
    BY <1>2, <2>1, CardWriteSound DEF Laps
<1>3. CASE Worker
  <2>1. s \notin Spoilt /\ s \notin resized' /\ UNCHANGED card
    BY <1>3, WorkerSlots
  <2>2. CASE (TakeDrop \/ Arm) /\ s = w.s
    <3>1. Full(s) /\ ~Early(s)
      BY <2>1, <2>2 DEF TakeDrop, Arm, Laps, Taken
    <3> QED
      BY <1>3, <2>1, <2>2, <3>1, WorkerSlots, RepoisonSound
  <2>3. CASE ~((TakeDrop \/ Arm) /\ s = w.s)
    <3>1. slot'[s] = slot[s]
      BY <1>3, <2>3, WorkerSlots
    <3> QED
      BY <2>1, <3>1, SameSlot DEF Laps
  <2> QED
    BY <2>2, <2>3
<1>4. CASE Ioctl \/ (Application /\ ~Restart)
  <2>1. Laps'
    BY <1>4, Quiet, QuietStep
  <2> QED
    BY <2>1 DEF Laps
<1>5. CASE Restart
  BY <1>5, Restarted DEF Sound, Early, Writing
<1> QED
  BY <1>1, <1>2, <1>3, <1>4, <1>5 DEF Next, Application

(* What the worker holds stays what it took.                               *)
LEMMA TakenStep ==
  ASSUME Sizes, Types, Sessions, Numbers, Laps, Once, Next, w'.pc # "idle",
         w'.s \notin Spoilt'
  PROVE  Taken'
<1>1. CASE CardBegin
  <2> DEFINE t == (card.gen - base) % Slots
             wanted == ~Armed(t) \/ (w.pc # "idle" /\ w.s = t)
  <2>1. /\ card.phase = "idle" /\ card'.slot = t
        /\ UNCHANGED <<slot, w, given>>
        /\ Spoilt' = IF wanted THEN Spoilt \cup {t} ELSE Spoilt \ {t}
    BY <1>1, CardBegins
  <2> HIDE DEF t
  <2>2. w.s # t /\ w.s \notin Spoilt
    BY <2>1
  <2>3. Taken
    BY <2>1, <2>2 DEF Laps
  <2>4. ~Early(w.s)'
    BY <2>1, <2>2 DEF Early, Writing
  <2> QED
    BY <2>1, <2>3, <2>4 DEF Taken, Full, Holding, Copying, Copied, End
<1>2. CASE CardWrite
  <2>1. UNCHANGED <<w, given>> /\ Taken /\ w.s \in SlotIds /\ Sound(w.s)
    BY <1>2, CardWrites, GenIs DEF Laps
  <2>2. ~Early(w.s) /\ Full(w.s)
    BY <2>1 DEF Taken
  <2>3. /\ ~Early(w.s)' /\ slot'[w.s][3] = slot[w.s][3] /\ slot'[w.s][2] = slot[w.s][2]
        /\ slot'[w.s][1] = slot[w.s][1]
    <3> DEFINE x == w.s
    <3>1. x \in SlotIds /\ Sound(x) /\ ~Early(x) /\ x' = x
      BY <2>1, <2>2
    <3> HIDE DEF x
    <3>2. ~Early(x)' /\ slot'[x][3] = slot[x][3] /\ slot'[x][2] = slot[x][2]
          /\ slot'[x][1] = slot[x][1]
      <4>1. card'.phase # "clear" \/ card'.slot # x
        BY <1>2, <3>1, CardWrites, CellsAre DEF Early, Writing
      <4> QED
        BY <1>2, <3>1, CardWriteSound
    <3> QED
      BY <2>1, <3>2 DEF x
  <2> QED
    BY <2>1, <2>2, <2>3 DEF Taken, Full, Holding, Copying, Copied, End
<1>3. CASE Worker
  <2>1. UNCHANGED card /\ w'.s \notin Spoilt /\ w'.s \notin resized'
    BY <1>3, WorkerSlots
  <2>2. CASE Scan
    <3>1. w'.s = FirstReady /\ w'.pc = "take" /\ UNCHANGED <<slot, given>> /\ Ready # {}
          /\ size = "full"
      BY <2>1, <2>2, ScanWorker, ReadsOf DEF Scan
    <3>2. w'.s \in Ready /\ w'.s \in SlotIds
      BY <3>1, FirstReadyIsReady DEF Types, HistoryType
    <3> DEFINE x == w'.s
    <3> HIDE DEF x
    <3>3. x \in Ready /\ x \in SlotIds /\ x \notin Spoilt
      BY <2>1, <3>2 DEF x
    <3>4. ~Early(x) /\ Full(x) /\ slot[x][2] # Poison
      BY <3>1, <3>3, ReadyIsFull DEF Laps
    <3>5. slot[x][3] \notin given
      BY <3>3, <3>4 DEF Once, Full
    <3>7. ~Early(w.s)' /\ Full(w.s)'
      BY <2>1, <3>1, <3>4 DEF Early, Writing, Full, x
    <3>8. slot'[w'.s][3] \notin given'
      BY <3>1, <3>5 DEF x
    <3> QED
      BY <3>1, <3>7, <3>8 DEF Taken, Holding, Copying
  <2>3. CASE TakeSave
    <3>1. w.pc = "take" /\ w'.pc = "arm" /\ w'.s = w.s /\ w'.keep = slot[w.s]
          /\ UNCHANGED <<slot, given>> /\ Landed(w.s) /\ w'.frame = "full" /\ size = "full"
      BY <2>1, <2>3, SaveWorker, ReadsOf DEF TakeSave
    <3>2. Taken
      BY <2>1, <3>1 DEF Laps
    <3>3. slot[w.s][2] = slot[w.s][3]
      BY <3>1, <3>2, CellsAre DEF Taken, Full, Landed, SentinelsOf
    <3>4. ~Early(w.s)' /\ Full(w.s)'
      BY <2>1, <3>1, <3>2 DEF Taken, Early, Writing, Full
    <3> QED
      BY <3>1, <3>2, <3>3, <3>4 DEF Taken, Copying
  <2>4. CASE Arm
    <3>1. w.pc = "arm" /\ w'.pc = "copy" /\ w'.s = w.s /\ w'.keep = w.keep /\ w'.at = 1
          /\ UNCHANGED given /\ w'.frame = w.frame
      BY <2>4, ArmWorker DEF Arm
    <3>2. Taken /\ Holding
      BY <2>1, <3>1 DEF Laps, Holding
    <3>3. /\ slot'[w.s][2] = Poison /\ slot'[w.s][3] = slot[w.s][3]
          /\ slot'[w.s][1] = slot[w.s][1]
      BY <1>3, <2>1, <2>4, <3>1, WorkerSlots, CellsAre
    <3>4. ~Early(w.s)' /\ Full(w.s)'
      BY <2>1, <3>1, <3>2, <3>3 DEF Taken, Early, Writing, Full
    <3> QED
      BY <3>1, <3>2, <3>3, <3>4 DEF Taken, Copied
  <2>5. CASE Copy
    <3>1. w.pc = "copy" /\ w'.s = w.s /\ w'.keep = w.keep /\ w'.frame = w.frame
          /\ UNCHANGED <<slot, given>>
      BY <2>5, CopyWorker DEF Copy
    <3>2. Taken /\ Holding /\ Copying(w.s)
      BY <2>1, <3>1 DEF Laps, Holding, Copying
    <3>3. ~Early(w.s)' /\ Full(w.s)'
      BY <2>1, <3>1, <3>2 DEF Taken, Early, Writing, Full
    <3>4. ASSUME NEW c \in {1, 3}, Copied(c)' PROVE w'.dst[c] = slot[w.s][3]
      <4>1. c \in Cells /\ c <= w.at /\ w.at \in 1..6
        BY <2>5, <3>4, CopyWorker, CellsAre DEF Cells, Last
      <4>2. CASE c = w.at
        BY <2>5, <3>2, <4>1, <4>2, CopyWorker DEF Taken, Full
      <4>3. CASE c < w.at
        BY <2>5, <3>1, <3>2, <4>1, <4>3, CopyWorker DEF Taken, Copied
      <4> QED
        BY <4>1, <4>2, <4>3
    <3> QED
      BY <3>1, <3>2, <3>3, <3>4 DEF Taken
  <2>6. ~(DeliverEncoded \/ TakeGone \/ TakeDrop \/ Torn \/ Deliver)
    BY IdleWorker DEF DeliverEncoded
  <2> QED
    BY <1>3, <2>2, <2>3, <2>4, <2>5, <2>6 DEF Worker
<1>4. CASE Ioctl \/ (Application /\ ~Restart)
  <2>1. Laps'
    BY <1>4, Quiet, QuietStep
  <2> QED
    BY <2>1 DEF Laps
<1>5. CASE Restart
  BY <1>5, Restarted
<1> QED
  BY <1>1, <1>2, <1>3, <1>4, <1>5 DEF Next, Application

LEMMA LapsStep ==
  ASSUME Sizes, Types, Sessions, Numbers, Laps, Once, Next
  PROVE  Laps'
<1>1. \A s \in SlotIds \ Spoilt' : Sound(s)'
  BY SoundStep
<1>2. w'.pc # "idle" /\ w'.s \notin Spoilt' => Taken'
  BY TakenStep
<1>3. LumaWhole' /\ NothingFromBefore'
  <2>1. CASE CardBegin \/ CardWrite
    <3>1. UNCHANGED <<out, base>>
      BY <2>1, CardBegins, CardWrites
    <3> QED
      BY <3>1 DEF Laps, LumaWhole, NothingFromBefore, RawOut
  <2>2. CASE Worker
    <3>1. UNCHANGED base
      BY <2>2, WorkerSlots
    <3>2. CASE DeliverEncoded
      BY <3>2 DEF DeliverEncoded, LumaWhole, NothingFromBefore, RawOut, Sizes
    <3>3. CASE Scan
      BY <3>3 DEF Scan, LumaWhole, NothingFromBefore, RawOut, Sizes
    <3>4. CASE Deliver
      <4>1. w.pc = "verify" /\ out'.cells = Restored
            /\ (out'.lapped <=> w.s \in lapped) /\ (out'.resized <=> w.s \in resized')
            /\ Reads(w.s)
        BY <3>4 DEF Deliver
      <4>2. CASE w.s \in lapped \cup resized'
        BY <4>1, <4>2 DEF LumaWhole, NothingFromBefore
      <4>3. CASE w.s \notin lapped \cup resized'
        <5> DEFINE g == slot[w.s][3]
        <5>0. Taken /\ Holding /\ Copying(w.s) /\ size = "full" /\ w.frame = "full"
          BY <2>2, <4>1, <4>3, WorkerSlots, ReadsOf DEF Laps, Taken, Holding, Copying
        <5>1. w.dst[1] = g /\ w.dst[3] = g /\ w.keep[2] = g /\ g > Clear
          BY <4>1, <5>0, CellsAre DEF Taken, Copied, End, Full
        <5>2. Restored[1] = g /\ Restored[2] = g /\ Restored[3] = g
          BY <5>0, <5>1, CellsAre DEF Restored, SentinelsOf
        <5>3. g > base
          <6>1. Mine(g, w.s) /\ g \in Values
            BY GenIs, CellsAre DEF Numbers
          <6> QED
            BY <5>1, <6>1, GenIs DEF Mine
        <5> HIDE DEF g
        <5>4. LumaWhole'
          BY <4>1, <5>1, <5>2, CellsAre DEF LumaWhole
        <5>5. NothingFromBefore'
          BY <3>1, <4>1, <5>2, <5>3 DEF NothingFromBefore
        <5> QED
          BY <5>4, <5>5
      <4> QED
        BY <4>2, <4>3
    <3>5. CASE TakeGone \/ TakeDrop \/ Torn \/ TakeSave \/ Arm \/ Copy
      <4>1. out' = out
        BY <3>5 DEF TakeGone, TakeDrop, Torn, TakeSave, Arm, Copy
      <4> QED
        BY <3>1, <4>1 DEF Laps, LumaWhole, NothingFromBefore, RawOut
    <3> QED
      BY <2>2, <3>2, <3>3, <3>4, <3>5 DEF Worker
  <2>3. CASE Ioctl \/ (Application /\ ~Restart)
    <3>1. Laps'
      BY <2>3, Quiet, QuietStep
    <3> QED
      BY <3>1 DEF Laps
  <2>4. CASE Restart
    BY <2>4, Restarted DEF LumaWhole, NothingFromBefore, RawOut, Sizes
  <2> QED
    BY <2>1, <2>2, <2>3, <2>4 DEF Next, Application
<1> QED
  BY <1>1, <1>2, <1>3 DEF Laps

-----------------------------------------------------------------------------
(***************************************************************************)
(* No picture is delivered twice.                                          *)
(***************************************************************************)
LEMMA OnceStep ==
  ASSUME Sizes, Types, Sessions, Numbers, Laps, Once, Next
  PROVE  Once'
<1>1. ASSUME NEW s \in SlotIds, s \notin Spoilt',
             ~Early(s)', slot'[s][3] > Clear, slot'[s][3] \in given'
      PROVE  slot'[s][2] = Poison
  <2>1. CASE CardBegin
    <3> DEFINE t == (card.gen - base) % Slots
               wanted == ~Armed(t) \/ (w.pc # "idle" /\ w.s = t)
    <3>1. /\ card.phase = "idle" /\ card'.slot = t /\ card'.phase = "clear"
          /\ UNCHANGED <<slot, given>>
          /\ Spoilt' = IF wanted THEN Spoilt \cup {t} ELSE Spoilt \ {t}
      BY <2>1, CardBegins
    <3> HIDE DEF t
    <3>2. s # t /\ s \notin Spoilt /\ ~Early(s)
      BY <1>1, <3>1 DEF Early, Writing
    <3> QED
      BY <1>1, <3>1, <3>2 DEF Once
  <2>2. CASE CardWrite
    <3>1. UNCHANGED <<Spoilt, given>> /\ Sound(s)
      BY <1>1, <2>2, CardWrites DEF Laps
    <3>2. CASE Early(s)
      <4>1. card.slot = s /\ slot'[s][3] = card.gen
        BY <1>1, <2>2, <3>1, <3>2, CardWriteSound DEF Early, Writing
      <4> QED
        BY <1>1, <3>1, <3>2, <4>1 DEF Once
    <3>3. CASE ~Early(s)
      BY <1>1, <2>2, <3>1, <3>3, CardWriteSound DEF Once
    <3> QED
      BY <3>2, <3>3
  <2>3. CASE Worker
    <3>1. UNCHANGED card /\ s \notin Spoilt /\ s \notin resized' /\ ~Early(s)
      BY <1>1, <2>3, WorkerSlots DEF Early, Writing
    <3>2. CASE Deliver
      <4>1. slot' = slot /\ given' = given \cup {Shown} /\ w.pc = "verify"
        BY <3>2 DEF Deliver
      <4>2. CASE slot[s][3] \in given
        BY <1>1, <3>1, <4>1, <4>2 DEF Once
      <4>3. CASE slot[s][3] = Shown
        <5>1. Mine(Shown, w.s) /\ Mine(Shown, s)
          BY <4>1, <4>3, ShownIsMine, CellsAre DEF Numbers
        <5>2. s = w.s
          BY <1>1, <4>1, <4>3, <5>1 DEF Mine
        <5> QED
          BY <3>1, <4>1, <5>2 DEF Laps, Taken, Copying
      <4> QED
        BY <1>1, <4>1, <4>2, <4>3
    <3>3. CASE ~Deliver
      <4>1. given' = given
        BY <2>3, <3>3 DEF Worker, DeliverEncoded, Scan, TakeGone, TakeDrop, TakeSave, Arm,
           Copy, Torn
      <4>2. CASE (TakeDrop \/ Arm) /\ s = w.s
        BY <2>3, <3>1, <4>2, WorkerSlots, CellsAre
      <4>3. CASE ~((TakeDrop \/ Arm) /\ s = w.s)
        <5>1. slot'[s] = slot[s]
          BY <2>3, <4>3, WorkerSlots
        <5> QED
          BY <1>1, <3>1, <4>1, <5>1 DEF Once
      <4> QED
        BY <4>2, <4>3
    <3> QED
      BY <3>2, <3>3
  <2>4. CASE Ioctl \/ (Application /\ ~Restart)
    <3>1. Once'
      BY <2>4, Quiet, QuietStep
    <3> QED
      BY <1>1, <3>1 DEF Once
  <2>5. CASE Restart
    BY <2>5, Restarted, CellsAre
  <2> QED
    BY <2>1, <2>2, <2>3, <2>4, <2>5 DEF Next, Application
<1>2. ASSUME card'.slot \notin Spoilt', Early(card.slot)'
      PROVE  card'.gen \notin given'
  <2>1. CASE CardBegin
    BY <2>1, CardBegins, GenIs DEF Numbers
  <2>2. CASE CardWrite
    <3> DEFINE x == card.slot
    <3>1. x \in SlotIds /\ Sound(x) /\ UNCHANGED <<given, Spoilt>> /\ card'.gen = card.gen
          /\ card'.slot = x /\ x \notin Spoilt
      BY <1>2, <2>2, CardWrites, GenIs DEF Laps
    <3>2. Early(x)
      <4>1. card'.phase # "idle" /\ (card'.phase = "clear" \/ card'.at <= 4)
        BY <1>2 DEF Early, Writing
      <4>2. card.at \in 1..6
        BY GenIs DEF Cells, Last
      <4> QED
        BY <2>2, <4>1, <4>2, CardWrites, CellsAre DEF Early, Writing
    <3> QED
      BY <3>1, <3>2 DEF Once
  <2>3. CASE Worker
    <3>1. UNCHANGED card /\ Spoilt \subseteq Spoilt'
      BY <2>3, WorkerSlots
    <3>2. card.slot \notin Spoilt /\ Early(card.slot) /\ card.gen \notin given
      BY <1>2, <3>1 DEF Early, Writing, Once
    <3>3. CASE Deliver
      <4>1. given' = given \cup {Shown} /\ w.pc = "verify"
        BY <3>3 DEF Deliver
      <4>2. ASSUME Shown = card.gen PROVE FALSE
        <5>1. card.gen > base /\ card.slot = Home(card.gen)
          BY <3>2 DEF Numbers, Early, Writing
        <5>2. Mine(Shown, w.s)
          BY <4>1, ShownIsMine
        <5>3. w.s = card.slot
          BY <4>2, <5>1, <5>2, GenIs DEF Mine
        <5> QED
          BY <3>2, <4>1, <5>3 DEF Laps, Taken
      <4> QED
        BY <3>1, <3>2, <4>1, <4>2
    <3>4. CASE ~Deliver
      BY <2>3, <3>1, <3>2, <3>4 DEF Worker, DeliverEncoded, Scan, TakeGone, TakeDrop,
         TakeSave, Arm, Copy, Torn
    <3> QED
      BY <3>3, <3>4
  <2>4. CASE Ioctl \/ (Application /\ ~Restart)
    <3>1. Once'
      BY <2>4, Quiet, QuietStep
    <3> QED
      BY <1>2, <3>1 DEF Once
  <2>5. CASE Restart
    BY <1>2, <2>5, Restarted DEF Early, Writing
  <2> QED
    BY <2>1, <2>2, <2>3, <2>4, <2>5 DEF Next, Application
<1> QED
  BY <1>1, <1>2 DEF Once

-----------------------------------------------------------------------------
(***************************************************************************)
(* The rotation stands at the oldest picture that waits.                   *)
(***************************************************************************)
LEMMA NextIsHome ==
  ASSUME Sizes, Types, NEW l \in Int, next = (l - base) % Slots
  PROVE  next = Home(l + 1)
<1>1. (l + 1) - 1 - base = l - base
  BY GenIs
<1>2. Home(l + 1) = ((l + 1) - 1 - base) % Slots
  BY DEF Home
<1> QED
  BY <1>1, <1>2

LEMMA NextIsReady ==
  ASSUME Sizes, Types, Numbers, Laps, Once, Spoilt = {}, size = "full", w.pc = "idle",
         Ready # {}, NEW l \in base..card.gen, UpTo(l)
  PROVE  FirstReady = next /\ l < card.gen /\ slot[next][3] = l + 1
<1>1. next \in SlotIds /\ next = Home(l + 1) /\ l \in Int
  BY NextIsHome, GenIs DEF UpTo, Types, HistoryType
<1>2. PICK t \in SlotIds : t \in Ready
  BY DEF Ready
<1>3. ~Early(t) /\ Full(t) /\ slot[t][2] # Poison
  BY <1>2, ReadyIsFull DEF Laps
<1> DEFINE h == slot[t][3]
<1>4. h \in base + 1..card.gen /\ Home(h) = t
  <2>1. Mine(h, t) /\ h > Clear
    BY <1>3, CellsAre DEF Numbers, Full
  <2> QED
    BY <2>1 DEF Mine
<1>5. h \notin given
  BY <1>3 DEF Once, Full
<1> HIDE DEF h
<1>6. h \in l + 1..card.gen
  <2>1. ~(h \in base + 1..l)
    BY <1>5 DEF UpTo
  <2> QED
    BY <1>4, <2>1, GenIs
<1>7. l < card.gen /\ l + 1 \in l + 1..card.gen
  BY <1>6, GenIs
<1>8. Waiting(l + 1, next)
  BY <1>1, <1>7 DEF UpTo
<1>9. CASE h = l + 1
  <2>1. next = t
    BY <1>1, <1>4, <1>9
  <2>2. FirstReady = next
    BY <1>1, <1>2, <2>1, FirstReadyIsReady
  <2> QED
    BY <1>7, <1>9, <2>1, <2>2 DEF h
<1>10. CASE h # l + 1
  <2>1. l + 1 < card.gen
    BY <1>6, <1>10, GenIs
  <2>2. ~Writing(next) /\ ~Early(next)
    BY <1>8, <2>1 DEF Waiting, Early
  <2>3. slot[next][3] = l + 1 /\ slot[next][4] = l + 1 /\ Whole(next)
    BY <1>8, <2>2 DEF Waiting, Copying
  <2>4. next \in Ready
    <3>1. l + 1 # Clear
      BY GenIs
    <3> QED
      BY <1>1, <2>3, <3>1, CellsAre DEF Ready, Landed, Whole, SentinelsOf, Filled,
         ChromaFilled
  <2> QED
    BY <1>1, <1>7, <2>3, <2>4, FirstReadyIsReady
<1> QED
  BY <1>9, <1>10

LEMMA CardBeginRotation ==
  ASSUME Sizes, Types, Rotation, CardBegin, ~behind'
  PROVE  Spoilt' = {} /\ \E l \in base'..card'.gen : UpTo(l)'
<1> DEFINE t == (card.gen - base) % Slots
           wanted == ~Armed(t) \/ (w.pc # "idle" /\ w.s = t)
<1>1. /\ card.phase = "idle" /\ card'.phase = "clear" /\ card'.slot = t
      /\ card'.gen = card.gen + 1 /\ card'.at = 1
      /\ Spoilt' = (IF wanted THEN Spoilt \cup {t} ELSE Spoilt \ {t})
      /\ ~behind /\ ~wanted
      /\ UNCHANGED <<slot, next, w, out, given, base>>
  BY CardBegins
<1> HIDE DEF t
<1>2. Spoilt = {} /\ Spoilt' = {}
  BY <1>1 DEF Rotation
<1>3. PICK l \in base..card.gen : UpTo(l)
  BY <1>1 DEF Rotation
<1>4. l \in Int /\ l \in base'..card'.gen /\ (l < card.gen => l < card'.gen)
  BY <1>1, GenIs
<1>5. t = Home(card.gen + 1)
  <2>1. (card.gen + 1) - 1 - base = card.gen - base
    BY GenIs
  <2>2. Home(card.gen + 1) = ((card.gen + 1) - 1 - base) % Slots
    BY DEF Home
  <2> QED
    BY <2>1, <2>2 DEF t
<1>6. \A g : Home(g)' = Home(g)
  BY <1>1 DEF Home
<1>7. ASSUME NEW g \in l + 1..card.gen, NEW h \in SlotIds, h = Home(g)
      PROVE  Waiting(g, h)'
  <2>1. Waiting(g, h) /\ ~Writing(h) /\ ~Early(h)
    BY <1>1, <1>3, <1>7 DEF UpTo, Writing, Early
  <2>2. h # t
    BY <1>1, <2>1, CellsAre DEF Waiting, Whole, Armed, Copying
  <2>3. ~Writing(h)' /\ ~Early(h)'
    BY <1>1, <2>2 DEF Writing, Early
  <2> QED
    BY <1>1, <2>1, <2>3 DEF Waiting, Whole, Copying
<1>8. ASSUME NEW g \in l + 1..card'.gen, NEW h \in SlotIds, h = Home(g)
      PROVE  Waiting(g, h)'
  <2>1. CASE g = card.gen + 1
    <3>1. h = t
      BY <1>5, <1>8, <2>1
    <3> QED
      BY <1>1, <2>1, <3>1, GenIs DEF Waiting, Writing, Early
  <2>2. CASE g # card.gen + 1
    <3>1. g \in l + 1..card.gen
      BY <1>1, <1>4, <2>2, GenIs
    <3> QED
      BY <1>7, <1>8, <3>1
  <2> QED
    BY <2>1, <2>2
<1>9. UpTo(l)'
  BY <1>1, <1>3, <1>4, <1>6, <1>8 DEF UpTo
<1> QED
  BY <1>2, <1>4, <1>9

LEMMA CardWriteRotation ==
  ASSUME Sizes, Types, Numbers, Laps, Rotation, CardWrite, ~behind'
  PROVE  Spoilt' = {} /\ \E l \in base'..card'.gen : UpTo(l)'
<1>1. /\ UNCHANGED <<next, w, given, Spoilt, behind, base>>
      /\ card'.slot = card.slot /\ card'.gen = card.gen /\ ~behind
  BY CardWrites
<1>2. Spoilt = {} /\ Spoilt' = {}
  BY <1>1 DEF Rotation
<1>3. PICK l \in base..card.gen : UpTo(l)
  BY <1>1 DEF Rotation
<1>4. \A s \in SlotIds : Sound(s)
  BY <1>2 DEF Laps
<1>5. \A g : Home(g)' = Home(g)
  BY <1>1 DEF Home
<1>6. \A s : Copying(s)' = Copying(s)
  BY <1>1 DEF Copying
<1>7. ASSUME NEW s \in SlotIds, Whole(s) PROVE Whole(s)'
  <2>1. \A c \in Sentinels : slot'[s][c] # Poison
    BY <1>7, CardWrites, GenIs, CellsAre DEF Whole
  <2> QED
    BY <2>1 DEF Whole
<1>8. ASSUME NEW s \in SlotIds, Writing(s)' PROVE Writing(s)
  BY <1>1, <1>8, CardWrites DEF Writing
<1>9. ASSUME NEW g \in l + 1..card.gen, NEW s \in SlotIds, s = Home(g)
      PROVE  Waiting(g, s)'
  <2>1. Waiting(g, s) /\ Sound(s)
    BY <1>3, <1>4, <1>9 DEF UpTo
  <2>2. g < card'.gen => ~Writing(s)'
    BY <1>1, <1>8, <2>1 DEF Waiting
  <2>3. ASSUME ~Early(s)'
        PROVE  slot'[s][3] = g /\ slot'[s][4] = g /\ (Whole(s)' \/ Copying(s)')
    <3>1. CASE Early(s)
      <4>1. g = card.gen
        BY <1>9, <2>1, <3>1, GenIs, <1>3 DEF Waiting, Early
      <4> QED
        BY <2>1, <2>3, <3>1, <4>1, CardWriteSound
    <3>2. CASE ~Early(s)
      <4>1. slot[s][3] = g /\ slot[s][4] = g /\ (Whole(s) \/ Copying(s))
        BY <2>1, <3>2 DEF Waiting
      <4>2. slot'[s][3] = g /\ slot'[s][4] = g
        BY <2>1, <3>2, <4>1, CardWriteSound
      <4> QED
        BY <1>6, <1>7, <4>1, <4>2
    <3> QED
      BY <3>1, <3>2
  <2> QED
    BY <2>2, <2>3 DEF Waiting
<1>10. w.pc # "idle" => slot'[next][3] = slot[next][3]
  <2>1. ASSUME w.pc # "idle" PROVE ~Early(next) /\ Sound(next) /\ next \in SlotIds
    BY <1>2, <1>3, <1>4, <2>1, GenIs DEF UpTo, Laps, Taken
  <2> QED
    BY <2>1, CardWriteSound
<1>11. UpTo(l)'
  BY <1>1, <1>3, <1>5, <1>9, <1>10 DEF UpTo
<1> QED
  BY <1>1, <1>2, <1>3, <1>11

LEMMA WorkerRotation ==
  ASSUME Sizes, Types, Numbers, Laps, Once, Rotation, Worker, ~behind'
  PROVE  Spoilt' = {} /\ \E l \in base'..card'.gen : UpTo(l)'
<1>1. UNCHANGED <<card, base>>
  BY WorkerSlots
<1>2. ~behind /\ ~TakeDrop /\ (size = "full" \/ DeliverEncoded \/ Copy)
  <2>1. ~TakeDrop
    BY DEF TakeDrop
  <2>2. CASE DeliverEncoded \/ Copy
    BY <2>1, <2>2 DEF DeliverEncoded, Copy
  <2>3. CASE ~(DeliverEncoded \/ Copy)
    BY <2>1, <2>3, WorkerReads
  <2> QED
    BY <2>2, <2>3
<1>3. Spoilt = {} /\ Spoilt' = {} /\ resized' = {}
  <2>1. Spoilt = {} /\ lapped = {} /\ resized = {}
    BY <1>2 DEF Rotation, Spoilt
  <2>2. resized' = {}
    BY <1>2, <2>1, WorkerReads, ReadsOf
  <2> QED
    BY <2>1, <2>2, WorkerSlots
<1>4. PICK l \in base..card.gen : UpTo(l)
  BY <1>2 DEF Rotation
<1>5. \A g : Home(g)' = Home(g)
  BY <1>1 DEF Home
<1>6. \A s : Writing(s)' = Writing(s) /\ Early(s)' = Early(s)
  BY <1>1 DEF Early, Writing
<1>7. /\ next \in SlotIds
      /\ w.pc # "idle" => w.s = next /\ l < card.gen /\ slot[next][3] = l + 1 /\ Taken
  BY <1>3, <1>4, GenIs DEF UpTo, Laps, Types, HistoryType
<1>8. ASSUME slot' = slot, UNCHANGED <<next, given>>,
             w'.pc # "idle" => w'.s = next /\ l < card.gen /\ slot[next][3] = l + 1,
             \A s \in SlotIds : Copying(s) => Copying(s)' \/ Whole(s)
      PROVE  UpTo(l)'
  <2>1. ASSUME NEW g \in l + 1..card.gen, NEW s \in SlotIds, s = Home(g)
        PROVE  Waiting(g, s)'
    <3>1. Waiting(g, s) /\ Whole(s)' = Whole(s)
      BY <1>4, <1>8, <2>1 DEF UpTo, Whole
    <3> QED
      BY <1>1, <1>6, <1>8, <3>1 DEF Waiting
  <2> QED
    BY <1>1, <1>4, <1>5, <1>8, <2>1 DEF UpTo
<1>9. CASE DeliverEncoded
  <2>1. slot' = slot /\ UNCHANGED <<next, given, w>>
    BY <1>9 DEF DeliverEncoded
  <2>2. \A s : Copying(s)' = Copying(s)
    BY <2>1 DEF Copying
  <2>3. UpTo(l)'
    BY <1>7, <1>8, <2>1, <2>2
  <2> QED
    BY <1>1, <1>3, <1>4, <2>3
<1>10. CASE Scan
  <2>1. slot' = slot /\ UNCHANGED <<next, given>> /\ Ready # {}
    BY <1>10 DEF Scan
  <2>2. w.pc = "idle" /\ w'.s = FirstReady
    BY <1>10, ScanWorker
  <2>3. FirstReady = next /\ l < card.gen /\ slot[next][3] = l + 1
    <3>1. size = "full"
      BY <1>10 DEF Scan, Strays
    <3> QED
      BY <1>3, <1>4, <2>1, <2>2, <3>1, NextIsReady
  <2>4. \A s : ~Copying(s)
    BY <2>2 DEF Copying
  <2>5. UpTo(l)'
    BY <1>8, <2>1, <2>2, <2>3, <2>4
  <2> QED
    BY <1>1, <1>3, <1>4, <2>5
<1>11. CASE TakeGone \/ Torn
  <2>1. slot' = slot /\ UNCHANGED <<next, given>>
    BY <1>11 DEF TakeGone, Torn
  <2>2. w'.pc = "idle" /\ (w.pc = "take" \/ Whole(w.s))
    <3>1. size = "full"
      BY <1>11 DEF TakeGone, Torn, Strays
    <3>2. Landed(w.s) => Whole(w.s)
      BY <3>1 DEF Landed, Whole, SentinelsOf
    <3>3. w'.pc = "idle" /\ (w.pc = "take" \/ Landed(w.s))
      BY <1>11, IdleWorker DEF TakeGone, Torn
    <3> QED
      BY <3>2, <3>3
  <2>3. \A s : Copying(s) => Whole(s)
    BY <2>2 DEF Copying
  <2>4. UpTo(l)'
    BY <1>8, <2>1, <2>2, <2>3
  <2> QED
    BY <1>1, <1>3, <1>4, <2>4
<1>12. CASE TakeSave \/ Copy
  <2>1. slot' = slot /\ UNCHANGED <<next, given>>
    BY <1>12 DEF TakeSave, Copy
  <2>2. w'.s = w.s /\ w.pc # "idle" /\ (w.pc = "take" \/ w'.pc \in {"copy", "verify"})
    BY <1>12, SaveWorker, CopyWorker
  <2>3. \A s : Copying(s) => Copying(s)'
    BY <2>2 DEF Copying
  <2>4. UpTo(l)'
    BY <1>7, <1>8, <2>1, <2>2, <2>3
  <2> QED
    BY <1>1, <1>3, <1>4, <2>4
<1>13. CASE Arm
  <2>1. w.pc = "arm" /\ w'.pc = "copy" /\ w'.s = w.s /\ UNCHANGED <<next, given>>
    BY <1>13, ArmWorker DEF Arm
  <2>2. /\ \A s \in SlotIds \ {w.s} : slot'[s] = slot[s]
        /\ \A c \in Plain : slot'[w.s][c] = slot[w.s][c]
    BY <1>3, <1>13, WorkerSlots, CellsAre
  <2>3. w.s = next /\ l < card.gen /\ slot[next][3] = l + 1 /\ slot'[next][3] = l + 1
    BY <1>7, <2>1, <2>2, CellsAre
  <2>4. ASSUME NEW g \in l + 1..card.gen, NEW s \in SlotIds, s = Home(g)
        PROVE  Waiting(g, s)'
    <3>1. Waiting(g, s)
      BY <1>4, <2>4 DEF UpTo
    <3>2. CASE s = w.s
      <4>1. slot'[s][3] = slot[s][3] /\ slot'[s][4] = slot[s][4] /\ Copying(s)'
        BY <2>1, <2>2, <3>2, CellsAre DEF Copying
      <4> QED
        BY <1>1, <1>6, <3>1, <4>1 DEF Waiting
    <3>3. CASE s # w.s
      <4>1. slot'[s] = slot[s] /\ ~Copying(s)
        BY <2>1, <2>2, <3>3 DEF Copying
      <4>2. Whole(s)' = Whole(s)
        BY <4>1 DEF Whole
      <4> QED
        BY <1>1, <1>6, <3>1, <4>1, <4>2 DEF Waiting
    <3> QED
      BY <3>2, <3>3
  <2>5. UpTo(l)'
    BY <1>1, <1>4, <1>5, <2>1, <2>3, <2>4 DEF UpTo
  <2> QED
    BY <1>1, <1>3, <1>4, <2>5
<1>14. CASE Deliver
  <2>1. /\ slot' = slot /\ given' = given \cup {Shown} /\ next' = (w.s + 1) % Slots
        /\ w.pc = "verify" /\ w'.pc = "idle"
    BY <1>14, IdleWorker DEF Deliver
  <2>2. w.s = next /\ l < card.gen /\ slot[next][3] = l + 1 /\ ~Early(next)
        /\ Shown = l + 1
    <3>1. Taken /\ Copying(w.s) /\ w.frame = "full" /\ Copied(3)
      BY <1>7, <2>1 DEF Taken, Holding, Copying, Copied, End, Last
    <3> QED
      BY <1>7, <2>1, <3>1 DEF Taken, Shown
  <2>3. l + 1 \in base..card.gen /\ l \in Int /\ base \in Int
    BY <1>4, <2>2, GenIs
  <2>4. next' = ((l + 1) - base) % Slots
    <3>1. next = (l - base) % Slots /\ l - base \in Int /\ (l - base) + 1 = (l + 1) - base
      BY <1>4, <2>3 DEF UpTo
    <3>2. ((l - base) + 1) % Slots = (((l - base) % Slots) + 1) % Slots
      BY <3>1, NextRemainder DEF Sizes
    <3> QED
      BY <2>1, <2>2, <3>1, <3>2
  <2>5. ASSUME NEW g \in (l + 1) + 1..card.gen, NEW s \in SlotIds, s = Home(g)
        PROVE  Waiting(g, s)'
    <3>1. g \in l + 1..card.gen /\ g # l + 1
      BY <2>3, GenIs
    <3>2. Waiting(g, s)
      BY <1>4, <2>5, <3>1 DEF UpTo
    <3>3. s # w.s
      BY <2>2, <3>1, <3>2 DEF Waiting
    <3>4. ~Copying(s) /\ Whole(s)' = Whole(s)
      BY <2>1, <3>3 DEF Copying, Whole
    <3> QED
      BY <1>1, <1>6, <2>1, <3>2, <3>4 DEF Waiting
  <2>6. \A g \in given' : g > base => g <= l + 1
    <3>1. \A g \in given : g \in Values
      BY DEF Types, HistoryType
    <3> QED
      BY <1>4, <2>1, <2>2, <2>3, <3>1, GenIs DEF UpTo
  <2>7. base + 1..l + 1 \subseteq given'
    <3>1. \A g \in base + 1..l + 1 : g \in base + 1..l \/ g = l + 1
      BY <2>3
    <3> QED
      BY <1>4, <2>1, <2>2, <3>1 DEF UpTo
  <2>8. PICK k \in base..card.gen : k = l + 1
    BY <2>3
  <2>9. /\ \A g \in given' : g > base' => g <= k
        /\ base' + 1..k \subseteq given' /\ next' = (k - base') % Slots
    <3>1. base' = base
      BY <1>1
    <3>2. \A g \in given' : g > base' => g <= k
      BY <3>1, <2>6, <2>8
    <3>3. base' + 1..k \subseteq given'
      BY <3>1, <2>7, <2>8
    <3>4. next' = (k - base') % Slots
      BY <3>1, <2>4, <2>8
    <3> QED
      BY <3>2, <3>3, <3>4
  <2>10. \A g \in k + 1..card'.gen, s \in SlotIds : s = Home(g)' => Waiting(g, s)'
    BY <1>1, <1>5, <2>5, <2>8
  <2>11. UpTo(k)'
    BY <2>1, <2>9, <2>10 DEF UpTo
  <2> QED
    BY <1>1, <1>3, <2>8, <2>11
<1> QED
  BY <1>2, <1>9, <1>10, <1>11, <1>12, <1>13, <1>14 DEF Worker

LEMMA RotationStep ==
  ASSUME Sizes, Types, Numbers, Laps, Once, Rotation, Next
  PROVE  Rotation'
<1>1. CASE Restart
  <2>1. /\ w'.pc = "idle" /\ Spoilt' = {} /\ base' = card.gen /\ card'.gen = card.gen
        /\ given' = given /\ next' = next /\ (behind' <=> next # 0)
    BY <1>1, Restarted DEF Restart, Types, CardType
  <2>2. \A g \in given' : g <= base'
    BY <2>1 DEF Numbers
  <2>3. card.gen \in Int /\ Slots \in Nat \ {0}
    BY GenIs DEF Sizes
  <2>4. (card.gen - card.gen) % Slots = 0
    <3>1. card.gen - card.gen = Slots * 0 + 0 /\ 0 \in 0..Slots - 1
      BY <2>3
    <3> QED
      BY <2>3, <3>1, Remainder
  <2>5. ASSUME ~behind' PROVE UpTo(card.gen)'
    <3>1. next' = (card.gen - base') % Slots
      BY <2>1, <2>4, <2>5
    <3>2. base' + 1..card.gen = {} /\ card.gen + 1..card'.gen = {}
      BY <2>1, <2>3
    <3>3. card'.gen = card.gen
      BY <2>1
    <3>4. \A g \in given' : g > base' => g <= card.gen
      BY <2>1, <2>2
    <3> QED
      BY <2>1, <3>1, <3>2, <3>3, <3>4 DEF UpTo
  <2>6. card.gen \in base'..card'.gen
    BY <2>1, <2>3
  <2> QED
    BY <2>1, <2>3, <2>5, <2>6 DEF Rotation
<1>2. CASE Ioctl \/ (Application /\ ~Restart)
  BY <1>2, Quiet, QuietStep
<1> QED
  BY <1>1, <1>2, CardBeginRotation, CardWriteRotation, WorkerRotation DEF Next,
     Application, Rotation

-----------------------------------------------------------------------------
(***************************************************************************)
(* The invariant is inductive, and what it implies.                        *)
(***************************************************************************)
LEMMA SameTypes ==
  ASSUME UNCHANGED vars
  PROVE  /\ Types => Types'
         /\ Sessions => Sessions'
         /\ Kinds => Kinds'
<1> USE DEF vars
<1>1. Types => Types'
  BY DEF Types, CardType, SlotType, FormatType, AppType, WorkerType, OutType,
     HistoryType
<1>2. Sessions => Sessions'
  BY DEF Sessions, Holding
<1>3. Kinds => Kinds'
  BY DEF Kinds, Copied, ChromaAt, End, KindFitsPlanes, RawOut
<1> QED
  BY <1>1, <1>2, <1>3

LEMMA StepInv == ASSUME Sizes, IInv, [Next]_vars PROVE IInv'
<1>0. /\ Types /\ Sessions /\ Kinds /\ Written /\ Numbers
      /\ Laps /\ Once /\ Rotation
  BY DEF IInv
<1>1. CASE Next
  <2>1. Types'
    BY <1>0, <1>1, CardTypes, WorkerTypes, IoctlTypes, ApplicationTypes DEF Next
  <2>2. Sessions' /\ Kinds'
    BY <1>0, <1>1, SessionsStep, KindsStep
  <2>3. Written' /\ Numbers'
    BY <1>0, <1>1, WrittenStep, NumbersStep
  <2>4. Laps' /\ Once' /\ Rotation'
    BY <1>0, <1>1, LapsStep, OnceStep, RotationStep
  <2> QED
    BY <2>1, <2>2, <2>3, <2>4 DEF IInv
<1>2. CASE UNCHANGED vars
  <2>1. UNCHANGED pictureVars
    BY <1>2 DEF vars, pictureVars
  <2>2. Types' /\ Sessions' /\ Kinds'
    BY <1>0, <1>2, SameTypes
  <2>3. Written' /\ Numbers' /\ Laps' /\ Once' /\ Rotation'
    BY <1>0, <2>1, QuietStep
  <2> QED
    BY <2>2, <2>3 DEF IInv
<1> QED
  BY <1>1, <1>2

(* The invariant implies the type invariant and the properties of one      *)
(* state.                                                                  *)
LEMMA Safe ==
  ASSUME IInv
  PROVE  /\ TypeOK /\ KindFitsPlanes /\ NoPoison /\ LumaWhole
         /\ NothingFromBefore
<1>1. TypeOK
  BY DEF IInv, Types, CardType, SlotType, FormatType, AppType, WorkerType,
     HistoryType, TypeOK
<1> QED
  BY <1>1 DEF IInv, Kinds, Written, Laps

LEMMA OnlyDeliver ==
  ASSUME Next, ~Deliver
  PROVE  given' = given /\ (out' = out \/ out' = None \/ out'.kind = H264)
<1>1. CASE DeliverEncoded
  BY <1>1 DEF DeliverEncoded
<1>2. CASE Worker /\ ~DeliverEncoded
  BY <1>2 DEF Worker, Scan, TakeGone, TakeDrop, TakeSave, Arm, Copy, Torn
<1>3. CASE Ioctl
  BY <1>3 DEF Ioctl, TryBegin, TryEnd, SetFormat, formatFrame
<1>4. CASE Application
  BY <1>4 DEF Application, RequestBuffers, FreeBuffers, QueueBuffer, Attach, Restart,
     PostProc, StopBegin, StopEnd, appFrame
<1>5. CASE CardBegin \/ CardWrite
  BY <1>5 DEF CardBegin, CardWrite
<1> QED
  BY <1>1, <1>2, <1>3, <1>4, <1>5 DEF Next

(* A raw picture leaves by Deliver, which copied it whole from the slot.   *)
LEMMA OnceEach ==
  ASSUME Sizes, IInv, [Next]_vars
  PROVE  out' # out /\ out'.kind \in Layouts /\ w.s \notin lapped /\ ~out'.resized
           => Shown \notin given
<1> SUFFICES ASSUME out' # out, out'.kind \in Layouts, w.s \notin lapped, ~out'.resized
             PROVE  Shown \notin given
  OBVIOUS
<1>1. Deliver
  BY OnlyDeliver DEF vars, Sizes
<1>2. w.pc = "verify" /\ w.s \notin resized
  BY <1>1, ReadsOf DEF Deliver
<1>3. Taken
  BY <1>2 DEF IInv, Laps, Spoilt
<1>4. w.frame = "full" /\ Copying(w.s) /\ Copied(3)
  BY <1>2, <1>3 DEF Taken, Holding, Copying, Copied, End, Last
<1> QED
  BY <1>3, <1>4 DEF Taken, Shown

LEMMA InOrder ==
  ASSUME Sizes, IInv, [Next]_vars
  PROVE  given' # given /\ ~behind' => \A g \in given : g <= base \/ g < Shown
<1> SUFFICES ASSUME given' # given, ~behind', NEW g \in given
             PROVE  g <= base \/ g < Shown
  OBVIOUS
<1>1. Deliver
  BY OnlyDeliver DEF vars
<1>2. w.pc = "verify" /\ ~behind
  BY <1>1 DEF Deliver, Strays
<1>3. PICK l \in base..card.gen : Spoilt = {} /\ UpTo(l)
  BY <1>2 DEF IInv, Rotation
<1>4. Taken
  BY <1>2, <1>3 DEF IInv, Laps
<1>5. w.frame = "full" /\ Copying(w.s) /\ Copied(3)
  BY <1>2, <1>4 DEF Taken, Holding, Copying, Copied, End, Last
<1>6. Shown = l + 1
  BY <1>2, <1>3, <1>4, <1>5 DEF UpTo, Taken, Shown
<1>7. g > base => g <= l
  BY <1>3 DEF UpTo
<1>8. g \in Values
  BY DEF IInv, Types, HistoryType
<1> QED
  BY <1>3, <1>6, <1>7, <1>8, GenIs DEF IInv
=============================================================================
