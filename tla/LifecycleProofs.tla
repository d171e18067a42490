-------------------------- MODULE LifecycleProofs ---------------------------
(***************************************************************************)
(* Proofs about Lifecycle: what the steps that a handler has still to do   *)
(* say about what the device holds.                                        *)
(*                                                                         *)
(* A probe that may yet succeed (Going) has what the steps before it       *)
(* acquired and will acquire what a later step needs; a probe that failed, *)
(* and a removal, will give back all that is held, each thing before what  *)
(* it rests on.  Where the steps are at the very beginning (Opening), or   *)
(* have not yet quieted the device (Stage), the list is known exactly.     *)
(***************************************************************************)
EXTENDS Lifecycle, SequenceTheorems, TLAPS

-----------------------------------------------------------------------------
(***************************************************************************)
(* Lists of steps.                                                         *)
(***************************************************************************)
Items(s) == {s[i] : i \in 1..Len(s)}

(* Every step of Q comes after p.                                          *)
Before(s, p, Q) ==
    \A i \in 1..Len(s) : s[i] \in Q => \E j \in 1..i - 1 : s[j] = p

(* No step of Q comes after p.                                             *)
NoneAfter(s, p, Q) ==
    \A i, j \in 1..Len(s) : s[i] = p /\ s[j] \in Q => j <= i

Gets(R) == {Get(r) : r \in R}
Frees(R) == {Free(r) : r \in R}
Base == Bars \cup {"dev", "pci"}
Banks == Buffers \cup {"vectors", "isr", "raw"}
Quiets == {Call("list_del"), Call("watch_stop"), Call("nosg_stop"), Call("dma_stop")}
Begins == {Call("firmware"), Call("arm"), Call("bus_master"), Call("bind")}
Arming == Gets(Banks) \cup {Call("arm")}
Undoings == {Call("disarm"), Call("fw_release"), Call("clear_master")}
Steps == Gets(Resources) \cup Frees(Resources) \cup Quiets \cup Begins \cup Undoings

(* The two lists that are known exactly: what follows the first steps of a *)
(* probe, and of a removal.                                                *)
Onward == Dma \o CardSetup
Away == IrqRelease \o Unregister \o Release

Opening ==
    /\ ~armed /\ fw = "none"
    /\ \/ /\ todo = <<Get("dev"), Get("pci"), Get("bar0"), Get("bar5"),
                      Call("firmware")>> \o Onward
          /\ held = {}
       \/ /\ todo = <<Get("pci"), Get("bar0"), Get("bar5"), Call("firmware")>> \o Onward
          /\ held = {"dev"}
       \/ /\ todo = <<Get("bar0"), Get("bar5"), Call("firmware")>> \o Onward
          /\ held = {"dev", "pci"}
       \/ /\ todo = <<Get("bar5"), Call("firmware")>> \o Onward
          /\ held = {"dev", "pci", "bar0"}

Stage(n) ==
    CASE n = 1 -> <<Call("list_del"), Call("watch_stop"), Call("nosg_stop"),
                    Call("dma_stop")>> \o Away
      [] n = 2 -> <<Call("watch_stop"), Call("nosg_stop"), Call("dma_stop")>> \o Away
      [] n = 3 -> <<Call("nosg_stop"), Call("dma_stop")>> \o Away
      [] n = 4 -> <<Call("dma_stop")>> \o Away

(* The removal has not got beyond its n-th step.                           *)
Early(n) == phase = "remove" /\ \E k \in 1..n : todo = Stage(k)

-----------------------------------------------------------------------------
(***************************************************************************)
(* The inductive invariant.                                                *)
(***************************************************************************)
Typed ==
    /\ opt \in Options /\ phase \in {"unbound", "probe", "bound", "remove"}
    /\ todo \in Seq(Steps) /\ held \subseteq Resources
    /\ master \in BOOLEAN /\ intx \in BOOLEAN /\ armed \in BOOLEAN
    /\ listed \in BOOLEAN /\ reader \in BOOLEAN /\ watcher \in BOOLEAN
    /\ on \in BOOLEAN /\ nosg \in BOOLEAN /\ monitor \in BOOLEAN
    /\ running \in BOOLEAN /\ late \in BOOLEAN
    /\ fw \in {"none", "ready", "failed"}

(* A handler runs while it has steps to do, and its last step is known.    *)
Busy ==
    /\ phase \in {"unbound", "bound"} => todo = <<>>
    /\ phase \in {"probe", "remove"} =>
          todo # <<>> /\ todo[Len(todo)] \in {Call("bind"), Free("dev")}
    /\ phase = "remove" => Early(4) \/ Items(todo) \cap Quiets = {}

Going == Call("bind") \in Items(todo)

(* What a probe that may yet succeed has still to do.                      *)
Ahead ==
    /\ Base \subseteq held
    /\ Items(todo) \subseteq Gets(Resources \ Base) \cup Begins
                                \cup Frees({"sets", "h264", "stream", "isr", "vectors"})
    /\ Call("arm") \in Items(todo) =>
          /\ ~armed /\ Items(todo) \cap Frees(Resources) = {}
          /\ \A b \in Buffers : b \in held \/ Before(todo, Get(b), {Call("arm")})
    /\ Items(todo) \cap Gets(Banks) # {} => Call("arm") \in Items(todo)
    /\ Items(todo) \cap Frees(Buffers) # {} => ~armed
    /\ NoneAfter(todo, Call("arm"), Arming)
    /\ Get("video") \in Items(todo) =>
          \A r \in {"v4l2", "ctrls"} :
             r \in held \/ Before(todo, Get(r), {Get("video")})
    /\ NoneAfter(todo, Get("video"), Steps \ {Get("audio"), Call("bind")})
    /\ "video" \in held => Items(todo) \subseteq {Get("audio"), Call("bind")}

(* What a probe that failed, and a removal, have still to do.              *)
Closing ==
    /\ Items(todo) \cap (Gets(Resources) \cup Begins) = {}
    /\ Frees(held) \subseteq Items(todo)
    /\ armed => Call("disarm") \in Items(todo)
                /\ Before(todo, Call("disarm"), Frees(Buffers))
    /\ fw # "none" => Call("fw_release") \in Items(todo)
    /\ "isr" \in held => Bars \subseteq held /\ Before(todo, Free("isr"), Frees(Bars))
    /\ "video" \in held =>
          /\ phase = "remove"
          /\ Before(todo, Free("video"), Frees({"dev", "pci", "v4l2", "ctrls"}))

Handling ==
    /\ Going => phase = "probe" /\ (Opening \/ Ahead)
    /\ phase \in {"probe", "remove"} /\ ~Going => Closing

(* What the device has when nothing runs.                                  *)
Resting ==
    /\ phase = "unbound" => held = {} /\ ~armed /\ fw = "none"
    /\ phase = "bound" \/ Early(4) => Base \subseteq held
    /\ "video" \in held => {"dev", "pci", "v4l2", "ctrls"} \subseteq held

(* The card as bus master.                                                 *)
Mastering ==
    /\ master => "pci" \in held
    /\ master /\ ~opt.handshake /\ ~EscapeHatch => armed
    /\ armed => Buffers \subseteq held

(* The users of the device.                                                *)
Using ==
    /\ listed => phase = "bound" \/ Early(1)
    /\ reader => listed
    /\ watcher => phase = "bound" \/ Early(2)

Capturing(n) ==
    /\ armed
    /\ phase = "bound" \/ (phase = "probe" /\ "video" \in held) \/ Early(n)
Captured ==
    ~late => (nosg => Capturing(3)) /\ (monitor \/ running => Capturing(4))

IInv == Typed /\ Busy /\ Handling /\ Resting /\ Mastering /\ Using /\ Captured

-----------------------------------------------------------------------------
(***************************************************************************)
(* Lists.                                                                  *)
(***************************************************************************)
LEMMA TailPlaces ==
  ASSUME NEW S, NEW L \in Seq(S), L # << >>
  PROVE  /\ Tail(L) \in Seq(S) /\ Head(L) \in S /\ Head(L) = L[1]
         /\ Len(Tail(L)) = Len(L) - 1 /\ Len(L) \in Nat \ {0}
         /\ \A i \in 1..Len(L) - 1 : Tail(L)[i] = L[i + 1]
OBVIOUS

LEMMA JoinPlaces ==
  ASSUME NEW S, NEW X \in Seq(S), NEW L \in Seq(S)
  PROVE  /\ X \o L \in Seq(S) /\ Len(X \o L) = Len(X) + Len(L)
         /\ Len(X) \in Nat /\ Len(L) \in Nat
         /\ \A i \in 1..Len(X) : (X \o L)[i] = X[i]
         /\ \A i \in 1..Len(L) : (X \o L)[Len(X) + i] = L[i]
OBVIOUS

(* A place of a joined list is a place of one of the two.                  *)
LEMMA JoinCases ==
  ASSUME NEW S, NEW X \in Seq(S), NEW L \in Seq(S), NEW i \in 1..Len(X \o L)
  PROVE  \/ i \in 1..Len(X) /\ (X \o L)[i] = X[i]
         \/ i - Len(X) \in 1..Len(L) /\ (X \o L)[i] = L[i - Len(X)]
<1>1. CASE i <= Len(X)
  BY <1>1, JoinPlaces
<1>2. CASE ~(i <= Len(X))
  <2>1. i - Len(X) \in 1..Len(L) /\ Len(X) + (i - Len(X)) = i
    BY <1>2, JoinPlaces
  <2> QED
    BY <2>1, JoinPlaces
<1> QED
  BY <1>1, <1>2

LEMMA ItemsTail ==
  ASSUME NEW S, NEW L \in Seq(S), L # << >>
  PROVE  /\ Items(L) = {Head(L)} \cup Items(Tail(L)) /\ Items(L) \subseteq S
         /\ L[Len(L)] = IF Tail(L) = << >> THEN Head(L) ELSE Tail(L)[Len(Tail(L))]
<1>1. \A i \in 1..Len(L) : L[i] = Head(L) \/ \E j \in 1..Len(Tail(L)) : L[i] = Tail(L)[j]
  <2> TAKE i \in 1..Len(L)
  <2>1. CASE i = 1
    BY <2>1, TailPlaces
  <2>2. CASE i # 1
    <3>1. i - 1 \in 1..Len(Tail(L)) /\ Tail(L)[i - 1] = L[(i - 1) + 1] /\ (i - 1) + 1 = i
      BY <2>2, TailPlaces
    <3> QED
      BY <3>1
  <2> QED
    BY <2>1, <2>2
<1>2. Items(L) = {Head(L)} \cup Items(Tail(L))
  BY <1>1, TailPlaces DEF Items
<1>3. Items(L) \subseteq S
  BY DEF Items
<1>4. ASSUME Tail(L) = << >> PROVE L[Len(L)] = Head(L)
  <2>1. Len(Tail(L)) = 0
    BY <1>4, Zenon, EmptySeq
  <2>2. Len(L) = 1
    BY <2>1, TailPlaces
  <2> QED
    BY <2>2, TailPlaces
<1>5. ASSUME Tail(L) # << >> PROVE L[Len(L)] = Tail(L)[Len(Tail(L))]
  <2>1. Len(Tail(L)) \in Nat \ {0}
    BY <1>5, TailPlaces
  <2>2. Len(Tail(L)) = Len(L) - 1 /\ Len(L) \in Nat \ {0}
    BY TailPlaces
  <2>3. Len(L) - 1 \in 1..Len(L) - 1 /\ (Len(L) - 1) + 1 = Len(L)
    BY <2>1, <2>2
  <2> QED
    BY <2>2, <2>3, TailPlaces
<1> QED
  BY <1>2, <1>3, <1>4, <1>5, Zenon

LEMMA ItemsJoin ==
  ASSUME NEW S, NEW X \in Seq(S), NEW L \in Seq(S)
  PROVE  /\ X \o L \in Seq(S) /\ Items(X \o L) = Items(X) \cup Items(L)
         /\ L # << >> => X \o L # << >> /\ (X \o L)[Len(X \o L)] = L[Len(L)]
<1>1. Items(X \o L) \subseteq Items(X) \cup Items(L)
  BY JoinCases DEF Items
<1>2. Items(X) \subseteq Items(X \o L)
  BY JoinPlaces DEF Items
<1>3. \A i \in 1..Len(L) : Len(X) + i \in 1..Len(X \o L)
  BY JoinPlaces
<1>4. Items(L) \subseteq Items(X \o L)
  BY <1>3, JoinPlaces DEF Items
<1>5. L # << >> => Len(L) \in 1..Len(L)
  BY JoinPlaces, EmptySeq
<1>6. L # << >> => X \o L # << >> /\ (X \o L)[Len(X \o L)] = L[Len(L)]
  BY <1>5, JoinPlaces
<1> QED
  BY <1>1, <1>2, <1>4, <1>6, JoinPlaces

LEMMA TailJoin ==
  ASSUME NEW S, NEW X \in Seq(S), NEW L \in Seq(S), X # << >>
  PROVE  /\ X \o L # << >> /\ Head(X \o L) = Head(X) /\ Tail(X \o L) = Tail(X) \o L
<1>1. Len(X) # 0 /\ Len(X \o L) # 0
  BY JoinPlaces, EmptySeq
<1>2. X \o L # << >> /\ Head(X \o L) = Head(X)
  BY <1>1, JoinPlaces
<1>3. Tail(X) \in Seq(S) /\ Tail(X \o L) \in Seq(S) /\ Tail(X) \o L \in Seq(S)
  BY <1>2, JoinPlaces, TailPlaces
<1>4. Len(Tail(X \o L)) = Len(Tail(X) \o L)
  BY <1>2, <1>3, JoinPlaces, TailPlaces
<1>5. ASSUME NEW i \in 1..Len(Tail(X \o L))
      PROVE  Tail(X \o L)[i] = (Tail(X) \o L)[i]
  <2>1. i \in 1..Len(X \o L) - 1 /\ Tail(X \o L)[i] = (X \o L)[i + 1]
    BY <1>2, JoinPlaces, TailPlaces
  <2>2. CASE i \in 1..Len(X) - 1
    BY <2>1, <2>2, <1>3, JoinPlaces, TailPlaces
  <2>3. CASE i \notin 1..Len(X) - 1
    <3> DEFINE k == i + 1 - Len(X)
    <3>1. k \in 1..Len(L) /\ Len(X) + k = i + 1 /\ Len(Tail(X)) + k = i
      BY <2>1, <2>3, <1>1, JoinPlaces, TailPlaces
    <3> HIDE DEF k
    <3> QED
      BY <2>1, <3>1, <1>3, JoinPlaces
  <2> QED
    BY <2>2, <2>3
<1> QED
  BY <1>2, <1>3, <1>4, <1>5, SeqEqual

LEMMA BeforeTail ==
  ASSUME NEW S, NEW L \in Seq(S), L # << >>, NEW p, NEW Q, Before(L, p, Q)
  PROVE  /\ Head(L) \notin Q
         /\ Head(L) # p => Before(Tail(L), p, Q)
<1>1. Head(L) \notin Q
  BY TailPlaces DEF Before
<1>2. ASSUME Head(L) # p, NEW i \in 1..Len(Tail(L)), Tail(L)[i] \in Q
      PROVE  \E j \in 1..i - 1 : Tail(L)[j] = p
  <2>1. i + 1 \in 1..Len(L) /\ L[i + 1] \in Q
    BY <1>2, TailPlaces
  <2>2. PICK j \in 1..(i + 1) - 1 : L[j] = p
    BY <2>1 DEF Before
  <2>3. j # 1
    BY <1>2, <2>2, TailPlaces
  <2>4. j - 1 \in 1..i - 1 /\ j - 1 \in 1..Len(L) - 1 /\ (j - 1) + 1 = j
    BY <2>2, <2>3, TailPlaces
  <2> QED
    BY <2>2, <2>4, TailPlaces
<1> QED
  BY <1>1, <1>2 DEF Before

LEMMA BeforeJoin ==
  ASSUME NEW S, NEW X \in Seq(S), NEW L \in Seq(S), NEW p, NEW Q, Before(X, p, Q),
         p \in Items(X) \/ Before(L, p, Q)
  PROVE  Before(X \o L, p, Q)
<1> SUFFICES ASSUME NEW i \in 1..Len(X \o L), (X \o L)[i] \in Q
             PROVE  \E j \in 1..i - 1 : (X \o L)[j] = p
  BY DEF Before
<1>1. CASE i \in 1..Len(X) /\ (X \o L)[i] = X[i]
  <2>1. PICK j \in 1..i - 1 : X[j] = p
    BY <1>1 DEF Before
  <2> QED
    BY <1>1, <2>1, JoinPlaces
<1>2. CASE i - Len(X) \in 1..Len(L) /\ (X \o L)[i] = L[i - Len(X)]
  <2>1. CASE p \in Items(X)
    <3>1. PICK j \in 1..Len(X) : X[j] = p
      BY <2>1 DEF Items
    <3>2. j \in 1..i - 1
      BY <1>2, <3>1, JoinPlaces
    <3> QED
      BY <3>1, <3>2, JoinPlaces
  <2>2. CASE Before(L, p, Q)
    <3>1. PICK j \in 1..(i - Len(X)) - 1 : L[j] = p
      BY <1>2, <2>2 DEF Before
    <3>2. j \in 1..Len(L) /\ Len(X) + j \in 1..i - 1
      BY <1>2, <3>1, JoinPlaces
    <3>3. (X \o L)[Len(X) + j] = p
      BY <3>1, <3>2, JoinPlaces
    <3> QED
      BY <3>2, <3>3, Zenon
  <2> QED
    BY <2>1, <2>2
<1> QED
  BY <1>1, <1>2, JoinCases

LEMMA BeforeNone ==
  ASSUME NEW L, NEW p, NEW Q, Items(L) \cap Q = {}
  PROVE  Before(L, p, Q)
BY DEF Items, Before

LEMMA NoneAfterTail ==
  ASSUME NEW S, NEW L \in Seq(S), L # << >>, NEW p, NEW Q, NoneAfter(L, p, Q)
  PROVE  /\ Head(L) = p => Items(Tail(L)) \cap Q = {}
         /\ NoneAfter(Tail(L), p, Q)
<1>1. \A i \in 1..Len(Tail(L)) : i + 1 \in 1..Len(L) /\ Tail(L)[i] = L[i + 1]
  BY TailPlaces
<1>2. ASSUME Head(L) = p, NEW i \in 1..Len(Tail(L)), Tail(L)[i] \in Q PROVE FALSE
  <2>1. 1 \in 1..Len(L) /\ L[1] = p
    BY <1>2, TailPlaces
  <2>2. i + 1 <= 1
    BY <1>1, <1>2, <2>1 DEF NoneAfter
  <2> QED
    BY <2>2
<1>3. ASSUME NEW i \in 1..Len(Tail(L)), NEW j \in 1..Len(Tail(L)),
             Tail(L)[i] = p, Tail(L)[j] \in Q
      PROVE  j <= i
  <2>1. j + 1 <= i + 1
    BY <1>1, <1>3 DEF NoneAfter
  <2> QED
    BY <2>1
<1> QED
  BY <1>2, <1>3 DEF Items, NoneAfter

LEMMA NoneAfterJoin ==
  ASSUME NEW S, NEW X \in Seq(S), NEW L \in Seq(S), NEW p, NEW Q,
         NoneAfter(X, p, Q), NoneAfter(L, p, Q),
         p \notin Items(X) \/ Items(L) \cap Q = {}
  PROVE  NoneAfter(X \o L, p, Q)
<1> SUFFICES ASSUME NEW i \in 1..Len(X \o L), NEW j \in 1..Len(X \o L),
                    (X \o L)[i] = p, (X \o L)[j] \in Q
             PROVE  j <= i
  BY DEF NoneAfter
<1>1. CASE i \in 1..Len(X) /\ (X \o L)[i] = X[i]
  <2>1. Items(L) \cap Q = {}
    BY <1>1 DEF Items
  <2>2. j \in 1..Len(X) /\ (X \o L)[j] = X[j]
    BY <2>1, JoinCases DEF Items
  <2> QED
    BY <1>1, <2>2 DEF NoneAfter
<1>2. CASE i - Len(X) \in 1..Len(L) /\ (X \o L)[i] = L[i - Len(X)]
  <2>1. CASE j \in 1..Len(X)
    BY <1>2, <2>1, JoinPlaces
  <2>2. CASE j - Len(X) \in 1..Len(L) /\ (X \o L)[j] = L[j - Len(X)]
    <3>1. j - Len(X) <= i - Len(X)
      BY <1>2, <2>2 DEF NoneAfter
    <3> QED
      BY <3>1, JoinPlaces
  <2> QED
    BY <2>1, <2>2, JoinCases
<1> QED
  BY <1>1, <1>2, JoinCases

LEMMA NoneAfterNone ==
  ASSUME NEW L, NEW p, NEW Q, p \notin Items(L) \/ Items(L) \cap Q = {}
  PROVE  NoneAfter(L, p, Q)
BY DEF Items, NoneAfter

-----------------------------------------------------------------------------
(***************************************************************************)
(* The lists of the handlers.                                              *)
(***************************************************************************)
(* Steps of different kinds differ, and so do steps on different things.   *)
LEMMA Kinds ==
  /\ \A r : Get(r).do = "get" /\ Get(r).what = r
  /\ \A r : Free(r).do = "free" /\ Free(r).what = r
  /\ \A f : Call(f).do = "call" /\ Call(f).what = f
BY DEF Get, Free, Call

LEMMA Looks ==
  /\ \A R : \A s \in Gets(R) : s.do = "get" /\ s.what \in R /\ s = Get(s.what)
  /\ \A R : \A s \in Frees(R) : s.do = "free" /\ s.what \in R /\ s = Free(s.what)
  /\ \A R, r : (Free(r) \in Frees(R) <=> r \in R) /\ (Get(r) \in Gets(R) <=> r \in R)
<1>1. /\ \A R : \A s \in Gets(R) : s.do = "get" /\ s.what \in R /\ s = Get(s.what)
      /\ \A R : \A s \in Frees(R) : s.do = "free" /\ s.what \in R /\ s = Free(s.what)
  BY DEF Gets, Frees, Get, Free
<1>2. \A R : \A r \in R : Free(r) \in Frees(R) /\ Get(r) \in Gets(R)
  BY DEF Gets, Frees
<1> QED
  BY <1>1, <1>2, Kinds

(* A release needs nothing, begins nothing and ends with the device.       *)
Releases == Frees(Resources) \cup Undoings

LEMMA FreeLists ==
  /\ IrqRelease \in Seq(Releases) /\ Items(IrqRelease) = Frees({"isr", "vectors"})
  /\ IrqRelease # << >>
  /\ Unregister \in Seq(Releases)
  /\ Items(Unregister) = Frees({"audio", "video", "ctrls", "v4l2", "bar5", "bar0"})
  /\ FailDisable \in Seq(Releases) /\ Items(FailDisable) = Frees({"pci", "dev"})
  /\ FailDisable # << >> /\ FailDisable[Len(FailDisable)] = Free("dev")
  /\ DmaTeardown \in Seq(Releases)
  /\ Items(DmaTeardown) = {Call("disarm")} \cup Frees({"sets", "raw", "h264", "stream"})
<1>1. /\ IrqRelease \in Seq(Releases) /\ Items(IrqRelease) = Frees({"isr", "vectors"})
      /\ IrqRelease # << >>
  BY DEF IrqRelease, Items, Releases, Frees, Resources, Bars, Buffers, Undoings
<1>2. /\ Unregister \in Seq(Releases)
      /\ Items(Unregister) = Frees({"audio", "video", "ctrls", "v4l2", "bar5", "bar0"})
  BY DEF Unregister, Items, Releases, Frees, Resources, Bars, Buffers, Undoings
<1>3. /\ FailDisable \in Seq(Releases) /\ Items(FailDisable) = Frees({"pci", "dev"})
      /\ FailDisable # << >> /\ FailDisable[Len(FailDisable)] = Free("dev")
  BY DEF FailDisable, Items, Releases, Frees, Resources, Bars, Buffers, Undoings
<1>4. /\ DmaTeardown \in Seq(Releases)
      /\ Items(DmaTeardown) = {Call("disarm")} \cup Frees({"sets", "raw", "h264", "stream"})
  BY DEF DmaTeardown, Items, Releases, Frees, Resources, Bars, Buffers, Undoings
<1> QED
  BY <1>1, <1>2, <1>3, <1>4, Zenon

LEMMA Parts ==
  /\ Resources = {"dev", "pci", "vectors", "isr", "raw", "v4l2", "ctrls", "video", "audio",
                  "bar0", "bar5", "stream", "h264", "sets"}
  /\ Bars = {"bar0", "bar5"} /\ Buffers = {"stream", "h264", "sets"}
  /\ Base = {"bar0", "bar5", "dev", "pci"}
  /\ Banks = {"stream", "h264", "sets", "vectors", "isr", "raw"}
BY DEF Resources, Bars, Buffers, Base, Banks

(* A list that gives everything back, in a sound order.                    *)
Gives(s) ==
    /\ s \in Seq(Releases) /\ s # << >> /\ s[Len(s)] = Free("dev")
    /\ Frees(Resources) \cup {Call("disarm"), Call("fw_release")} \subseteq Items(s)
    /\ Before(s, Call("disarm"), Frees(Buffers))
    /\ Before(s, Free("isr"), Frees(Bars))

LEMMA PieceItems ==
  /\ \A R \in {Buffers, Bars} : Items(IrqRelease) \cap Frees(R) = {}
  /\ Items(DmaTeardown) \cap Frees(Bars) = {}
  /\ Items(Unregister) \cap Frees(Buffers) = {}
<1>1. ASSUME NEW s, s \in Items(IrqRelease) PROVE s.what \in {"isr", "vectors"}
  BY <1>1, FreeLists, Looks
<1>2. ASSUME NEW s, s \in Items(DmaTeardown)
      PROVE  s.what \in {"disarm", "sets", "raw", "h264", "stream"}
  BY <1>2, FreeLists, Looks, Kinds
<1>3. ASSUME NEW s, s \in Items(Unregister)
      PROVE  s.what \in {"audio", "video", "ctrls", "v4l2", "bar5", "bar0"}
  BY <1>3, FreeLists, Looks
<1>4. ASSUME NEW s, s \in Frees(Buffers) PROVE s.what \in {"stream", "h264", "sets"}
  BY <1>4, Looks, Parts
<1>5. ASSUME NEW s, s \in Frees(Bars) PROVE s.what \in {"bar0", "bar5"}
  BY <1>5, Looks, Parts
<1> QED
  BY <1>1, <1>2, <1>3, <1>4, <1>5

LEMMA TeardownOrder == Before(DmaTeardown, Call("disarm"), Frees(Buffers))
<1>1. \A i \in 1..Len(DmaTeardown) :
         DmaTeardown[i] \in Frees(Buffers) => 1 \in 1..i - 1 /\ DmaTeardown[1] = Call("disarm")
  BY Kinds, Looks DEF DmaTeardown
<1> QED
  BY <1>1 DEF Before

LEMMA FailList == Gives(FailDma)
<1> DEFINE A == IrqRelease \o DmaTeardown
           F == <<Call("fw_release")>>
           B == A \o F
           C == B \o Unregister
<1>0. F \in Seq(Releases) /\ Items(F) = {Call("fw_release")}
  BY DEF Items, Releases, Undoings
<1> HIDE DEF F
<1>1. A \in Seq(Releases) /\ Items(A) = Items(IrqRelease) \cup Items(DmaTeardown)
  BY FreeLists, ItemsJoin
<1>2. Before(A, Call("disarm"), Frees(Buffers)) /\ Before(A, Free("isr"), Frees(Bars))
  <2>1. Items(IrqRelease) \cap Frees(Buffers) = {} /\ Items(A) \cap Frees(Bars) = {}
    BY <1>1, PieceItems
  <2>2. Before(IrqRelease, Call("disarm"), Frees(Buffers))
    BY <2>1, BeforeNone, Zenon
  <2> QED
    BY <2>1, <2>2, BeforeNone, BeforeJoin, TeardownOrder, FreeLists, Zenon
<1> HIDE DEF A
<1>3. B \in Seq(Releases) /\ Items(B) = Items(A) \cup Items(F)
  BY <1>0, <1>1, ItemsJoin
<1>4. Call("disarm") \in Items(A) /\ Free("isr") \in Items(A)
  BY <1>1, FreeLists, Looks
<1>5. Before(B, Call("disarm"), Frees(Buffers)) /\ Before(B, Free("isr"), Frees(Bars))
  BY <1>0, <1>1, <1>2, <1>4, BeforeJoin, Zenon
<1>6. Call("disarm") \in Items(B) /\ Free("isr") \in Items(B)
  BY <1>3, <1>4
<1> HIDE DEF B
<1>7. C \in Seq(Releases) /\ Items(C) = Items(B) \cup Items(Unregister)
  BY <1>3, FreeLists, ItemsJoin
<1>8. Before(C, Call("disarm"), Frees(Buffers)) /\ Before(C, Free("isr"), Frees(Bars))
  BY <1>3, <1>5, <1>6, FreeLists, BeforeJoin, Zenon
<1>9. Call("disarm") \in Items(C) /\ Free("isr") \in Items(C)
  BY <1>6, <1>7
<1>10. FailDma = C \o FailDisable
  BY DEF FailDma, A, B, C, F
<1> HIDE DEF C
<1>11. /\ FailDma \in Seq(Releases) /\ Items(FailDma) = Items(C) \cup Items(FailDisable)
       /\ FailDma # << >> /\ FailDma[Len(FailDma)] = Free("dev")
  BY <1>7, <1>10, FreeLists, ItemsJoin
<1>12. Before(FailDma, Call("disarm"), Frees(Buffers)) /\ Before(FailDma, Free("isr"), Frees(Bars))
  BY <1>7, <1>8, <1>9, <1>10, FreeLists, BeforeJoin, Zenon
<1>13. Frees(Resources) \cup {Call("disarm"), Call("fw_release")} \subseteq Items(FailDma)
  <2>1. ASSUME NEW r \in Resources PROVE Free(r) \in Items(FailDma)
    BY <1>1, <1>3, <1>7, <1>11, FreeLists, Looks, Parts
  <2>2. Call("disarm") \in Items(FailDma) /\ Call("fw_release") \in Items(FailDma)
    BY <1>0, <1>3, <1>7, <1>9, <1>11
  <2> QED
    BY <2>1, <2>2, Looks
<1> QED
  BY <1>11, <1>12, <1>13 DEF Gives

(* With releases before it that order nothing, it still does.              *)
LEMMA GivesMore ==
  ASSUME NEW X \in Seq(Releases), NEW L, Gives(L),
         Items(X) \cap (Frees(Buffers) \cup Frees(Bars)) = {}
  PROVE  Gives(X \o L)
<1>1. Before(X, Call("disarm"), Frees(Buffers)) /\ Before(X, Free("isr"), Frees(Bars))
  <2>1. Items(X) \cap Frees(Buffers) = {} /\ Items(X) \cap Frees(Bars) = {}
    OBVIOUS
  <2> QED
    BY <2>1, BeforeNone, Zenon
<1>2. L \in Seq(Releases) /\ L # << >>
  BY DEF Gives
<1> QED
  BY <1>1, <1>2, BeforeJoin, ItemsJoin DEF Gives

LEMMA RemoveList ==
  /\ Gives(Away)
  /\ Before(Away, Free("video"), Frees({"dev", "pci", "v4l2", "ctrls"}))
<1> DEFINE A == IrqRelease \o Unregister
           F == <<Call("fw_release"), Call("clear_master")>>
           B == DmaTeardown \o F
           Q == Frees({"dev", "pci", "v4l2", "ctrls"})
<1>0. F \in Seq(Releases) /\ Items(F) = {Call("fw_release"), Call("clear_master")}
  BY DEF Items, Releases, Undoings
<1> HIDE DEF F
<1>1. A \in Seq(Releases) /\ Items(A) = Items(IrqRelease) \cup Items(Unregister)
  BY FreeLists, ItemsJoin
<1>2. Before(A, Free("isr"), Frees(Bars))
  <2>1. Items(IrqRelease) \cap Frees(Bars) = {} /\ Free("isr") \in Items(IrqRelease)
    BY FreeLists, Kinds, Looks, Parts
  <2>2. Before(IrqRelease, Free("isr"), Frees(Bars))
    BY <2>1, BeforeNone, Zenon
  <2> QED
    BY <2>1, <2>2, BeforeJoin, FreeLists, Zenon
<1>3. Before(A, Free("video"), Q)
  <2>1. Items(IrqRelease) \cap Q = {}
    BY FreeLists, Kinds, Looks
  <2>2. Before(IrqRelease, Free("video"), Q)
    BY <2>1, BeforeNone, Zenon
  <2>3. \A i \in 1..Len(Unregister) :
           Unregister[i] \in Q => 2 \in 1..i - 1 /\ Unregister[2] = Free("video")
    BY Kinds, Looks DEF Unregister
  <2>4. Before(Unregister, Free("video"), Q)
    BY <2>3 DEF Before
  <2> QED
    BY <2>2, <2>4, BeforeJoin, FreeLists, Zenon
<1>4. Before(A, Call("disarm"), Frees(Buffers))
  <2>1. Items(A) \cap Frees(Buffers) = {}
    BY <1>1, PieceItems
  <2> QED
    BY <2>1, BeforeNone, Zenon
<1>5. Free("isr") \in Items(A) /\ Free("video") \in Items(A)
  BY <1>1, FreeLists, Looks
<1> HIDE DEF A, Q
<1>6. B \in Seq(Releases) /\ Items(B) = Items(DmaTeardown) \cup Items(F)
  BY <1>0, FreeLists, ItemsJoin
<1>7. Before(B, Call("disarm"), Frees(Buffers)) /\ Call("disarm") \in Items(B)
  <2>1. Call("disarm") \in Items(DmaTeardown)
    BY FreeLists
  <2> QED
    BY <1>0, <1>6, <2>1, TeardownOrder, FreeLists, BeforeJoin, Zenon
<1> HIDE DEF B
<1>8. Release = B \o FailDisable
  BY DEF Release, B, F
<1>9. /\ Release \in Seq(Releases) /\ Items(Release) = Items(B) \cup Items(FailDisable)
      /\ Release # << >> /\ Release[Len(Release)] = Free("dev")
      /\ Before(Release, Call("disarm"), Frees(Buffers))
  <2>1. FailDisable \in Seq(Releases) /\ FailDisable # << >>
        /\ FailDisable[Len(FailDisable)] = Free("dev")
    BY FreeLists
  <2>2. /\ Release \in Seq(Releases) /\ Items(Release) = Items(B) \cup Items(FailDisable)
        /\ Release # << >> /\ Release[Len(Release)] = Free("dev")
    BY <1>6, <1>8, <2>1, ItemsJoin
  <2> QED
    BY <1>6, <1>7, <1>8, <2>1, <2>2, BeforeJoin, Zenon, Zenon
<1>10. Away = A \o Release
  BY DEF Away, A
<1>11. /\ Away \in Seq(Releases) /\ Items(Away) = Items(A) \cup Items(Release)
       /\ Away # << >> /\ Away[Len(Away)] = Free("dev")
  BY <1>1, <1>9, <1>10, ItemsJoin
<1>12. /\ Before(Away, Call("disarm"), Frees(Buffers)) /\ Before(Away, Free("isr"), Frees(Bars))
       /\ Before(Away, Free("video"), Q)
  BY <1>1, <1>2, <1>3, <1>4, <1>5, <1>9, <1>10, BeforeJoin, Zenon
<1>13. Frees(Resources) \cup {Call("disarm"), Call("fw_release")} \subseteq Items(Away)
  BY <1>0, <1>1, <1>6, <1>9, <1>11, FreeLists, Looks, Parts
<1> QED
  BY <1>11, <1>12, <1>13 DEF Gives, Q

(* What a probe that goes on can have to do.                               *)
Spare == {"sets", "h264", "stream", "isr", "vectors"}
Setups == Gets({"v4l2", "ctrls", "video", "audio"}) \cup {Call("bind")}
Goes(s) ==
    /\ s \in Seq(Steps) /\ s # << >> /\ s[Len(s)] = Call("bind")
    /\ Items(s) \subseteq Gets(Resources \ Base) \cup Begins \cup Frees(Spare)
    /\ Items(s) \cap Gets(Banks) # {} => Call("arm") \in Items(s)
    /\ NoneAfter(s, Call("arm"), Arming)
    /\ NoneAfter(s, Get("video"), Steps \ {Get("audio"), Call("bind")})
    /\ Get("video") \in Items(s) =>
          \A r \in {"v4l2", "ctrls"} : Before(s, Get(r), {Get("video")})

LEMMA SetupIs ==
  CardSetup \in {<<Call("bind")>>,
                 <<Get("v4l2"), Get("ctrls"), Get("video"), Call("bind")>>,
                 <<Get("v4l2"), Get("ctrls"), Get("video"), Get("audio"), Call("bind")>>}
<1>1. ASSUME NEW a, NEW b, NEW c, NEW d, NEW e
      PROVE  /\ (<< >> \o << >>) \o <<e>> = <<e>>
             /\ (<<a, b, c>> \o << >>) \o <<e>> = <<a, b, c, e>>
             /\ (<<a, b, c>> \o <<d>>) \o <<e>> = <<a, b, c, d, e>>
  <2> DEFINE S == {a, b, c, d, e}
  <2>1. /\ << >> \in Seq(S) /\ <<e>> \in Seq(S) /\ <<d>> \in Seq(S)
        /\ <<a, b, c>> \in Seq(S) /\ <<a, b, c, d>> \in Seq(S)
    OBVIOUS
  <2>2. << >> \o << >> = << >> /\ << >> \o <<e>> = <<e>> /\ <<a, b, c>> \o << >> = <<a, b, c>>
    BY <2>1, ConcatEmptySeq, Zenon
  <2>3. ASSUME NEW x \in S PROVE <<a, b, c>> \o <<x>> = <<a, b, c, x>>
    <3> DEFINE s == <<a, b, c>> \o <<x>>
               t == <<a, b, c, x>>
    <3>1. s \in Seq(S) /\ t \in Seq(S) /\ Len(s) = Len(t)
      OBVIOUS
    <3>2. \A i \in 1..Len(s) : s[i] = t[i]
      OBVIOUS
    <3> QED
      BY <3>1, <3>2, SeqEqual, Zenon
  <2>4. <<a, b, c, d>> \o <<e>> = <<a, b, c, d, e>>
    <3> DEFINE s == <<a, b, c, d>> \o <<e>>
               t == <<a, b, c, d, e>>
    <3>1. s \in Seq(S) /\ t \in Seq(S) /\ Len(s) = Len(t)
      OBVIOUS
    <3>2. \A i \in 1..Len(s) : s[i] = t[i]
      OBVIOUS
    <3> QED
      BY <3>1, <3>2, SeqEqual, Zenon
  <2>5. /\ <<a, b, c>> \o <<e>> = <<a, b, c, e>> /\ <<a, b, c>> \o <<d>> = <<a, b, c, d>>
    BY <2>3
  <2> QED
    BY <2>2, <2>4, <2>5, Zenon
<1> DEFINE V == <<Get("v4l2"), Get("ctrls"), Get("video")>>
           A == <<Get("audio")>>
           B == <<Call("bind")>>
<1>2. CardSetup \in {(<< >> \o << >>) \o B, (V \o << >>) \o B, (V \o A) \o B}
  <2>1. CardSetup = ((IF opt.video THEN V ELSE << >>)
                        \o (IF opt.video /\ opt.audio THEN A ELSE << >>)) \o B
    BY DEF CardSetup
  <2> HIDE DEF V, A, B
  <2> QED
    BY <2>1
<1> QED
  BY <1>1, <1>2

LEMMA SetupList ==
  /\ CardSetup \in Seq(Steps) /\ CardSetup # << >>
  /\ CardSetup[Len(CardSetup)] = Call("bind")
  /\ Items(CardSetup) \subseteq Setups
  /\ \A i, j \in 1..Len(CardSetup) :
        CardSetup[i] = Get("video") /\ CardSetup[j] \notin {Get("audio"), Call("bind")}
           => j <= i
  /\ \A i \in 1..Len(CardSetup) :
        CardSetup[i] = Get("video") =>
           /\ 1 \in 1..i - 1 /\ CardSetup[1] = Get("v4l2")
           /\ 2 \in 1..i - 1 /\ CardSetup[2] = Get("ctrls")
<1>0. /\ {Get("v4l2"), Get("ctrls"), Get("video"), Get("audio"), Call("bind")} \subseteq Steps
      /\ {Get("v4l2"), Get("ctrls"), Get("video"), Get("audio"), Call("bind")} = Setups
  <2>1. \A r \in {"v4l2", "ctrls", "video", "audio"} : r \in Resources
    BY Parts
  <2> QED
    BY <2>1 DEF Steps, Setups, Gets, Begins
<1> DEFINE G1 == Get("v4l2")
           G2 == Get("ctrls")
           G3 == Get("video")
           G4 == Get("audio")
           G5 == Call("bind")
<1>1. /\ G1 # G3 /\ G2 # G3 /\ G4 # G3 /\ G5 # G3
      /\ G1 # G4 /\ G2 # G4 /\ G1 # G5 /\ G2 # G5
  BY Kinds
<1>2. CardSetup \in {<<G5>>, <<G1, G2, G3, G5>>, <<G1, G2, G3, G4, G5>>}
  BY SetupIs
<1>3. {G1, G2, G3, G4, G5} \subseteq Steps /\ {G1, G2, G3, G4, G5} = Setups
  BY <1>0
<1> HIDE DEF G1, G2, G3, G4, G5
<1>4. CASE CardSetup = <<G5>>
  BY <1>1, <1>3, <1>4 DEF Items, G1, G2, G3, G4, G5
<1>5. CASE CardSetup = <<G1, G2, G3, G5>>
  BY <1>1, <1>3, <1>5 DEF Items, G1, G2, G3, G4, G5
<1>6. CASE CardSetup = <<G1, G2, G3, G4, G5>>
  BY <1>1, <1>3, <1>6 DEF Items, G1, G2, G3, G4, G5
<1> QED
  BY <1>2, <1>4, <1>5, <1>6

LEMMA SetupKinds ==
  ASSUME NEW s \in Setups
  PROVE  /\ s \in Gets(Resources \ Base) \cup Begins
         /\ s \notin Gets(Banks) /\ s # Call("arm") /\ s # Call("firmware")
<1>1. CASE s \in Gets({"v4l2", "ctrls", "video", "audio"})
  <2>1. s.do = "get" /\ s.what \in {"v4l2", "ctrls", "video", "audio"} /\ s = Get(s.what)
    BY <1>1, Looks
  <2>2. s.what \in Resources \ Base /\ s.what \notin Banks
    BY <2>1, Parts
  <2> QED
    BY <2>1, <2>2, Looks, Kinds
<1>2. CASE s = Call("bind")
  BY <1>2, Looks, Kinds DEF Begins
<1> QED
  BY <1>1, <1>2 DEF Setups

LEMMA SetupGoes ==
  /\ Goes(CardSetup)
  /\ Items(CardSetup) \cap Gets(Banks) = {} /\ Call("arm") \notin Items(CardSetup)
<1>1. Items(CardSetup) \cap Gets(Banks) = {} /\ Call("arm") \notin Items(CardSetup)
  BY SetupList, SetupKinds
<1>2. Items(CardSetup) \subseteq Gets(Resources \ Base) \cup Begins \cup Frees(Spare)
  BY SetupList, SetupKinds
<1>3. NoneAfter(CardSetup, Call("arm"), Arming)
  BY <1>1, NoneAfterNone
<1>4. NoneAfter(CardSetup, Get("video"), Steps \ {Get("audio"), Call("bind")})
  BY SetupList DEF NoneAfter
<1>5. ASSUME NEW r \in {"v4l2", "ctrls"}
      PROVE  Before(CardSetup, Get(r), {Get("video")})
  <2>1. CASE r = "v4l2"
    BY <2>1, SetupList DEF Before
  <2>2. CASE r = "ctrls"
    BY <2>2, SetupList DEF Before
  <2> QED
    BY <2>1, <2>2
<1> QED
  BY <1>1, <1>2, <1>3, <1>4, <1>5, SetupList DEF Goes

LEMMA DmaList ==
  /\ Dma \in Seq(Steps)
  /\ Items(Dma) \subseteq Gets(Banks) \cup {Call("arm"), Call("bus_master")}
  /\ Items(Dma) \cap Gets(Banks) # {} => Call("arm") \in Items(Dma)
  /\ NoneAfter(Dma, Call("arm"), Arming)
  /\ \A b \in Buffers : Before(Dma, Get(b), {Call("arm")})
<1> DEFINE G1 == Get("vectors")
           G2 == Get("isr")
           G3 == Get("stream")
           G4 == Get("h264")
           G5 == Get("sets")
           G6 == Get("raw")
           G7 == Call("arm")
           G8 == Call("bus_master")
           S == Gets(Banks) \cup {Call("arm")}
<1>1. G1 # G7 /\ G2 # G7 /\ G3 # G7 /\ G4 # G7 /\ G5 # G7 /\ G6 # G7 /\ G7 \notin Gets(Banks)
  BY Kinds, Looks
<1>2. {G1, G2, G3, G4, G5, G6} \subseteq Gets(Banks)
  BY Looks, Parts
<1>3. S \subseteq Steps /\ S = Gets(Banks) \cup {G7}
  BY Parts DEF Steps, Gets, Begins
<1>4. Dma = <<G8>> \/ Dma = <<G1, G2, G3, G4, G5, G6, G7>>
  BY Zenon DEF Dma
<1>5. \A b \in Buffers : Get(b) \in {G3, G4, G5}
  BY Parts
<1>8. G8 \in Steps /\ G8 # G7 /\ G8 \notin Gets(Banks)
  BY Kinds, Looks DEF Steps, Begins
<1> HIDE DEF G1, G2, G3, G4, G5, G6, G7, G8, S
<1>6. CASE Dma = <<G8>>
  <2>1. Dma \in Seq(Steps) /\ Items(Dma) = {G8}
    BY <1>6, <1>8 DEF Items
  <2>2. Items(Dma) \cap {G7} = {} /\ G7 \notin Items(Dma)
    BY <1>8, <2>1
  <2>3. NoneAfter(Dma, G7, Arming) /\ \A b \in Buffers : Before(Dma, Get(b), {G7})
    BY <2>2, BeforeNone, NoneAfterNone, Zenon
  <2>4. /\ Items(Dma) \subseteq Gets(Banks) \cup {G7, G8}
        /\ Items(Dma) \cap Gets(Banks) = {}
    BY <1>8, <2>1
  <2> QED
    BY <2>1, <2>3, <2>4, Zenon DEF G7, G8
<1>7. CASE Dma = <<G1, G2, G3, G4, G5, G6, G7>>
  <2>1. /\ Dma \in Seq(S) /\ Len(Dma) = 7
        /\ Dma[1] = G1 /\ Dma[2] = G2 /\ Dma[3] = G3 /\ Dma[4] = G4 /\ Dma[5] = G5
        /\ Dma[6] = G6 /\ Dma[7] = G7
    BY <1>2, <1>3, <1>7
  <2>2. Items(Dma) = {G1, G2, G3, G4, G5, G6, G7}
    BY <2>1 DEF Items
  <2>3. Dma \in Seq(Steps)
    BY <2>1, <1>3
  <2>4. \A i \in 1..Len(Dma) : Dma[i] = G7 => i = 7
    BY <1>1, <2>1
  <2>5. \A g \in {G3, G4, G5} : Before(Dma, g, {G7})
    BY <2>1, <2>4 DEF Before
  <2>6. NoneAfter(Dma, G7, Gets(Banks) \cup {G7})
    BY <2>1, <2>4 DEF NoneAfter
  <2> QED
    BY <1>2, <1>5, <2>2, <2>3, <2>5, <2>6, Zenon DEF G7, Arming
<1> QED
  BY <1>4, <1>6, <1>7

(* A probe that goes on, of which nothing has failed.                      *)
Fresh(s) ==
    /\ Goes(s) /\ Items(s) \cap Frees(Resources) = {}
    /\ \A b \in Buffers : Before(s, Get(b), {Call("arm")})

LEMMA OnwardFresh == Fresh(Onward)
<1>1. Items(CardSetup) \cap Frees(Resources) = {}
  BY SetupList, Kinds, Looks DEF Setups
<1>2. Items(Dma) \cap Frees(Resources) = {}
  BY DmaList, Kinds, Looks
<1>3. /\ CardSetup \in Seq(Steps) /\ CardSetup # << >>
      /\ CardSetup[Len(CardSetup)] = Call("bind")
      /\ Items(CardSetup) \subseteq Gets(Resources \ Base) \cup Begins \cup Frees(Spare)
  BY SetupGoes DEF Goes
<1>4. /\ Onward \in Seq(Steps) /\ Items(Onward) = Items(Dma) \cup Items(CardSetup)
      /\ Onward # << >> /\ Onward[Len(Onward)] = Call("bind")
  BY <1>3, DmaList, ItemsJoin DEF Onward
<1>5. /\ Gets(Banks) \subseteq Gets(Resources \ Base)
      /\ Call("arm") \in Begins /\ Call("bus_master") \in Begins
  BY Parts DEF Gets, Begins
<1>6. NoneAfter(Onward, Call("arm"), Arming)
  <2>1. NoneAfter(CardSetup, Call("arm"), Arming) /\ Items(CardSetup) \cap Arming = {}
    BY SetupGoes DEF Goes, Arming
  <2> QED
    BY <2>1, <1>3, DmaList, NoneAfterJoin, Zenon DEF Onward
<1>7. Get("video") \notin Items(Dma)
  BY DmaList, Kinds, Looks, Parts
<1>8. NoneAfter(Onward, Get("video"), Steps \ {Get("audio"), Call("bind")})
  <2>1. NoneAfter(CardSetup, Get("video"), Steps \ {Get("audio"), Call("bind")})
    BY SetupGoes DEF Goes
  <2>2. NoneAfter(Dma, Get("video"), Steps \ {Get("audio"), Call("bind")})
    BY <1>7, NoneAfterNone, Zenon
  <2> QED
    BY <2>1, <2>2, <1>3, <1>7, DmaList, NoneAfterJoin, Zenon DEF Onward
<1>9. ASSUME Get("video") \in Items(Onward), NEW r \in {"v4l2", "ctrls"}
      PROVE  Before(Onward, Get(r), {Get("video")})
  <2>1. Before(CardSetup, Get(r), {Get("video")})
    BY <1>4, <1>7, <1>9, SetupGoes DEF Goes
  <2>2. Items(Dma) \cap {Get("video")} = {}
    BY <1>7
  <2>3. Before(Dma, Get(r), {Get("video")})
    BY <2>2, BeforeNone, Zenon
  <2> QED
    BY <2>1, <2>3, <1>3, DmaList, BeforeJoin, Zenon DEF Onward
<1>10. ASSUME NEW b \in Buffers PROVE Before(Onward, Get(b), {Call("arm")})
  <2>1. Items(CardSetup) \cap {Call("arm")} = {}
    BY SetupGoes
  <2>2. Before(CardSetup, Get(b), {Call("arm")})
    BY <2>1, BeforeNone, Zenon
  <2> QED
    BY <2>2, <1>3, DmaList, BeforeJoin, Zenon DEF Onward
<1>11. Items(Onward) \cap Frees(Resources) = {}
  BY <1>1, <1>2, <1>4
<1>12. /\ Items(Onward) \subseteq Gets(Resources \ Base) \cup Begins \cup Frees(Spare)
       /\ Items(Onward) \cap Gets(Banks) # {} => Call("arm") \in Items(Onward)
  BY <1>3, <1>4, <1>5, DmaList, SetupGoes
<1> QED
  BY <1>4, <1>6, <1>8, <1>9, <1>10, <1>11, <1>12 DEF Fresh, Goes

(* Steps of a probe before those that are not ordered with any of them.    *)
LEMMA GoesMore ==
  ASSUME NEW X \in Seq(Steps), NEW L, Goes(L),
         Items(X) \subseteq Frees(Spare) \cup {Call("firmware")}
  PROVE  /\ Goes(X \o L) /\ X \o L \in Seq(Steps)
         /\ Items(X \o L) = Items(X) \cup Items(L)
         /\ \A b \in Buffers : Before(L, Get(b), {Call("arm")})
                                  => Before(X \o L, Get(b), {Call("arm")})
<1>1. L \in Seq(Steps) /\ L # << >> /\ L[Len(L)] = Call("bind")
  BY DEF Goes
<1>2. \A s \in Items(X) : s \notin Gets(Resources) /\ s # Call("arm")
                          /\ s # Get("video") /\ s \notin Gets(Banks)
  BY Kinds, Looks
<1>3. /\ X \o L \in Seq(Steps) /\ Items(X \o L) = Items(X) \cup Items(L)
      /\ X \o L # << >> /\ (X \o L)[Len(X \o L)] = Call("bind")
  BY <1>1, ItemsJoin
<1>4. \A r : Before(X, Get(r), {Call("arm")}) /\ Before(X, Get(r), {Get("video")})
  <2>1. Items(X) \cap {Call("arm")} = {} /\ Items(X) \cap {Get("video")} = {}
    BY <1>2
  <2> QED
    BY <2>1, BeforeNone, Zenon
<1>5. NoneAfter(X \o L, Call("arm"), Arming)
  <2>1. NoneAfter(L, Call("arm"), Arming) /\ Call("arm") \notin Items(X)
    BY <1>2 DEF Goes
  <2> QED
    BY <1>1, <2>1, NoneAfterNone, NoneAfterJoin, Zenon
<1>6. NoneAfter(X \o L, Get("video"), Steps \ {Get("audio"), Call("bind")})
  <2>1. /\ NoneAfter(L, Get("video"), Steps \ {Get("audio"), Call("bind")})
        /\ Get("video") \notin Items(X)
    BY <1>2 DEF Goes
  <2> QED
    BY <1>1, <2>1, NoneAfterNone, NoneAfterJoin, Zenon
<1>7. \A b \in Buffers : Before(L, Get(b), {Call("arm")})
                            => Before(X \o L, Get(b), {Call("arm")})
  BY <1>1, <1>4, BeforeJoin, Zenon
<1>8. Get("video") \in Items(X \o L) =>
         \A r \in {"v4l2", "ctrls"} : Before(X \o L, Get(r), {Get("video")})
  <2>1. Get("video") \in Items(X \o L) =>
           \A r \in {"v4l2", "ctrls"} : Before(L, Get(r), {Get("video")})
    BY <1>2, <1>3 DEF Goes
  <2> QED
    BY <2>1, <1>1, <1>4, BeforeJoin, Zenon
<1>9. /\ Items(X \o L) \subseteq Gets(Resources \ Base) \cup Begins \cup Frees(Spare)
      /\ Items(X \o L) \cap Gets(Banks) # {} => Call("arm") \in Items(X \o L)
  BY <1>2, <1>3 DEF Goes, Begins
<1> QED
  BY <1>3, <1>5, <1>6, <1>7, <1>8, <1>9 DEF Goes

LEMMA StartFresh == Fresh(<<Call("firmware")>> \o Onward)
<1> DEFINE X == <<Call("firmware")>>
<1>1. X \in Seq(Steps) /\ Items(X) = {Call("firmware")}
  BY DEF Items, Steps, Begins
<1> HIDE DEF X
<1>2. Goes(Onward) /\ Items(Onward) \cap Frees(Resources) = {}
      /\ \A b \in Buffers : Before(Onward, Get(b), {Call("arm")})
  BY OnwardFresh DEF Fresh
<1>3. /\ Goes(X \o Onward) /\ Items(X \o Onward) = Items(X) \cup Items(Onward)
      /\ \A b \in Buffers : Before(X \o Onward, Get(b), {Call("arm")})
  BY <1>1, <1>2, GoesMore
<1>4. Call("firmware") \notin Frees(Resources)
  BY Kinds, Looks
<1>5. Fresh(X \o Onward)
  BY <1>1, <1>2, <1>3, <1>4 DEF Fresh
<1> QED
  BY <1>5 DEF X

(* A probe that goes on without streaming, after what it gives back.       *)
Bare(s) ==
    /\ Goes(s)
    /\ Items(s) \cap Gets(Banks) = {} /\ Call("arm") \notin Items(s)

LEMMA BareLists ==
  /\ Bare(CardSetup) /\ Bare(<<Free("vectors")>> \o CardSetup) /\ Bare(NoDma)
  /\ Bare(<<Free("stream")>> \o NoDma)
  /\ Bare(<<Free("h264"), Free("stream")>> \o NoDma)
  /\ Bare(<<Free("sets"), Free("h264"), Free("stream")>> \o NoDma)
<1>0. Bare(CardSetup)
  BY SetupGoes DEF Bare
<1>1. ASSUME NEW X \in Seq(Steps), Items(X) \subseteq Frees(Spare), NEW L, Bare(L)
      PROVE  Bare(X \o L)
  <2>1. Goes(X \o L) /\ Items(X \o L) = Items(X) \cup Items(L)
    BY <1>1, GoesMore DEF Bare
  <2>2. \A s \in Items(X) : s \notin Gets(Banks) /\ s # Call("arm")
    BY <1>1, Kinds, Looks
  <2> QED
    BY <1>1, <2>1, <2>2 DEF Bare
<1>2. Frees(Spare) \subseteq Steps
  BY Parts DEF Frees, Spare, Steps
<1>3. \A r \in Spare : Free(r) \in Frees(Spare)
  BY Looks
<1>4. "vectors" \in Spare /\ "isr" \in Spare /\ "stream" \in Spare /\ "h264" \in Spare
      /\ "sets" \in Spare
  BY DEF Spare
<1>5. /\ IrqRelease \in Seq(Steps) /\ Items(IrqRelease) \subseteq Frees(Spare)
      /\ <<Free("vectors")>> \in Seq(Steps) /\ Items(<<Free("vectors")>>) \subseteq Frees(Spare)
  BY <1>2, <1>3, <1>4 DEF IrqRelease, Items
<1>6. /\ <<Free("stream")>> \in Seq(Steps) /\ Items(<<Free("stream")>>) \subseteq Frees(Spare)
      /\ <<Free("h264"), Free("stream")>> \in Seq(Steps)
      /\ Items(<<Free("h264"), Free("stream")>>) \subseteq Frees(Spare)
  BY <1>2, <1>3, <1>4 DEF Items
<1>7. /\ <<Free("sets"), Free("h264"), Free("stream")>> \in Seq(Steps)
      /\ Items(<<Free("sets"), Free("h264"), Free("stream")>>) \subseteq Frees(Spare)
  BY <1>2, <1>3, <1>4 DEF Items
<1>8. Bare(NoDma)
  BY <1>0, <1>1, <1>5 DEF NoDma
<1> QED
  BY <1>0, <1>1, <1>5, <1>6, <1>7, <1>8, Zenon

(* What remains of a list whose first steps are written out.               *)
Front(L, x, X) == x \o L # << >> /\ Head(x \o L) = Head(x) /\ Tail(x \o L) = X

LEMMA FrontSteps ==
  ASSUME NEW S, NEW L \in Seq(S)
  PROVE  /\ \A a \in S : Front(L, <<a>>, L)
         /\ \A a \in S, b \in S : Front(L, <<a, b>>, <<b>> \o L)
         /\ \A a \in S, b \in S, c \in S : Front(L, <<a, b, c>>, <<b, c>> \o L)
         /\ \A a \in S, b \in S, c \in S, d \in S :
               Front(L, <<a, b, c, d>>, <<b, c, d>> \o L)
         /\ \A a \in S, b \in S, c \in S, d \in S, e \in S :
               Front(L, <<a, b, c, d, e>>, <<b, c, d, e>> \o L)
<1>1. ASSUME NEW X \in Seq(S), X # << >>, NEW Y, Tail(X) = Y
      PROVE  Front(L, X, Y \o L)
  BY <1>1, TailJoin DEF Front
<1>2. \A a \in S : Front(L, <<a>>, L)
  <2> TAKE a \in S
  <2>1. <<a>> \in Seq(S) /\ <<a>> # << >> /\ Tail(<<a>>) = << >>
    OBVIOUS
  <2>2. Front(L, <<a>>, << >> \o L)
    BY <1>1, <2>1, Zenon
  <2>3. << >> \o L = L
    BY ConcatEmptySeq, Zenon
  <2> QED
    BY <2>2, <2>3, Zenon
<1>3. \A a \in S, b \in S : Front(L, <<a, b>>, <<b>> \o L)
  <2> TAKE a \in S, b \in S
  <2>1. <<a, b>> \in Seq(S) /\ <<a, b>> # << >> /\ Tail(<<a, b>>) = <<b>>
    OBVIOUS
  <2> QED
    BY <1>1, <2>1, Zenon
<1>4. \A a \in S, b \in S, c \in S : Front(L, <<a, b, c>>, <<b, c>> \o L)
  <2> TAKE a \in S, b \in S, c \in S
  <2>1. <<a, b, c>> \in Seq(S) /\ <<a, b, c>> # << >> /\ Tail(<<a, b, c>>) = <<b, c>>
    OBVIOUS
  <2> QED
    BY <1>1, <2>1, Zenon
<1>5. \A a \in S, b \in S, c \in S, d \in S : Front(L, <<a, b, c, d>>, <<b, c, d>> \o L)
  <2> TAKE a \in S, b \in S, c \in S, d \in S
  <2>1. <<a, b, c, d>> \in Seq(S) /\ <<a, b, c, d>> # << >> /\ Tail(<<a, b, c, d>>) = <<b, c, d>>
    OBVIOUS
  <2> QED
    BY <1>1, <2>1, Zenon
<1>6. \A a \in S, b \in S, c \in S, d \in S, e \in S : Front(L, <<a, b, c, d, e>>, <<b, c, d, e>> \o L)
  <2> TAKE a \in S, b \in S, c \in S, d \in S, e \in S
  <2>1. <<a, b, c, d, e>> \in Seq(S) /\ <<a, b, c, d, e>> # << >> /\ Tail(<<a, b, c, d, e>>) = <<b, c, d, e>>
    OBVIOUS
  <2> QED
    BY <1>1, <2>1, Zenon
<1> QED
  BY <1>2, <1>3, <1>4, <1>5, <1>6, Zenon

LEMMA ProbeList ==
  Probe = <<Get("dev"), Get("pci"), Get("bar0"), Get("bar5"), Call("firmware")>> \o Onward
<1> DEFINE X == <<Get("dev"), Get("pci"), Get("bar0"), Get("bar5"), Call("firmware")>>
<1>1. /\ Get("dev") \in Steps /\ Get("pci") \in Steps /\ Get("bar0") \in Steps
      /\ Get("bar5") \in Steps /\ Call("firmware") \in Steps
  BY Looks, Parts DEF Steps, Begins
<1>2. X \in Seq(Steps)
  BY <1>1
<1>3. CardSetup \in Seq(Steps)
  BY SetupList
<1>4. Probe = (X \o Dma) \o CardSetup
  BY DEF Probe
<1> HIDE DEF X
<1>5. Probe = X \o Onward
  BY <1>2, <1>3, <1>4, DmaList, ConcatAssociative DEF Onward
<1> QED
  BY <1>5 DEF X

LEMMA RemoveIs == Remove = Stage(1)
<1> DEFINE X == <<Call("list_del"), Call("watch_stop"), Call("nosg_stop"), Call("dma_stop")>>
           S == Steps
<1>1. Releases \subseteq S /\ Quiets \subseteq S
  BY DEF Steps, Releases
<1>2. <<Call("list_del")>> \o Quiesce = X
  <2>1. ASSUME NEW a, NEW b, NEW c, NEW d
        PROVE  <<a>> \o <<b, c, d>> = <<a, b, c, d>>
    <3> DEFINE T == {a, b, c, d}
               s == <<a>> \o <<b, c, d>>
               t == <<a, b, c, d>>
    <3>1. s \in Seq(T) /\ t \in Seq(T) /\ Len(s) = Len(t)
      OBVIOUS
    <3>2. \A i \in 1..Len(s) : s[i] = t[i]
      OBVIOUS
    <3> QED
      BY <3>1, <3>2, SeqEqual, Zenon
  <2> QED
    BY <2>1 DEF Quiesce
<1>3. X \in Seq(S) /\ IrqRelease \in Seq(S) /\ Unregister \in Seq(S) /\ Release \in Seq(S)
  <2>1. Release \in Seq(Releases)
    <3> DEFINE F == <<Call("fw_release"), Call("clear_master")>>
    <3>1. F \in Seq(Releases)
      BY DEF Releases, Undoings
    <3> HIDE DEF F
    <3>2. Release = (DmaTeardown \o F) \o FailDisable
      BY DEF Release, F
    <3> QED
      BY <3>1, <3>2, FreeLists, ItemsJoin, Zenon
  <2>2. X \in Seq(Quiets)
    BY DEF Quiets
  <2> HIDE DEF X
  <2> QED
    BY <1>1, <2>1, <2>2, FreeLists
<1> HIDE DEF X, S
<1>4. Remove = ((X \o IrqRelease) \o Unregister) \o Release
  BY <1>2, Zenon DEF Remove
<1>5. X \o IrqRelease \in Seq(S) /\ IrqRelease \o Unregister \in Seq(S)
  BY <1>3, JoinPlaces, Zenon
<1>6. (X \o IrqRelease) \o Unregister = X \o (IrqRelease \o Unregister)
  BY <1>3, ConcatAssociative
<1> DEFINE Y == IrqRelease \o Unregister
<1>8. Remove = (X \o Y) \o Release /\ Y \in Seq(S)
  BY <1>4, <1>5, <1>6
<1> HIDE DEF Y
<1>7. Remove = X \o (Y \o Release)
  BY <1>3, <1>8, ConcatAssociative
<1> QED
  BY <1>7 DEF Stage, Away, X, Y

(* A list that gives back all, with no step before what must precede it.   *)
Closes(s) ==
    /\ s \in Seq(Steps) /\ s # << >> /\ s[Len(s)] = Free("dev")
    /\ Frees(Resources) \cup {Call("disarm"), Call("fw_release")} \subseteq Items(s)
    /\ Before(s, Call("disarm"), Frees(Buffers))
    /\ Before(s, Free("isr"), Frees(Bars))
    /\ Items(s) \cap (Gets(Resources) \cup Begins) = {}
Unmakes(s) == Before(s, Free("video"), Frees({"dev", "pci", "v4l2", "ctrls"}))

LEMMA ReleaseKinds ==
  /\ Releases \subseteq Steps /\ Quiets \subseteq Steps
  /\ Releases \cap (Gets(Resources) \cup Begins \cup Quiets) = {}
  /\ Quiets \cap (Gets(Resources) \cup Frees(Resources) \cup Begins) = {}
<1>1. Releases \subseteq Steps /\ Quiets \subseteq Steps
  BY DEF Steps, Releases
<1>2. \A s \in Frees(Resources) : s \notin Gets(Resources) /\ s \notin Begins /\ s \notin Quiets
  BY Looks, Kinds DEF Begins, Quiets
<1>3. \A s \in Undoings : /\ s \notin Gets(Resources)
                          /\ s.what \in {"disarm", "fw_release", "clear_master"}
  BY Looks, Kinds DEF Undoings
<1>4. \A s \in Quiets :
         /\ s \notin Gets(Resources) /\ s \notin Frees(Resources)
         /\ s.what \in {"list_del", "watch_stop", "nosg_stop", "dma_stop"}
  BY Looks, Kinds DEF Quiets
<1>5. \A s \in Begins : s.what \in {"firmware", "arm", "bus_master", "bind"}
  BY Kinds DEF Begins
<1>6. Undoings \cap Begins = {} /\ Undoings \cap Quiets = {} /\ Quiets \cap Begins = {}
  BY <1>3, <1>4, <1>5
<1> QED
  BY <1>1, <1>2, <1>3, <1>4, <1>6 DEF Releases

LEMMA GivesCloses ==
  ASSUME NEW L, Gives(L)
  PROVE  Closes(L) /\ Items(L) \cap Quiets = {}
<1>1. Items(L) \subseteq Releases
  BY DEF Gives, Items
<1> QED
  BY <1>1, ReleaseKinds DEF Gives, Closes

LEMMA StageLists ==
  /\ \A n \in 1..4 : Closes(Stage(n)) /\ Unmakes(Stage(n))
  /\ Closes(Away) /\ Unmakes(Away) /\ Items(Away) \cap Quiets = {}
  /\ Call("nosg_stop") \notin Items(Stage(4))
  /\ Head(Stage(1)) = Call("list_del") /\ Tail(Stage(1)) = Stage(2)
  /\ Head(Stage(2)) = Call("watch_stop") /\ Tail(Stage(2)) = Stage(3)
  /\ Head(Stage(3)) = Call("nosg_stop") /\ Tail(Stage(3)) = Stage(4)
  /\ Head(Stage(4)) = Call("dma_stop") /\ Tail(Stage(4)) = Away
<1>1. Closes(Away) /\ Unmakes(Away) /\ Items(Away) \cap Quiets = {}
  BY RemoveList, GivesCloses DEF Unmakes
<1>2. ASSUME NEW X \in Seq(Quiets) PROVE Closes(X \o Away) /\ Unmakes(X \o Away)
  <2>1. X \in Seq(Steps) /\ Items(X) \subseteq Quiets /\ Away \in Seq(Steps)
    BY <1>1, ReleaseKinds DEF Items, Closes
  <2>2. \A R \in SUBSET Resources : \A p : Before(X, p, Frees(R))
    <3>1. \A R \in SUBSET Resources : Items(X) \cap Frees(R) = {}
      BY <2>1, ReleaseKinds DEF Frees
    <3> QED
      BY <3>1, BeforeNone, Zenon
  <2>3. Bars \subseteq Resources /\ Buffers \subseteq Resources
        /\ {"dev", "pci", "v4l2", "ctrls"} \subseteq Resources
    BY Parts
  <2>4. /\ Before(X \o Away, Call("disarm"), Frees(Buffers))
        /\ Before(X \o Away, Free("isr"), Frees(Bars)) /\ Unmakes(X \o Away)
    BY <1>1, <2>1, <2>2, <2>3, BeforeJoin, Zenon DEF Closes, Unmakes
  <2>5. /\ X \o Away \in Seq(Steps) /\ X \o Away # << >>
        /\ (X \o Away)[Len(X \o Away)] = Free("dev")
        /\ Items(X \o Away) = Items(X) \cup Items(Away)
    BY <1>1, <2>1, ItemsJoin DEF Closes
  <2> QED
    BY <1>1, <2>1, <2>4, <2>5, ReleaseKinds DEF Closes
<1>3. /\ <<Call("list_del"), Call("watch_stop"), Call("nosg_stop"), Call("dma_stop")>> \in Seq(Quiets)
      /\ <<Call("watch_stop"), Call("nosg_stop"), Call("dma_stop")>> \in Seq(Quiets)
      /\ <<Call("nosg_stop"), Call("dma_stop")>> \in Seq(Quiets)
      /\ <<Call("dma_stop")>> \in Seq(Quiets)
  BY DEF Quiets
<1>7. /\ Stage(1) = <<Call("list_del"), Call("watch_stop"), Call("nosg_stop"),
                      Call("dma_stop")>> \o Away
      /\ Stage(2) = <<Call("watch_stop"), Call("nosg_stop"), Call("dma_stop")>> \o Away
      /\ Stage(3) = <<Call("nosg_stop"), Call("dma_stop")>> \o Away
      /\ Stage(4) = <<Call("dma_stop")>> \o Away
  BY DEF Stage
<1>4. \A n \in 1..4 : Closes(Stage(n)) /\ Unmakes(Stage(n))
  <2>1. \A n \in 1..4 : n = 1 \/ n = 2 \/ n = 3 \/ n = 4
    OBVIOUS
  <2> QED
    BY <1>2, <1>3, <1>7, <2>1, Zenon
<1> DEFINE c1 == Call("list_del")
           c2 == Call("watch_stop")
           c3 == Call("nosg_stop")
           c4 == Call("dma_stop")
<1>5. /\ c1 \in Steps /\ c2 \in Steps /\ c3 \in Steps /\ c4 \in Steps
      /\ Away \in Seq(Steps) /\ Away # << >>
  BY <1>1, ReleaseKinds DEF Quiets, Closes
<1>8. /\ Stage(1) = <<c1, c2, c3, c4>> \o Away /\ Stage(2) = <<c2, c3, c4>> \o Away
      /\ Stage(3) = <<c3, c4>> \o Away /\ Stage(4) = <<c4>> \o Away
  BY <1>7
<1> HIDE DEF c1, c2, c3, c4
<1>9. /\ Head(Stage(1)) = c1 /\ Tail(Stage(1)) = Stage(2)
      /\ Head(Stage(2)) = c2 /\ Tail(Stage(2)) = Stage(3)
      /\ Head(Stage(3)) = c3 /\ Tail(Stage(3)) = Stage(4)
      /\ Head(Stage(4)) = c4 /\ Tail(Stage(4)) = Away
  <2>1. /\ Front(Away, <<c4>>, Away) /\ Front(Away, <<c3, c4>>, <<c4>> \o Away)
        /\ Front(Away, <<c2, c3, c4>>, <<c3, c4>> \o Away)
        /\ Front(Away, <<c1, c2, c3, c4>>, <<c2, c3, c4>> \o Away)
    BY <1>5, FrontSteps
  <2>2. Head(<<c4>>) = c4 /\ Head(<<c3, c4>>) = c3 /\ Head(<<c2, c3, c4>>) = c2
        /\ Head(<<c1, c2, c3, c4>>) = c1
    OBVIOUS
  <2> QED
    BY <1>8, <2>1, <2>2 DEF Front
<1>6. /\ Head(Stage(1)) = Call("list_del") /\ Tail(Stage(1)) = Stage(2)
      /\ Head(Stage(2)) = Call("watch_stop") /\ Tail(Stage(2)) = Stage(3)
      /\ Head(Stage(3)) = Call("nosg_stop") /\ Tail(Stage(3)) = Stage(4)
      /\ Head(Stage(4)) = Call("dma_stop") /\ Tail(Stage(4)) = Away
  BY <1>9, Zenon DEF c1, c2, c3, c4
<1>10. Call("nosg_stop") \notin Items(Stage(4))
  <2>1. Stage(4) \in Seq(Steps) /\ Stage(4) # << >>
    BY <1>4 DEF Closes
  <2>2. Items(Stage(4)) = {Call("dma_stop")} \cup Items(Away)
    BY <1>6, <2>1, ItemsTail
  <2>3. Call("nosg_stop") # Call("dma_stop")
    BY Kinds
  <2> QED
    BY <1>1, <2>2, <2>3 DEF Quiets
<1> QED
  BY <1>1, <1>4, <1>6, <1>10

-----------------------------------------------------------------------------
(***************************************************************************)
(* The steps of a handler.                                                 *)
(***************************************************************************)
LEMMA Heads ==
  ASSUME Typed, Busy, NEW s, Step(s)
  PROVE  /\ todo \in Seq(Steps) /\ todo # << >> /\ Head(todo) = s
         /\ Tail(todo) \in Seq(Steps) /\ s \in Items(todo) /\ s \in Steps
         /\ Items(todo) = {s} \cup Items(Tail(todo)) /\ Items(todo) \subseteq Steps
         /\ Tail(todo) = << >> => s \in {Call("bind"), Free("dev")}
         /\ Tail(todo) # << >> =>
               Tail(todo)[Len(Tail(todo))] \in {Call("bind"), Free("dev")}
         /\ phase \in {"probe", "remove"} /\ phase # "bound" /\ phase # "unbound"
<1>1. todo \in Seq(Steps) /\ todo # << >> /\ Head(todo) = s
  BY DEF Typed, Step
<1>2. phase \in {"probe", "remove"} /\ todo[Len(todo)] \in {Call("bind"), Free("dev")}
  BY <1>1 DEF Typed, Busy
<1>3. /\ Tail(todo) \in Seq(Steps) /\ s \in Items(todo) /\ s \in Steps
      /\ Items(todo) = {s} \cup Items(Tail(todo)) /\ Items(todo) \subseteq Steps
      /\ todo[Len(todo)] = IF Tail(todo) = << >> THEN s ELSE Tail(todo)[Len(Tail(todo))]
  BY <1>1, ItemsTail, TailPlaces
<1> QED
  BY <1>1, <1>2, <1>3

LEMMA NoItems == Items(<< >>) = {}
BY DEF Items

(* A last step is one of the list.                                         *)
LEMMA LastItem ==
  ASSUME NEW S, NEW L \in Seq(S), L # << >>
  PROVE  L[Len(L)] \in Items(L)
BY DEF Items

(* Which handler takes the step, and where it is.                          *)
LEMMA Whose ==
  ASSUME IInv, NEW s, Step(s)
  PROVE  /\ ~Going => Closing
         /\ Going => phase = "probe" /\ (Opening \/ Ahead)
         /\ s \in Gets(Resources) \cup Begins => Going
         /\ s \notin Gets(Resources) /\ Going => Ahead
         /\ s \in Quiets \cup Undoings => ~Going
         /\ s \notin Quiets => \A n \in 1..4 : ~Early(n)
<1>1. Typed /\ Busy /\ Handling
  BY DEF IInv
<1>2. /\ s \in Items(todo) /\ phase \in {"probe", "remove"} /\ Head(todo) = s
      /\ todo \in Seq(Steps) /\ todo # << >>
  BY <1>1, Heads
<1>3. (~Going => Closing) /\ (Going => phase = "probe" /\ (Opening \/ Ahead))
  BY <1>1, <1>2 DEF Handling
<1>4. s \in Gets(Resources) \cup Begins => Going
  BY <1>2, <1>3 DEF Closing
<1>5. Opening => s \in Gets(Resources)
  <2>1. /\ Get("dev") \in Steps /\ Get("pci") \in Steps /\ Get("bar0") \in Steps
        /\ Get("bar5") \in Steps /\ Call("firmware") \in Steps
    BY Looks, Parts DEF Steps, Begins
  <2>2. Onward \in Seq(Steps)
    BY OnwardFresh DEF Fresh, Goes
  <2>3. Opening => s \in {Get("dev"), Get("pci"), Get("bar0"), Get("bar5")}
    BY <1>2, <2>1, <2>2, TailJoin DEF Opening
  <2> QED
    BY <2>3, Looks, Parts
<1>6. Ahead => s \notin Quiets \cup Undoings
  <2>1. Ahead => s \in Gets(Resources \ Base) \cup Begins \cup Frees(Spare)
    BY <1>2 DEF Ahead, Spare
  <2> QED
    BY <2>1, Kinds, Looks DEF Quiets, Undoings, Begins
<1>7. s \in Quiets \cup Undoings => s \notin Gets(Resources)
  BY Kinds, Looks DEF Quiets, Undoings
<1>8. \A n \in 1..4 : Early(n) => s \in Quiets
  BY <1>2, StageLists DEF Early, Quiets
<1> QED
  BY <1>3, <1>4, <1>5, <1>6, <1>7, <1>8

(* A list that quiets nothing is no stage of a removal.                    *)
LEMMA StageQuiets ==
  ASSUME NEW n \in 1..4
  PROVE  Stage(n)' = Stage(n) /\ Items(Stage(n)') \cap Quiets # {}
<1>1. Stage(n)' = Stage(n)
  BY DEF Stage, Away, IrqRelease, Unregister, Release, DmaTeardown, FailDisable, Free, Call
<1>2. /\ Head(Stage(1)) \in Quiets /\ Head(Stage(2)) \in Quiets
      /\ Head(Stage(3)) \in Quiets /\ Head(Stage(4)) \in Quiets
  BY StageLists DEF Quiets
<1>3. n = 1 \/ n = 2 \/ n = 3 \/ n = 4
  OBVIOUS
<1>4. Head(Stage(n)) \in Quiets /\ Stage(n) \in Seq(Steps) /\ Stage(n) # << >>
  BY <1>2, <1>3, StageLists DEF Closes
<1> QED
  BY <1>1, <1>4, ItemsTail

LEMMA AheadTail ==
  ASSUME Typed, Ahead, Going, todo # << >>, todo' = Tail(todo), armed' = armed,
         Head(todo) \notin {Call("arm"), Call("bind")},
         \A b \in Base \cup {"v4l2", "ctrls"} :
            b \in held \/ Head(todo) = Get(b) => b \in held',
         Call("arm") \in Items(todo) =>
            \A b \in Buffers : b \in held \/ Head(todo) = Get(b) => b \in held',
         "video" \in held' => "video" \in held \/ Head(todo) = Get("video")
  PROVE  Ahead' /\ Going'
<1>1. /\ todo \in Seq(Steps) /\ Tail(todo) \in Seq(Steps)
      /\ Items(todo) = {Head(todo)} \cup Items(Tail(todo)) /\ Items(todo) \subseteq Steps
  BY ItemsTail, TailPlaces DEF Typed
<1>2. Going'
  BY <1>1 DEF Going
<1>3. Base \subseteq held'
  BY DEF Ahead
<1>4. Items(todo') \subseteq Gets(Resources \ Base) \cup Begins
                               \cup Frees({"sets", "h264", "stream", "isr", "vectors"})
  BY <1>1 DEF Ahead
<1>5. ASSUME Call("arm") \in Items(todo')
      PROVE  /\ ~armed' /\ Items(todo') \cap Frees(Resources) = {}
             /\ \A b \in Buffers : b \in held' \/ Before(todo', Get(b), {Call("arm")})
  <2>1. Call("arm") \in Items(todo)
    BY <1>1, <1>5
  <2>2. ASSUME NEW b \in Buffers, b \notin held'
        PROVE  Before(todo', Get(b), {Call("arm")})
    <3>1. Before(todo, Get(b), {Call("arm")}) /\ Head(todo) # Get(b)
      BY <2>1, <2>2 DEF Ahead
    <3> QED
      BY <1>1, <3>1, BeforeTail, Zenon
  <2> QED
    BY <1>1, <2>1, <2>2 DEF Ahead
<1>6. /\ Items(todo') \cap Gets(Banks) # {} => Call("arm") \in Items(todo')
      /\ Items(todo') \cap Frees(Buffers) # {} => ~armed'
  BY <1>1 DEF Ahead
<1>7. /\ NoneAfter(todo', Call("arm"), Arming)
      /\ NoneAfter(todo', Get("video"), Steps \ {Get("audio"), Call("bind")})
      /\ Head(todo) = Get("video") =>
            Items(Tail(todo)) \cap (Steps \ {Get("audio"), Call("bind")}) = {}
  <2> DEFINE Q == Steps \ {Get("audio"), Call("bind")}
  <2>1. NoneAfter(todo, Call("arm"), Arming) /\ NoneAfter(todo, Get("video"), Q)
    BY DEF Ahead
  <2> HIDE DEF Q
  <2>2. /\ NoneAfter(Tail(todo), Call("arm"), Arming)
        /\ NoneAfter(Tail(todo), Get("video"), Q)
        /\ Head(todo) = Get("video") => Items(Tail(todo)) \cap Q = {}
    BY <1>1, <2>1, NoneAfterTail
  <2> QED
    BY <2>2 DEF Q
<1>8. ASSUME Get("video") \in Items(todo'), NEW r \in {"v4l2", "ctrls"}, r \notin held'
      PROVE  Before(todo', Get(r), {Get("video")})
  <2>1. Before(todo, Get(r), {Get("video")}) /\ Head(todo) # Get(r)
    BY <1>1, <1>8 DEF Ahead
  <2> QED
    BY <1>1, <2>1, BeforeTail, Zenon
<1>9. "video" \in held' => Items(todo') \subseteq {Get("audio"), Call("bind")}
  <2>1. CASE "video" \in held
    BY <1>1, <2>1 DEF Ahead
  <2>2. CASE Head(todo) = Get("video")
    BY <1>1, <1>7, <2>2
  <2> QED
    BY <2>1, <2>2
<1> QED
  BY <1>2, <1>3, <1>4, <1>5, <1>6, <1>7, <1>8, <1>9 DEF Ahead

LEMMA ClosingTail ==
  ASSUME Typed, Closing, todo # << >>, todo' = Tail(todo), phase' = phase,
         held' \subseteq held, \A q \in held' : Head(todo) # Free(q),
         \A q \in held : q \in held' \/ Head(todo) = Free(q),
         armed' => armed /\ Head(todo) # Call("disarm"),
         fw' # "none" => fw # "none" /\ Head(todo) # Call("fw_release")
  PROVE  Closing' /\ ~Going'
<1>1. /\ todo \in Seq(Steps) /\ Tail(todo) \in Seq(Steps)
      /\ Items(todo) = {Head(todo)} \cup Items(Tail(todo)) /\ Items(todo) \subseteq Steps
  BY ItemsTail, TailPlaces DEF Typed
<1>2. Items(todo') \cap (Gets(Resources) \cup Begins) = {} /\ ~Going'
  BY <1>1 DEF Closing, Going, Begins
<1>3. Frees(held') \subseteq Items(todo')
  BY <1>1 DEF Closing, Frees
<1>4. armed' => /\ Call("disarm") \in Items(todo')
                /\ Before(todo', Call("disarm"), Frees(Buffers))
  <2>1. armed' => /\ Before(todo, Call("disarm"), Frees(Buffers))
                  /\ Call("disarm") \in Items(todo)
    BY DEF Closing
  <2>2. armed' => Call("disarm") \in Items(todo')
    BY <1>1, <2>1
  <2> QED
    BY <1>1, <2>1, <2>2, BeforeTail, Zenon
<1>5. fw' # "none" => Call("fw_release") \in Items(todo')
  BY <1>1 DEF Closing
<1>6. "isr" \in held' => Bars \subseteq held' /\ Before(todo', Free("isr"), Frees(Bars))
  <2>1. "isr" \in held' => Bars \subseteq held /\ Before(todo, Free("isr"), Frees(Bars))
                           /\ Head(todo) # Free("isr")
    BY DEF Closing
  <2>2. "isr" \in held' => /\ Head(todo) \notin Frees(Bars)
                           /\ Before(todo', Free("isr"), Frees(Bars))
    BY <1>1, <2>1, BeforeTail, Zenon
  <2> QED
    BY <2>1, <2>2, Looks
<1>7. "video" \in held' =>
         /\ phase' = "remove"
         /\ Before(todo', Free("video"), Frees({"dev", "pci", "v4l2", "ctrls"}))
  <2>1. "video" \in held' =>
           /\ Before(todo, Free("video"), Frees({"dev", "pci", "v4l2", "ctrls"}))
           /\ phase = "remove" /\ Head(todo) # Free("video")
    BY DEF Closing
  <2> QED
    BY <1>1, <2>1, BeforeTail, Zenon
<1> QED
  BY <1>2, <1>3, <1>4, <1>5, <1>6, <1>7 DEF Closing

LEMMA OpeningHeads ==
  ASSUME Opening
  PROVE  /\ ~armed /\ fw = "none" /\ todo # << >> /\ held \subseteq Base
         /\ \/ /\ Head(todo) = Get("dev") /\ held = {}
               /\ Tail(todo) = <<Get("pci"), Get("bar0"), Get("bar5"), Call("firmware")>> \o Onward
            \/ /\ Head(todo) = Get("pci") /\ held = {"dev"}
               /\ Tail(todo) = <<Get("bar0"), Get("bar5"), Call("firmware")>> \o Onward
            \/ /\ Head(todo) = Get("bar0") /\ held = {"dev", "pci"}
               /\ Tail(todo) = <<Get("bar5"), Call("firmware")>> \o Onward
            \/ /\ Head(todo) = Get("bar5") /\ held = {"dev", "pci", "bar0"}
               /\ Tail(todo) = <<Call("firmware")>> \o Onward
<1> DEFINE g1 == Get("dev")
           g2 == Get("pci")
           g3 == Get("bar0")
           g4 == Get("bar5")
           g5 == Call("firmware")
           L == Onward
<1>1. /\ g1 \in Steps /\ g2 \in Steps /\ g3 \in Steps /\ g4 \in Steps /\ g5 \in Steps
      /\ L \in Seq(Steps)
  BY OnwardFresh, Looks, Parts DEF Steps, Begins, Fresh, Goes
<1>2. /\ ~armed /\ fw = "none" /\ held \subseteq Base
      /\ \/ todo = <<g1, g2, g3, g4, g5>> \o L /\ held = {}
         \/ todo = <<g2, g3, g4, g5>> \o L /\ held = {"dev"}
         \/ todo = <<g3, g4, g5>> \o L /\ held = {"dev", "pci"}
         \/ todo = <<g4, g5>> \o L /\ held = {"dev", "pci", "bar0"}
  BY Parts DEF Opening
<1> HIDE DEF g1, g2, g3, g4, g5, L
<1>3. /\ Front(L, <<g4, g5>>, <<g5>> \o L) /\ Front(L, <<g3, g4, g5>>, <<g4, g5>> \o L)
      /\ Front(L, <<g2, g3, g4, g5>>, <<g3, g4, g5>> \o L)
      /\ Front(L, <<g1, g2, g3, g4, g5>>, <<g2, g3, g4, g5>> \o L)
  BY <1>1, FrontSteps
<1>4. /\ Head(<<g4, g5>>) = g4 /\ Head(<<g3, g4, g5>>) = g3
      /\ Head(<<g2, g3, g4, g5>>) = g2 /\ Head(<<g1, g2, g3, g4, g5>>) = g1
  OBVIOUS
<1>5. /\ todo # << >>
      /\ \/ Head(todo) = g1 /\ held = {} /\ Tail(todo) = <<g2, g3, g4, g5>> \o L
         \/ Head(todo) = g2 /\ held = {"dev"} /\ Tail(todo) = <<g3, g4, g5>> \o L
         \/ Head(todo) = g3 /\ held = {"dev", "pci"} /\ Tail(todo) = <<g4, g5>> \o L
         \/ Head(todo) = g4 /\ held = {"dev", "pci", "bar0"} /\ Tail(todo) = <<g5>> \o L
  BY <1>2, <1>3, <1>4 DEF Front
<1> QED
  BY <1>2, <1>5 DEF g1, g2, g3, g4, g5, L

(* With the registers mapped, a probe that has begun nothing else is ready *)
(* for what follows.                                                       *)
LEMMA FreshAhead ==
  ASSUME Fresh(todo'), ~armed', held' = Base
  PROVE  Ahead'
<1>1. "video" \notin held'
  BY Parts
<1> QED
  BY <1>1 DEF Fresh, Goes, Ahead, Spare

LEMMA BareAhead ==
  ASSUME Bare(todo'), ~armed', Base \subseteq held', "video" \notin held'
  PROVE  Ahead' /\ Going'
<1>1. Going'
  BY LastItem DEF Bare, Goes, Going
<1> QED
  BY <1>1 DEF Bare, Goes, Ahead, Spare

LEMMA AcquireProbe ==
  ASSUME IInv, NEW r \in Resources, Acquire(r)
  PROVE  /\ Going' /\ (Opening' \/ Ahead') /\ phase = "probe"
         /\ r \in Base => held \subseteq Base
         /\ r = "video" => {"dev", "pci", "v4l2", "ctrls"} \subseteq held
<1>1. /\ Typed /\ Busy /\ Step(Get(r)) /\ held' = held \cup {r} /\ todo' = Tail(todo)
      /\ phase' = phase /\ armed' = armed /\ fw' = fw
  BY DEF IInv, Acquire
<1>2. Get(r) \in Gets(Resources)
  BY Looks
<1>3. Going /\ phase = "probe" /\ (Opening \/ Ahead)
  BY <1>1, <1>2, Whose
<1>4. /\ Head(todo) = Get(r) /\ todo # << >> /\ todo \in Seq(Steps) /\ Get(r) \in Items(todo)
      /\ Items(todo) = {Get(r)} \cup Items(Tail(todo))
  BY <1>1, Heads
<1>5. Get(r) # Call("bind") /\ Get(r) # Call("arm") /\ \A q : Get(r) = Get(q) => r = q
  BY Kinds
<1>6. Going'
  BY <1>1, <1>3, <1>4, <1>5 DEF Going
<1>7. CASE Opening
  <2>1. /\ ~armed' /\ fw' = "none" /\ held \subseteq Base
        /\ \/ /\ r = "dev" /\ held' = {"dev"}
              /\ todo' = <<Get("pci"), Get("bar0"), Get("bar5"), Call("firmware")>> \o Onward
           \/ /\ r = "pci" /\ held' = {"dev", "pci"}
              /\ todo' = <<Get("bar0"), Get("bar5"), Call("firmware")>> \o Onward
           \/ /\ r = "bar0" /\ held' = {"dev", "pci", "bar0"}
              /\ todo' = <<Get("bar5"), Call("firmware")>> \o Onward
           \/ /\ r = "bar5" /\ held' = {"dev", "pci", "bar0", "bar5"}
              /\ todo' = <<Call("firmware")>> \o Onward
    BY <1>1, <1>4, <1>5, <1>7, OpeningHeads
  <2>2. CASE r = "bar5"
    <3>1. Fresh(todo') /\ held' = Base /\ ~armed'
      BY <2>1, <2>2, StartFresh, Parts
    <3>2. Ahead'
      BY <3>1, FreshAhead
    <3> QED
      BY <1>3, <1>6, <2>1, <2>2, <3>2
  <2>3. CASE r # "bar5"
    <3>1. Onward' = Onward
      BY <1>1 DEF Acquire, Onward, Dma, CardSetup
    <3>2. Opening' /\ r # "video"
      BY <2>1, <2>3, <3>1 DEF Opening
    <3> QED
      BY <1>3, <1>6, <2>1, <3>2
  <2> QED
    BY <2>2, <2>3
<1>8. CASE Ahead
  <2>1. r \notin Base
    <3>1. Get(r) \in Gets(Resources \ Base) \cup Begins
                       \cup Frees({"sets", "h264", "stream", "isr", "vectors"})
      BY <1>4, <1>8 DEF Ahead
    <3>2. Get(r).do = "get" /\ Get(r).what = r
      BY Kinds
    <3>3. Get(r) \in Gets(Resources \ Base)
      BY <3>1, <3>2, Kinds, Looks DEF Begins
    <3> QED
      BY <3>2, <3>3, Looks
  <2>2. r = "video" => {"dev", "pci", "v4l2", "ctrls"} \subseteq held
    <3>1. ASSUME r = "video", NEW q \in {"v4l2", "ctrls"}, q \notin held PROVE FALSE
      <4>1. Before(todo, Get(q), {Get("video")}) /\ Head(todo) = Get("video")
        BY <1>4, <1>8, <3>1 DEF Ahead
      <4> QED
        BY <1>4, <4>1, BeforeTail
    <3> QED
      BY <1>8, <3>1, Parts DEF Ahead
  <2>3. Ahead'
    BY <1>1, <1>3, <1>4, <1>5, <1>8, AheadTail DEF Ahead
  <2> QED
    BY <1>3, <1>6, <2>1, <2>2, <2>3
<1> QED
  BY <1>3, <1>7, <1>8

LEMMA AcquireKeeps ==
  ASSUME IInv, NEW r \in Resources, Acquire(r)
  PROVE  IInv'
<1>1. /\ Typed /\ Busy /\ Resting /\ Mastering /\ Using /\ Captured
      /\ Step(Get(r)) /\ held' = held \cup {r} /\ todo' = Tail(todo)
      /\ UNCHANGED <<opt, phase, armed, fw, listed, userVars>>
      /\ intx' = (IF r = "pci" THEN FALSE ELSE intx \/ r = "vectors")
      /\ master' = (IF r = "pci" THEN opt.handshake ELSE master)
  BY DEF IInv, Acquire
<1>2. /\ Going' /\ (Opening' \/ Ahead') /\ phase = "probe" /\ phase' = "probe"
      /\ r = "video" => {"dev", "pci", "v4l2", "ctrls"} \subseteq held
  BY <1>1, AcquireProbe
<1>3. /\ Tail(todo) \in Seq(Steps)
      /\ Tail(todo) # << >> => Tail(todo)[Len(Tail(todo))] \in {Call("bind"), Free("dev")}
      /\ Tail(todo) = << >> => Get(r) \in {Call("bind"), Free("dev")}
  BY <1>1, Heads
<1>4. Typed'
  <2>1. opt.handshake \in BOOLEAN
    BY <1>1 DEF Typed, Options
  <2>2. master' \in BOOLEAN /\ intx' \in BOOLEAN
    BY <1>1, <2>1 DEF Typed
  <2>3. todo' \in Seq(Steps) /\ held' \subseteq Resources
    BY <1>1, <1>3 DEF Typed
  <2>4. UNCHANGED <<opt, phase, armed, fw, listed, reader, watcher, on, nosg, monitor,
                    running, late>>
    BY <1>1 DEF userVars, captureVars
  <2>5. Typed
    BY <1>1
  <2> QED
    BY <2>2, <2>3, <2>4, <2>5 DEF Typed
<1>5. Busy'
  BY <1>1, <1>2, <1>3, Kinds DEF Busy
<1>6. Handling'
  BY <1>2 DEF Handling
<1>7. Resting'
  BY <1>1, <1>2 DEF Resting, Early
<1>8. Mastering'
  BY <1>1 DEF Mastering, EscapeHatch
<1>9. Using'
  BY <1>1, <1>2 DEF Using, Early, userVars
<1>10. Captured'
  BY <1>1, <1>2 DEF Captured, Capturing, Early, userVars, captureVars
<1> QED
  BY <1>4, <1>5, <1>6, <1>7, <1>8, <1>9, <1>10 DEF IInv

LEMMA ShortCloses ==
  ASSUME todo' \in Seq(Releases), held' \subseteq Base, ~armed', fw' = "none",
         Frees(held') \subseteq Items(todo')
  PROVE  Closing' /\ ~Going'
<1>1. Items(todo') \subseteq Releases
  BY DEF Items
<1>2. "video" \notin held' /\ "isr" \notin held'
  BY Parts
<1> QED
  BY <1>1, <1>2, ReleaseKinds DEF Closing, Going, Begins

LEMMA FullCloses ==
  ASSUME Closes(todo'), held' \subseteq Resources, Base \subseteq held',
         "video" \in held' => phase' = "remove" /\ Unmakes(todo')
  PROVE  Closing' /\ ~Going'
<1>1. Bars \subseteq held'
  BY Parts
<1>2. Frees(held') \subseteq Frees(Resources)
  BY DEF Frees
<1> QED
  BY <1>1, <1>2 DEF Closes, Unmakes, Closing, Going, Begins

LEMMA FailureLists ==
  /\ Closes(FailDma) /\ Closes(<<Free("v4l2")>> \o FailDma)
  /\ Closes(<<Free("ctrls"), Free("v4l2")>> \o FailDma)
  /\ LET L == <<Free("bar5"), Free("bar0")>> \o FailDisable
     IN  L \in Seq(Releases) /\ Frees(Base) \subseteq Items(L) /\ L # << >>
         /\ L[Len(L)] = Free("dev")
  /\ LET L == <<Free("dev")>>
     IN  L \in Seq(Releases) /\ Frees({"dev"}) \subseteq Items(L) /\ L # << >>
         /\ L[Len(L)] = Free("dev")
<1>1. \A r \in Resources : Free(r) \in Releases
  BY Looks DEF Releases
<1>2. /\ <<Free("v4l2")>> \in Seq(Releases)
      /\ Items(<<Free("v4l2")>>) \subseteq Frees({"ctrls", "v4l2"})
      /\ <<Free("ctrls"), Free("v4l2")>> \in Seq(Releases)
      /\ Items(<<Free("ctrls"), Free("v4l2")>>) \subseteq Frees({"ctrls", "v4l2"})
  <2>1. "ctrls" \in Resources /\ "v4l2" \in Resources
    BY Parts
  <2>2. Free("v4l2") \in Frees({"ctrls", "v4l2"}) /\ Free("ctrls") \in Frees({"ctrls", "v4l2"})
    BY Looks
  <2> QED
    BY <1>1, <2>1, <2>2 DEF Items
<1>3. Frees({"ctrls", "v4l2"}) \cap (Frees(Buffers) \cup Frees(Bars)) = {}
  <2>1. \A s \in Frees({"ctrls", "v4l2"}) : s.what \notin Buffers \cup Bars
    BY Looks, Parts
  <2> QED
    BY <2>1, Looks
<1>4. /\ Closes(FailDma) /\ Closes(<<Free("v4l2")>> \o FailDma)
      /\ Closes(<<Free("ctrls"), Free("v4l2")>> \o FailDma)
  BY <1>2, <1>3, FailList, GivesMore, GivesCloses
<1>5. LET L == <<Free("dev")>>
      IN  L \in Seq(Releases) /\ Frees({"dev"}) \subseteq Items(L) /\ L # << >>
          /\ L[Len(L)] = Free("dev")
  <2>1. "dev" \in Resources
    BY Parts
  <2>2. Frees({"dev"}) = {Free("dev")}
    BY DEF Frees
  <2> QED
    BY <1>1, <2>1, <2>2 DEF Items
<1>6. LET L == <<Free("bar5"), Free("bar0")>> \o FailDisable
      IN  L \in Seq(Releases) /\ Frees(Base) \subseteq Items(L) /\ L # << >>
          /\ L[Len(L)] = Free("dev")
  <2> DEFINE X == <<Free("bar5"), Free("bar0")>>
  <2>1. "bar5" \in Resources /\ "bar0" \in Resources
    BY Parts
  <2>2. X \in Seq(Releases) /\ Items(X) = {Free("bar5"), Free("bar0")}
    BY <1>1, <2>1 DEF Items
  <2> HIDE DEF X
  <2>3. /\ X \o FailDisable \in Seq(Releases) /\ X \o FailDisable # << >>
        /\ Items(X \o FailDisable) = Items(X) \cup Items(FailDisable)
        /\ (X \o FailDisable)[Len(X \o FailDisable)] = Free("dev")
    BY <2>2, FreeLists, ItemsJoin
  <2>4. Frees(Base) \subseteq Items(X \o FailDisable)
    BY <2>2, <2>3, FreeLists, Parts DEF Frees
  <2> QED
    BY <2>3, <2>4 DEF X
<1> QED
  BY <1>4, <1>5, <1>6

LEMMA AcquireFailsProbe ==
  ASSUME IInv, NEW r \in Resources, AcquireFails(r)
  PROVE  /\ phase = "probe" /\ todo' \in Seq(Steps)
         /\ \/ /\ phase' = "unbound" /\ todo' = << >> /\ ~Going'
               /\ held = {} /\ ~armed /\ fw = "none"
            \/ /\ phase' = "probe" /\ todo' # << >>
               /\ todo'[Len(todo')] \in {Call("bind"), Free("dev")}
               /\ (Going' /\ Ahead') \/ (~Going' /\ Closing')
<1>1. /\ Typed /\ Busy /\ Step(Get(r)) /\ todo' = Failure(r) /\ phase' = Ends(Failure(r))
      /\ held' = held /\ armed' = armed /\ fw' = fw
  BY DEF IInv, AcquireFails
<1>2. Get(r) \in Gets(Resources)
  BY Looks
<1>3. Going /\ phase = "probe" /\ (Opening \/ Ahead)
  BY <1>1, <1>2, Whose
<1>4. /\ Head(todo) = Get(r) /\ todo # << >> /\ todo \in Seq(Steps) /\ Get(r) \in Items(todo)
      /\ Items(todo) = {Get(r)} \cup Items(Tail(todo)) /\ Tail(todo) \in Seq(Steps)
      /\ Tail(todo) # << >> => Tail(todo)[Len(Tail(todo))] \in {Call("bind"), Free("dev")}
  BY <1>1, Heads
<1>5. Get(r) # Call("bind") /\ Get(r) # Call("arm") /\ \A q : Get(r) = Get(q) => r = q
  BY Kinds
<1>6. todo' # << >> => phase' = "probe"
  BY <1>1, <1>3 DEF Ends
<1>7. CASE Opening
  <2>1. /\ ~armed' /\ fw' = "none"
        /\ r \in Base /\ held' \subseteq Base /\ (r = "dev" => held = {})
        /\ (r = "pci" => held' = {"dev"})
    BY <1>1, <1>4, <1>5, <1>7, OpeningHeads, Parts
  <2>2. CASE r = "dev"
    <3>1. todo' = << >> /\ phase' = "unbound"
      BY <1>1, <2>2 DEF Failure, Ends, Bars
    <3>2. ~Going' /\ todo' \in Seq(Steps)
      BY <3>1 DEF Going, Items
    <3> QED
      BY <1>1, <1>3, <2>1, <2>2, <3>1, <3>2
  <2>3. CASE r = "pci"
    <3>1. todo' = <<Free("dev")>>
      BY <1>1, <2>3 DEF Failure, Bars
    <3>2. /\ todo' \in Seq(Releases) /\ Frees({"dev"}) \subseteq Items(todo')
          /\ todo' # << >> /\ todo'[Len(todo')] = Free("dev")
      BY <3>1, FailureLists
    <3>3. Closing' /\ ~Going'
      BY <2>1, <2>3, <3>2, ShortCloses
    <3> QED
      BY <1>3, <1>6, <3>2, <3>3, ReleaseKinds
  <2>4. CASE r \in Bars
    <3>1. todo' = <<Free("bar5"), Free("bar0")>> \o FailDisable
      BY <1>1, <2>4, Parts DEF Failure
    <3>2. /\ todo' \in Seq(Releases) /\ Frees(Base) \subseteq Items(todo')
          /\ todo' # << >> /\ todo'[Len(todo')] = Free("dev")
      BY <3>1, FailureLists
    <3>3. Frees(held') \subseteq Frees(Base)
      BY <2>1 DEF Frees
    <3>4. Closing' /\ ~Going'
      BY <2>1, <3>2, <3>3, ShortCloses
    <3> QED
      BY <1>3, <1>6, <3>2, <3>4, ReleaseKinds
  <2> QED
    BY <2>1, <2>2, <2>3, <2>4, Parts
<1>8. CASE Ahead
  <2>1. r \notin Base
    <3>1. Get(r) \in Gets(Resources \ Base) \cup Begins
                       \cup Frees({"sets", "h264", "stream", "isr", "vectors"})
      BY <1>4, <1>8 DEF Ahead
    <3>2. Get(r).do = "get" /\ Get(r).what = r
      BY Kinds
    <3>3. Get(r) \in Gets(Resources \ Base)
      BY <3>1, <3>2, Kinds, Looks DEF Begins
    <3> QED
      BY <3>2, <3>3, Looks
  <2>2. "video" \in held => r = "audio"
    BY <1>4, <1>5, <1>8 DEF Ahead
  <2>3. Base \subseteq held' /\ held' \subseteq Resources
    BY <1>1, <1>8 DEF Ahead, Typed
  <2>4. CASE r \in Banks /\ (r = "raw" => opt.raw)
    <3>1. ~armed' /\ "video" \notin held'
      <4>1. Get(r) \in Gets(Banks)
        BY <2>4, Looks
      <4> QED
        BY <1>1, <1>4, <1>8, <2>2, <2>4, <4>1, Parts DEF Ahead
    <3>2. Bare(Failure(r))
      BY <2>4, BareLists, Parts DEF Failure
    <3>3. Ahead' /\ Going'
      BY <1>1, <2>3, <3>1, <3>2, BareAhead
    <3>4. /\ todo' \in Seq(Steps) /\ todo' # << >> /\ todo'[Len(todo')] = Call("bind")
      BY <1>1, <3>2 DEF Bare, Goes
    <3> QED
      BY <1>3, <1>6, <3>3, <3>4
  <2>5. CASE r = "audio" \/ (r = "raw" /\ ~opt.raw)
    <3>1. todo' = Tail(todo)
      BY <1>1, <2>5, Parts DEF Failure
    <3>2. r \notin Base \cup {"v4l2", "ctrls", "video"} \cup Buffers
      BY <2>5, Parts
    <3>3. Ahead' /\ Going'
      BY <1>1, <1>3, <1>4, <1>5, <1>8, <2>3, <3>1, <3>2, AheadTail
    <3>4. todo' # << >>
      BY <3>3 DEF Going, Items
    <3> QED
      BY <1>3, <1>4, <1>6, <3>1, <3>3, <3>4
  <2>6. CASE r \in {"v4l2", "ctrls", "video"}
    <3>1. Closes(todo')
      BY <1>1, <2>6, FailureLists DEF Failure, Bars
    <3>2. "video" \notin held'
      BY <1>1, <2>2, <2>6
    <3>3. Closing' /\ ~Going'
      BY <2>3, <3>1, <3>2, FullCloses
    <3> QED
      BY <1>3, <1>6, <3>1, <3>3 DEF Closes
  <2> QED
    BY <2>1, <2>4, <2>5, <2>6, Parts
<1> QED
  BY <1>3, <1>7, <1>8

LEMMA AcquireFailsKeeps ==
  ASSUME IInv, NEW r \in Resources, AcquireFails(r)
  PROVE  IInv'
<1>1. /\ Typed /\ Busy /\ Resting /\ Mastering /\ Using /\ Captured
      /\ UNCHANGED <<opt, held, master, intx, armed, fw, listed, userVars>>
  BY DEF IInv, AcquireFails
<1>2. /\ phase = "probe" /\ todo' \in Seq(Steps)
      /\ \/ /\ phase' = "unbound" /\ todo' = << >> /\ ~Going'
            /\ held = {} /\ ~armed /\ fw = "none"
         \/ /\ phase' = "probe" /\ todo' # << >>
            /\ todo'[Len(todo')] \in {Call("bind"), Free("dev")}
            /\ (Going' /\ Ahead') \/ (~Going' /\ Closing')
  BY AcquireFailsProbe
<1>3. Typed'
  <2>1. UNCHANGED <<opt, held, master, intx, armed, fw, listed, reader, watcher, on, nosg,
                    monitor, running, late>>
    BY <1>1 DEF userVars, captureVars
  <2> QED
    BY <1>1, <1>2, <2>1 DEF Typed
<1>4. Busy'
  BY <1>2 DEF Busy
<1>5. Handling'
  BY <1>2 DEF Handling
<1>6. Resting'
  BY <1>1, <1>2 DEF Resting, Early
<1>7. Mastering'
  BY <1>1 DEF Mastering, EscapeHatch
<1>8. Using'
  BY <1>1, <1>2 DEF Using, Early, userVars
<1>9. Captured'
  BY <1>1, <1>2 DEF Captured, Capturing, Early, userVars, captureVars
<1> QED
  BY <1>3, <1>4, <1>5, <1>6, <1>7, <1>8, <1>9 DEF IInv

(* What is left of a handler between steps that release.                   *)
LEMMA GiveBackList ==
  ASSUME IInv, NEW r \in Resources, GiveBack(r)
  PROVE  /\ Handling' /\ todo' \in Seq(Steps)
         /\ phase \in {"probe", "remove"} /\ \A n \in 1..4 : ~Early(n)
         /\ \/ /\ phase' = "unbound" /\ todo' = << >> /\ held' = {}
               /\ ~armed /\ fw = "none" /\ held \subseteq {"dev"}
            \/ /\ phase' = phase /\ todo' # << >>
               /\ todo'[Len(todo')] \in {Call("bind"), Free("dev")}
               /\ r \in Buffers => ~armed
               /\ "video" \in held' => r \notin {"dev", "pci", "v4l2", "ctrls"}
         /\ phase = "remove" => Items(todo') \cap Quiets = {}
         /\ phase = "probe" /\ "video" \in held => r # "video"
<1>1. /\ Typed /\ Busy /\ Step(Free(r)) /\ held' = held \ {r} /\ todo' = Tail(todo)
      /\ phase' = Ends(Tail(todo)) /\ armed' = armed /\ fw' = fw
  BY DEF IInv, GiveBack
<1>2. /\ Free(r) \notin Gets(Resources) /\ Free(r) \notin Quiets /\ Free(r) # Call("bind")
      /\ Free(r) # Call("arm") /\ Free(r) # Call("disarm") /\ Free(r) # Call("fw_release")
      /\ \A q : Free(r) = Free(q) => r = q
      /\ \A q : Free(r) # Get(q)
  BY Kinds, Looks DEF Quiets
<1>3. (Going => Ahead /\ phase = "probe") /\ (~Going => Closing) /\ \A n \in 1..4 : ~Early(n)
  BY <1>1, <1>2, Whose
<1>4. /\ Head(todo) = Free(r) /\ todo # << >> /\ todo \in Seq(Steps) /\ Free(r) \in Items(todo)
      /\ Items(todo) = {Free(r)} \cup Items(Tail(todo)) /\ Tail(todo) \in Seq(Steps)
      /\ Tail(todo) = << >> => Free(r) \in {Call("bind"), Free("dev")}
      /\ Tail(todo) # << >> => Tail(todo)[Len(Tail(todo))] \in {Call("bind"), Free("dev")}
      /\ phase \in {"probe", "remove"}
  BY <1>1, Heads
<1>5. phase = "remove" => Items(todo') \cap Quiets = {}
  BY <1>1, <1>3, <1>4 DEF Busy
<1>6. CASE Going
  <2>1. r \in Spare
    <3>1. Free(r) \in Gets(Resources \ Base) \cup Begins \cup Frees(Spare)
      BY <1>3, <1>4, <1>6 DEF Ahead, Spare
    <3>2. Free(r).do = "free" /\ Free(r).what = r
      BY Kinds
    <3> QED
      BY <3>1, <3>2, Kinds, Looks DEF Begins
  <2>2. r \notin Base \cup {"v4l2", "ctrls", "video", "dev", "pci"}
    BY <2>1, Parts DEF Spare
  <2>3. Call("arm") \notin Items(todo) /\ (r \in Buffers => ~armed)
    <3>1. Free(r) \in Frees(Resources) /\ (r \in Buffers => Free(r) \in Frees(Buffers))
      BY Looks
    <3> QED
      BY <1>3, <1>4, <1>6, <3>1 DEF Ahead
  <2>4. Ahead' /\ Going'
    BY <1>1, <1>2, <1>3, <1>4, <1>6, <2>2, <2>3, AheadTail DEF Ahead
  <2>5. todo' # << >>
    BY <2>4 DEF Going, Items
  <2> QED
    BY <1>1, <1>3, <1>4, <1>6, <2>2, <2>3, <2>4, <2>5 DEF Handling, Ends
<1>7. CASE ~Going
  <2>1. Closing
    BY <1>3, <1>7
  <2>2. CASE Tail(todo) = << >>
    <3>1. r = "dev" /\ Items(todo) = {Free("dev")}
      <4>1. Items(Tail(todo)) = {}
        BY <2>2, NoItems
      <4> QED
        BY <1>2, <1>4, <2>2, <4>1
    <3>2. held \subseteq {"dev"} /\ held' = {}
      <4>1. \A q \in held : Free(q) = Free("dev")
        BY <2>1, <3>1 DEF Closing, Frees
      <4> QED
        BY <1>1, <3>1, <4>1, Kinds
    <3>3. ~armed /\ fw = "none"
      BY <2>1, <3>1, Kinds DEF Closing
    <3>4. phase' = "unbound" /\ todo' = << >> /\ ~Going'
      BY <1>1, <2>2 DEF Ends, Going, Items
    <3> QED
      BY <1>1, <1>3, <1>4, <1>5, <2>1, <3>2, <3>3, <3>4 DEF Handling, Closing
  <2>3. CASE Tail(todo) # << >>
    <3>1. phase' = phase /\ todo' # << >>
      BY <1>1, <2>3 DEF Ends
    <3>2. Closing' /\ ~Going'
      BY <1>1, <1>2, <1>4, <2>1, <3>1, ClosingTail
    <3>3. r \in Buffers => ~armed
      <4>1. armed => Free(r) \notin Frees(Buffers)
        BY <1>4, <2>1, BeforeTail DEF Closing
      <4> QED
        BY <4>1, Looks
    <3>4. "video" \in held => r \notin {"dev", "pci", "v4l2", "ctrls"}
      <4>1. "video" \in held => Free(r) \notin Frees({"dev", "pci", "v4l2", "ctrls"})
        BY <1>4, <2>1, BeforeTail DEF Closing
      <4> QED
        BY <4>1, Looks
    <3> QED
      BY <1>1, <1>3, <1>4, <1>5, <2>1, <3>1, <3>2, <3>3, <3>4 DEF Handling, Closing
  <2> QED
    BY <2>2, <2>3
<1> QED
  BY <1>6, <1>7

LEMMA GiveBackKeeps ==
  ASSUME IInv, NEW r \in Resources, GiveBack(r)
  PROVE  IInv'
<1>1. /\ Typed /\ Busy /\ Resting /\ Mastering /\ Using /\ Captured
      /\ held' = held \ {r} /\ master' = (master /\ r # "pci")
      /\ UNCHANGED <<opt, intx, armed, fw, listed, userVars>>
  BY DEF IInv, GiveBack
<1>2. /\ Handling' /\ todo' \in Seq(Steps)
      /\ phase \in {"probe", "remove"} /\ \A n \in 1..4 : ~Early(n)
      /\ \/ /\ phase' = "unbound" /\ todo' = << >> /\ held' = {}
            /\ ~armed /\ fw = "none" /\ held \subseteq {"dev"}
         \/ /\ phase' = phase /\ todo' # << >>
            /\ todo'[Len(todo')] \in {Call("bind"), Free("dev")}
            /\ r \in Buffers => ~armed
            /\ "video" \in held' => r \notin {"dev", "pci", "v4l2", "ctrls"}
      /\ phase = "remove" => Items(todo') \cap Quiets = {}
      /\ phase = "probe" /\ "video" \in held => r # "video"
  BY GiveBackList
<1>3. Typed'
  <2>1. UNCHANGED <<opt, intx, armed, fw, listed, reader, watcher, on, nosg,
                    monitor, running, late>>
    BY <1>1 DEF userVars, captureVars
  <2>2. master' \in BOOLEAN /\ held' \subseteq Resources
    BY <1>1 DEF Typed
  <2> QED
    BY <1>1, <1>2, <2>1, <2>2 DEF Typed
<1>4. Busy'
  BY <1>2 DEF Busy
<1>5. ~Early(4)'
  BY <1>2, StageQuiets DEF Early
<1>6. Resting'
  BY <1>1, <1>2, <1>5 DEF Resting
<1>7. Mastering'
  BY <1>1, <1>2, Parts DEF Mastering, EscapeHatch
<1>8. ~listed /\ ~reader /\ ~watcher /\ phase # "bound"
  BY <1>1, <1>2 DEF Using
<1>9. Using'
  BY <1>1, <1>8 DEF Using, userVars
<1>10. Captured'
  BY <1>1, <1>2 DEF Captured, Capturing, userVars, captureVars
<1> QED
  BY <1>2, <1>3, <1>4, <1>6, <1>7, <1>9, <1>10 DEF IInv

LEMMA FirmwareKeeps ==
  ASSUME IInv, Firmware
  PROVE  IInv'
<1> DEFINE s == Call("firmware")
<1>1. /\ Typed /\ Busy /\ Resting /\ Mastering /\ Using /\ Captured
      /\ Step(s) /\ todo' = Tail(todo) /\ fw' \in {"ready", "failed"}
      /\ UNCHANGED <<opt, phase, held, master, intx, armed, listed, userVars>>
  BY DEF IInv, Firmware
<1>2. /\ s \notin Gets(Resources) /\ s \in Begins /\ s # Call("bind") /\ s # Call("arm")
      /\ s \notin Quiets /\ \A q : s # Get(q) /\ s # Free(q)
  BY Kinds, Looks DEF Begins, Quiets
<1> HIDE DEF s
<1>3. Going /\ Ahead /\ phase = "probe"
  BY <1>1, <1>2, Whose
<1>4. /\ Head(todo) = s /\ todo # << >> /\ Tail(todo) \in Seq(Steps)
      /\ Tail(todo) # << >> => Tail(todo)[Len(Tail(todo))] \in {Call("bind"), Free("dev")}
  BY <1>1, Heads
<1>5. Ahead' /\ Going'
  BY <1>1, <1>2, <1>3, <1>4, AheadTail DEF Ahead
<1>6. Typed'
  <2>1. UNCHANGED <<opt, phase, held, master, intx, armed, listed, reader, watcher, on, nosg,
                    monitor, running, late>>
    BY <1>1 DEF userVars, captureVars
  <2> QED
    BY <1>1, <1>4, <2>1 DEF Typed
<1>7. Busy'
  <2>1. todo' # << >>
    BY <1>5, NoItems DEF Going
  <2> QED
    BY <1>1, <1>3, <1>4, <2>1 DEF Busy
<1>8. Handling'
  BY <1>1, <1>3, <1>5 DEF Handling
<1>9. Resting' /\ Mastering'
  BY <1>1, <1>3 DEF Resting, Mastering, EscapeHatch, Early
<1>10. Using'
  BY <1>1, <1>3 DEF Using, Early, userVars
<1>11. Captured'
  BY <1>1, <1>3 DEF Captured, Capturing, Early, userVars, captureVars
<1> QED
  BY <1>6, <1>7, <1>8, <1>9, <1>10, <1>11 DEF IInv

LEMMA BusMasterKeeps ==
  ASSUME IInv, BusMaster
  PROVE  IInv'
<1> DEFINE s == Call("bus_master")
<1>1. /\ Typed /\ Busy /\ Resting /\ Mastering /\ Using /\ Captured
      /\ Step(s) /\ todo' = Tail(todo) /\ master' = (master \/ EscapeHatch)
      /\ UNCHANGED <<opt, phase, held, intx, armed, fw, listed, userVars>>
  BY DEF IInv, BusMaster
<1>2. /\ s \notin Gets(Resources) /\ s \in Begins /\ s # Call("bind") /\ s # Call("arm")
      /\ s \notin Quiets /\ \A q : s # Get(q) /\ s # Free(q)
  BY Kinds, Looks DEF Begins, Quiets
<1> HIDE DEF s
<1>3. Going /\ Ahead /\ phase = "probe"
  BY <1>1, <1>2, Whose
<1>4. /\ Head(todo) = s /\ todo # << >> /\ Tail(todo) \in Seq(Steps)
      /\ Tail(todo) # << >> => Tail(todo)[Len(Tail(todo))] \in {Call("bind"), Free("dev")}
  BY <1>1, Heads
<1>5. Ahead' /\ Going'
  BY <1>1, <1>2, <1>3, <1>4, AheadTail DEF Ahead
<1>6. Typed'
  <2>1. UNCHANGED <<opt, phase, held, intx, armed, fw, listed, reader, watcher, on, nosg,
                    monitor, running, late>>
    BY <1>1 DEF userVars, captureVars
  <2>2. EscapeHatch \in BOOLEAN
    BY DEF EscapeHatch
  <2> QED
    BY <1>1, <1>4, <2>1, <2>2 DEF Typed
<1>7. Busy'
  <2>1. todo' # << >>
    BY <1>5, NoItems DEF Going
  <2> QED
    BY <1>1, <1>3, <1>4, <2>1 DEF Busy
<1>8. Handling'
  BY <1>1, <1>3, <1>5 DEF Handling
<1>9. Resting' /\ Mastering'
  <2>1. EscapeHatch' = EscapeHatch /\ "pci" \in held
    BY <1>1, <1>3, Parts DEF EscapeHatch, Ahead
  <2> QED
    BY <1>1, <1>3, <2>1 DEF Resting, Mastering, EscapeHatch, Early
<1>10. Using'
  BY <1>1, <1>3 DEF Using, Early, userVars
<1>11. Captured'
  BY <1>1, <1>3 DEF Captured, Capturing, Early, userVars, captureVars
<1> QED
  BY <1>6, <1>7, <1>8, <1>9, <1>10, <1>11 DEF IInv

LEMMA ArmDmaKeeps ==
  ASSUME IInv, ArmDma
  PROVE  IInv'
<1> DEFINE s == Call("arm")
<1>1. /\ Typed /\ Busy /\ Resting /\ Mastering /\ Using /\ Captured
      /\ Step(s) /\ todo' = Tail(todo) /\ master' = TRUE /\ armed' = TRUE
      /\ UNCHANGED <<opt, phase, held, intx, fw, listed, userVars>>
  BY DEF IInv, ArmDma
<1>2. /\ s \notin Gets(Resources) /\ s \in Begins /\ s # Call("bind")
      /\ s \notin Quiets /\ \A q : s # Get(q) /\ s # Free(q)
  BY Kinds, Looks DEF Begins, Quiets
<1>3. Going /\ Ahead /\ phase = "probe"
  BY <1>1, <1>2, Whose
<1>4. /\ Head(todo) = s /\ todo # << >> /\ Tail(todo) \in Seq(Steps) /\ s \in Items(todo)
      /\ todo \in Seq(Steps) /\ Items(todo) = {s} \cup Items(Tail(todo))
      /\ Tail(todo) # << >> => Tail(todo)[Len(Tail(todo))] \in {Call("bind"), Free("dev")}
  BY <1>1, Heads
<1>5. /\ ~armed /\ Items(todo) \cap Frees(Resources) = {} /\ Base \subseteq held
      /\ Buffers \subseteq held /\ "video" \notin held
  <2>1. /\ ~armed /\ Items(todo) \cap Frees(Resources) = {} /\ Base \subseteq held
        /\ \A b \in Buffers : b \in held \/ Before(todo, Get(b), {s})
    BY <1>3, <1>4 DEF Ahead
  <2>2. \A b \in Buffers : ~Before(todo, Get(b), {s})
    BY <1>4, BeforeTail
  <2>3. "video" \notin held
    BY <1>2, <1>3, <1>4 DEF Ahead
  <2> QED
    BY <2>1, <2>2, <2>3
<1>6. Items(Tail(todo)) \cap Arming = {}
  BY <1>3, <1>4, NoneAfterTail DEF Ahead
<1>7. Going'
  BY <1>1, <1>2, <1>3, <1>4 DEF Going
<1>8. Ahead'
  <2>1. /\ Call("arm") \notin Items(todo') /\ Items(todo') \cap Gets(Banks) = {}
    BY <1>1, <1>6 DEF Arming
  <2>2. Items(todo') \cap Frees(Buffers) = {}
    <3>1. Frees(Buffers) \subseteq Frees(Resources)
      BY Parts DEF Frees
    <3> QED
      BY <1>1, <1>4, <1>5, <3>1
  <2>3. NoneAfter(todo', Call("arm"), Arming)
    BY <2>1, NoneAfterNone
  <2>4. NoneAfter(todo', Get("video"), Steps \ {Get("audio"), Call("bind")})
    <3> DEFINE Q == Steps \ {Get("audio"), Call("bind")}
    <3>1. NoneAfter(todo, Get("video"), Q)
      BY <1>3 DEF Ahead
    <3> HIDE DEF Q
    <3>2. NoneAfter(Tail(todo), Get("video"), Q)
      BY <1>4, <3>1, NoneAfterTail, Zenon
    <3> QED
      BY <1>1, <3>2 DEF Q
  <2>5. ASSUME Get("video") \in Items(todo'), NEW r \in {"v4l2", "ctrls"}, r \notin held'
        PROVE  Before(todo', Get(r), {Get("video")})
    <3>1. Before(todo, Get(r), {Get("video")}) /\ Head(todo) # Get(r)
      BY <1>1, <1>2, <1>3, <1>4, <2>5 DEF Ahead
    <3> QED
      BY <1>1, <1>4, <3>1, BeforeTail, Zenon
  <2>6. Items(todo') \subseteq Gets(Resources \ Base) \cup Begins
                                 \cup Frees({"sets", "h264", "stream", "isr", "vectors"})
    BY <1>1, <1>3, <1>4 DEF Ahead
  <2> QED
    BY <1>1, <1>5, <2>1, <2>2, <2>3, <2>4, <2>5, <2>6 DEF Ahead
<1> HIDE DEF s
<1>9. Typed'
  <2>1. UNCHANGED <<opt, phase, held, intx, fw, listed, reader, watcher, on, nosg,
                    monitor, running, late>>
    BY <1>1 DEF userVars, captureVars
  <2> QED
    BY <1>1, <1>4, <2>1 DEF Typed
<1>10. Busy'
  <2>1. todo' # << >>
    BY <1>7, NoItems DEF Going
  <2> QED
    BY <1>1, <1>3, <1>4, <2>1 DEF Busy
<1>11. Handling'
  BY <1>1, <1>3, <1>7, <1>8 DEF Handling
<1>12. Resting' /\ Mastering'
  BY <1>1, <1>3, <1>5, Parts DEF Resting, Mastering, EscapeHatch, Early
<1>13. Using'
  BY <1>1, <1>3 DEF Using, Early, userVars
<1>14. Captured'
  BY <1>1, <1>3, <1>5 DEF Captured, Capturing, Early, userVars, captureVars
<1> QED
  BY <1>9, <1>10, <1>11, <1>12, <1>13, <1>14 DEF IInv

LEMMA BindKeeps ==
  ASSUME IInv, Bind
  PROVE  IInv'
<1> DEFINE s == Call("bind")
<1>1. /\ Typed /\ Busy /\ Resting /\ Mastering /\ Using /\ Captured
      /\ Step(s) /\ todo' = << >> /\ phase' = "bound" /\ ~reader /\ listed' = TRUE
      /\ UNCHANGED <<opt, held, master, intx, armed, fw, userVars>>
  BY DEF IInv, Bind
<1>2. s \notin Gets(Resources) /\ s \in Begins
  BY Kinds, Looks DEF Begins
<1> HIDE DEF s
<1>3. Going /\ Ahead /\ phase = "probe"
  BY <1>1, <1>2, Whose
<1>4. Typed'
  <2>1. UNCHANGED <<opt, held, master, intx, armed, fw, reader, watcher, on, nosg,
                    monitor, running, late>>
    BY <1>1 DEF userVars, captureVars
  <2>2. todo' \in Seq(Steps)
    BY <1>1
  <2> QED
    BY <1>1, <2>1, <2>2 DEF Typed
<1>5. Busy' /\ Handling'
  BY <1>1, NoItems DEF Busy, Handling, Going
<1>6. Resting' /\ Mastering'
  BY <1>1, <1>3 DEF Resting, Mastering, EscapeHatch, Ahead, Early
<1>7. Using'
  BY <1>1 DEF Using, userVars
<1>8. Captured'
  BY <1>1 DEF Captured, Capturing, userVars, captureVars
<1> QED
  BY <1>4, <1>5, <1>6, <1>7, <1>8 DEF IInv

(* A step that undoes something, in a handler that gives back all.         *)
LEMMA UndoList ==
  ASSUME IInv, NEW s \in Undoings, Step(s), todo' = Tail(todo),
         phase' = phase, held' = held,
         armed' => armed /\ s # Call("disarm"),
         fw' # "none" => fw # "none" /\ s # Call("fw_release")
  PROVE  /\ todo' \in Seq(Steps) /\ Busy' /\ Handling' /\ phase' # "bound" /\ phase' # "unbound"
         /\ \A n \in 1..4 : ~Early(n)
         /\ phase = "probe" => "video" \notin held
         /\ ~Early(4)'
<1>1. /\ Typed /\ Busy /\ Handling
  BY DEF IInv
<1>2. /\ s \notin Gets(Resources) /\ s \notin Quiets /\ s \notin {Call("bind"), Free("dev")}
      /\ \A q : s # Get(q) /\ s # Free(q)
  BY Kinds, Looks DEF Undoings, Quiets
<1>3. ~Going /\ Closing /\ \A n \in 1..4 : ~Early(n)
  BY <1>2, Whose
<1>4. /\ Head(todo) = s /\ todo # << >> /\ Tail(todo) \in Seq(Steps) /\ Tail(todo) # << >>
      /\ Items(todo) = {s} \cup Items(Tail(todo))
      /\ Tail(todo)[Len(Tail(todo))] \in {Call("bind"), Free("dev")}
      /\ phase \in {"probe", "remove"}
  BY <1>1, <1>2, Heads
<1>5. Closing' /\ ~Going'
  BY <1>1, <1>2, <1>3, <1>4, ClosingTail
<1>6. phase = "remove" => Items(todo') \cap Quiets = {}
  BY <1>1, <1>3, <1>4 DEF Busy
<1>7. ~Early(4)'
  BY <1>6, StageQuiets DEF Early
<1> QED
  BY <1>1, <1>3, <1>4, <1>5, <1>6, <1>7 DEF Busy, Handling, Closing

LEMMA UndoKeeps ==
  ASSUME IInv, FirmwareRelease \/ Disarm \/ ClearMaster
  PROVE  IInv'
<1>1. PICK s \in Undoings :
         /\ Step(s) /\ todo' = Tail(todo) /\ phase' = phase /\ held' = held
         /\ armed' => armed /\ s # Call("disarm")
         /\ fw' # "none" => fw # "none" /\ s # Call("fw_release")
         /\ armed' \in {armed, FALSE} /\ master' \in {master, FALSE} /\ fw' \in {fw, "none"}
         /\ master' => master /\ (armed' = armed \/ ~armed)
         /\ UNCHANGED <<opt, intx, listed, userVars>>
  <2>1. CASE FirmwareRelease
    <3>1. Call("fw_release") \in Undoings /\ Call("fw_release") # Call("disarm")
      BY Kinds DEF Undoings
    <3> QED
      BY <2>1, <3>1 DEF FirmwareRelease
  <2>2. CASE Disarm
    <3>1. Call("disarm") \in Undoings /\ Call("disarm") # Call("fw_release")
      BY Kinds DEF Undoings
    <3>2. master' \in {master, FALSE}
      BY <2>2 DEF Disarm, IInv, Typed
    <3> QED
      BY <2>2, <3>1, <3>2 DEF Disarm
  <2>3. CASE ClearMaster
    <3>1. /\ Call("clear_master") \in Undoings /\ Call("clear_master") # Call("fw_release")
          /\ Call("clear_master") # Call("disarm")
      BY Kinds DEF Undoings
    <3> QED
      BY <2>3, <3>1 DEF ClearMaster
  <2> QED
    BY <2>1, <2>2, <2>3
<1>2. Typed /\ Busy /\ Resting /\ Mastering /\ Using /\ Captured
  BY DEF IInv
<1>3. /\ todo' \in Seq(Steps) /\ Busy' /\ Handling' /\ phase' # "bound" /\ phase' # "unbound"
      /\ \A n \in 1..4 : ~Early(n)
      /\ phase = "probe" => "video" \notin held
      /\ ~Early(4)'
  BY <1>1, UndoList
<1>4. Typed'
  <2>1. UNCHANGED <<opt, phase, held, intx, listed, reader, watcher, on, nosg,
                    monitor, running, late>>
    BY <1>1 DEF userVars, captureVars
  <2>2. armed' \in BOOLEAN /\ master' \in BOOLEAN /\ fw' \in {"none", "ready", "failed"}
    BY <1>1, <1>2 DEF Typed
  <2> QED
    BY <1>2, <1>3, <2>1, <2>2 DEF Typed
<1>5. Resting'
  BY <1>1, <1>2, <1>3 DEF Resting
<1>6. Mastering'
  <2>1. /\ opt' = opt /\ held' = held /\ (armed' => armed)
        /\ master' => master /\ (armed' = armed \/ ~armed)
    BY <1>1
  <2>2. Mastering
    BY <1>2
  <2> QED
    BY <2>1, <2>2 DEF Mastering, EscapeHatch
<1>7. Using' /\ Captured'
  <2>1. /\ ~listed /\ ~reader /\ ~watcher
        /\ ~late => ~nosg /\ ~monitor /\ ~running
    BY <1>1, <1>2, <1>3 DEF Using, Captured, Capturing
  <2> QED
    BY <1>1, <2>1 DEF Using, Captured, userVars, captureVars
<1> QED
  BY <1>3, <1>4, <1>5, <1>6, <1>7 DEF IInv

(* The four steps that quiet the device each belong to one stage.          *)
LEMMA QuietList ==
  ASSUME IInv, NEW s \in Quiets, Step(s), todo' = Tail(todo),
         phase' = phase, held' = held, armed' = armed, fw' = fw
  PROVE  /\ todo' \in Seq(Steps) /\ Busy' /\ Handling' /\ phase' # "bound" /\ phase' # "unbound"
         /\ phase = "probe" => "video" \notin held
         /\ phase # "probe" =>
               \/ s = Call("list_del") /\ Early(1) /\ Early(2)' /\ Early(3)' /\ Early(4)'
               \/ s = Call("watch_stop") /\ ~Early(1) /\ Early(3)' /\ Early(4)'
               \/ s = Call("nosg_stop") /\ ~Early(1) /\ ~Early(2) /\ Early(4)'
               \/ s = Call("dma_stop") /\ ~Early(1) /\ ~Early(2) /\ ~Early(3)
         /\ phase # "probe" => Early(4)
         /\ phase = "probe" => \A n \in 1..4 : ~Early(n) /\ ~Early(n)'
<1>1. /\ Typed /\ Busy /\ Handling
  BY DEF IInv
<1>2. /\ s \notin Gets(Resources) /\ s \notin {Call("bind"), Free("dev")}
      /\ s # Call("disarm") /\ s # Call("fw_release")
      /\ \A q : s # Get(q) /\ s # Free(q)
  BY Kinds, Looks DEF Quiets
<1>3. ~Going /\ Closing
  BY Whose
<1>4. /\ Head(todo) = s /\ todo # << >> /\ Tail(todo) \in Seq(Steps) /\ Tail(todo) # << >>
      /\ Items(todo) = {s} \cup Items(Tail(todo))
      /\ Tail(todo)[Len(Tail(todo))] \in {Call("bind"), Free("dev")}
      /\ phase \in {"probe", "remove"}
  BY <1>1, <1>2, Heads
<1>5. Closing' /\ ~Going'
  BY <1>1, <1>2, <1>3, <1>4, ClosingTail
<1>6. phase = "probe" => "video" \notin held
  BY <1>3 DEF Closing
<1>7. phase = "probe" => \A n \in 1..4 : ~Early(n) /\ ~Early(n)'
  BY DEF Early
<1>8. Stage(1)' = Stage(1) /\ Stage(2)' = Stage(2) /\ Stage(3)' = Stage(3) /\ Stage(4)' = Stage(4)
  BY StageQuiets
<1>9. ASSUME phase # "probe"
      PROVE  /\ \/ s = Call("list_del") /\ Early(1) /\ Early(2)' /\ Early(3)' /\ Early(4)'
                \/ s = Call("watch_stop") /\ ~Early(1) /\ Early(3)' /\ Early(4)'
                \/ s = Call("nosg_stop") /\ ~Early(1) /\ ~Early(2) /\ Early(4)'
                \/ s = Call("dma_stop") /\ ~Early(1) /\ ~Early(2) /\ ~Early(3)
             /\ Early(4)
             /\ Early(4)' \/ Items(todo') \cap Quiets = {}
  <2>1. phase = "remove" /\ Early(4)
    BY <1>1, <1>4, <1>9 DEF Busy
  <2>2. \/ todo = Stage(1) \/ todo = Stage(2) \/ todo = Stage(3) \/ todo = Stage(4)
    <3>1. \A k \in 1..4 : k = 1 \/ k = 2 \/ k = 3 \/ k = 4
      OBVIOUS
    <3> QED
      BY <2>1, <3>1 DEF Early
  <2>3. /\ Call("list_del") # Call("watch_stop") /\ Call("list_del") # Call("nosg_stop")
        /\ Call("list_del") # Call("dma_stop") /\ Call("watch_stop") # Call("nosg_stop")
        /\ Call("watch_stop") # Call("dma_stop") /\ Call("nosg_stop") # Call("dma_stop")
    BY Kinds
  <2>4. /\ todo = Stage(1) <=> s = Call("list_del")
        /\ todo = Stage(2) <=> s = Call("watch_stop")
        /\ todo = Stage(3) <=> s = Call("nosg_stop")
        /\ todo = Stage(4) <=> s = Call("dma_stop")
    BY <1>4, <2>2, <2>3, StageLists
  <2>5. /\ Early(1) <=> todo = Stage(1)
        /\ Early(2) <=> todo = Stage(1) \/ todo = Stage(2)
        /\ Early(3) <=> todo = Stage(1) \/ todo = Stage(2) \/ todo = Stage(3)
    <3>1. 1..1 = {1} /\ 1..2 = {1, 2} /\ 1..3 = {1, 2, 3}
      OBVIOUS
    <3> QED
      BY <2>1, <3>1 DEF Early
  <2>6. /\ todo' = Stage(2) => Early(2)' /\ Early(3)' /\ Early(4)'
        /\ todo' = Stage(3) => Early(3)' /\ Early(4)'
        /\ todo' = Stage(4) => Early(4)'
    <3>1. 2 \in 1..2 /\ 2 \in 1..3 /\ 2 \in 1..4 /\ 3 \in 1..3 /\ 3 \in 1..4 /\ 4 \in 1..4
      OBVIOUS
    <3>2. phase' = "remove"
      BY <2>1
    <3> QED
      BY <1>8, <3>1, <3>2, Zenon DEF Early
  <2>7. /\ todo = Stage(1) => todo' = Stage(2)
        /\ todo = Stage(2) => todo' = Stage(3)
        /\ todo = Stage(3) => todo' = Stage(4)
        /\ todo = Stage(4) => Items(todo') \cap Quiets = {}
    BY StageLists
  <2> QED
    BY <2>1, <2>2, <2>3, <2>4, <2>5, <2>6, <2>7
<1>10. Busy'
  BY <1>4, <1>9 DEF Busy
<1>11. Handling'
  BY <1>5 DEF Handling
<1> QED
  BY <1>4, <1>6, <1>7, <1>9, <1>10, <1>11

LEMMA QuietKeeps ==
  ASSUME IInv, ListDel \/ WatchStop \/ NosgStop \/ DmaStop
  PROVE  IInv'
<1>1. PICK s \in Quiets :
         /\ Step(s) /\ todo' = Tail(todo)
         /\ UNCHANGED <<opt, phase, held, master, intx, armed, fw, reader, on, late>>
         /\ IF s = Call("list_del") THEN listed' = FALSE /\ ~reader ELSE listed' = listed
         /\ IF s = Call("watch_stop") THEN watcher' = FALSE ELSE watcher' = watcher
         /\ IF s = Call("nosg_stop") THEN nosg' = FALSE ELSE nosg' = nosg
         /\ IF s = Call("dma_stop") THEN monitor' = FALSE /\ running' = FALSE
                                    ELSE monitor' = monitor /\ running' = running
  <2>1. /\ Call("list_del") # Call("watch_stop") /\ Call("list_del") # Call("nosg_stop")
        /\ Call("list_del") # Call("dma_stop") /\ Call("watch_stop") # Call("nosg_stop")
        /\ Call("watch_stop") # Call("dma_stop") /\ Call("nosg_stop") # Call("dma_stop")
        /\ Call("list_del") \in Quiets /\ Call("watch_stop") \in Quiets
        /\ Call("nosg_stop") \in Quiets /\ Call("dma_stop") \in Quiets
    BY Kinds DEF Quiets
  <2>2. CASE ListDel
    BY <2>1, <2>2 DEF ListDel, userVars, captureVars
  <2>3. CASE WatchStop
    BY <2>1, <2>3 DEF WatchStop, captureVars
  <2>4. CASE NosgStop
    BY <2>1, <2>4 DEF NosgStop
  <2>5. CASE DmaStop
    BY <2>1, <2>5 DEF DmaStop
  <2> QED
    BY <2>2, <2>3, <2>4, <2>5
<1>2. Typed /\ Busy /\ Resting /\ Mastering /\ Using /\ Captured
  BY DEF IInv
<1>3. /\ todo' \in Seq(Steps) /\ Busy' /\ Handling' /\ phase' # "bound" /\ phase' # "unbound"
      /\ phase = "probe" => "video" \notin held
      /\ phase # "probe" =>
            \/ s = Call("list_del") /\ Early(1) /\ Early(2)' /\ Early(3)' /\ Early(4)'
            \/ s = Call("watch_stop") /\ ~Early(1) /\ Early(3)' /\ Early(4)'
            \/ s = Call("nosg_stop") /\ ~Early(1) /\ ~Early(2) /\ Early(4)'
            \/ s = Call("dma_stop") /\ ~Early(1) /\ ~Early(2) /\ ~Early(3)
      /\ phase # "probe" => Early(4)
      /\ phase = "probe" => \A n \in 1..4 : ~Early(n) /\ ~Early(n)'
  BY <1>1, QuietList
<1>4. Typed'
  <2>1. {listed', watcher', nosg', monitor', running'} \subseteq BOOLEAN
    BY <1>1, <1>2 DEF Typed
  <2>2. UNCHANGED <<opt, phase, held, master, intx, armed, fw, reader, on, late>>
    BY <1>1
  <2> QED
    BY <1>2, <1>3, <2>1, <2>2 DEF Typed
<1>5. Resting' /\ Mastering'
  BY <1>1, <1>2, <1>3 DEF Resting, Mastering, EscapeHatch
<1>6. Using'
  <2>1. phase # "bound"
    BY <1>1, <1>3
  <2>2. CASE phase = "probe"
    BY <1>1, <1>2, <1>3, <2>2 DEF Using
  <2>3. CASE phase # "probe"
    BY <1>1, <1>2, <1>3, <2>1, <2>3 DEF Using
  <2> QED
    BY <2>2, <2>3
<1>7. Captured'
  <2>1. phase # "bound" /\ phase' = phase /\ armed' = armed /\ held' = held /\ late' = late
    BY <1>1, <1>3
  <2>2. CASE phase = "probe"
    BY <1>1, <1>2, <1>3, <2>1, <2>2 DEF Captured, Capturing
  <2>3. CASE phase # "probe"
    <3>1. ~late => /\ nosg => armed /\ Early(3)
                   /\ monitor \/ running => armed /\ Early(4)
      BY <1>2, <2>1, <2>3 DEF Captured, Capturing
    <3>2. ~late => /\ nosg' => armed /\ Early(3)'
                   /\ monitor' \/ running' => armed /\ Early(4)'
      BY <1>1, <1>3, <2>3, <3>1
    <3> QED
      BY <2>1, <3>2 DEF Captured, Capturing
  <2> QED
    BY <2>2, <2>3
<1> QED
  BY <1>3, <1>4, <1>5, <1>6, <1>7 DEF IInv

-----------------------------------------------------------------------------
(***************************************************************************)
(* The bus and the users.                                                  *)
(***************************************************************************)
LEMMA BindRequestKeeps ==
  ASSUME IInv, BindRequest
  PROVE  IInv'
<1>1. /\ Typed /\ Busy /\ Resting /\ Mastering /\ Using /\ Captured
      /\ phase = "unbound" /\ ~late /\ phase' = "probe" /\ todo' = Probe
      /\ UNCHANGED <<opt, held, master, intx, armed, fw, listed, userVars>>
  BY DEF IInv, BindRequest
<1>2. held = {} /\ ~armed /\ fw = "none" /\ ~listed /\ ~reader /\ ~watcher
      /\ ~nosg /\ ~monitor /\ ~running
  BY <1>1 DEF Resting, Using, Captured, Capturing, Early
<1> DEFINE X == <<Get("dev"), Get("pci"), Get("bar0"), Get("bar5"), Call("firmware")>>
<1>3. todo' = X \o Onward
  BY <1>1, ProbeList
<1>4. /\ X \in Seq(Steps) /\ Onward \in Seq(Steps) /\ Onward # << >>
      /\ Onward[Len(Onward)] = Call("bind")
  <2>1. /\ Get("dev") \in Steps /\ Get("pci") \in Steps /\ Get("bar0") \in Steps
        /\ Get("bar5") \in Steps /\ Call("firmware") \in Steps
    BY Looks, Parts DEF Steps, Begins
  <2> QED
    BY <2>1, OnwardFresh DEF Fresh, Goes
<1> HIDE DEF X
<1>5. todo' \in Seq(Steps) /\ todo' # << >> /\ todo'[Len(todo')] = Call("bind")
  BY <1>3, <1>4, ItemsJoin
<1>6. Going'
  BY <1>5, LastItem DEF Going
<1>7. Opening'
  <2>1. Onward' = Onward
    BY <1>1 DEF Onward, Dma, CardSetup
  <2> QED
    BY <1>1, <1>2, <1>3, <2>1 DEF Opening, X
<1>8. Typed'
  <2>1. UNCHANGED <<opt, held, master, intx, armed, fw, listed, reader, watcher, on, nosg,
                    monitor, running, late>>
    BY <1>1 DEF userVars, captureVars
  <2> QED
    BY <1>1, <1>5, <2>1 DEF Typed
<1>9. Busy' /\ Handling'
  BY <1>1, <1>5, <1>6, <1>7 DEF Busy, Handling
<1>10. Resting' /\ Mastering'
  BY <1>1, <1>2 DEF Resting, Mastering, EscapeHatch, Early
<1>11. Using' /\ Captured'
  BY <1>1, <1>2 DEF Using, Captured, userVars, captureVars
<1> QED
  BY <1>8, <1>9, <1>10, <1>11 DEF IInv

LEMMA UnbindRequestKeeps ==
  ASSUME IInv, UnbindRequest
  PROVE  IInv'
<1>1. /\ Typed /\ Resting /\ Mastering /\ Using /\ Captured
      /\ phase = "bound" /\ phase' = "remove" /\ todo' = Stage(1)
      /\ UNCHANGED <<opt, held, master, intx, armed, fw, listed, userVars>>
  BY RemoveIs DEF IInv, UnbindRequest
<1>2. Closes(todo') /\ Unmakes(todo')
  BY <1>1, StageLists
<1>3. Closing' /\ ~Going'
  BY <1>1, <1>2, FullCloses DEF Typed, Resting
<1>4. Early(1)' /\ Early(2)' /\ Early(3)' /\ Early(4)'
  <2>1. Stage(1)' = Stage(1) /\ 1 \in 1..1 /\ 1 \in 1..2 /\ 1 \in 1..3 /\ 1 \in 1..4
    BY StageQuiets
  <2> QED
    BY <1>1, <2>1, Zenon DEF Early
<1>5. Typed'
  <2>1. UNCHANGED <<opt, held, master, intx, armed, fw, listed, reader, watcher, on, nosg,
                    monitor, running, late>>
    BY <1>1 DEF userVars, captureVars
  <2>2. todo' \in Seq(Steps)
    BY <1>2 DEF Closes
  <2> QED
    BY <1>1, <2>1, <2>2 DEF Typed
<1>6. Busy'
  BY <1>1, <1>2, <1>4 DEF Busy, Closes
<1>7. Handling'
  BY <1>3 DEF Handling
<1>8. Resting' /\ Mastering'
  BY <1>1 DEF Resting, Mastering, EscapeHatch
<1>9. Using'
  BY <1>1, <1>4 DEF Using, userVars
<1>10. Captured'
  BY <1>1, <1>4 DEF Captured, Capturing, userVars, captureVars
<1> QED
  BY <1>5, <1>6, <1>7, <1>8, <1>9, <1>10 DEF IInv

(* What the users do moves no handler.                                     *)
LEMMA UserFrame ==
  ASSUME IInv, UNCHANGED userFrame,
         {reader', watcher', on', nosg', monitor', running', late'} \subseteq BOOLEAN,
         Using', Captured'
  PROVE  IInv'
<1>1. UNCHANGED <<opt, phase, todo, held, master, intx, armed, fw, listed>>
  BY DEF userFrame
<1>2. Typed'
  BY <1>1 DEF IInv, Typed
<1>3. Stage(1)' = Stage(1) /\ Stage(2)' = Stage(2) /\ Stage(3)' = Stage(3) /\ Stage(4)' = Stage(4)
  BY StageQuiets
<1>4. Early(4)' <=> Early(4)
  <2>1. \A k \in 1..4 : Stage(k)' = Stage(k)
    BY StageQuiets
  <2> QED
    BY <1>1, <2>1 DEF Early
<1>5. Busy'
  BY <1>1, <1>4 DEF IInv, Busy, Items
<1>6. Going' <=> Going
  BY <1>1 DEF Going, Items
<1>7. (Opening => Opening') /\ (Ahead => Ahead') /\ (Closing => Closing')
  <2>1. Onward' = Onward
    BY <1>1 DEF Onward, Dma, CardSetup
  <2> QED
    BY <1>1, <2>1 DEF Opening, Ahead, Closing, Items, Before, NoneAfter
<1>8. Handling'
  BY <1>1, <1>6, <1>7 DEF IInv, Handling
<1>9. Resting' /\ Mastering'
  BY <1>1, <1>4 DEF IInv, Resting, Mastering, EscapeHatch
<1> QED
  BY <1>2, <1>5, <1>8, <1>9 DEF IInv

LEMMA EarlyFrame ==
  ASSUME UNCHANGED <<phase, todo>>, NEW n \in 1..4
  PROVE  Early(n)' <=> Early(n)
<1>1. \A k \in 1..n : k \in 1..4
  OBVIOUS
<1>2. \A k \in 1..n : Stage(k)' = Stage(k)
  BY <1>1, StageQuiets
<1> QED
  BY <1>2 DEF Early

LEMMA ProcKeeps ==
  ASSUME IInv, ProcEnter \/ ProcWatch \/ ProcLeave
  PROVE  IInv'
<1>1. Typed /\ Using /\ Captured
  BY DEF IInv
<1>2. /\ UNCHANGED <<phase, todo, held, armed, listed>> /\ UNCHANGED userFrame
      /\ UNCHANGED captureVars
      /\ \/ listed /\ reader' = TRUE /\ watcher' = watcher
         \/ reader /\ reader' = reader /\ watcher' = ~watcher
         \/ reader' = FALSE /\ watcher' = watcher
  BY DEF ProcEnter, ProcWatch, ProcLeave, userFrame
<1>3. (Early(1)' <=> Early(1)) /\ (Early(2)' <=> Early(2))
      /\ (Early(3)' <=> Early(3)) /\ (Early(4)' <=> Early(4))
  BY <1>2, EarlyFrame
<1>4. Early(1) => Early(2)
  <2>1. \A k \in 1..1 : k \in 1..2
    OBVIOUS
  <2> QED
    BY <2>1 DEF Early
<1>5. Using'
  BY <1>1, <1>2, <1>3, <1>4 DEF Using
<1>6. Captured'
  BY <1>1, <1>2, <1>3 DEF Captured, Capturing, captureVars
<1>7. {reader', watcher', on', nosg', monitor', running', late'} \subseteq BOOLEAN
  BY <1>1, <1>2 DEF Typed, captureVars
<1> QED
  BY <1>2, <1>5, <1>6, <1>7, UserFrame

LEMMA StreamOnKeeps ==
  ASSUME IInv, StreamOn
  PROVE  IInv'
<1>1. /\ Typed /\ Busy /\ Using /\ Captured /\ Resting
      /\ "video" \in held /\ armed /\ UNCHANGED <<phase, todo, held, armed, listed>>
      /\ opt \in Options /\ on' = TRUE /\ nosg' = opt.nosg
      /\ monitor' = ~opt.nosg /\ running' = (running \/ ~opt.nosg)
      /\ late' = (late \/ Stopped) /\ reader' = reader /\ watcher' = watcher
      /\ UNCHANGED userFrame
  BY DEF IInv, Typed, StreamOn, userFrame
<1>2. (Early(1)' <=> Early(1)) /\ (Early(2)' <=> Early(2))
      /\ (Early(3)' <=> Early(3)) /\ (Early(4)' <=> Early(4))
  BY <1>1, EarlyFrame
<1>3. Using'
  BY <1>1, <1>2 DEF Using
<1>4. phase = "remove" /\ ~Stopped => Early(3) /\ Early(4)
  <2> SUFFICES ASSUME phase = "remove", ~Stopped PROVE Early(3) /\ Early(4)
    OBVIOUS
  <2>1. Call("nosg_stop") \in Items(todo) /\ Call("nosg_stop") \in Quiets
    BY DEF Stopped, Items, Quiets
  <2>2. PICK k \in 1..4 : todo = Stage(k)
    BY <1>1, <2>1 DEF Busy, Early
  <2>3. k # 4
    BY <2>1, <2>2, StageLists
  <2>4. k \in 1..3 /\ k \in 1..4
    BY <2>3
  <2> QED
    BY <2>2, <2>4 DEF Early
<1>5. Captured'
  <2>1. phase # "unbound"
    BY <1>1 DEF Resting
  <2>2. ~late' => ~late /\ ~Stopped
    BY <1>1
  <2>3. ~late' => /\ Capturing(3) /\ Capturing(4)
    BY <1>1, <1>4, <2>1, <2>2 DEF Capturing, Typed
  <2> QED
    BY <1>1, <1>2, <2>3 DEF Captured, Capturing
<1>6. {reader', watcher', on', nosg', monitor', running', late'} \subseteq BOOLEAN
  BY <1>1 DEF Typed, Options, Stopped
<1> QED
  BY <1>1, <1>3, <1>5, <1>6, UserFrame

LEMMA StreamOffKeeps ==
  ASSUME IInv, StreamOff
  PROVE  IInv'
<1>1. /\ Typed /\ Using /\ Captured
      /\ on' = FALSE /\ nosg' = FALSE /\ monitor' = FALSE
      /\ UNCHANGED <<phase, todo, held, armed, listed>> /\ UNCHANGED userFrame
      /\ UNCHANGED <<reader, watcher, running, late>>
  BY DEF IInv, StreamOff, userFrame
<1>2. (Early(1)' <=> Early(1)) /\ (Early(2)' <=> Early(2))
      /\ (Early(3)' <=> Early(3)) /\ (Early(4)' <=> Early(4))
  BY <1>1, EarlyFrame
<1>3. Using' /\ Captured'
  BY <1>1, <1>2 DEF Using, Captured, Capturing
<1>4. {reader', watcher', on', nosg', monitor', running', late'} \subseteq BOOLEAN
  BY <1>1 DEF Typed
<1> QED
  BY <1>1, <1>3, <1>4, UserFrame

-----------------------------------------------------------------------------
(***************************************************************************)
(* The invariant.                                                          *)
(***************************************************************************)
LEMMA InitInv ==
  ASSUME Init
  PROVE  IInv
<1>1. Items(todo) = {} /\ todo \in Seq(Steps)
  BY NoItems DEF Init
<1>2. Typed
  BY <1>1 DEF Init, Typed
<1>3. Busy /\ Handling /\ Resting /\ Mastering /\ Using /\ Captured
  BY <1>1 DEF Init, Busy, Handling, Going, Resting, Mastering, EscapeHatch, Using, Captured, Early
<1> QED
  BY <1>2, <1>3 DEF IInv

LEMMA NextInv ==
  ASSUME IInv, Next
  PROVE  IInv'
<1>1. CASE Driver
  <2>1. CASE \E r \in Resources : Acquire(r) \/ AcquireFails(r) \/ GiveBack(r)
    BY <2>1, AcquireKeeps, AcquireFailsKeeps, GiveBackKeeps
  <2>2. CASE Firmware \/ ArmDma \/ BusMaster \/ Bind
    BY <2>2, FirmwareKeeps, ArmDmaKeeps, BusMasterKeeps, BindKeeps
  <2>3. CASE FirmwareRelease \/ Disarm \/ ClearMaster
    BY <2>3, UndoKeeps
  <2>4. CASE ListDel \/ WatchStop \/ NosgStop \/ DmaStop
    BY <2>4, QuietKeeps
  <2> QED
    BY <1>1, <2>1, <2>2, <2>3, <2>4 DEF Driver
<1>2. CASE BindRequest
  BY <1>2, BindRequestKeeps
<1>3. CASE UnbindRequest
  BY <1>3, UnbindRequestKeeps
<1>4. CASE ProcEnter \/ ProcWatch \/ ProcLeave
  BY <1>4, ProcKeeps
<1>5. CASE StreamOn
  BY <1>5, StreamOnKeeps
<1>6. CASE StreamOff
  BY <1>6, StreamOffKeeps
<1> QED
  BY <1>1, <1>2, <1>3, <1>4, <1>5, <1>6 DEF Next

LEMMA StutterInv ==
  ASSUME IInv, UNCHANGED vars
  PROVE  IInv'
<1>1. UNCHANGED <<phase, todo, held, armed, listed, reader, watcher, on, nosg, monitor,
                  running, late>> /\ UNCHANGED userFrame
  BY DEF vars, userFrame
<1>2. (Early(1)' <=> Early(1)) /\ (Early(2)' <=> Early(2))
      /\ (Early(3)' <=> Early(3)) /\ (Early(4)' <=> Early(4))
  BY <1>1, EarlyFrame
<1>3. Using' /\ Captured'
  BY <1>1, <1>2 DEF IInv, Using, Captured, Capturing
<1>4. {reader', watcher', on', nosg', monitor', running', late'} \subseteq BOOLEAN
  BY <1>1 DEF IInv, Typed
<1> QED
  BY <1>1, <1>3, <1>4, UserFrame

LEMMA StepInv ==
  ASSUME IInv, [Next]_vars
  PROVE  IInv'
BY NextInv, StutterInv

LEMMA Safe ==
  ASSUME IInv
  PROVE  /\ TypeOK /\ NoLeak /\ IsrMapped /\ MasterHasBuffers /\ UsersHaveDevice
         /\ CapturePrecedesFree
<1>1. /\ Typed /\ Busy /\ Handling /\ Resting /\ Mastering /\ Using /\ Captured
  BY DEF IInv
<1>2. Early(1) => Early(2)
  <2>1. \A k \in 1..1 : k \in 1..2
    OBVIOUS
  <2> QED
    BY <2>1 DEF Early
<1>3. (Early(2) => Early(4)) /\ (Early(3) => Early(4))
  <2>1. (\A k \in 1..2 : k \in 1..4) /\ (\A k \in 1..3 : k \in 1..4)
    OBVIOUS
  <2> QED
    BY <2>1 DEF Early
<1>4. TypeOK
  <2>1. (todo # << >>) <=> phase \in {"probe", "remove"}
    BY <1>1 DEF Typed, Busy
  <2> QED
    BY <1>1, <2>1 DEF Typed, Resting, TypeOK
<1>5. NoLeak
  <2>1. phase = "unbound" => ~Early(1) /\ ~Early(2) /\ ~Early(3) /\ ~Early(4)
    BY DEF Early
  <2> QED
    BY <1>1, <2>1 DEF NoLeak, Resting, Mastering, EscapeHatch, Using, Captured, Capturing
<1>6. IsrMapped
  <2>1. phase = "unbound" => "isr" \notin held
    BY <1>1 DEF Resting
  <2>2. phase = "bound" => Bars \subseteq held
    BY <1>1, Parts DEF Resting
  <2>3. Going /\ Opening => "isr" \notin held
    BY OpeningHeads, Parts
  <2>4. Ahead => Bars \subseteq held
    BY Parts DEF Ahead
  <2> QED
    BY <1>1, <2>1, <2>2, <2>3, <2>4 DEF IsrMapped, Typed, Handling, Closing
<1>7. MasterHasBuffers
  BY <1>1 DEF MasterHasBuffers, Mastering, EscapeHatch
<1>8. UsersHaveDevice
  BY <1>1, <1>2, <1>3, Parts DEF UsersHaveDevice, Using, Resting
<1>9. CapturePrecedesFree
  <2>1. Capturing(3) \/ Capturing(4) => "stream" \in held /\ Base \subseteq held
    <3>1. Capturing(3) \/ Capturing(4) => "stream" \in held
      BY <1>1, Parts DEF Capturing, Mastering, EscapeHatch
    <3>2. phase = "bound" \/ Early(3) \/ Early(4) => Base \subseteq held
      BY <1>1, <1>3 DEF Resting
    <3>3. phase = "probe" /\ "video" \in held => Base \subseteq held
      <4>1. Opening => "video" \notin held
        BY OpeningHeads, Parts
      <4> QED
        BY <1>1, <4>1 DEF Handling, Closing, Ahead
    <3> QED
      BY <3>1, <3>2, <3>3 DEF Capturing
  <2> QED
    BY <1>1, <2>1, Parts DEF CapturePrecedesFree, Captured
<1> QED
  BY <1>4, <1>5, <1>6, <1>7, <1>8, <1>9

-----------------------------------------------------------------------------
(* The inductive invariant.                                                *)
THEOREM Invariant == Spec => []IInv
<1>1. Init => IInv
  BY InitInv
<1>2. IInv /\ [Next]_vars => IInv'
  BY StepInv
<1> QED
  BY <1>1, <1>2, PTL DEF Spec

(* Every variable keeps its type, a handler has steps to do exactly while  *)
(* it runs, and the video node exists only with what it was made from.     *)
THEOREM TypeCorrect == Spec => []TypeOK
BY Invariant, Safe, PTL

(* A probe that failed at any step, and a removal, leave nothing behind.   *)
THEOREM NoLeakHolds == Spec => []NoLeak
BY Invariant, Safe, PTL

(* While the interrupt handler can be called, the registers it reads are   *)
(* mapped: free_irq comes before the unmapping on every path (M84).        *)
THEOREM IsrMappedHolds == Spec => []IsrMapped
BY Invariant, Safe, PTL

(* The card masters the bus only while the buffers it was given exist.     *)
THEOREM MasterHasBuffersHolds == Spec => []MasterHasBuffers
BY Invariant, Safe, PTL

(* A procfs handler and the event watcher find the registers mapped.       *)
THEOREM UsersHaveDeviceHolds == Spec => []UsersHaveDevice
BY Invariant, Safe, PTL

(* A capture begun before the removal ends before its registers and        *)
(* buffers go.                                                             *)
THEOREM CapturePrecedesFreeHolds == Spec => []CapturePrecedesFree
BY Invariant, Safe, PTL
=============================================================================
