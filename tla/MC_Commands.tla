----------------------------- MODULE MC_Commands -----------------------------
(***************************************************************************)
(* Small instances of the mailbox and of the receiver, which is programmed *)
(* through it.  Receiver takes a command for a step that succeeds or       *)
(* fails, so the two share no state: a behaviour belongs to one of them,   *)
(* chosen initially (part), and the other rests.                           *)
(***************************************************************************)
EXTENDS MC_Mailbox

CONSTANTS Chunks, Options                                       \* Rx

(* The EDID is a number of chunks; the parameters are on or off.           *)
ASSUME ReceiverAssumption ==
    /\ Chunks \in Nat
    /\ Options \subseteq [async : BOOLEAN, windows : BOOLEAN]

(* The parameters do not touch each other's code: each value once.         *)
MC_Options == {[async |-> b, windows |-> b] : b \in BOOLEAN}

VARIABLES
    part,
    opt, op, todo, failed, acq, ready, locked, known, note, found, once,
    borrowed, right, chip, pin, output, matched, down, stuck, stray  \* Rx

Rx == INSTANCE Receiver

rxVars == <<opt, op, todo, failed, acq, ready, locked, known, note, found,
            once, borrowed, right, chip, pin, output, matched, down, stuck,
            stray>>

NoRx ==
    /\ opt = 0 /\ op = 0 /\ todo = 0 /\ failed = 0 /\ acq = 0 /\ ready = 0
    /\ locked = 0 /\ known = 0 /\ note = 0 /\ found = 0 /\ once = 0
    /\ borrowed = 0 /\ right = 0 /\ chip = 0 /\ pin = 0 /\ output = 0
    /\ matched = 0 /\ down = 0 /\ stuck = 0 /\ stray = 0

MC_Init ==
    /\ Init
    /\ \/ part = "mailbox" /\ NoRx
       \/ part = "rx" /\ Rx!Init /\ event = {}

MC_Next ==
    \/ part = "mailbox" /\ Next /\ UNCHANGED <<part, rxVars>>
    \/ part = "rx" /\ Rx!Next /\ UNCHANGED <<part, vars>>

MC_Spec == MC_Init /\ [][MC_Next]_<<part, rxVars, vars>>

-----------------------------------------------------------------------------
(* The types of both components.                                           *)
CommandTypes == TypeOK /\ (part = "rx" => Rx!TypeOK)

(* No source reads a half-written EDID (mz0380-mst3367.c).                 *)
EdidUnseen == part = "rx" => Rx!EdidUnseen
(* A receiver that is ready is presented to the source.                    *)
ReadyIsPresented == part = "rx" => Rx!ReadyIsPresented
(* No error but one of the freeze bit itself leaves the output frozen.     *)
Thawed == part = "rx" => Rx!Thawed
(* When a mode was matched the hunt is over and the output runs.           *)
MatchedIsSettled == part = "rx" => Rx!MatchedIsSettled
(* A lock noted for a mode found since the reset has its latch pulse.      *)
OwnLockIsLatched == part = "rx" => Rx!OwnLockIsLatched
(* Only the colour space command writes outside the bank it means.         *)
OnlyCscStrays == part = "rx" => Rx!OnlyCscStrays
=============================================================================
