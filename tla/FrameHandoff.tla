---------------------------- MODULE FrameHandoff ----------------------------
(***************************************************************************)
(* What the frame-completion path of the driver promises, with no          *)
(* interrupt, lock, queue or worker in sight: the card and the host own    *)
(* the window-1 slots in turns.  The card raises ENC_STATUS when it has    *)
(* written a bitstream; the host takes note of announced completions and   *)
(* lowers ENC_STATUS only when it owes none of them a copy.                *)
(***************************************************************************)
EXTENDS Sequences

CONSTANT Completion   \* the completions a card can announce

VARIABLES
    busy,             \* ENC_STATUS: the host still owns the last bitstream
    owed              \* completions noted and not yet consumed, oldest first

handoffVars == <<busy, owed>>

HandoffInit == busy = FALSE /\ owed = << >>

(* The card finished a bitstream and hands it over.                        *)
Fill == busy' = TRUE /\ UNCHANGED owed

(* The host notes an announced completion.                                 *)
Note == \E c \in Completion : owed' = Append(owed, c) /\ UNCHANGED busy

(* The host has consumed the oldest completion it noted.                   *)
Consume == owed # << >> /\ owed' = Tail(owed) /\ UNCHANGED busy

(* The host throws away everything it noted (end of a stream).             *)
Discard == owed' = << >> /\ UNCHANGED busy

(* The host gives the slots back; it may do so only when it owes nothing.  *)
Release == owed = << >> /\ busy' = FALSE /\ UNCHANGED owed

HandoffNext == Fill \/ Note \/ Consume \/ Discard \/ Release

HandoffSpec == HandoffInit /\ [][HandoffNext]_handoffVars
=============================================================================
