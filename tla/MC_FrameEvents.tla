--------------------------- MODULE MC_FrameEvents ---------------------------
(***************************************************************************)
(* Small instances of FrameEvents: two slots (the fewest that can be       *)
(* handed back and forth), an interrupt handler and one command poller, a  *)
(* queue of two events so that it overflows, and a few bitstreams.         *)
(***************************************************************************)
EXTENDS FrameEvents, TLC

CONSTANTS s1, s2, isr, poller

MC_Slots == {s1, s2}
MC_Contexts == {isr, poller}
MC_Symmetry == Permutations({s1, s2})
=============================================================================
