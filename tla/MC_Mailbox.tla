----------------------------- MODULE MC_Mailbox -----------------------------
(***************************************************************************)
(* Small instances of Mailbox: two callers and the interrupt handler, and  *)
(* the two sentinels as register values.                                   *)
(***************************************************************************)
EXTENDS Mailbox, TLC

CONSTANTS c1, c2

MC_Callers == {c1, c2}
MC_Symmetry == Permutations({c1, c2})
MC_AllKinds == {"short", "wide", "read"}
MC_Shorts == {"short"}
MC_Bytes == {"a5", "5a"}
MC_Sentinel == [a \in 1..2 |-> IF a = 1 THEN "a5" ELSE "5a"]
=============================================================================
