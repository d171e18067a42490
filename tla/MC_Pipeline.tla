----------------------------- MODULE MC_Pipeline -----------------------------
(***************************************************************************)
(* Small instances of Pipeline: a mode of the placeholder's geometry and   *)
(* one of another, and one or two vb2 buffers.                             *)
(***************************************************************************)
EXTENDS Pipeline, TLC

CONSTANTS b1, b2

MC_TwoModes == {"1080p", "720p"}
MC_OneMode == {"1080p"}
MC_SameGeometry == [m \in Modes |-> "full"]
MC_Geometry == [m \in Modes |-> IF m = "1080p" THEN "full" ELSE "small"]
MC_TwoBuffers == {b1, b2}
MC_OneBuffer == {b1}
MC_Symmetry == Permutations({b1, b2})

(* One session: the application never leaves; every access unit has a      *)
(* picture.                                                                *)
MC_OneStep == /\ Next
              /\ upc = "on" => upc' = "on"
              /\ au' # "sets"
MC_OneSession == Init /\ [][MC_OneStep]_vars /\ WorkersRun
=============================================================================
