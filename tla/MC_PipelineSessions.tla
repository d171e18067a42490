------------------------- MODULE MC_PipelineSessions -------------------------
(***************************************************************************)
(* Two ways of using the node in one run of TLC, chosen at the start: a    *)
(* source of two modes and one buffer in flight, or one mode, two buffers  *)
(* and a second reader that queries timings.                               *)
(***************************************************************************)
EXTENDS MC_Pipeline, FiniteSets

VARIABLE profile

MC_Profiles == {"modes", "reader"}

MC_Bound ==
    IF profile = "modes"
    THEN qpc' = "idle" /\ Cardinality(queued' \cup nsBuf' \cup dBuf') <= 1
    ELSE source' # "720p" /\ capture' # "small"

MC_Spec ==
    /\ Init /\ profile \in MC_Profiles
    /\ (profile = "reader" => source # "720p")
    /\ [][Next /\ MC_Bound /\ UNCHANGED profile]_<<vars, profile>>
=============================================================================
