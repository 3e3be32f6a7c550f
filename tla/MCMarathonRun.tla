--------------------------- MODULE MCMarathonRun ---------------------------
(***************************************************************************)
(* MarathonRun with one answer to every question, besides the skip.        *)
(***************************************************************************)
EXTENDS MarathonRun

CONSTANTS a1, g1, g2

=============================================================================
