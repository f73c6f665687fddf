------------------------- MODULE MC_ProgressStream -------------------------
(* Instantiates ProgressStream for TLC: a tracked download whose server    *)
(* writes up to two progress frames before its terminal frame.             *)
EXTENDS ProgressStream

MC_MaxProgress == 2
MC_Tracked == TRUE
=============================================================================
