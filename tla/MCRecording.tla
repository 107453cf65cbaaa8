----------------------------- MODULE MCRecording ----------------------------
(***************************************************************************)
(* Instances of Recording: two books, one of them crossed or short.        *)
(***************************************************************************)
EXTENDS Recording

CONSTANTS good, thin

MCLevels == {good, thin}
MCImperfect == {thin}
Stream == {"stream"}
=============================================================================
