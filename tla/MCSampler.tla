------------------------------ MODULE MCSampler -----------------------------
(***************************************************************************)
(* Instance of Sampler: two books, an interval of two units.               *)
(***************************************************************************)
EXTENDS Sampler

CONSTANTS good, thin

MCLevels == {good, thin}
MCImperfect == {thin}
Both == {"grid", "stream"}
=============================================================================
