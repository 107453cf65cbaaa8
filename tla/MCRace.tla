------------------------------- MODULE MCRace -------------------------------
(***************************************************************************)
(* Instances of Race and Steering: two endpoints of every kind, with a     *)
(* handshake faster than any data, the slow base twice the fast one.       *)
(***************************************************************************)
EXTENDS Steering

CONSTANTS main, alt

TwoCandidates == <<main, alt>>
OneHandshake == {6}
TwoBases == {8, 16}
=============================================================================
