---------------------------- MODULE MCSupervisor ----------------------------
(***************************************************************************)
(* Instances of Supervisor.  One tick is half of stale_after_s.            *)
(***************************************************************************)
EXTENDS Supervisor

CONSTANTS sym, sym2, main1, alt

AllTransports == {"auto", "ws", "rest"}
OnlyAuto == {"auto"}
OneSymbol == {sym}
TwoSymbols == {sym, sym2}
OneEndpoint == {main1}
TwoEndpoints == {main1, alt}
=============================================================================
