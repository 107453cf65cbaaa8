---------------------------- MODULE ExchangeLink ----------------------------
(***************************************************************************)
(* What a supervisor promises its surroundings (supervisor.py:1 and :26):  *)
(* the books of an exchange are fed over one transport at a time, a change *)
(* of transport passes through a gap, and when the program stops the link  *)
(* ends for good.  An exchange that lists none of the pairs is off from    *)
(* the start.                                                              *)
(***************************************************************************)
VARIABLES
    begun,  \* the listing has been checked
    stop,   \* the program is stopping
    link    \* "down", "ws", "rest" or "off"

linkVars == <<begun, stop, link>>

LinkInit == begun = FALSE /\ stop = FALSE /\ link = "down"

\* Polling does not begin once the program is stopping; a handshake under way
\* may still succeed.
Up(transport) ==
    /\ link = "down"
    /\ transport = "rest" => ~stop
    /\ transport = "ws" => begun
    /\ link' = transport
    /\ begun' = TRUE
    /\ UNCHANGED stop

Down ==
    /\ link \in {"ws", "rest"}
    /\ link' = "down"
    /\ UNCHANGED <<begun, stop>>

Begin ==
    /\ ~begun
    /\ begun' = TRUE
    /\ link' \in {link, "off"}
    /\ UNCHANGED stop

StopLink == ~stop /\ stop' = TRUE /\ UNCHANGED <<begun, link>>

End ==
    /\ stop /\ link # "off"
    /\ link' = "off"
    /\ begun' = TRUE
    /\ UNCHANGED stop

LinkNext == Up("ws") \/ Up("rest") \/ Down \/ Begin \/ StopLink \/ End

LinkSpec == LinkInit /\ [][LinkNext]_linkVars
=============================================================================
