------------------------------ MODULE Steering ------------------------------
(***************************************************************************)
(* Where the stream goes: the choice of an endpoint (Race) put together    *)
(* with the loop that connects (supervisor.py: _run_ws_supervised with     *)
(* transport auto, _on_connect, _run_auto).  The races go on beside the    *)
(* connection, in a task of their own; both write _current_endpoint.       *)
(*                                                                         *)
(* Supervisor models the same loop with its timers, events and feeders;    *)
(* here an attempt is only its endpoint and its outcome, and an endpoint   *)
(* has the quality the races measure.                                      *)
(***************************************************************************)
EXTENDS Race

CONSTANT
    FailureLimit    \* ws_failures_before_rest

ASSUME FailureLimitAssumption == FailureLimit \in Nat \ {0}

VARIABLES
    link,       \* what run() is doing
    target,     \* the endpoint of the attempt or connection: `current` in the loop
    failures,   \* consecutive_failures
    pending,    \* ghost: an endpoint switched to while no attempt was under way
    kept        \* ghost: `left' when the attempt under way began

steering == <<link, target, failures, pending, kept>>
steeringVars == <<vars, steering>>

SteeringInit ==
    /\ Init
    /\ link = "picking" /\ target = NoEndpoint /\ failures = 0 /\ pending = NoEndpoint
    /\ kept = {}

-----------------------------------------------------------------------------
(* The races: before the loop, and beside it while it runs. *)

Probing == link # "rest" /\ Round /\ UNCHANGED steering

Picked ==
    /\ link = "picking"
    /\ TakeWinner
    /\ link' = "waiting"
    /\ UNCHANGED <<target, failures, pending, kept>>

\* A decision in the middle of an attempt may still be overwritten by its success.
Reconsidered ==
    /\ link \in {"waiting", "opening", "up"}
    /\ Reevaluate
    /\ pending' = IF current' = current THEN pending
                  ELSE IF link = "opening" THEN NoEndpoint ELSE current'
    /\ UNCHANGED <<link, target, failures, kept>>

Changing == Change /\ kept' = {} /\ UNCHANGED <<link, target, failures, pending>>

-----------------------------------------------------------------------------
(* The loop. *)

\* Mutant: the endpoint of the last connection is tried again.
BeginAsBefore ==
    /\ link = "waiting"
    /\ link' = "opening"
    /\ target' = IF target = NoEndpoint THEN current ELSE target
    /\ pending' = NoEndpoint /\ kept' = left
    /\ UNCHANGED <<vars, failures>>

\* The delay is over: an attempt to _current_endpoint.
Begin ==
    /\ link = "waiting"
    /\ link' = "opening"
    /\ target' = current
    /\ pending' = NoEndpoint /\ kept' = left
    /\ UNCHANGED <<vars, failures>>

\* Connected and subscribed: _on_connect makes the endpoint of the attempt the
\* current one, also when a re-evaluation has switched in the meantime: what it left
\* since the attempt began does not count as left.
Opens ==
    /\ link = "opening" /\ quality[target].kind # "dead"
    /\ link' = "up"
    /\ current' = target /\ left' = kept /\ kept' = {}
    /\ UNCHANGED <<quality, changes, probes, target, failures, pending>>

\* An attempt or a connection ends with an exception.  At the limit the loop is left
\* for a REST window, and the race under way beside it is cancelled.
Fails ==
    LET exhausted == failures + 1 >= FailureLimit
    IN /\ link' = IF exhausted THEN "rest" ELSE "waiting"
       /\ failures' = IF exhausted THEN 0 ELSE failures + 1
       /\ probes' = IF exhausted THEN NoProbes ELSE probes
       /\ pending' = IF exhausted THEN NoEndpoint ELSE pending
       /\ kept' = {}
       /\ UNCHANGED <<quality, changes, current, left, target>>

OpenFails == link = "opening" /\ Fails

Drops == link = "up" /\ Fails

\* The server closes in good order: run_ws returns, which is no failure.
Closes ==
    /\ link = "up" /\ quality[target].kind # "dead"
    /\ link' = "waiting"
    /\ failures' = 0
    /\ UNCHANGED <<vars, target, pending, kept>>

\* The REST window is over: _run_auto enters the loop anew, which picks again.
WindowEnds ==
    /\ link = "rest"
    /\ link' = "picking"
    /\ UNCHANGED <<vars, target, failures, pending, kept>>

SteeringNext ==
    \/ Changing \/ Probing \/ Picked \/ Reconsidered
    \/ Begin \/ Opens \/ OpenFails \/ Drops \/ Closes \/ WindowEnds

SteeringSpec == SteeringInit /\ [][SteeringNext]_steeringVars

\* Delays, windows and the probes of a race end; an attempt has an outcome within
\* its timeouts; the pings notice a connection to an endpoint that died.  No
\* connection that works has to end.
FairSteering ==
    /\ SteeringSpec
    /\ WF_steeringVars(Probing \/ Picked \/ Reconsidered)
    /\ WF_steeringVars(Begin \/ WindowEnds)
    /\ WF_steeringVars(Opens \/ OpenFails)
    /\ WF_steeringVars(link = "up" /\ quality[target].kind = "dead" /\ Drops)

-----------------------------------------------------------------------------
SteeringTypeOK ==
    /\ TypeOK
    /\ link \in {"picking", "waiting", "opening", "up", "rest"}
    /\ target \in Endpoints \cup {NoEndpoint} /\ pending \in Endpoints \cup {NoEndpoint}
    /\ failures \in 0 .. FailureLimit - 1 /\ kept \subseteq Endpoints
    /\ link \in {"opening", "up"} => target # NoEndpoint

\* The comment at supervisor.py:296: a switch waits for the next hiccup.  What the
\* re-evaluation decides while a connection is up, or between two attempts, the next
\* attempt follows.
SwitchTakesEffect ==
    [][ link' = "opening" /\ link # "opening" /\ pending # NoEndpoint
        => target' = pending ]_steeringVars

\* A dead endpoint is not insisted on while another one answers: the re-evaluation
\* passes over an endpoint without a score, but the failed attempts lead to a REST
\* window, and the pick after the window leaves it.  A stream that is up elsewhere
\* may go on: nobody needs the endpoint then.
Insists ==
    /\ current # NoEndpoint /\ quality[current].kind = "dead"
    /\ \E f \in Endpoints : quality[f].kind \in {"live", "silent"}
    /\ link = "up" => quality[target].kind = "dead"
DeadIsLeft == Insists ~> ~Insists
=============================================================================
