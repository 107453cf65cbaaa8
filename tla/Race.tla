-------------------------------- MODULE Race --------------------------------
(***************************************************************************)
(* The choice of an endpoint: the latency race (latency.py), the pick at   *)
(* the start and the re-evaluation (supervisor.py: _pick_endpoint,         *)
(* _relatency_loop).  In each round every candidate is probed; the medians *)
(* over the rounds decide.                                                 *)
(*                                                                         *)
(* An endpoint is dead (no probe succeeds), silent (it answers, but sends  *)
(* no market data), live, or flaky (live, and some probes fail).  The      *)
(* first message of a live one takes its base time or Jitter more.         *)
(* Supervisor abstracts all this to a choice among the endpoints.          *)
(***************************************************************************)
EXTENDS Integers, Sequences, FiniteSets

CONSTANTS
    Candidates,    \* the endpoints, in the order of the configuration
    Handshakes,    \* handshake times that occur
    Bases,         \* base times of a first message that occur
    Jitter,        \* what a measurement can add
    Rounds,        \* latency_probe_rounds
    MaxChanges,    \* bound: how often an endpoint changes
    ImprovePct     \* relatency_improvement_pct

Endpoints == {Candidates[i] : i \in DOMAIN Candidates}
Default == Candidates[1]

ASSUME RaceAssumption ==
    /\ Candidates \in Seq(Endpoints) /\ Len(Candidates) > 1 /\ Cardinality(Endpoints) = Len(Candidates)
    /\ Handshakes \subseteq Nat \ {0} /\ Bases \subseteq Nat \ {0} /\ Jitter \in Nat
    /\ Rounds \in Nat \ {0} /\ MaxChanges \in Nat
    /\ ImprovePct \in 0 .. 100

VARIABLES
    quality,    \* the endpoints as they are
    changes,    \* how often one changed
    probes,     \* results of the race under way, per endpoint one of each round
    current,    \* _current_endpoint
    left        \* ghost: endpoints the re-evaluation has left since the last change
                \* of an endpoint, or the last pick

vars == <<quality, changes, probes, current, left>>

NoEndpoint == "no endpoint"
Missing == 0            \* Python's None for a time
Infinity == 1000000
ASSUME NoEndpointAssumption == NoEndpoint \notin Endpoints
ASSUME InfinityAssumption == \A t \in Handshakes \cup Bases : 2 * (t + Jitter) < Infinity

Quality ==
    [kind : {"dead", "silent"}, handshake : Handshakes, base : {Missing}]
        \cup [kind : {"live", "flaky"}, handshake : Handshakes, base : Bases]
NoProbes == [e \in Endpoints |-> <<>>]

Init ==
    /\ quality \in [Endpoints -> Quality] /\ changes = 0
    /\ probes = NoProbes
    /\ current = NoEndpoint
    /\ left = {}

-----------------------------------------------------------------------------
(* The endpoints, and one probe: _probe_once. *)

\* An endpoint becomes faster, slower, silent or dead: between two races, which take
\* seconds of the hour (relatency_interval_s) between them.
Change ==
    /\ changes < MaxChanges /\ probes = NoProbes
    /\ \E e \in Endpoints, q \in Quality :
          q # quality[e] /\ quality' = [quality EXCEPT ![e] = q]
    /\ changes' = changes + 1
    /\ left' = {}
    /\ UNCHANGED <<probes, current>>

Failed == [ok |-> FALSE, handshake |-> Missing, first |-> Missing]

Outcomes(e) ==
    LET q == quality[e]
        Answer(t) == [ok |-> TRUE, handshake |-> q.handshake, first |-> t]
    IN CASE q.kind = "dead" -> {Failed}
         [] q.kind = "silent" -> {Answer(Missing)}
         [] q.kind = "live" -> {Answer(q.base), Answer(q.base + Jitter)}
         [] q.kind = "flaky" -> {Answer(q.base), Answer(q.base + Jitter), Failed}

\* Mutant: one round more than configured.
RoundOneMore ==
    /\ Len(probes[Default]) <= Rounds
    /\ \E r \in [Endpoints -> UNION {Outcomes(e) : e \in Endpoints}] :
          /\ \A e \in Endpoints : r[e] \in Outcomes(e)
          /\ probes' = [e \in Endpoints |-> Append(probes[e], r[e])]
    /\ UNCHANGED <<quality, changes, current, left>>

\* A round: all candidates at once, the results gathered.
Round ==
    /\ Len(probes[Default]) < Rounds
    /\ \E r \in [Endpoints -> UNION {Outcomes(e) : e \in Endpoints}] :
          /\ \A e \in Endpoints : r[e] \in Outcomes(e)
          /\ probes' = [e \in Endpoints |-> Append(probes[e], r[e])]
    /\ UNCHANGED <<quality, changes, current, left>>

-----------------------------------------------------------------------------
(* The summary of a race.  Times are doubled: a median may be a half. *)

\* The times of the rounds, Missing where a round brought none.
Firsts(e) == [i \in DOMAIN probes[e] |-> probes[e][i].first]
HandshakesOf(e) == [i \in DOMAIN probes[e] |-> probes[e][i].handshake]
Measured(times) == {i \in DOMAIN times : times[i] # Missing}

\* The k-th smallest of the times of the rounds in I.
Nth(times, I, k) ==
    CHOOSE t \in {times[i] : i \in I} :
        /\ Cardinality({i \in I : times[i] < t}) < k
        /\ Cardinality({i \in I : times[i] <= t}) >= k

\* Twice the median of what was measured, Missing if nothing was.
Median2(times) ==
    LET I == Measured(times)
        n == Cardinality(I)
    IN IF I = {} THEN Missing ELSE Nth(times, I, (n + 1) \div 2) + Nth(times, I, n \div 2 + 1)

Ok(e) == \E i \in DOMAIN probes[e] : probes[e][i].ok

\* Mutant: an endpoint without any result counts as instantaneous.
ScoreFailedBest(e) ==
    IF Measured(Firsts(e)) # {} THEN Median2(Firsts(e)) ELSE Median2(HandshakesOf(e))

\* score(), of the summary of an endpoint.
Score(e) ==
    IF ~Ok(e) THEN Infinity
    ELSE IF Measured(Firsts(e)) # {} THEN Median2(Firsts(e)) ELSE Median2(HandshakesOf(e))

\* race_endpoints: the first of the best in the order of the candidates, or the
\* first candidate if none answered.
Winner ==
    LET score == [i \in DOMAIN Candidates |-> Score(Candidates[i])]
        best == {i \in DOMAIN Candidates : \A j \in DOMAIN Candidates : score[i] <= score[j]}
    IN Candidates[CHOOSE i \in best : \A j \in best : i <= j]

RaceOver == Len(probes[Default]) = Rounds

-----------------------------------------------------------------------------
(* What the supervisor does with it. *)

\* _pick_endpoint: the winner, whatever was chosen before.
TakeWinner ==
    /\ RaceOver
    /\ current' = Winner
    /\ probes' = NoProbes /\ left' = {}
    /\ UNCHANGED <<quality, changes>>

Pick == current = NoEndpoint /\ TakeWinner

\* Mutant: any improvement will do.
AnyImprovement(e, f) == Score(e) # Infinity /\ Score(f) < Score(e)

\* Mutant: the threshold is taken of the wrong score.
ReversedImprovement(e, f) ==
    Score(e) # Infinity /\ Score(e) * 100 < Score(f) * (100 - ImprovePct)

\* The re-evaluation leaves an endpoint that answered for a clearly better one.
ClearImprovement(e, f) ==
    Score(e) # Infinity /\ Score(f) * 100 < Score(e) * (100 - ImprovePct)

Reevaluate ==
    /\ RaceOver /\ current # NoEndpoint
    /\ \E winner \in {Winner} :
          IF winner # current /\ ClearImprovement(current, winner)
          THEN current' = winner /\ left' = left \cup {current}
          ELSE UNCHANGED <<current, left>>
    /\ probes' = NoProbes
    /\ UNCHANGED <<quality, changes>>

Next == Change \/ Round \/ Pick \/ Reevaluate

Spec == Init /\ [][Next]_vars

\* The loop runs; the exchange owes nothing but what quality says.
FairSpec == Spec /\ WF_vars(Round \/ Pick \/ Reevaluate)

-----------------------------------------------------------------------------
Result == [ok : BOOLEAN, handshake : Handshakes \cup {Missing}, first : Nat]

TypeOK ==
    /\ quality \in [Endpoints -> Quality] /\ changes \in 0 .. MaxChanges
    /\ current \in Endpoints \cup {NoEndpoint}
    /\ left \subseteq Endpoints
    /\ \A e \in Endpoints :
          /\ Len(probes[e]) \in 0 .. Rounds
          /\ \A i \in DOMAIN probes[e] : probes[e][i] \in Result

\* latency.py:3 says that what is measured is the time to the first market data,
\* "not just the handshake": an endpoint that sent none is not chosen over one that
\* did.  Violated by score(), which then takes the handshake for it.
DeliversIfAnyDoes ==
    [][ RaceOver /\ probes' = NoProbes /\ current' # current
          /\ (\E e \in Endpoints : Measured(Firsts(e)) # {})
        => Measured(Firsts(current')) # {} ]_vars

\* config.yaml:85: the connection is not rebuilt constantly.  As long as the jitter
\* is within the improvement asked for and no endpoint changes, none that was left is
\* chosen again.
SmallJitter ==
    \A a, b \in Bases \cup Handshakes :
        ~(/\ 100 * a < (100 - ImprovePct) * (b + Jitter)
          /\ 100 * b < (100 - ImprovePct) * (a + Jitter))
NoFlapping == SmallJitter => current \notin left

\* A live endpoint that beats the current one in every measurement.
Beaten(e) ==
    /\ quality[e].kind = "live"
    /\ \E f \in Endpoints :
          /\ quality[f].kind = "live"
          /\ 100 * (quality[f].base + Jitter) < (100 - ImprovePct) * quality[e].base

\* The re-evaluation finds it: the supervisor does not stay with an endpoint that
\* answers but is beaten.
CurrentBeaten == current # NoEndpoint /\ Beaten(current)
BeatenIsLeft == CurrentBeaten ~> ~CurrentBeaten
=============================================================================
