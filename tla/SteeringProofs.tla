--------------------------- MODULE SteeringProofs ---------------------------
(***************************************************************************)
(* The choice of an endpoint and the loop that connects, for any endpoints *)
(* and any results of the races.                                           *)
(*                                                                         *)
(* A switch takes effect: two tasks write _current_endpoint, and neither   *)
(* loses what the other decided except where an attempt was under way.     *)
(*                                                                         *)
(* The switches end: what a race says of an endpoint lies between twice    *)
(* its time and twice that and the jitter, so that with a jitter within    *)
(* the improvement asked for every switch leads to an endpoint that is     *)
(* truly faster, and none that was left comes back.                        *)
(***************************************************************************)
EXTENDS Steering, OrderLemmas

-----------------------------------------------------------------------------
(* A switch takes effect. *)

\* A switch that is still to be followed is what the next attempt reads; none is
\* left over when an attempt or a pick could overwrite it.
Remembered ==
    /\ pending # NoEndpoint => pending = current
    /\ link \in {"opening", "picking", "rest"} => pending = NoEndpoint

LEMMA FailsKeepsRemembered == Remembered /\ link \in {"opening", "up"} /\ Fails => Remembered'
  BY DEF Remembered, Fails

\* One step of the races or of the loop.
LEMMA StepKeepsRemembered == Remembered /\ [SteeringNext]_steeringVars => Remembered'
<1> SUFFICES ASSUME Remembered, [SteeringNext]_steeringVars
             PROVE  Remembered'
  OBVIOUS
<1>1. CASE Changing
  BY <1>1 DEF Changing, Change, steering, Remembered
<1>2. CASE Probing
  BY <1>2 DEF Probing, Round, steering, Remembered
<1>3. CASE Picked
  BY <1>3 DEF Picked, TakeWinner, Remembered
<1>4. CASE Reconsidered
  <2>1. current' = current \/ (link # "opening" => pending' = current')
    BY <1>4 DEF Reconsidered
  <2>2. CASE current' = current
    BY <1>4, <2>2 DEF Reconsidered, Remembered
  <2>3. CASE current' # current
    BY <1>4, <2>3 DEF Reconsidered, Remembered
  <2> QED
    BY <2>2, <2>3
<1>5. CASE Begin
  BY <1>5 DEF Begin, vars, Remembered
<1>6. CASE Opens
  BY <1>6 DEF Opens, Remembered
<1>7. CASE OpenFails
  BY <1>7, FailsKeepsRemembered DEF OpenFails
<1>8. CASE Drops
  BY <1>8, FailsKeepsRemembered DEF Drops
<1>9. CASE Closes
  BY <1>9 DEF Closes, vars, Remembered
<1>10. CASE WindowEnds
  BY <1>10 DEF WindowEnds, vars, Remembered
<1>11. CASE UNCHANGED steeringVars
  BY <1>11 DEF steeringVars, steering, vars, Remembered
<1> QED
  BY <1>1, <1>2, <1>3, <1>4, <1>5, <1>6, <1>7, <1>8, <1>9, <1>10, <1>11 DEF SteeringNext

\* Only the loop begins an attempt, and it reads what was decided last.
LEMMA AttemptFollows ==
    ASSUME Remembered, [SteeringNext]_steeringVars,
           link' = "opening", link # "opening", pending # NoEndpoint
    PROVE  target' = pending
<1>1. Begin
  BY DEF SteeringNext, Changing, Probing, Picked, Reconsidered, Opens, OpenFails, Drops, Fails,
         Closes, WindowEnds, steeringVars, steering
<1> QED
  BY <1>1 DEF Begin, Remembered

\* What the re-evaluation decides while a connection is up, or between two attempts,
\* the next attempt follows.
THEOREM SwitchIsFollowed == SteeringSpec => SwitchTakesEffect
<1>1. SteeringInit => Remembered
  BY DEF SteeringInit, Remembered
<1>2. Remembered /\ [SteeringNext]_steeringVars
        => [ link' = "opening" /\ link # "opening" /\ pending # NoEndpoint
             => target' = pending ]_steeringVars
  BY AttemptFollows
<1> QED
  BY <1>1, <1>2, StepKeepsRemembered, PTL DEF SteeringSpec, SwitchTakesEffect

-----------------------------------------------------------------------------
(* The median of a race. *)

\* The k-th smallest of k or more times is one of them.
LEMMA NthIsOne ==
    ASSUME NEW n \in Nat, NEW times \in [1 .. n -> Nat], NEW I \in SUBSET (1 .. n),
           NEW k \in Nat, 1 <= k, k <= Cardinality(I),
           NEW hi \in Nat, \A i \in I : times[i] <= hi
    PROVE  Nth(times, I, k) \in {times[i] : i \in I}
<1> DEFINE UpTo(t) == {i \in I : times[i] <= t}
           Under(t) == {i \in I : times[i] < t}
           S == {t \in Nat : k <= Cardinality(UpTo(t))}
<1>1. IsFiniteSet(I)
  <2>1. 1 \in Int /\ n \in Int
    OBVIOUS
  <2>2. IsFiniteSet(1 .. n)
    BY <2>1, FS_Interval, Zenon
  <2> QED
    BY <2>2, FS_Subset, Zenon
<1>2. \A t \in Int : Cardinality(UpTo(t)) \in Nat /\ Cardinality(Under(t)) \in Nat
  <2>1. \A t \in Int : UpTo(t) \in SUBSET I /\ Under(t) \in SUBSET I
    OBVIOUS
  <2> HIDE DEF UpTo, Under
  <2> QED
    BY <1>1, <2>1, FS_Subset, FS_CardinalityType, Zenon
<1>3. UpTo(hi) = I
  OBVIOUS
<1>4. S \in SUBSET Nat /\ S # {}
  <2>1. hi \in S
    BY <1>3
  <2> QED
    BY <2>1
<1>5. PICK m \in S : \A t \in S : m <= t
  <2> HIDE DEF S
  <2> QED
    BY <1>4, LeastNat
<1>6. m \in Nat /\ k <= Cardinality(UpTo(m))
  OBVIOUS
<1>7. \A i \in I : times[i] \in Nat
  OBVIOUS
<1>8. Cardinality(Under(m)) < k
  <2>1. CASE m = 0
    <3>1. \A i \in I : ~(times[i] < m)
      BY <1>7, <2>1
    <3>2. Under(m) = {}
      BY <3>1, Zenon
    <3>3. Cardinality(Under(m)) = 0
      <4> HIDE DEF Under
      <4> QED
        BY <3>2, FS_EmptySet, Zenon
    <3> QED
      BY <3>3
  <2>2. CASE m # 0
    <3>1. m - 1 \in Nat /\ ~(m <= m - 1)
      BY <1>6, <2>2
    <3>2. m - 1 \notin S
      <4> HIDE DEF S
      <4> QED
        BY <1>5, <3>1
    <3>3. ~(k <= Cardinality(UpTo(m - 1)))
      BY <3>1, <3>2
    <3>4. \A i \in I : times[i] < m <=> times[i] <= m - 1
      BY <1>6, <1>7
    <3>5. Under(m) = UpTo(m - 1)
      BY <3>4, Zenon
    <3> HIDE DEF Under, UpTo
    <3> QED
      BY <1>2, <3>1, <3>3, <3>5
  <2> QED
    BY <2>1, <2>2
<1>9. m \in {times[i] : i \in I}
  <2>1. SUFFICES ASSUME \A i \in I : times[i] # m
                 PROVE  FALSE
    OBVIOUS
  <2>2. \A i \in I : times[i] <= m <=> times[i] < m
    BY <1>6, <1>7, <2>1
  <2>3. UpTo(m) = Under(m)
    BY <2>2, Zenon
  <2> HIDE DEF Under, UpTo
  <2> QED
    BY <1>2, <1>6, <1>8, <2>3
<1>10. \E t \in {times[i] : i \in I} :
         /\ Cardinality({i \in I : times[i] < t}) < k
         /\ Cardinality({i \in I : times[i] <= t}) >= k
  BY <1>2, <1>6, <1>8, <1>9
<1> HIDE DEF UpTo, Under, S
<1> QED
  BY <1>10, Zenon DEF Nth

\* Twice the median lies between twice the bounds of what was measured.
LEMMA MedianBetween ==
    ASSUME NEW n \in Nat, NEW times \in [1 .. n -> Nat], Measured(times) # {},
           NEW lo \in Nat, NEW hi \in Nat,
           \A i \in Measured(times) : lo <= times[i] /\ times[i] <= hi
    PROVE  Median2(times) \in 2 * lo .. 2 * hi
<1> DEFINE I == Measured(times)
           c == Cardinality(I)
<1>1. I \in SUBSET (1 .. n)
  BY DEF Measured
<1>2. c \in Nat /\ c >= 1
  <2>1. 1 \in Int /\ n \in Int
    OBVIOUS
  <2>2. IsFiniteSet(1 .. n)
    BY <2>1, FS_Interval, Zenon
  <2>3. IsFiniteSet(I)
    <3> HIDE DEF I
    <3> QED
      BY <1>1, <2>2, FS_Subset, Zenon
  <2>4. c \in Nat
    BY <2>3, FS_CardinalityType, Zenon
  <2>5. c # 0
    BY <2>3, FS_EmptySet, Zenon
  <2> QED
    BY <2>4, <2>5
<1>3. I # {} /\ \A i \in I : times[i] <= hi
  OBVIOUS
<1> HIDE DEF c, I
<1>4. ASSUME NEW k \in Nat, 1 <= k, k <= c
      PROVE  Nth(times, I, k) \in lo .. hi
  <2>1. Nth(times, I, k) \in {times[i] : i \in I}
    BY <1>1, <1>3, <1>4, NthIsOne DEF c
  <2>2. \A i \in I : times[i] \in lo .. hi
    BY <1>1 DEF I
  <2> QED
    BY <2>1, <2>2
<1>5. /\ (c + 1) \div 2 \in Nat /\ 1 <= (c + 1) \div 2 /\ (c + 1) \div 2 <= c
      /\ c \div 2 + 1 \in Nat /\ 1 <= c \div 2 + 1 /\ c \div 2 + 1 <= c
  BY <1>2
<1>6. /\ Nth(times, I, (c + 1) \div 2) \in lo .. hi
      /\ Nth(times, I, c \div 2 + 1) \in lo .. hi
  BY <1>4, <1>5
<1>7. Median2(times) = Nth(times, I, (c + 1) \div 2) + Nth(times, I, c \div 2 + 1)
  BY <1>3 DEF Median2, I, c
<1> QED
  BY <1>6, <1>7

-----------------------------------------------------------------------------
(* What a race measures. *)

\* The time by which the races judge an endpoint.
TimeOf(q) == IF q.kind = "silent" THEN q.handshake ELSE q.base

\* What a probe of an endpoint of this quality can bring.
Fits(q, o) ==
    /\ o \in Result
    /\ ~o.ok => o.handshake = Missing /\ o.first = Missing
    /\ o.ok => o.handshake = q.handshake /\ q.kind # "dead"
    /\ o.ok /\ q.kind = "silent" => o.first = Missing
    /\ o.ok /\ q.kind # "silent" => q.base <= o.first /\ o.first <= q.base + Jitter

LEMMA QualityFields ==
    ASSUME NEW q \in Quality
    PROVE  /\ q.handshake \in Handshakes /\ q.handshake \in Nat \ {0}
           /\ q.kind \in {"dead", "silent", "live", "flaky"}
           /\ q.kind \in {"live", "flaky"} => q.base \in Bases /\ q.base \in Nat \ {0}
  BY RaceAssumption DEF Quality

LEMMA OutcomesFit ==
    ASSUME NEW e \in Endpoints, quality[e] \in Quality, NEW o \in Outcomes(e)
    PROVE  Fits(quality[e], o)
<1> DEFINE q == quality[e]
           Answer(t) == [ok |-> TRUE, handshake |-> q.handshake, first |-> t]
<1>1. /\ q.handshake \in Handshakes /\ q.handshake \in Nat \ {0}
      /\ q.kind \in {"dead", "silent", "live", "flaky"}
      /\ q.kind \in {"live", "flaky"} => q.base \in Bases /\ q.base \in Nat \ {0}
  BY QualityFields
<1>2. Failed \in Result /\ Fits(q, Failed)
  BY DEF Failed, Result, Fits, Missing
<1>3. CASE q.kind = "dead"
  <2>1. o = Failed
    BY <1>3 DEF Outcomes
  <2> QED
    BY <1>2, <2>1
<1>4. CASE q.kind = "silent"
  <2>1. o = Answer(Missing)
    BY <1>4 DEF Outcomes
  <2> QED
    BY <1>1, <1>4, <2>1 DEF Result, Fits, Missing
<1>5. CASE q.kind \in {"live", "flaky"}
  <2>1. o \in {Answer(q.base), Answer(q.base + Jitter), Failed}
    <3>1. CASE q.kind = "live"
      BY <3>1 DEF Outcomes
    <3>2. CASE q.kind = "flaky"
      BY <3>2 DEF Outcomes
    <3> QED
      BY <1>5, <3>1, <3>2
  <2>2. Jitter \in Nat
    BY RaceAssumption
  <2>3. CASE o = Failed
    BY <1>2, <2>3
  <2>4. ASSUME NEW t \in {q.base, q.base + Jitter}, o = Answer(t) PROVE Fits(q, o)
    <3>1. t \in Nat /\ q.base <= t /\ t <= q.base + Jitter
      BY <1>1, <1>5, <2>2
    <3>2. o.ok = TRUE /\ o.handshake = q.handshake /\ o.first = t /\ o \in Result
      BY <1>1, <2>4, <3>1 DEF Result
    <3> QED
      BY <1>5, <3>1, <3>2 DEF Fits
  <2> QED
    BY <2>1, <2>3, <2>4
<1> QED
  BY <1>1, <1>3, <1>4, <1>5

\* All endpoints have been probed equally often, and each result fits the endpoint
\* as it still is: an endpoint does not change during a race.
RaceInv ==
    /\ quality \in [Endpoints -> Quality]
    /\ Len(probes[Default]) \in 0 .. Rounds
    /\ probes \in [Endpoints -> Seq(Result)]
    /\ \A e \in Endpoints :
          /\ Len(probes[e]) = Len(probes[Default])
          /\ \A i \in 1 .. Len(probes[Default]) : Fits(quality[e], probes[e][i])

\* An endpoint with a result has a score that is true to its time, but for the
\* jitter; any other has the worst.
LEMMA ScoreIsTrue ==
    ASSUME RaceInv, NEW e \in Endpoints
    PROVE  /\ TimeOf(quality[e]) \in Bases \cup Handshakes \/ ~Ok(e)
           /\ IF Ok(e)
              THEN /\ Score(e) \in 2 * TimeOf(quality[e]) .. 2 * (TimeOf(quality[e]) + Jitter)
                   /\ Score(e) < Infinity
              ELSE Score(e) = Infinity
           /\ Score(e) \in Nat
<1> DEFINE q == quality[e]
           n == Len(probes[e])
           p == probes[e]
           fs == Firsts(e)
           hs == HandshakesOf(e)
<1>1. n \in Nat /\ p \in [1 .. n -> Result] /\ \A i \in 1 .. n : Fits(q, p[i])
  BY DEF RaceInv
<1>2. Jitter \in Nat /\ Infinity \in Nat
  BY RaceAssumption DEF Infinity
<1>3. CASE ~Ok(e)
  BY <1>2, <1>3 DEF Score
<1>4. CASE Ok(e)
  <2>1. PICK i \in 1 .. n : p[i].ok
    BY <1>1, <1>4 DEF Ok
  <2>2. /\ q.handshake \in Handshakes /\ q.handshake \in Nat \ {0}
        /\ q.kind \in {"silent", "live", "flaky"}
        /\ q.kind # "silent" => q.base \in Bases /\ q.base \in Nat \ {0}
    <3>1. q \in Quality
      BY DEF RaceInv
    <3>2. q.kind # "dead"
      BY <1>1, <2>1 DEF Fits
    <3> QED
      BY <3>1, <3>2, QualityFields
  <2>3. TimeOf(q) \in Bases \cup Handshakes /\ TimeOf(q) \in Nat \ {0}
    BY <2>2 DEF TimeOf
  <2>4. /\ fs \in [1 .. n -> Nat] /\ \A j \in 1 .. n : fs[j] = p[j].first
        /\ hs \in [1 .. n -> Nat] /\ \A j \in 1 .. n : hs[j] = p[j].handshake
    <3>1. \A o \in Result : o.first \in Nat /\ o.handshake \in Nat
      <4>1. Handshakes \subseteq Nat /\ Missing \in Nat
        BY RaceAssumption DEF Missing
      <4>2. \A o \in Result : o.first \in Nat /\ o.handshake \in Handshakes \cup {Missing}
        BY DEF Result
      <4> QED
        BY <4>1, <4>2
    <3>2. DOMAIN p = 1 .. n
      BY <1>1
    <3> QED
      BY <1>1, <3>1, <3>2 DEF Firsts, HandshakesOf
  <2>5. CASE q.kind = "silent"
    <3>1. Measured(fs) = {}
      <4>1. \A j \in 1 .. n : fs[j] = Missing
        BY <1>1, <2>4, <2>5 DEF Fits
      <4> QED
        BY <2>4, <4>1 DEF Measured
    <3>2. i \in Measured(hs)
      <4>1. hs[i] = q.handshake
        BY <1>1, <2>1, <2>4 DEF Fits
      <4> QED
        BY <2>2, <2>4, <4>1 DEF Measured, Missing
    <3>3. \A j \in Measured(hs) : q.handshake <= hs[j] /\ hs[j] <= q.handshake
      <4>1. ASSUME NEW j \in 1 .. n, hs[j] # Missing PROVE hs[j] = q.handshake
        BY <1>1, <2>4, <4>1 DEF Fits
      <4>2. Measured(hs) \in SUBSET (1 .. n) /\ \A j \in Measured(hs) : hs[j] # Missing
        BY <2>4 DEF Measured
      <4> QED
        BY <2>2, <4>1, <4>2
    <3>4. Median2(hs) \in 2 * q.handshake .. 2 * q.handshake
      <4>1. q.handshake \in Nat /\ Measured(hs) # {}
        BY <2>2, <3>2
      <4> HIDE DEF hs, n, q
      <4> QED
        BY <1>1, <2>4, <3>3, <4>1, MedianBetween
    <3>5. Score(e) = Median2(hs)
      BY <1>4, <3>1 DEF Score
    <3>6. TimeOf(q) = q.handshake
      BY <2>5 DEF TimeOf
    <3>7. 2 * (q.handshake + Jitter) < Infinity
      BY <2>2, InfinityAssumption
    <3>8. Score(e) \in 2 * TimeOf(q) .. 2 * (TimeOf(q) + Jitter)
      <4> HIDE DEF q, hs
      <4> QED
        BY <1>2, <2>2, <3>4, <3>5, <3>6
    <3>9. Score(e) < Infinity /\ Score(e) \in Nat
      <4> HIDE DEF q, hs
      <4> QED
        BY <1>2, <2>2, <3>4, <3>5, <3>7
    <3> QED
      BY <1>4, <2>3, <3>8, <3>9
  <2>6. CASE q.kind # "silent"
    <3>1. q.base \in Bases /\ q.base \in Nat \ {0} /\ TimeOf(q) = q.base
      BY <2>2, <2>6 DEF TimeOf
    <3>2. i \in Measured(fs)
      <4>1. q.base <= fs[i] /\ fs[i] \in Nat
        BY <1>1, <2>1, <2>4, <2>6 DEF Fits
      <4>2. fs[i] # Missing
        BY <3>1, <4>1 DEF Missing
      <4> QED
        BY <2>4, <4>2 DEF Measured
    <3>3. \A j \in Measured(fs) : q.base <= fs[j] /\ fs[j] <= q.base + Jitter
      <4>1. ASSUME NEW j \in 1 .. n, fs[j] # Missing
            PROVE  q.base <= fs[j] /\ fs[j] <= q.base + Jitter
        BY <1>1, <2>4, <2>6, <4>1 DEF Fits
      <4>2. Measured(fs) \in SUBSET (1 .. n) /\ \A j \in Measured(fs) : fs[j] # Missing
        BY <2>4 DEF Measured
      <4> QED
        BY <4>1, <4>2
    <3>4. Median2(fs) \in 2 * q.base .. 2 * (q.base + Jitter)
      <4>1. q.base \in Nat /\ q.base + Jitter \in Nat /\ Measured(fs) # {}
        BY <1>2, <3>1, <3>2
      <4> HIDE DEF fs, n, q
      <4> QED
        BY <1>1, <2>4, <3>3, <4>1, MedianBetween
    <3>5. Score(e) = Median2(fs)
      BY <1>4, <3>2 DEF Score
    <3>6. 2 * (q.base + Jitter) < Infinity
      BY <3>1, InfinityAssumption
    <3>7. /\ Score(e) \in 2 * TimeOf(q) .. 2 * (TimeOf(q) + Jitter)
          /\ Score(e) < Infinity /\ Score(e) \in Nat
      <4> HIDE DEF q, fs
      <4> QED
        BY <1>2, <3>1, <3>4, <3>5, <3>6
    <3> QED
      BY <1>4, <2>3, <3>7
  <2> QED
    BY <2>5, <2>6
<1> QED
  BY <1>3, <1>4

-----------------------------------------------------------------------------
(* What a race decides. *)

LEMMA EndpointsListed ==
    /\ Default \in Endpoints /\ Len(Candidates) \in Nat /\ Len(Candidates) > 1
    /\ DOMAIN Candidates = 1 .. Len(Candidates)
    /\ \A i \in DOMAIN Candidates : Candidates[i] \in Endpoints
<1>1. Candidates \in Seq(Endpoints) /\ Len(Candidates) > 1
  BY RaceAssumption
<1>2. /\ Len(Candidates) \in Nat /\ DOMAIN Candidates = 1 .. Len(Candidates)
      /\ \A i \in DOMAIN Candidates : Candidates[i] \in Endpoints
  BY <1>1
<1> QED
  BY <1>1, <1>2 DEF Default

\* The winner is one of the endpoints.
LEMMA WinnerListed ==
    ASSUME RaceInv
    PROVE  Winner \in Endpoints
<1> DEFINE D == DOMAIN Candidates
           score == [i \in D |-> Score(Candidates[i])]
           best == {i \in D : \A j \in D : score[i] <= score[j]}
           S == {score[i] : i \in D}
<1>1. D \in SUBSET Nat /\ D # {} /\ \A i \in D : Candidates[i] \in Endpoints
  <2>1. Len(Candidates) \in Nat /\ Len(Candidates) > 1 /\ D = 1 .. Len(Candidates)
    BY EndpointsListed
  <2>2. 1 \in D /\ D \in SUBSET Nat
    BY <2>1
  <2> QED
    BY <2>2, EndpointsListed
<1>2. \A i \in D : score[i] \in Nat
  BY <1>1, ScoreIsTrue
<1> HIDE DEF D, score
<1>3. \E i \in D : \A j \in D : score[i] <= score[j]
  <2>1. S \in SUBSET Nat /\ S # {}
    BY <1>1, <1>2
  <2>2. \E m \in S : \A x \in S : m <= x
    <3> HIDE DEF S
    <3> QED
      BY <2>1, LeastNat
  <2> QED
    BY <2>2
<1>4. \E i \in best : \A j \in best : i <= j
  <2>1. best \in SUBSET Nat /\ best # {}
    BY <1>1, <1>3
  <2> HIDE DEF best
  <2> QED
    BY <2>1, LeastNat
<1>5. best \subseteq D
  OBVIOUS
<1>6. Winner = Candidates[CHOOSE i \in best : \A j \in best : i <= j]
  BY DEF Winner, D, score
<1> HIDE DEF best
<1>7. (CHOOSE i \in best : \A j \in best : i <= j) \in best
  BY <1>4, Zenon
<1> QED
  BY <1>1, <1>5, <1>6, <1>7

\* An endpoint is left only for one that is truly faster.
LEMMA ClearIsTrue ==
    ASSUME RaceInv, SmallJitter, NEW e \in Endpoints, NEW f \in Endpoints,
           ClearImprovement(e, f)
    PROVE  TimeOf(quality[f]) < TimeOf(quality[e])
<1> DEFINE x == TimeOf(quality[e])
           y == TimeOf(quality[f])
           P == 100 - ImprovePct
<1>1. P \in 0 .. 100 /\ Jitter \in Nat /\ Infinity \in Nat
  BY RaceAssumption DEF Infinity
<1>2. /\ Score(e) \in Nat /\ Score(f) \in Nat /\ Score(e) # Infinity
      /\ Score(f) * 100 < Score(e) * P
  BY ScoreIsTrue DEF ClearImprovement
<1>3. Ok(e)
  BY <1>2, ScoreIsTrue
<1>4. Score(e) * P <= Score(e) * 100
  <2> DEFINE z == Score(e)
  <2>1. z \in Nat
    BY <1>2
  <2> HIDE DEF z, P
  <2>2. z * P <= z * 100
    BY <1>1, <2>1
  <2> QED
    BY <2>2 DEF z
<1>5. Ok(f)
  <2>1. Score(f) < Score(e) /\ Score(e) < Infinity
    <3>1. Score(e) < Infinity
      BY <1>3, ScoreIsTrue
    <3>2. Score(e) * P \in Int
      <4> HIDE DEF P
      <4> QED
        BY <1>1, <1>2
    <3> HIDE DEF P
    <3> QED
      BY <1>2, <1>4, <3>1, <3>2
  <2> QED
    BY <1>1, <1>2, <2>1, ScoreIsTrue
<1>6. x \in Bases \cup Handshakes /\ y \in Bases \cup Handshakes
  BY <1>3, <1>5, ScoreIsTrue
<1>7. x \in Nat /\ y \in Nat
  BY <1>6, RaceAssumption
<1>8. Score(e) <= 2 * (x + Jitter) /\ 2 * y <= Score(f)
  BY <1>3, <1>5, ScoreIsTrue
<1>9. ~(/\ 100 * x < P * (y + Jitter)
        /\ 100 * y < P * (x + Jitter))
  BY <1>6 DEF SmallJitter
<1> DEFINE s == Score(e)
           t == Score(f)
<1>10. s \in Nat /\ t \in Nat /\ t * 100 < s * P /\ s <= 2 * (x + Jitter) /\ 2 * y <= t
  BY <1>2, <1>8
<1> HIDE DEF x, y, P, s, t
<1>11. 100 * y < P * (x + Jitter)
  <2>1. s * P <= (2 * (x + Jitter)) * P
    BY <1>1, <1>7, <1>10
  <2>2. (2 * (x + Jitter)) * P = 2 * (P * (x + Jitter)) /\ P * (x + Jitter) \in Int
    BY <1>1, <1>7
  <2>3. s * P \in Int
    BY <1>1, <1>10
  <2> QED
    BY <1>1, <1>7, <1>10, <2>1, <2>2, <2>3
<1>12. y < x
  <2>1. SUFFICES ASSUME x <= y PROVE FALSE
    BY <1>7
  <2>2. P * (x + Jitter) <= P * (y + Jitter)
    BY <1>1, <1>7, <2>1
  <2>3. P * (x + Jitter) \in Int /\ P * (y + Jitter) \in Int
    BY <1>1, <1>7
  <2>4. 100 * x < P * (y + Jitter)
    BY <1>7, <1>11, <2>1, <2>2, <2>3
  <2> QED
    BY <1>9, <1>11, <2>4
<1> QED
  BY <1>12 DEF x, y

-----------------------------------------------------------------------------
(* Every step of the races and of the loop. *)

\* A race that has not begun, a round, and an end of the race.
LEMMA NoProbesFit ==
    ASSUME quality' \in [Endpoints -> Quality], probes' = NoProbes
    PROVE  RaceInv'
<1>1. /\ probes' \in [Endpoints -> Seq(Result)]
      /\ \A e \in Endpoints : probes'[e] = <<>>
  BY DEF NoProbes
<1>2. Default \in Endpoints /\ Len(probes'[Default]) = 0 /\ Rounds \in Nat
  BY <1>1, EndpointsListed, RaceAssumption
<1> QED
  BY <1>1, <1>2 DEF RaceInv

LEMMA RoundFits ==
    ASSUME RaceInv, Round
    PROVE  RaceInv'
<1>1. PICK r \in [Endpoints -> UNION {Outcomes(e) : e \in Endpoints}] :
         /\ \A e \in Endpoints : r[e] \in Outcomes(e)
         /\ probes' = [e \in Endpoints |-> Append(probes[e], r[e])]
  BY DEF Round
<1> DEFINE n == Len(probes[Default])
<1>2. /\ n \in 0 .. Rounds /\ n < Rounds /\ Rounds \in Nat /\ quality' = quality
      /\ Default \in Endpoints
  BY EndpointsListed, RaceAssumption DEF RaceInv, Round
<1>3. \A e \in Endpoints : Fits(quality[e], r[e])
  BY <1>1, OutcomesFit DEF RaceInv
<1>4. \A e \in Endpoints : r[e] \in Result
  BY <1>3 DEF Fits
<1>5. ASSUME NEW e \in Endpoints
      PROVE  /\ probes'[e] \in Seq(Result) /\ Len(probes'[e]) = n + 1
             /\ \A i \in 1 .. n + 1 : Fits(quality[e], probes'[e][i])
  <2> DEFINE p == probes[e]
             o == r[e]
  <2>1. p \in Seq(Result) /\ Len(p) = n /\ \A i \in 1 .. n : Fits(quality[e], p[i])
    BY DEF RaceInv
  <2>2. o \in Result /\ Fits(quality[e], o) /\ probes'[e] = Append(p, o)
    BY <1>1, <1>3, <1>4
  <2>3. n \in Nat
    BY <1>2
  <2> HIDE DEF p, o, n
  <2>4. /\ Append(p, o) \in Seq(Result) /\ Len(Append(p, o)) = n + 1
        /\ Append(p, o)[n + 1] = o /\ \A i \in 1 .. n : Append(p, o)[i] = p[i]
    BY <2>1, <2>2, <2>3
  <2>5. ASSUME NEW i \in 1 .. n + 1 PROVE Fits(quality[e], Append(p, o)[i])
    <3>1. i \in 1 .. n \/ i = n + 1
      BY <2>3
    <3> QED
      BY <2>1, <2>2, <2>4, <3>1
  <2> QED
    BY <2>2, <2>4, <2>5
<1>6. probes' \in [Endpoints -> Seq(Result)]
  <2>1. probes' = [e \in Endpoints |-> probes'[e]]
    BY <1>1
  <2> QED
    BY <1>5, <2>1
<1>7. Len(probes'[Default]) = n + 1
  BY <1>2, <1>5
<1> HIDE DEF n
<1> QED
  BY <1>2, <1>5, <1>6, <1>7 DEF RaceInv

\* No step of the loop touches a race, but that a failure may cancel it.
LEMMA StepKeepsRace == RaceInv /\ [SteeringNext]_steeringVars => RaceInv'
<1> SUFFICES ASSUME RaceInv, [SteeringNext]_steeringVars
             PROVE  RaceInv'
  OBVIOUS
<1>1. quality \in [Endpoints -> Quality]
  BY DEF RaceInv
<1>2. CASE UNCHANGED <<quality, probes>>
  BY <1>2 DEF RaceInv
<1>3. CASE Changing
  <2>1. Change
    BY <1>3 DEF Changing
  <2>2. quality' \in [Endpoints -> Quality] /\ probes' = NoProbes
    BY <1>1, <2>1 DEF Change
  <2> QED
    BY <2>2, NoProbesFit
<1>4. CASE Probing
  BY <1>4, RoundFits DEF Probing
<1>5. CASE Picked \/ Reconsidered
  BY <1>1, <1>5, NoProbesFit DEF Picked, Reconsidered, TakeWinner, Reevaluate
<1>6. CASE OpenFails \/ Drops
  <2>1. quality' = quality /\ (probes' = NoProbes \/ probes' = probes)
    BY <1>6 DEF OpenFails, Drops, Fails
  <2> QED
    BY <1>1, <1>2, <2>1, NoProbesFit
<1>7. CASE Begin \/ Opens \/ Closes \/ WindowEnds
  BY <1>2, <1>7 DEF Begin, Opens, Closes, WindowEnds, vars
<1>8. CASE UNCHANGED steeringVars
  BY <1>2, <1>8 DEF steeringVars, vars
<1> QED
  BY <1>3, <1>4, <1>5, <1>6, <1>7, <1>8 DEF SteeringNext

\* The loop runs to an endpoint, and only once one was picked.
LoopInv ==
    /\ changes \in 0 .. MaxChanges
    /\ current \in Endpoints \cup {NoEndpoint}
    /\ left \subseteq Endpoints
    /\ link \in {"picking", "waiting", "opening", "up", "rest"}
    /\ target \in Endpoints \cup {NoEndpoint} /\ pending \in Endpoints \cup {NoEndpoint}
    /\ failures \in 0 .. FailureLimit - 1 /\ kept \subseteq Endpoints
    /\ link \in {"opening", "up"} => target # NoEndpoint
    /\ link \in {"waiting", "opening", "up"} => current # NoEndpoint

LEMMA FailsKeepsLoop == LoopInv /\ link \in {"opening", "up"} /\ Fails => LoopInv'
<1> SUFFICES ASSUME LoopInv, link \in {"opening", "up"}, Fails PROVE LoopInv'
  OBVIOUS
<1>1. FailureLimit \in Nat \ {0}
  BY FailureLimitAssumption
<1>2. failures' \in 0 .. FailureLimit - 1
  BY <1>1 DEF LoopInv, Fails
<1> QED
  BY <1>2 DEF LoopInv, Fails

LEMMA StepKeepsLoop == RaceInv /\ LoopInv /\ [SteeringNext]_steeringVars => LoopInv'
<1> SUFFICES ASSUME RaceInv, LoopInv, [SteeringNext]_steeringVars
             PROVE  LoopInv'
  OBVIOUS
<1>1. Winner \in Endpoints /\ Winner # NoEndpoint
  BY WinnerListed, NoEndpointAssumption
<1>2. CASE Changing
  <2>1. changes' \in 0 .. MaxChanges
    BY <1>2, RaceAssumption DEF Changing, Change, LoopInv
  <2> QED
    BY <1>2, <2>1 DEF Changing, Change, LoopInv
<1>3. CASE Probing
  BY <1>3 DEF Probing, Round, steering, LoopInv
<1>4. CASE Picked
  BY <1>1, <1>4 DEF Picked, TakeWinner, LoopInv
<1>5. CASE Reconsidered
  <2>1. /\ current \in Endpoints
        /\ current' \in {current, Winner} /\ left' \in {left, left \cup {current}}
        /\ UNCHANGED <<changes, link, target, failures, kept>>
        /\ pending' \in {pending, NoEndpoint, current'}
    BY <1>5 DEF Reconsidered, Reevaluate, LoopInv
  <2> QED
    BY <1>1, <2>1 DEF LoopInv
<1>6. CASE Begin
  BY <1>6 DEF Begin, vars, LoopInv
<1>7. CASE Opens
  BY <1>7 DEF Opens, LoopInv
<1>8. CASE OpenFails \/ Drops
  BY <1>8, FailsKeepsLoop DEF OpenFails, Drops
<1>9. CASE Closes
  BY <1>9, FailureLimitAssumption DEF Closes, vars, LoopInv
<1>10. CASE WindowEnds
  BY <1>10 DEF WindowEnds, vars, LoopInv
<1>11. CASE UNCHANGED steeringVars
  BY <1>11 DEF steeringVars, steering, vars, LoopInv
<1> QED
  BY <1>2, <1>3, <1>4, <1>5, <1>6, <1>7, <1>8, <1>9, <1>10, <1>11 DEF SteeringNext

\* What was left since the last change of an endpoint is slower than what is chosen;
\* an attempt under way may bring its endpoint back, and that one is faster than what
\* had been left when it began.
OnlyFaster ==
    SmallJitter =>
        /\ \A e \in left : TimeOf(quality[current]) < TimeOf(quality[e])
        /\ link = "opening" => \A e \in kept : TimeOf(quality[target]) < TimeOf(quality[e])

LEMMA TimesAreNumbers == RaceInv => \A e \in Endpoints : TimeOf(quality[e]) \in Nat
<1>1. \A q \in Quality : q.handshake \in Nat /\ q.base \in Nat
  <2>1. Handshakes \subseteq Nat /\ Bases \subseteq Nat /\ Missing \in Nat
    BY RaceAssumption DEF Missing
  <2> QED
    BY <2>1 DEF Quality
<1> QED
  BY <1>1 DEF RaceInv, TimeOf

LEMMA StepLeadsFaster ==
    RaceInv /\ LoopInv /\ OnlyFaster /\ [SteeringNext]_steeringVars => OnlyFaster'
<1> SUFFICES ASSUME RaceInv, LoopInv, OnlyFaster, SmallJitter, [SteeringNext]_steeringVars
             PROVE  /\ \A e \in left' : TimeOf(quality'[current']) < TimeOf(quality'[e])
                    /\ link' = "opening" =>
                         \A e \in kept' : TimeOf(quality'[target']) < TimeOf(quality'[e])
  BY DEF OnlyFaster, SmallJitter
<1>1. /\ \A e \in left : TimeOf(quality[current]) < TimeOf(quality[e])
      /\ link = "opening" => \A e \in kept : TimeOf(quality[target]) < TimeOf(quality[e])
  BY DEF OnlyFaster
<1>2. CASE Changing
  BY <1>2 DEF Changing, Change
<1>3. CASE Probing
  BY <1>1, <1>3 DEF Probing, Round, steering
<1>4. CASE Picked
  BY <1>1, <1>4 DEF Picked, TakeWinner
<1>5. CASE Reconsidered
  <2>1. /\ current \in Endpoints /\ left \subseteq Endpoints
        /\ UNCHANGED <<quality, link, target, kept>>
    BY <1>5 DEF Reconsidered, Reevaluate, LoopInv
  <2>2. CASE UNCHANGED <<current, left>>
    BY <1>1, <2>1, <2>2
  <2>3. CASE current' = Winner /\ left' = left \cup {current} /\ ClearImprovement(current, Winner)
    <3>1. TimeOf(quality[Winner]) < TimeOf(quality[current])
      BY <2>1, <2>3, WinnerListed, ClearIsTrue
    <3>2. ASSUME NEW e \in left' PROVE TimeOf(quality[Winner]) < TimeOf(quality[e])
      <4>1. CASE e = current
        BY <3>1, <4>1
      <4>2. CASE e \in left
        <5>1. /\ TimeOf(quality[Winner]) \in Nat /\ TimeOf(quality[current]) \in Nat
              /\ TimeOf(quality[e]) \in Nat
          BY <2>1, <4>2, TimesAreNumbers, WinnerListed
        <5> QED
          BY <1>1, <3>1, <4>2, <5>1
      <4> QED
        BY <2>3, <4>1, <4>2
    <3> QED
      BY <1>1, <2>1, <2>3, <3>2
  <2> QED
    BY <1>5, <2>2, <2>3 DEF Reconsidered, Reevaluate
<1>6. CASE Begin
  BY <1>1, <1>6 DEF Begin, vars
<1>7. CASE Opens
  BY <1>1, <1>7 DEF Opens
<1>8. CASE OpenFails \/ Drops
  BY <1>1, <1>8 DEF OpenFails, Drops, Fails
<1>9. CASE Closes
  BY <1>1, <1>9 DEF Closes, vars
<1>10. CASE WindowEnds
  BY <1>1, <1>10 DEF WindowEnds, vars
<1>11. CASE UNCHANGED steeringVars
  BY <1>1, <1>11 DEF steeringVars, steering, vars
<1> QED
  BY <1>2, <1>3, <1>4, <1>5, <1>6, <1>7, <1>8, <1>9, <1>10, <1>11 DEF SteeringNext

SteeringInv == RaceInv /\ LoopInv /\ OnlyFaster

LEMMA InitSteeringInv == SteeringInit => SteeringInv
<1> SUFFICES ASSUME SteeringInit PROVE SteeringInv
  OBVIOUS
<1>1. RaceInv
  <2>1. /\ quality \in [Endpoints -> Quality] /\ probes \in [Endpoints -> Seq(Result)]
        /\ \A e \in Endpoints : probes[e] = <<>>
    BY DEF SteeringInit, Init, NoProbes
  <2>2. Default \in Endpoints /\ Len(probes[Default]) = 0 /\ Rounds \in Nat
    BY <2>1, EndpointsListed, RaceAssumption
  <2> QED
    BY <2>1, <2>2 DEF RaceInv
<1>2. LoopInv
  <2>1. 0 \in 0 .. MaxChanges /\ 0 \in 0 .. FailureLimit - 1
    BY RaceAssumption, FailureLimitAssumption
  <2> QED
    BY <2>1 DEF SteeringInit, Init, LoopInv
<1>3. OnlyFaster
  BY DEF SteeringInit, Init, OnlyFaster
<1> QED
  BY <1>1, <1>2, <1>3 DEF SteeringInv

\* Every race, round and attempt keeps the inductive invariant.
THEOREM SteeringInvHolds == SteeringSpec => []SteeringInv
<1>1. SteeringInv /\ [SteeringNext]_steeringVars => SteeringInv'
  BY StepKeepsRace, StepKeepsLoop, StepLeadsFaster DEF SteeringInv
<1> QED
  BY <1>1, InitSteeringInv, PTL DEF SteeringSpec

\* The races and the loop only ever hold what they should.
THEOREM SteeringTypeCorrect == SteeringSpec => []SteeringTypeOK
<1>1. SteeringInv => SteeringTypeOK
  <2> SUFFICES ASSUME RaceInv, LoopInv PROVE SteeringTypeOK
    BY DEF SteeringInv
  <2>1. ASSUME NEW e \in Endpoints
        PROVE  /\ Len(probes[e]) \in 0 .. Rounds
               /\ \A i \in DOMAIN probes[e] : probes[e][i] \in Result
    <3>1. probes[e] \in Seq(Result) /\ Len(probes[e]) \in 0 .. Rounds
      BY DEF RaceInv
    <3> QED
      BY <3>1
  <2> QED
    BY <2>1 DEF RaceInv, LoopInv, TypeOK, SteeringTypeOK
<1> QED
  BY <1>1, SteeringInvHolds, PTL

\* With a jitter within the improvement asked for, no endpoint that was left is chosen
\* again while the endpoints are what they were, whatever the attempts in between
\* come to: the connection is not moved back and forth.
THEOREM NeverBackAndForth == SteeringSpec => []NoFlapping
<1>1. SteeringInv => NoFlapping
  <2> SUFFICES ASSUME RaceInv, LoopInv, OnlyFaster, SmallJitter, current \in left
               PROVE  FALSE
    BY DEF SteeringInv, NoFlapping
  <2>1. TimeOf(quality[current]) < TimeOf(quality[current])
    BY DEF OnlyFaster
  <2>2. TimeOf(quality[current]) \in Nat
    BY TimesAreNumbers DEF LoopInv
  <2> QED
    BY <2>1, <2>2
<1> QED
  BY <1>1, SteeringInvHolds, PTL
=============================================================================
