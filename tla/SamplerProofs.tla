--------------------------- MODULE SamplerProofs ----------------------------
(***************************************************************************)
(* The sampled recording is a recording, so what RecordingProofs shows of  *)
(* the policy holds under the sampler; and the sampler meets each instant  *)
(* of the grid at most once and passes over none it could still meet, for  *)
(* every interval and however late it is.  The target stays on the grid,   *)
(* and the rows keep coming: the tracker is younger than a heartbeat when  *)
(* the loop has sampled, and the loop samples again in time.               *)
(***************************************************************************)
EXTENDS Sampler, RecordingProofs

\* Every step of the sampler is one of the policy, or none.
LEMMA GridStep == [GridNext]_gridVars => [Next]_vars
  BY DEF GridNext, Next, Fire, GridUpdate, Pass, gridVars

\* The sampled recording implements the recording policy.
THEOREM GridImplementsPolicy == GridSpec => Spec
<1>1. GridInit => Init
  BY DEF GridInit
<1> QED
  BY <1>1, GridStep, PTL DEF GridSpec, Spec

\* Forward filling is sound under the sampler, late as it may be.
THEOREM ForwardFillingUnderSampler == GridSpec => []ForwardFills
  BY GridImplementsPolicy, ForwardFillingIsSound, PTL

-----------------------------------------------------------------------------
ClockOK ==
    /\ due \in Int /\ phase \in 0 .. Interval - 1 /\ sinceFire \in Int

\* The next target lies ahead, by an interval at most.
LEMMA NextDueAhead ==
    ASSUME due \in Int, due <= 0
    PROVE  NextDue \in 1 .. Interval
<1> DEFINE late == (-due) % Interval
<1>1. Interval \in Nat /\ Interval > 0
  BY SamplerAssumption
<1>2. late \in 0 .. Interval - 1
  BY <1>1
<1> HIDE DEF late
<1>3. NextDue = IF due + Interval < Interval - late THEN Interval - late ELSE due + Interval
  BY DEF NextDue, late
<1> QED
  BY <1>1, <1>2, <1>3

\* The clock keeps its type.
LEMMA ClockKept == ClockOK /\ [GridNext]_gridVars => ClockOK'
<1> SUFFICES ASSUME ClockOK, [GridNext]_gridVars PROVE ClockOK'
  OBVIOUS
<1>i. Interval \in Nat /\ Interval > 0
  BY SamplerAssumption
<1>1. CASE Fire
  BY <1>1, <1>i, NextDueAhead DEF Fire, ClockOK
<1>2. CASE Pass
  <2>1. (phase + 1) % Interval \in 0 .. Interval - 1
    BY <1>i DEF ClockOK
  <2> QED
    BY <2>1, <1>2 DEF Pass, ClockOK
<1>3. CASE UNCHANGED clock
  BY <1>3 DEF clock, ClockOK
<1> QED
  BY <1>1, <1>2, <1>3 DEF GridNext, GridUpdate, gridVars

\* Each instant is sampled at most once, and in order; the next one is the first
\* after the last sample.
THEOREM InstantsFollow == GridSpec => []NextInstant
<1> DEFINE I == ClockOK /\ NextInstant
<1>i. Interval \in Nat /\ Interval > 0
  BY SamplerAssumption
<1>1. GridInit => I
  BY <1>i DEF GridInit, ClockOK, NextInstant
<1>2. I /\ [GridNext]_gridVars => I'
  <2> SUFFICES ASSUME I, [GridNext]_gridVars PROVE I'
    OBVIOUS
  <2>1. ClockOK'
    BY ClockKept, Zenon
  <2>2. CASE Fire
    BY <1>i, <2>1, <2>2, NextDueAhead DEF Fire, ClockOK, NextInstant
  <2>3. CASE Pass
    BY <1>i, <2>1, <2>3 DEF Pass, ClockOK, NextInstant
  <2>4. CASE UNCHANGED clock
    BY <2>1, <2>4 DEF clock, NextInstant
  <2> QED
    BY <2>2, <2>3, <2>4 DEF GridNext, GridUpdate, gridVars
<1> QED
  BY <1>1, <1>2, PTL DEF GridSpec

-----------------------------------------------------------------------------
(* The grid *)

Multiple(x) == \E k \in Int : x = Interval * k

\* A number is a multiple of the interval if it leaves no rest.
LEMMA MultipleLeavesNoRest ==
    ASSUME NEW x \in Int
    PROVE  Multiple(x) <=> x % Interval = 0
<1>1. Interval \in Nat \ {0}
  BY SamplerAssumption
<1> DEFINE q == x \div Interval
           r == x % Interval
<1>2. q \in Int /\ r \in 0 .. Interval - 1
  BY <1>1
<1>3. x = Interval * q + r
  BY <1>1
<1> HIDE DEF q, r
<1>4. ASSUME r = 0 PROVE Multiple(x)
  <2>1. x = Interval * q
    BY <1>1, <1>2, <1>3, <1>4
  <2> QED
    BY <1>2, <2>1 DEF Multiple
<1>5. ASSUME NEW k \in Int, x = Interval * k PROVE r = 0
  <2>1. Interval * (k - q) = r
    BY <1>1, <1>2, <1>3, <1>5
  <2>2. k - q > 0 => Interval * (k - q) >= Interval
    BY <1>1, <1>2
  <2>3. k - q < 0 => Interval * (k - q) <= 0 - Interval
    BY <1>1, <1>2
  <2> QED
    BY <1>1, <1>2, <2>1, <2>2, <2>3
<1> QED
  BY <1>4, <1>5 DEF Multiple, r

\* The next target is a whole number of intervals after the last one.
LEMMA NextDueOnGrid ==
    ASSUME due \in Int
    PROVE  NextDue \in Int /\ Multiple(NextDue - due)
<1>1. Interval \in Nat \ {0}
  BY SamplerAssumption
<1> DEFINE q == (-due) \div Interval
           r == (-due) % Interval
<1>2. q \in Int /\ r \in 0 .. Interval - 1
  BY <1>1
<1>3. -due = Interval * q + r
  BY <1>1
<1>4. NextDue = IF due + Interval < Interval - r THEN Interval - r ELSE due + Interval
  BY DEF NextDue
<1> HIDE DEF q, r
<1>5. (Interval - r) - due = Interval * (q + 1)
  BY <1>1, <1>2, <1>3
<1>6. (due + Interval) - due = Interval * 1
  BY <1>1
<1> QED
  BY <1>1, <1>2, <1>4, <1>5, <1>6 DEF Multiple

\* A multiple and another one make a multiple.
LEMMA MultiplesAdd ==
    ASSUME NEW x \in Int, NEW y \in Int, Multiple(x), Multiple(y)
    PROVE  Multiple(x + y)
<1>1. PICK k \in Int : x = Interval * k
  BY DEF Multiple
<1>2. PICK l \in Int : y = Interval * l
  BY DEF Multiple
<1>3. x + y = Interval * (k + l) /\ k + l \in Int
  BY <1>1, <1>2, SamplerAssumption
<1> QED
  BY <1>3 DEF Multiple

\* However late the loop was, the target is an absolute multiple of the interval.
THEOREM TargetsOnGrid == GridSpec => []OnGrid
<1> DEFINE I == ClockOK /\ Multiple(phase + due)
<1>i. Interval \in Nat \ {0}
  BY SamplerAssumption
<1>1. GridInit => I
  <2> SUFFICES ASSUME GridInit PROVE I
    OBVIOUS
  <2>1. due \in Int /\ phase \in 0 .. Interval - 1 /\ phase + due = Interval * 1
    BY <1>i DEF GridInit
  <2> QED
    BY <2>1 DEF GridInit, ClockOK, Multiple
<1>2. I /\ [GridNext]_gridVars => I'
  <2> SUFFICES ASSUME I, [GridNext]_gridVars PROVE I'
    OBVIOUS
  <2>1. due \in Int /\ phase \in 0 .. Interval - 1 /\ phase \in Int /\ sinceFire \in Int
    BY <1>i DEF ClockOK
  <2>2. CASE Fire
    <3>1. due' = NextDue /\ phase' = phase /\ sinceFire' = 0
      BY <2>2 DEF Fire
    <3>2. due' \in Int /\ Multiple(due' - due)
      BY <2>1, <3>1, NextDueOnGrid
    <3>3. Multiple((phase + due) + (due' - due))
      BY <2>1, <3>2, MultiplesAdd
    <3>4. phase' + due' = (phase + due) + (due' - due)
      BY <2>1, <3>1, <3>2
    <3> QED
      BY <2>1, <3>1, <3>2, <3>3, <3>4 DEF ClockOK, Multiple
  <2>3. CASE Pass
    <3>1. due' = due - 1 /\ phase' = (phase + 1) % Interval /\ sinceFire' = sinceFire + 1
      BY <2>3 DEF Pass
    <3>2. phase' \in 0 .. Interval - 1
      BY <1>i, <2>1, <3>1
    <3>3. \E k \in {0, -1} : phase' + due' = (phase + due) + Interval * k
      <4>1. CASE phase + 1 = Interval
        <5>1. (phase + 1) % Interval = 0
          BY <1>i, <4>1
        <5> QED
          BY <1>i, <2>1, <3>1, <4>1, <5>1
      <4>2. CASE phase + 1 # Interval
        <5>1. (phase + 1) % Interval = phase + 1
          BY <1>i, <2>1, <4>2
        <5> QED
          BY <1>i, <2>1, <3>1, <5>1
      <4> QED
        BY <4>1, <4>2
    <3>4. PICK k \in {0, -1} : phase' + due' = (phase + due) + Interval * k
      BY <3>3
    <3>5. Multiple(Interval * k) /\ Interval * k \in Int
      BY <1>i DEF Multiple
    <3>6. Multiple((phase + due) + Interval * k)
      BY <2>1, <3>5, MultiplesAdd
    <3> QED
      BY <2>1, <3>1, <3>2, <3>4, <3>6 DEF ClockOK, Multiple
  <2>4. CASE UNCHANGED clock
    BY <2>4 DEF clock, ClockOK, Multiple
  <2> QED
    BY <2>2, <2>3, <2>4 DEF GridNext, GridUpdate, gridVars
<1>3. I => OnGrid
  <2> SUFFICES ASSUME I PROVE OnGrid
    OBVIOUS
  <2>1. phase + due \in Int
    BY <1>i DEF ClockOK
  <2> QED
    BY <2>1, MultipleLeavesNoRest DEF OnGrid
<1> QED
  BY <1>1, <1>2, <1>3, PTL DEF GridSpec

-----------------------------------------------------------------------------
(* Rows keep coming *)

\* The tracker of the grid is younger than a heartbeat whenever the loop has sampled
\* a book, and ages with the clock until it samples again.
Paced ==
    /\ due >= -MaxLate
    /\ book = NoBook => stored["grid"] = NoRow
    /\ RecordStale /\ Heartbeat > 0 /\ stored["grid"] # NoRow
         => lastAge["grid"] < Heartbeat + sinceFire

PacedInv == Inv /\ ClockOK /\ NextInstant /\ Paced

LEMMA PacedStarts == GridInit => Paced
  BY SamplerAssumption DEF GridInit, Init, Paced

\* The sampler: it leaves the tracker younger than a heartbeat.
LEMMA FirePaced == ASSUME PacedInv, Inv', Fire PROVE Paced'
<1>1. "grid" \in Modes /\ Interval \in Nat \ {0} /\ MaxLate \in Nat /\ Heartbeat \in Nat
  BY SamplerAssumption, ConstantsAssumption
<1>2. due' \in 1 .. Interval /\ sinceFire' = 0 /\ Sample /\ book' = book /\ bookAge' = bookAge
  BY NextDueAhead DEF Fire, PacedInv, ClockOK, Sample
<1>3. due' >= -MaxLate
  BY <1>1, <1>2
<1>4. CASE book = NoBook
  <2>1. stored' = stored
    BY <1>2, <1>4 DEF Sample, Skip
  <2> QED
    BY <1>2, <1>3, <1>4, <2>1 DEF Paced, PacedInv
<1>5. CASE book # NoBook
  <2>1. looked'["grid"]
    BY <1>1, <1>2, <1>5 DEF Sample, PacedInv, Inv, TypeOK
  <2>2. ASSUME RecordStale, Heartbeat > 0 PROVE lastAge'["grid"] < Heartbeat
    <3>1. ~Suppressed(bookAge')
      BY <2>2 DEF Suppressed
    <3>2. Looked("grid")'
      BY <1>1 DEF Inv
    <3> QED
      BY <2>1, <2>2, <3>1, <3>2 DEF Looked
  <2> QED
    BY <1>1, <1>2, <1>3, <1>5, <2>2 DEF Paced
<1> QED
  BY <1>4, <1>5

\* A row of the stream leaves the grid's table and tracker alone.
LEMMA UpdatePaced ==
    ASSUME PacedInv, NEW levels \in Levels, GridUpdate(levels)
    PROVE  Paced'
<1>1. "grid" \in Modes /\ TypeOK
  BY SamplerAssumption DEF PacedInv, Inv
<1>2. stored'["grid"] = stored["grid"] /\ lastAge'["grid"] = lastAge["grid"]
  <2>1. CASE Skip
    BY <2>1 DEF Skip
  <2>2. ASSUME NEW row, Take("stream", row)
        PROVE  stored'["grid"] = stored["grid"] /\ lastAge'["grid"] = lastAge["grid"]
    BY <1>1, <2>2 DEF Take, TypeOK
  <2>3. Skip \/ \E row : Take("stream", row)
    BY DEF GridUpdate, Update, Judge
  <2> QED
    BY <2>1, <2>2, <2>3
<1>3. book' # NoBook /\ due' = due /\ sinceFire' = sinceFire
  BY NoBookAssumption DEF GridUpdate, Update, clock
<1> QED
  BY <1>2, <1>3 DEF Paced, PacedInv

\* Time passes for the tracker and for the loop.
LEMMA PassPaced == ASSUME PacedInv, Pass PROVE Paced'
<1>1. /\ "grid" \in Modes /\ Heartbeat \in Nat /\ MaxLate \in Nat /\ RowCap \in Nat
      /\ lastAge["grid"] \in 0 .. RowCap
  BY SamplerAssumption, ConstantsAssumption DEF PacedInv, Inv, TypeOK, RowCap
<1>2. /\ lastAge'["grid"] = AtMost(lastAge["grid"] + 1, RowCap)
      /\ UNCHANGED <<book, stored>>
      /\ due' = due - 1 /\ due > -MaxLate /\ sinceFire' = sinceFire + 1
      /\ due \in Int /\ sinceFire \in Int
  BY <1>1 DEF Pass, Tick, PacedInv, ClockOK
<1>3. lastAge'["grid"] <= lastAge["grid"] + 1 /\ lastAge'["grid"] \in Nat
  BY <1>1, <1>2 DEF AtMost
<1> QED
  BY <1>1, <1>2, <1>3 DEF Paced, PacedInv

\* While the book may be recorded, the rows on the grid are less than a heartbeat, an
\* interval and the lateness of the loop apart.
THEOREM GridRowsKeepComing == GridSpec => []RowsKeepComing
<1>1. Inv /\ ClockOK /\ NextInstant /\ Paced /\ Inv' /\ [GridNext]_gridVars => Paced'
  <2> SUFFICES ASSUME PacedInv, Inv', [GridNext]_gridVars PROVE Paced'
    BY DEF PacedInv
  <2>1. CASE UNCHANGED gridVars
    BY <2>1 DEF gridVars, vars, clock, Paced, PacedInv
  <2> QED
    BY <2>1, FirePaced, UpdatePaced, PassPaced DEF GridNext
<1>2. Inv /\ ClockOK /\ NextInstant /\ Paced => RowsKeepComing
  <2> DEFINE reach == Heartbeat + Interval + MaxLate
  <2> SUFFICES ASSUME PacedInv, stored["grid"] # NoRow, RecordStale, Heartbeat > 0,
                      ~(sinceLoss \in 0 .. reach - 1)
               PROVE  storedAge["grid"] < reach
    BY DEF PacedInv, RowsKeepComing
  <2>1. /\ "grid" \in Modes /\ Heartbeat \in Nat /\ MaxLate \in Nat /\ Interval \in Nat
        /\ lastAge["grid"] \in Int /\ sinceLoss \in {Never} \cup Nat
        /\ due \in Int /\ sinceFire \in Int /\ due + sinceFire <= Interval /\ due >= -MaxLate
        /\ Tracked("grid")
    BY SamplerAssumption, ConstantsAssumption
       DEF PacedInv, Inv, TypeOK, RowCap, ClockOK, NextInstant, Paced
  <2>2. lastAge["grid"] < Heartbeat + sinceFire
    BY DEF PacedInv, Paced
  <2>3. lastAge["grid"] < reach
    BY <2>1, <2>2
  <2>4. CASE storedAge["grid"] = lastAge["grid"]
    BY <2>3, <2>4
  <2>5. CASE sinceLoss # Never /\ sinceLoss <= lastAge["grid"]
    BY <2>1, <2>3, <2>5
  <2> QED
    BY <2>1, <2>4, <2>5 DEF Tracked
<1>3. GridSpec => []Inv
  BY GridImplementsPolicy, InvHolds, PTL
<1>4. ClockOK /\ [GridNext]_gridVars => ClockOK'
  BY ClockKept
<1>5. GridInit => ClockOK
  BY SamplerAssumption DEF GridInit, ClockOK
<1> QED
  BY <1>1, <1>2, <1>3, <1>4, <1>5, PacedStarts, InstantsFollow, PTL DEF GridSpec
=============================================================================
