------------------------------ MODULE Sampler -------------------------------
(***************************************************************************)
(* The sampler (sampler.py) over the recording policy: a loop that reads   *)
(* the book on every instant of an absolute time grid.  The event loop may *)
(* be blocked, so a tick can come late, by more than an interval too.      *)
(*                                                                         *)
(* Times are relative to the present: the loop's target is `due' units     *)
(* ahead, or behind when it is late.  An interval is Interval units.       *)
(***************************************************************************)
EXTENDS Recording

CONSTANTS
    Interval,   \* sampling interval in units of time
    MaxLate     \* bound: how late the loop can be

ASSUME SamplerAssumption ==
    /\ Interval \in Nat \ {0}
    /\ MaxLate \in Nat
    /\ "grid" \in Modes

VARIABLES
    due,        \* target_mono - time.monotonic()
    phase,      \* ghost: the wall clock modulo the interval
    sinceFire   \* ghost: time since the loop sampled last, or began

clock == <<due, phase, sinceFire>>
gridVars == <<vars, clock>>

\* run(): the first tick lands on the next absolute multiple of the interval.
GridInit ==
    /\ Init
    /\ phase \in 0 .. Interval - 1
    /\ due = Interval - phase
    /\ sinceFire = 0

\* Mutant: every missed tick is made up for.
NextDueBurst == due + Interval

\* Mutant: the next tick is an interval after this one ran.
NextDueDrifting == Interval

\* Mutant: skipping ahead leaves one tick out.
NextDueTooFar == due + 2 * Interval

\* k += 1, or the next upcoming tick when that one has passed.
NextDue ==
    LET upcoming == Interval - ((-due) % Interval)
    IN IF due + Interval < upcoming THEN upcoming ELSE due + Interval

\* One turn of the loop: _sample_once, then the next target.
Fire ==
    /\ due <= 0
    /\ Sample
    /\ due' = NextDue
    /\ sinceFire' = 0
    /\ UNCHANGED phase

GridUpdate(levels) == Update(levels) /\ UNCHANGED clock

Pass ==
    /\ due > -MaxLate
    /\ Tick
    /\ due' = due - 1
    /\ phase' = (phase + 1) % Interval
    /\ sinceFire' = sinceFire + 1

GridNext ==
    \/ Fire
    \/ \E levels \in Levels : GridUpdate(levels)
    \/ Pass

GridSpec == GridInit /\ [][GridNext]_gridVars

-----------------------------------------------------------------------------
\* However late the loop was, the target is an absolute multiple of the interval:
\* the instants of two exchanges, and of two runs, line up.
OnGrid == (phase + due) % Interval = 0

\* The target is the first instant after the last sample: none is sampled twice or
\* made up for in a burst, and none is left out that could still be met.
NextInstant == due + sinceFire \in 1 .. Interval

\* The distance a reader fills forward over on the grid: while the book may be
\* recorded, rows are less than a heartbeat, an interval and the lateness of the
\* loop apart.  (The heartbeat is measured on the time of the sample, not on the
\* grid, so a late row delays the next one by up to an interval.)
RowsKeepComing ==
    LET reach == Heartbeat + Interval + MaxLate
    IN stored["grid"] # NoRow /\ RecordStale /\ Heartbeat > 0
          /\ ~(sinceLoss \in 0 .. reach - 1)
       => storedAge["grid"] < reach
=============================================================================
