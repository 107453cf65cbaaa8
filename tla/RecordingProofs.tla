-------------------------- MODULE RecordingProofs ---------------------------
(***************************************************************************)
(* Skipping unchanged rows is sound, for every set of books and flags,     *)
(* every heartbeat, stale age and mode.                                    *)
(*                                                                         *)
(* ForwardFills is not inductive: it says nothing about the tracker.  Two  *)
(* facts about it carry the proof.  Looked: where the policy has judged    *)
(* the present state, the tracker holds it and is younger than a           *)
(* heartbeat.  Tracked: the table holds what the tracker holds, unless a   *)
(* row was lost since the tracker was set.                                 *)
(***************************************************************************)
EXTENDS Recording, TLAPS

Looked(m) ==
    looked[m] /\ ~Suppressed(bookAge) =>
        /\ last[m] = Present
        /\ Heartbeat > 0 => lastAge[m] < Heartbeat

Tracked(m) ==
    \/ stored[m] = last[m] /\ storedAge[m] = lastAge[m]
    \/ sinceLoss # Never /\ sinceLoss <= lastAge[m]

Inv ==
    /\ TypeOK
    /\ \A m \in Modes : Looked(m) /\ Tracked(m)

-----------------------------------------------------------------------------
\* The flags of a state are flags.
LEMMA FlagsAreFlags ==
    ASSUME NEW levels, NEW elapsed
    PROVE  FlagsFor(levels, elapsed) \in SUBSET Flag
  BY DEF FlagsFor, Flag

\* Judging an occurring state keeps the types, keeps Tracked for every table, and
\* leaves the tracker of its own table with the state just judged; it touches no
\* other table.
LEMMA JudgeKeeps ==
    ASSUME Inv, NEW m \in Modes, NEW levels \in Levels, NEW elapsed \in Nat,
           Judge(m, levels, elapsed)
    PROVE  /\ last' \in [Modes -> Row \cup {NoRow}]
           /\ lastAge' \in [Modes -> 0 .. RowCap]
           /\ stored' \in [Modes -> Row \cup {NoRow}]
           /\ storedAge' \in [Modes -> 0 .. RowCap]
           /\ sinceLoss' \in {Never} \cup (0 .. RowCap)
           /\ \A n \in Modes : Tracked(n)'
           /\ \A n \in Modes \ {m} : last'[n] = last[n] /\ lastAge'[n] = lastAge[n]
           /\ ~Suppressed(elapsed) =>
                 /\ last'[m] = [levels |-> levels, flags |-> FlagsFor(levels, elapsed)]
                 /\ Heartbeat > 0 => lastAge'[m] < Heartbeat
<1> DEFINE row == [levels |-> levels, flags |-> FlagsFor(levels, elapsed)]
<1>r. row \in Row
  BY FlagsAreFlags DEF Row
<1>c. Heartbeat \in Nat /\ RowCap \in Nat /\ 0 \in 0 .. RowCap
  BY ConstantsAssumption DEF RowCap
<1>t. TypeOK /\ \A n \in Modes : Tracked(n)
  BY DEF Inv
<1> HIDE DEF row
<1>1. CASE Suppressed(elapsed) \/ IsUnchanged(m, row)
  <2>1. Skip
    BY <1>1 DEF Judge, row
  <2>2. ~Suppressed(elapsed) => last[m] = row /\ (Heartbeat > 0 => lastAge[m] < Heartbeat)
    BY <1>1, <1>t, <1>c DEF IsUnchanged, TypeOK
  <2> QED
    BY <2>1, <2>2, <1>t DEF Skip, TypeOK, Tracked, row
<1>2. CASE ~(Suppressed(elapsed) \/ IsUnchanged(m, row))
  <2>1. Take(m, row)
    BY <1>2 DEF Judge, row
  <2>2. /\ last' = [last EXCEPT ![m] = row]
        /\ lastAge' = [lastAge EXCEPT ![m] = 0]
    BY <2>1 DEF Take
  <2>3. /\ last' \in [Modes -> Row \cup {NoRow}]
        /\ lastAge' \in [Modes -> 0 .. RowCap]
        /\ last'[m] = row /\ lastAge'[m] = 0
        /\ \A n \in Modes \ {m} : last'[n] = last[n] /\ lastAge'[n] = lastAge[n]
    BY <2>2, <1>r, <1>c, <1>t DEF TypeOK
  <2>4. CASE /\ stored' = [stored EXCEPT ![m] = row]
             /\ storedAge' = [storedAge EXCEPT ![m] = 0]
             /\ UNCHANGED sinceLoss
    <3>1. /\ stored' \in [Modes -> Row \cup {NoRow}]
          /\ storedAge' \in [Modes -> 0 .. RowCap]
          /\ stored'[m] = row /\ storedAge'[m] = 0
          /\ \A n \in Modes \ {m} : stored'[n] = stored[n] /\ storedAge'[n] = storedAge[n]
      BY <2>4, <1>r, <1>c, <1>t DEF TypeOK
    <3>2. \A n \in Modes : Tracked(n)'
      BY <3>1, <2>3, <2>4, <1>t DEF Tracked
    <3> QED
      BY <3>1, <3>2, <2>3, <2>4, <1>c, <1>t DEF TypeOK, row
  <2>5. CASE sinceLoss' = 0 /\ UNCHANGED <<stored, storedAge>>
    <3>1. \A n \in Modes : lastAge'[n] \in 0 .. RowCap
      BY <2>3
    <3>2. \A n \in Modes : Tracked(n)'
      BY <3>1, <2>5, <1>c DEF Tracked, Never
    <3> QED
      BY <3>2, <2>3, <2>5, <1>c, <1>t DEF TypeOK, row
  <2> QED
    BY <2>1, <2>4, <2>5 DEF Take
<1> QED
  BY <1>1, <1>2

-----------------------------------------------------------------------------
LEMMA InitInv == Init => Inv
<1> SUFFICES ASSUME Init PROVE Inv
  OBVIOUS
<1>1. RowCap \in Nat /\ BookCap \in Nat
  BY ConstantsAssumption DEF RowCap, BookCap
<1>2. TypeOK
  BY <1>1 DEF Init, TypeOK
<1>3. ASSUME NEW m \in Modes PROVE Looked(m) /\ Tracked(m)
  BY <1>3 DEF Init, Looked, Tracked
<1> QED
  BY <1>2, <1>3 DEF Inv

\* The sampler looks.
LEMMA SampleInv == Inv /\ Sample => Inv'
<1> SUFFICES ASSUME Inv, Sample PROVE Inv'
  OBVIOUS
<1>t. TypeOK /\ \A n \in Modes : Looked(n) /\ Tracked(n)
  BY DEF Inv
<1>1. CASE book = NoBook
  BY <1>1, <1>t DEF Sample, Skip, Inv, TypeOK, Looked, Tracked, Present, Suppressed, FlagsFor
<1>2. CASE book # NoBook
  <2>1. /\ "grid" \in Modes /\ book \in Levels /\ bookAge \in Nat
        /\ Judge("grid", book, bookAge)
        /\ looked' = [looked EXCEPT !["grid"] = TRUE]
        /\ UNCHANGED <<book, bookAge>>
    BY <1>2, <1>t, ConstantsAssumption DEF Sample, TypeOK, BookCap
  <2>2. /\ TypeOK'
        /\ \A n \in Modes : Tracked(n)'
        /\ \A n \in Modes \ {"grid"} : last'[n] = last[n] /\ lastAge'[n] = lastAge[n]
        /\ ~Suppressed(bookAge) =>
              /\ last'["grid"] = [levels |-> book, flags |-> FlagsFor(book, bookAge)]
              /\ Heartbeat > 0 => lastAge'["grid"] < Heartbeat
    BY <2>1, <1>t, JudgeKeeps DEF TypeOK
  <2>3. ASSUME NEW n \in Modes PROVE Looked(n)'
    <3>1. CASE n = "grid"
      BY <3>1, <2>1, <2>2 DEF Looked, Present, Suppressed, FlagsFor
    <3>2. CASE n # "grid"
      <4>1. looked'[n] = looked[n] /\ last'[n] = last[n] /\ lastAge'[n] = lastAge[n]
        BY <3>2, <2>1, <2>2, <1>t DEF TypeOK
      <4> QED
        BY <4>1, <2>1, <1>t DEF Looked, Present, Suppressed, FlagsFor
    <3> QED
      BY <3>1, <3>2
  <2> QED
    BY <2>2, <2>3 DEF Inv
<1> QED
  BY <1>1, <1>2

\* A new state of the book.
LEMMA UpdateInv == ASSUME Inv, NEW levels \in Levels, Update(levels) PROVE Inv'
<1>t. TypeOK /\ \A n \in Modes : Looked(n) /\ Tracked(n)
  BY DEF Inv
<1>u. /\ book' = levels /\ bookAge' = 0
      /\ looked' = [n \in Modes |-> n = "stream"]
  BY DEF Update
<1>b. 0 \in 0 .. BookCap /\ looked' \in [Modes -> BOOLEAN]
  BY <1>u, ConstantsAssumption DEF BookCap
<1>1. CASE "stream" \in Modes
  <2>1. Judge("stream", levels, 0)
    BY <1>1 DEF Update
  <2>2. /\ TypeOK'
        /\ \A n \in Modes : Tracked(n)'
        /\ ~Suppressed(0) =>
              /\ last'["stream"] = [levels |-> levels, flags |-> FlagsFor(levels, 0)]
              /\ Heartbeat > 0 => lastAge'["stream"] < Heartbeat
    BY <2>1, <1>1, <1>u, <1>b, JudgeKeeps DEF TypeOK
  <2>3. ASSUME NEW n \in Modes PROVE Looked(n)'
    BY <2>2, <1>u DEF Looked, Present, Suppressed, FlagsFor
  <2> QED
    BY <2>2, <2>3 DEF Inv
<1>2. CASE "stream" \notin Modes
  <2>1. Skip
    BY <1>2 DEF Update
  <2>2. TypeOK' /\ \A n \in Modes : Tracked(n)'
    BY <2>1, <1>t, <1>u, <1>b DEF Skip, TypeOK, Tracked
  <2>3. ASSUME NEW n \in Modes PROVE Looked(n)'
    BY <1>2, <1>u DEF Looked
  <2> QED
    BY <2>2, <2>3 DEF Inv
<1> QED
  BY <1>1, <1>2

\* Time passes: no clock gets ahead of another.
LEMMA TickInv == Inv /\ Tick => Inv'
<1> SUFFICES ASSUME Inv, Tick PROVE Inv'
  OBVIOUS
<1>t. TypeOK /\ \A n \in Modes : Looked(n) /\ Tracked(n)
  BY DEF Inv
<1>c. RowCap \in Nat /\ BookCap \in Nat
  BY ConstantsAssumption DEF RowCap, BookCap
<1>1. TypeOK'
  <2>1. bookAge' \in 0 .. BookCap
    BY <1>t, <1>c DEF Tick, TypeOK, AtMost
  <2>2. lastAge' \in [Modes -> 0 .. RowCap] /\ storedAge' \in [Modes -> 0 .. RowCap]
    BY <1>t, <1>c DEF Tick, TypeOK, AtMost
  <2>3. sinceLoss' \in {Never} \cup (0 .. RowCap)
    BY <1>t, <1>c DEF Tick, TypeOK, AtMost
  <2> QED
    BY <2>1, <2>2, <2>3, <1>t DEF Tick, TypeOK
<1>2. ASSUME NEW n \in Modes PROVE Tracked(n)'
  <2>1. /\ lastAge'[n] = AtMost(lastAge[n] + 1, RowCap)
        /\ storedAge'[n] = AtMost(storedAge[n] + 1, RowCap)
        /\ last'[n] = last[n] /\ stored'[n] = stored[n]
        /\ lastAge[n] \in 0 .. RowCap
    BY <1>t DEF Tick, TypeOK
  <2>2. CASE stored[n] = last[n] /\ storedAge[n] = lastAge[n]
    BY <2>1, <2>2 DEF Tracked
  <2>3. CASE sinceLoss # Never /\ sinceLoss <= lastAge[n]
    <3>1. sinceLoss \in 0 .. RowCap /\ sinceLoss' = AtMost(sinceLoss + 1, RowCap)
      BY <2>3, <1>t DEF Tick, TypeOK
    <3> QED
      BY <3>1, <2>1, <2>3, <1>c DEF Tracked, AtMost, Never
  <2> QED
    BY <2>2, <2>3, <1>t DEF Tracked
<1>3. ASSUME NEW n \in Modes PROVE Looked(n)'
  BY DEF Tick, Looked
<1> QED
  BY <1>1, <1>2, <1>3 DEF Inv

LEMMA NextInv == Inv /\ [Next]_vars => Inv'
<1> SUFFICES ASSUME Inv, [Next]_vars PROVE Inv'
  OBVIOUS
<1>1. CASE Sample
  BY <1>1, SampleInv
<1>2. ASSUME NEW levels \in Levels, Update(levels) PROVE Inv'
  BY <1>2, UpdateInv
<1>3. CASE Tick
  BY <1>3, TickInv
<1>4. CASE UNCHANGED vars
  BY <1>4 DEF vars, Inv, TypeOK, Looked, Tracked, Present, Suppressed, FlagsFor
<1> QED
  BY <1>1, <1>2, <1>3, <1>4 DEF Next

\* The tracker and the table stay in step: the inductive invariant.
THEOREM InvHolds == Spec => []Inv
<1>1. Init => Inv
  BY InitInv
<1>2. Inv /\ [Next]_vars => Inv'
  BY NextInv
<1> QED
  BY <1>1, <1>2, PTL DEF Spec

\* Type correctness of the policy.
THEOREM TypeCorrect == Spec => []TypeOK
<1>1. Inv => TypeOK
  BY DEF Inv
<1> QED
  BY <1>1, InvHolds, PTL

\* Forward filling gives the present book, wherever the policy has looked and no
\* row was lost within a heartbeat.
THEOREM ForwardFillingIsSound == Spec => []ForwardFills
<1>1. Inv => ForwardFills
  <2> SUFFICES ASSUME Inv, NEW m \in Modes, looked[m], ~Suppressed(bookAge),
                      Heartbeat > 0 \/ sinceLoss = Never
               PROVE  ReaderRight(m) \/ LostLately
    BY DEF ForwardFills
  <2>1. /\ last[m] = Present /\ (Heartbeat > 0 => lastAge[m] < Heartbeat)
        /\ Tracked(m)
        /\ lastAge[m] \in Int /\ sinceLoss \in {Never} \cup (0 .. RowCap)
        /\ Heartbeat \in Nat
    BY ConstantsAssumption DEF Inv, Looked, TypeOK
  <2>2. CASE stored[m] = last[m]
    BY <2>1, <2>2 DEF ReaderRight
  <2>3. CASE sinceLoss # Never /\ sinceLoss <= lastAge[m]
    BY <2>1, <2>3, ConstantsAssumption DEF LostLately, RowCap
  <2> QED
    BY <2>1, <2>2, <2>3 DEF Tracked
<1> QED
  BY <1>1, InvHolds, PTL

\* The heartbeat bounds the distance of forward filling.
THEOREM HeartbeatIsKept == Spec => []HeartbeatKept
<1>1. Inv => HeartbeatKept
  <2> SUFFICES ASSUME Inv, NEW m \in Modes, looked[m], ~Suppressed(bookAge), Heartbeat > 0
               PROVE  storedAge[m] < Heartbeat \/ LostLately
    BY DEF HeartbeatKept
  <2>1. /\ lastAge[m] < Heartbeat
        /\ Tracked(m)
        /\ lastAge[m] \in Int /\ sinceLoss \in {Never} \cup (0 .. RowCap)
        /\ Heartbeat \in Nat
    BY ConstantsAssumption DEF Inv, Looked, TypeOK
  <2> QED
    BY <2>1, ConstantsAssumption DEF Tracked, LostLately, RowCap
<1> QED
  BY <1>1, InvHolds, PTL

\* A step that writes a row: the policy took it for the last one of its table, and
\* had not judged it unchanged.
LEMMA TakenWasChanged ==
    ASSUME TypeOK, NEW m \in Modes, NEW n \in Modes, NEW levels, NEW elapsed,
           Judge(n, levels, elapsed),
           SkipUnchanged, sinceLoss' = Never, stored[m] = last[m],
           storedAge'[m] = 0, storedAge[m] # 0, stored'[m] = stored[m]
    PROVE  Heartbeat > 0 /\ lastAge[m] >= Heartbeat
<1> DEFINE row == [levels |-> levels, flags |-> FlagsFor(levels, elapsed)]
<1>1. CASE Suppressed(elapsed) \/ IsUnchanged(n, row)
  BY <1>1 DEF Judge, Skip
<1>2. CASE ~(Suppressed(elapsed) \/ IsUnchanged(n, row))
  <2>1. Take(n, row)
    BY <1>2 DEF Judge
  <2>2. stored' = [stored EXCEPT ![n] = row] /\ storedAge' = [storedAge EXCEPT ![n] = 0]
    BY <2>1 DEF Take, Never
  <2>3. m = n
    BY <2>2 DEF TypeOK
  <2>4. last[n] = row
    BY <2>2, <2>3 DEF TypeOK
  <2> QED
    BY <1>2, <2>3, <2>4 DEF IsUnchanged
<1> QED
  BY <1>1, <1>2

\* Before the first loss, a row that repeats the one before it is due to the
\* heartbeat.
THEOREM RepeatsAreHeartbeats == Spec => RepeatsOnlyOnHeartbeat
<1> DEFINE Early(m) ==
      /\ SkipUnchanged /\ sinceLoss' = Never
      /\ storedAge'[m] = 0 /\ storedAge[m] # 0 /\ stored'[m] = stored[m]
<1>1. ASSUME Inv, [Next]_vars, NEW m \in Modes, Early(m)
      PROVE  Heartbeat > 0 /\ storedAge[m] >= Heartbeat
  <2>1. TypeOK /\ Tracked(m)
    BY <1>1 DEF Inv
  <2>2. sinceLoss = Never \/ Tick \/ sinceLoss' = sinceLoss \/ sinceLoss' = 0
    BY <1>1 DEF Next, Sample, Update, Judge, Take, Skip, vars
  <2>3. sinceLoss = Never
    BY <1>1, <2>1, <2>2, ConstantsAssumption DEF Tick, AtMost, Never, RowCap, TypeOK
  <2>4. stored[m] = last[m] /\ storedAge[m] = lastAge[m]
    BY <2>1, <2>3 DEF Tracked
  <2>5. CASE Sample
    BY <1>1, <2>1, <2>4, <2>5, TakenWasChanged DEF Sample, Skip
  <2>6. ASSUME NEW levels \in Levels, Update(levels)
        PROVE  Heartbeat > 0 /\ storedAge[m] >= Heartbeat
    BY <1>1, <2>1, <2>4, <2>6, TakenWasChanged DEF Update, Skip
  <2>7. CASE Tick
    BY <1>1, <2>1, <2>7, ConstantsAssumption DEF Tick, TypeOK, AtMost, RowCap
  <2>8. CASE UNCHANGED vars
    BY <1>1, <2>8 DEF vars
  <2> QED
    BY <1>1, <2>5, <2>6, <2>7, <2>8 DEF Next
<1>2. Inv /\ [Next]_vars =>
        [\A m \in Modes : Early(m) => Heartbeat > 0 /\ storedAge[m] >= Heartbeat]_vars
  BY <1>1
<1> QED
  BY <1>2, InvHolds, PTL DEF Spec, RepeatsOnlyOnHeartbeat
=============================================================================
