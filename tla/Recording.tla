----------------------------- MODULE Recording ------------------------------
(***************************************************************************)
(* The recording policy of one exchange and symbol (exchanges/base.py):    *)
(* which states of the live book become rows, in grid mode (the sampler    *)
(* calls snapshot() on every tick of the grid) and in stream mode (_apply  *)
(* calls _emit_stream_row on every update).  Readers of the database fill  *)
(* the gaps forward: a missing row means "same as the previous one".       *)
(*                                                                         *)
(* Clocks saturate at the last value that is told apart, by the policy or  *)
(* by a property.  Rows go through the writer, which may lose     *)
(* them after the policy has taken them for written.                       *)
(***************************************************************************)
EXTENDS Integers

CONSTANTS
    Levels,         \* the top-N books that occur
    Imperfect,      \* those that are crossed or shorter than the depth
    Modes,          \* tables written: "grid", "stream" or both
    SkipUnchanged,  \* storage.skip_unchanged
    Heartbeat,      \* storage.heartbeat_s, 0 = off
    StaleAfter,     \* connection.stale_after_s
    RecordStale,    \* connection.record_stale_snapshots
    Lossy,          \* the writer may lose a submitted row
    Slack           \* how far beyond a heartbeat the properties look

ASSUME ConstantsAssumption ==
    /\ Imperfect \subseteq Levels
    /\ Modes \subseteq {"grid", "stream"}
    /\ SkipUnchanged \in BOOLEAN /\ RecordStale \in BOOLEAN /\ Lossy \in BOOLEAN
    /\ Heartbeat \in Nat
    /\ StaleAfter \in Nat \ {0}
    /\ Slack \in Nat \ {0}

VARIABLES
    book,       \* books[symbol]: the levels, NoBook before the first update
    bookAge,    \* now - ts_recv of that state
    last,       \* per table, what _LastWritten holds of the last row taken
    lastAge,    \* now - _LastWritten.ts
    stored,     \* per table, the row a reader finds last
    storedAge,  \* ghost: ticks since that row was stored
    looked,     \* ghost: the policy has judged the present state of the book
    sinceLoss   \* ghost: ticks since a row was lost, Never before the first loss

vars == <<book, bookAge, last, lastAge, stored, storedAge, looked, sinceLoss>>

NoBook == "no book"     \* Python's None
ASSUME NoBookAssumption == NoBook \notin Levels

NoRow == [levels |-> NoBook, flags |-> {}]
Flag == {"stale", "imperfect"}
Row == [levels : Levels, flags : SUBSET Flag]

Never == -1
BookCap == StaleAfter + 1
RowCap == Heartbeat + Slack
AtMost(a, b) == IF a <= b THEN a ELSE b

Init ==
    /\ book = NoBook /\ bookAge = 0
    /\ last = [m \in Modes |-> NoRow] /\ lastAge = [m \in Modes |-> 0]
    /\ stored = [m \in Modes |-> NoRow] /\ storedAge = [m \in Modes |-> 0]
    /\ looked = [m \in Modes |-> FALSE]
    /\ sinceLoss = Never

-----------------------------------------------------------------------------
\* _flags_for: stale by age, crossed or partial by the levels.
FlagsFor(levels, elapsed) ==
    (IF elapsed > StaleAfter THEN {"stale"} ELSE {})
        \cup (IF levels \in Imperfect THEN {"imperfect"} ELSE {})

\* _flags_for returns None: this state must not be recorded.
Suppressed(elapsed) == elapsed > StaleAfter /\ ~RecordStale

\* Mutant: no heartbeat.
IsUnchangedForever(m, row) == SkipUnchanged /\ last[m] = row

\* Mutant: the flags are not compared.
IsUnchangedLevels(m, row) ==
    /\ SkipUnchanged
    /\ last[m].levels = row.levels
    /\ ~(Heartbeat > 0 /\ lastAge[m] >= Heartbeat)

\* _is_unchanged.
IsUnchanged(m, row) ==
    /\ SkipUnchanged
    /\ last[m] = row
    /\ ~(Heartbeat > 0 /\ lastAge[m] >= Heartbeat)

\* Mutant: the time of the tracker is not renewed.
TakeKeepingTime(m, row) ==
    /\ last' = [last EXCEPT ![m] = row]
    /\ stored' = [stored EXCEPT ![m] = row]
    /\ storedAge' = [storedAge EXCEPT ![m] = 0]
    /\ UNCHANGED <<lastAge, sinceLoss>>

\* The tracker is set when the row is handed to the writer.
Take(m, row) ==
    /\ last' = [last EXCEPT ![m] = row]
    /\ lastAge' = [lastAge EXCEPT ![m] = 0]
    /\ \/ /\ stored' = [stored EXCEPT ![m] = row]
          /\ storedAge' = [storedAge EXCEPT ![m] = 0]
          /\ UNCHANGED sinceLoss
       \/ /\ Lossy
          /\ sinceLoss' = 0
          /\ UNCHANGED <<stored, storedAge>>

Skip == UNCHANGED <<last, lastAge, stored, storedAge, sinceLoss>>

\* The policy for a state of the given age.
Judge(m, levels, elapsed) ==
    LET row == [levels |-> levels, flags |-> FlagsFor(levels, elapsed)]
    IN IF Suppressed(elapsed) \/ IsUnchanged(m, row) THEN Skip ELSE Take(m, row)

\* snapshot(), called by the sampler on the grid.
Sample ==
    /\ "grid" \in Modes
    /\ IF book = NoBook
       THEN Skip /\ UNCHANGED looked
       ELSE /\ Judge("grid", book, bookAge)
            /\ looked' = [looked EXCEPT !["grid"] = TRUE]
    /\ UNCHANGED <<book, bookAge>>

\* _apply: a fresh state replaces the old one; in stream mode it is judged at
\* once, with its own receive time as the time of judgement.
Update(levels) ==
    /\ book' = levels
    /\ bookAge' = 0
    /\ looked' = [m \in Modes |-> m = "stream"]
    /\ IF "stream" \in Modes THEN Judge("stream", levels, 0) ELSE Skip

\* Time passes.
Tick ==
    /\ bookAge' = AtMost(bookAge + 1, BookCap)
    /\ lastAge' = [m \in Modes |-> AtMost(lastAge[m] + 1, RowCap)]
    /\ storedAge' = [m \in Modes |-> AtMost(storedAge[m] + 1, RowCap)]
    /\ sinceLoss' = IF sinceLoss = Never THEN Never ELSE AtMost(sinceLoss + 1, RowCap)
    /\ looked' = [m \in Modes |-> FALSE]
    /\ UNCHANGED <<book, last, stored>>

Next ==
    \/ Sample
    \/ \E levels \in Levels : Update(levels)
    \/ Tick

Spec == Init /\ [][Next]_vars

-----------------------------------------------------------------------------
TypeOK ==
    /\ book \in Levels \cup {NoBook}
    /\ bookAge \in 0 .. BookCap
    /\ last \in [Modes -> Row \cup {NoRow}]
    /\ lastAge \in [Modes -> 0 .. RowCap]
    /\ stored \in [Modes -> Row \cup {NoRow}]
    /\ storedAge \in [Modes -> 0 .. RowCap]
    /\ looked \in [Modes -> BOOLEAN]
    /\ sinceLoss \in {Never} \cup (0 .. RowCap)

\* What a row of the present state would say.
Present == [levels |-> book, flags |-> FlagsFor(book, bookAge)]

\* A reader who fills forward sees the present state of the book.
ReaderRight(m) == stored[m] = Present

\* A row was lost, and the last loss is less than a heartbeat ago.
LostLately == sinceLoss \in 0 .. Heartbeat - 1

\* Skipping unchanged rows preserves information: whenever the policy has judged
\* the present state, the last row in the table says what the book is, stale flag
\* included.  A row the writer loses misleads the reader for less than a
\* heartbeat: then the heartbeat repeats what the tracker takes for written.
ForwardFills ==
    \A m \in Modes :
        looked[m] /\ ~Suppressed(bookAge) /\ (Heartbeat > 0 \/ sinceLoss = Never) =>
            ReaderRight(m) \/ LostLately

\* The heartbeat bounds the distance of forward filling: where the policy has
\* looked, the last row is younger than the heartbeat.
HeartbeatKept ==
    \A m \in Modes :
        looked[m] /\ ~Suppressed(bookAge) /\ Heartbeat > 0 =>
            storedAge[m] < Heartbeat \/ LostLately

\* Deduplication loses no effect to the heartbeat or to flapping: before the
\* first loss, a row that repeats the one before it is a heartbeat younger.
RepeatsOnlyOnHeartbeat ==
    [][ \A m \in Modes :
          /\ SkipUnchanged /\ sinceLoss' = Never
          /\ storedAge'[m] = 0 /\ storedAge[m] # 0 /\ stored'[m] = stored[m]
          => Heartbeat > 0 /\ storedAge[m] >= Heartbeat ]_vars

\* README.md:56: at least one row per symbol per heartbeat, regardless: the last
\* row is never older than the heartbeat.
RowEveryHeartbeat ==
    \A m \in Modes : stored[m] # NoRow => storedAge[m] <= Heartbeat
=============================================================================
