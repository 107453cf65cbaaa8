---------------------------- MODULE WriterProofs ----------------------------
(***************************************************************************)
(* Proofs about Writer for every set of rows, queue size and batch size:   *)
(* the inductive invariant Inv, and what follows from it; and about        *)
(* Lifecycle, for every set of exchanges: run_forever keeps the contract   *)
(* of the writer, so what is proved of Writer holds of the program.        *)
(***************************************************************************)
EXTENDS Lifecycle, FiniteSetTheorems, SequenceTheorems, TLAPS

\* The shutdown marker cannot be taken for a row.
LEMMA SentinelIsNoRow == Sentinel \notin Rows
  BY RowsAssumption DEF Sentinel, Rank, Snap, Upd, Trd, Event, Lat

\* A set of positions of a sequence is finite and no larger than the sequence.
LEMMA PositionsFinite ==
    ASSUME NEW S, NEW s \in Seq(S), NEW P \in SUBSET DOMAIN s
    PROVE  /\ IsFiniteSet(P)
           /\ Cardinality(P) \in Nat
           /\ Cardinality(P) <= Len(s)
<1>1. DOMAIN s = 1 .. Len(s) /\ Len(s) \in Nat
  BY LenProperties
<1>2. /\ IsFiniteSet(1 .. Len(s))
      /\ Cardinality(1 .. Len(s)) = IF 1 > Len(s) THEN 0 ELSE Len(s) - 1 + 1
  <2>1. 1 \in Int /\ Len(s) \in Int
    BY <1>1
  <2> QED
    BY <2>1, FS_Interval, Zenon
<1> QED
  BY <1>1, <1>2, FS_Subset, FS_CardinalityType

\* A sequence of length 0 is the empty one.
LEMMA EmptyByLength ==
    ASSUME NEW S, NEW s \in Seq(S)
    PROVE  Len(s) = 0 <=> s = <<>>
<1>1. s # <<>> => Len(s) \in Nat \ {0}
  BY EmptySeq
<1> QED
  BY <1>1

\* A commit keeps the tables well-formed.
LEMMA CommitType ==
    ASSUME NEW t \in Seq(Rows), table \subseteq Rows, plain \in Nat, CommitTo(t)
    PROVE  table' \subseteq Rows /\ plain' \in Nat
<1>1. DOMAIN t = 1 .. Len(t) /\ \A k \in DOMAIN t : t[k] \in Rows
  BY LenProperties
<1>2. Cardinality({k \in DOMAIN t : t[k] \in Untracked}) \in Nat
  BY PositionsFinite
<1> QED
  BY <1>1, <1>2 DEF CommitTo

\* What the sentinel's place says about the two ends of the queue.
LEMMA QueueEnds ==
    ASSUME TypeOK, QueueShape, queue # <<>>
    PROVE  /\ Len(queue) \in Nat \ {0}
           /\ Head(queue) = queue[1]
           /\ Tail(queue) \in Seq(Rows \cup {Sentinel})
           /\ Len(Tail(queue)) = Len(queue) - 1
           /\ \A i \in 1 .. Len(queue) - 1 : Tail(queue)[i] = queue[i + 1]
           /\ Head(queue) = Sentinel => Tail(queue) = <<>> /\ SentinelQueued = 1
           /\ Head(queue) # Sentinel => Head(queue) \in Rows
<1> DEFINE Items == Rows \cup {Sentinel}
<1>1. queue \in Seq(Items)
  BY DEF TypeOK
<1>2. /\ Len(queue) \in Nat \ {0}
      /\ Head(queue) = queue[1] /\ Head(queue) \in Items
      /\ Tail(queue) \in Seq(Items)
      /\ Len(Tail(queue)) = Len(queue) - 1
      /\ \A i \in 1 .. Len(queue) - 1 : Tail(queue)[i] = queue[i + 1]
  BY <1>1, HeadTailProperties, EmptySeq, LenProperties
<1>3. ASSUME Head(queue) = Sentinel
      PROVE  Tail(queue) = <<>> /\ SentinelQueued = 1
  <2>1. 1 \in 1 .. Len(queue) /\ queue[1] = Sentinel
    BY <1>2, <1>3
  <2>2. Len(queue) = 1
    BY <2>1 DEF QueueShape
  <2>3. Tail(queue) = <<>>
    <3>1. Tail(queue) \in Seq(Items) /\ Len(Tail(queue)) = 0
      BY <1>2, <2>2
    <3> QED
      BY <3>1, EmptyByLength, Zenon
  <2>4. queue[Len(queue)] = Sentinel
    BY <2>1, <2>2
  <2>5. SentinelQueued = 1
    BY <2>4, Zenon DEF SentinelQueued
  <2> QED
    BY <2>3, <2>5
<1> QED
  BY <1>2, <1>3

-----------------------------------------------------------------------------
(* Every action preserves Inv *)

LEMMA InitInv == Init => Inv
<1> SUFFICES ASSUME Init PROVE Inv
  OBVIOUS
<1>1. <<>> \in Seq(Rows) /\ <<>> \in Seq(Rows \cup {Sentinel}) /\ Len(<<>>) = 0
  BY EmptySeq
<1>2. TypeOK
  <2>1. table \subseteq Rows /\ submitted \in 0 .. MaxSubmit
    BY RowsAssumption, SizesAssumption DEF Init
  <2> QED
    BY <1>1, <2>1 DEF Init, TypeOK
<1>3. Accounted /\ MemoryBounded
  BY <1>1, SizesAssumption DEF Init, Accounted, MemoryBounded, SentinelQueued
<1>4. QueueShape /\ DrainShape /\ CloseShape /\ ThreadShape
  BY <1>1, SizesAssumption DEF Init, QueueShape, DrainShape, CloseShape, ThreadShape
<1> QED
  BY <1>2, <1>3, <1>4 DEF Inv

LEMMA SubmitInv ==
    ASSUME Inv, NEW r \in Rows, Submit(r)
    PROVE  Inv'
<1>1. r # Sentinel
  BY SentinelIsNoRow
<1>2. /\ queue \in Seq(Rows \cup {Sentinel}) /\ Len(queue) \in Nat
      /\ Len(queue) <= QueueMaxsize
      /\ dropped \in Nat
  BY LenProperties DEF Inv, TypeOK, MemoryBounded
<1>3. \A i \in 1 .. Len(queue) : queue[i] # Sentinel
  BY DEF Inv, Submit, Accept, QueueShape
<1>4. SentinelQueued = 0
  BY <1>2, <1>3, EmptyByLength DEF SentinelQueued
<1>5. /\ queue' \in Seq(Rows \cup {Sentinel})
      /\ Len(queue') <= QueueMaxsize
      /\ \A i \in 1 .. Len(queue') : queue'[i] # Sentinel
      /\ dropped' \in Nat
      /\ Len(queue') + dropped' = Len(queue) + dropped + 1
  <2>1. CASE PutWithRoom(r)
    BY <1>1, <1>2, <1>3, <2>1, AppendProperties, SizesAssumption DEF PutWithRoom
  <2>2. CASE PutDroppingOldest(r)
    <3>1. queue # <<>>
      BY <1>2, <2>2, SizesAssumption, EmptyByLength DEF PutDroppingOldest
    <3>2. /\ Tail(queue) \in Seq(Rows \cup {Sentinel})
          /\ Len(Tail(queue)) = Len(queue) - 1
          /\ \A i \in 1 .. Len(Tail(queue)) : Tail(queue)[i] # Sentinel
      BY <1>2, <1>3, <3>1, QueueEnds DEF Inv
    <3> QED
      BY <1>1, <1>2, <2>2, <3>2, AppendProperties, SizesAssumption
      DEF PutDroppingOldest
  <2> QED
    BY <2>1, <2>2 DEF Submit, Accept
<1>6. Len(queue') \in Nat
  BY <1>5, LenProperties
<1>7. submitted' \in 0 .. MaxSubmit /\ submitted' = submitted + 1 /\ submitted \in Nat
  BY SizesAssumption DEF Inv, TypeOK, Submit, Accept
<1>8. /\ UNCHANGED <<batch, drain, closer, timedOut, conn, table, plain, thread,
                     executed, tx, changes, written, ignored>>
      /\ closer = "open"
      /\ batch' = batch /\ written' = written /\ ignored' = ignored
  BY DEF Submit, Accept, store, work
<1>9. TypeOK'
  BY <1>5, <1>7, <1>8 DEF Inv, TypeOK
<1>10. SentinelQueued' = 0
  BY <1>5, <1>6, EmptyByLength DEF SentinelQueued
<1>11. Accounted' /\ MemoryBounded'
  <2>1. Len(batch) \in Nat /\ written \in Nat /\ ignored \in Nat
    BY LenProperties DEF Inv, TypeOK
  <2>2. /\ submitted = written + ignored + dropped + Len(queue) + Len(batch)
        /\ Len(batch) <= BatchSize
    BY <1>4 DEF Inv, Accounted, MemoryBounded
  <2>3. submitted' = written' + ignored' + dropped' + Len(queue') + Len(batch')
    <3>1. Len(batch') = Len(batch)
      BY <1>8
    <3>2. submitted' = submitted + 1 /\ Len(queue') + dropped' = Len(queue) + dropped + 1
      BY <1>5, <1>7
    <3>3. Len(queue) \in Nat /\ dropped \in Nat /\ Len(queue') \in Nat /\ dropped' \in Nat
      BY <1>2, <1>5, <1>6
    <3>4. written' = written /\ ignored' = ignored
      BY <1>8
    <3> QED
      BY <2>1, <2>2, <3>1, <3>2, <3>3, <3>4, SMTT(30)
  <2>4. Accounted'
    BY <1>10, <2>3 DEF Accounted
  <2>5. MemoryBounded'
    BY <1>5, <1>8, <2>2 DEF MemoryBounded
  <2> QED
    BY <2>4, <2>5
<1>12. QueueShape' /\ DrainShape' /\ CloseShape' /\ ThreadShape'
  BY <1>5, <1>8 DEF Inv, QueueShape, DrainShape, CloseShape, ThreadShape
<1> QED
  BY <1>9, <1>11, <1>12 DEF Inv

LEMMA StartFlushShape ==
    ASSUME Inv, NEW b \in Seq(Rows), NEW stage \in {"flushing", "final"},
           StartFlush(b, stage), UNCHANGED <<closer, timedOut, conn>>,
           stage = "final" => queue' = <<>> /\ closer \notin {"open", "putting"}
    PROVE  /\ batch' \in Seq(Rows) /\ executed' \subseteq DOMAIN batch'
           /\ drain' \in {"flushing", "final"} /\ thread' = "writing"
           /\ tx' \in Seq(Rows) /\ changes' \in Nat
           /\ DrainShape' /\ ThreadShape'
  BY FS_EmptySet DEF StartFlush, Inv, TypeOK, DrainShape, ThreadShape

LEMMA GetRowInv ==
    ASSUME Inv, GetRow
    PROVE  Inv'
<1>1. queue # <<>> /\ Head(queue) \in Rows /\ queue' = Tail(queue)
  BY QueueEnds DEF Inv, GetRow
<1>2. /\ queue' \in Seq(Rows \cup {Sentinel})
      /\ Len(queue) \in Nat \ {0} /\ Len(queue') = Len(queue) - 1
      /\ \A i \in 1 .. Len(queue') : queue'[i] = queue[i + 1]
  BY <1>1, QueueEnds DEF Inv
<1> DEFINE b == Append(batch, Head(queue))
<1>3. batch \in Seq(Rows) /\ Len(batch) \in Nat /\ Len(batch) < BatchSize
  BY LenProperties DEF Inv, TypeOK, GetRow, DrainShape
<1>4. b \in Seq(Rows) /\ Len(b) = Len(batch) + 1
  BY <1>1, <1>3, AppendProperties
<1>5. /\ batch' = b
      /\ UNCHANGED <<closer, timedOut, conn, table, plain, submitted, written, ignored,
                     dropped>>
  BY DEF GetRow, StartFlush, store, counters
<1>6. /\ executed' \subseteq DOMAIN batch' /\ drain' \in {"getting", "flushing"}
      /\ thread' \in {"idle", "writing"}
      /\ tx' \in Seq(Rows) /\ changes' \in Nat
      /\ DrainShape' /\ ThreadShape'
  <2>1. CASE StartFlush(b, "flushing")
    BY <1>4, <1>5, <2>1, StartFlushShape DEF StartFlush
  <2>2. CASE Len(b) < BatchSize /\ batch' = b /\ UNCHANGED <<drain, work>>
    <3>1. drain' = "getting" /\ thread' = "idle" /\ tx' = <<>> /\ UNCHANGED <<executed, changes>>
      BY <2>2 DEF Inv, GetRow, ThreadShape, work
    <3>2. executed \subseteq DOMAIN b
      <4>1. DOMAIN batch = 1 .. Len(batch) /\ DOMAIN b = 1 .. Len(b)
        BY <1>3, <1>4, LenProperties
      <4> QED
        BY <1>3, <1>4, <4>1 DEF Inv, TypeOK
    <3> QED
      BY <1>4, <2>2, <3>1, <3>2 DEF Inv, TypeOK, DrainShape, ThreadShape
  <2> QED
    BY <2>1, <2>2 DEF GetRow
<1>7. TypeOK'
  BY <1>2, <1>4, <1>5, <1>6 DEF Inv, TypeOK
<1>8. SentinelQueued' = SentinelQueued
  <2>1. CASE Len(queue) = 1
    <3>1. queue' = <<>>
      BY <1>2, <2>1, EmptyByLength
    <3>2. queue[Len(queue)] # Sentinel
      BY <1>1, <1>2, <2>1, SentinelIsNoRow, QueueEnds DEF Inv
    <3> QED
      BY <3>1, <3>2, Zenon DEF SentinelQueued
  <2>2. CASE Len(queue) # 1
    <3>1. queue'[Len(queue')] = queue[Len(queue)]
      BY <1>2, <2>2
    <3>2. queue' # <<>>
      BY <1>2, <2>2, EmptyByLength
    <3> QED
      BY <1>1, <3>1, <3>2, Zenon DEF SentinelQueued
  <2> QED
    BY <2>1, <2>2
<1>9. Accounted' /\ MemoryBounded'
  <2>1. SentinelQueued \in {0, 1}
    BY DEF SentinelQueued
  <2>2. Len(batch') = Len(batch) + 1
    BY <1>4, <1>5
  <2>3. MemoryBounded'
    BY <1>2, <1>3, <2>2, SizesAssumption DEF Inv, MemoryBounded
  <2>4. Accounted'
    BY <1>2, <1>3, <1>5, <1>8, <2>1, <2>2, SMTT(30) DEF Inv, TypeOK, Accounted
  <2> QED
    BY <2>3, <2>4
<1>10. QueueShape' /\ CloseShape'
  <2>1. QueueShape'
    BY <1>2, <1>5 DEF Inv, QueueShape
  <2>2. CloseShape'
    BY <1>5 DEF Inv, CloseShape, GetRow
  <2> QED
    BY <2>1, <2>2
<1> QED
  BY <1>6, <1>7, <1>9, <1>10 DEF Inv

LEMMA FlushDueInv ==
    ASSUME Inv, FlushDue
    PROVE  Inv'
<1>1. /\ batch' = batch /\ drain = "getting"
      /\ UNCHANGED <<queue, closer, timedOut, conn, table, plain, submitted, written,
                     ignored, dropped>>
  BY DEF FlushDue, StartFlush, store, counters
<1>2. /\ executed' \subseteq DOMAIN batch' /\ drain' \in {"flushing", "final"}
      /\ thread' = "writing" /\ tx' \in Seq(Rows) /\ changes' \in Nat
      /\ DrainShape' /\ ThreadShape'
  BY <1>1, StartFlushShape DEF FlushDue, Inv, TypeOK
<1>3. TypeOK'
  BY <1>1, <1>2 DEF Inv, TypeOK
<1>4. Accounted' /\ MemoryBounded' /\ QueueShape' /\ CloseShape'
  BY <1>1 DEF Inv, Accounted, MemoryBounded, SentinelQueued, QueueShape, CloseShape
<1> QED
  BY <1>2, <1>3, <1>4 DEF Inv

LEMMA GetSentinelInv ==
    ASSUME Inv, GetSentinel
    PROVE  Inv'
<1>1. Tail(queue) = <<>> /\ SentinelQueued = 1 /\ Len(queue) = 1
  <2>1. queue # <<>> /\ Head(queue) = Sentinel
    BY DEF GetSentinel
  <2>2. /\ Tail(queue) = <<>> /\ SentinelQueued = 1
        /\ Len(queue) \in Nat /\ Len(Tail(queue)) = Len(queue) - 1
    BY <2>1, QueueEnds DEF Inv
  <2>3. Len(Tail(queue)) = 0
    BY <2>2, EmptySeq
  <2> QED
    BY <2>2, <2>3
<1>2. batch \in Seq(Rows) /\ batch \o Tail(queue) = batch
  BY <1>1, ConcatEmptySeq DEF Inv, TypeOK
<1>3. /\ queue' = <<>> /\ batch' = batch
      /\ UNCHANGED <<closer, timedOut, conn, table, plain, submitted, written, ignored,
                     dropped>>
  BY <1>2 DEF GetSentinel, StartFlush, store, counters
<1>4. closer \notin {"open", "putting"}
  <2>1. queue[1] = Sentinel /\ 1 \in 1 .. Len(queue)
    BY <1>1, QueueEnds DEF Inv, GetSentinel
  <2> QED
    BY <2>1 DEF Inv, QueueShape
<1>5. /\ executed' \subseteq DOMAIN batch' /\ drain' \in {"final", "done"}
      /\ thread' \in {"idle", "writing"}
      /\ tx' \in Seq(Rows) /\ changes' \in Nat
      /\ DrainShape' /\ ThreadShape'
  <2>1. CASE StartFlush(batch, "final")
    BY <1>2, <1>3, <1>4, <2>1, StartFlushShape DEF StartFlush
  <2>2. CASE batch = <<>> /\ drain' = "done" /\ UNCHANGED work
    <3>1. thread' = "idle" /\ tx' = <<>> /\ UNCHANGED <<executed, changes>>
      BY <2>2 DEF Inv, GetSentinel, ThreadShape, work
    <3> QED
      BY <1>3, <1>4, <2>2, <3>1 DEF Inv, TypeOK, DrainShape, ThreadShape
  <2> QED
    BY <1>2, <2>1, <2>2 DEF GetSentinel
<1>6. TypeOK'
  <2>1. queue' \in Seq(Rows \cup {Sentinel})
    BY <1>3, EmptySeq
  <2> QED
    BY <1>3, <1>5, <2>1 DEF Inv, TypeOK
<1>7. Accounted' /\ MemoryBounded'
  <2>1. Len(queue') = 0 /\ SentinelQueued' = 0
    BY <1>3, EmptySeq DEF SentinelQueued
  <2>2. MemoryBounded'
    BY <1>3, <2>1, SizesAssumption DEF Inv, MemoryBounded
  <2>3. /\ submitted = written + ignored + dropped + (1 - 1) + Len(batch)
        /\ Len(batch') = Len(batch) /\ Len(batch) \in Nat
        /\ written \in Nat /\ ignored \in Nat /\ dropped \in Nat
    BY <1>1, <1>2, <1>3, LenProperties DEF Inv, TypeOK, Accounted
  <2>4. Accounted'
    BY <1>3, <2>1, <2>3 DEF Accounted
  <2> QED
    BY <2>2, <2>4
<1>8. QueueShape' /\ CloseShape'
  <2>1. QueueShape'
    BY <1>3, EmptySeq DEF QueueShape
  <2>2. CloseShape'
    BY <1>3 DEF Inv, CloseShape, GetSentinel
  <2> QED
    BY <2>1, <2>2
<1> QED
  BY <1>5, <1>6, <1>7, <1>8 DEF Inv

\* What both ends of a flush leave behind.
LEMMA ResumeShape ==
    ASSUME Inv, Resume, written' \in Nat, ignored' \in Nat, dropped' \in Nat,
           thread \in {"committed", "failed"}
    PROVE  /\ TypeOK' /\ MemoryBounded'
           /\ QueueShape' /\ DrainShape' /\ CloseShape' /\ ThreadShape'
           /\ batch' = <<>> /\ Len(batch') = 0
<1>1. /\ batch' = <<>> /\ executed' = {} /\ thread' = "idle"
      /\ drain' = IF drain = "final" THEN "done" ELSE "getting"
      /\ drain \in {"flushing", "final"}
      /\ UNCHANGED <<queue, closer, timedOut, conn, table, plain, tx, changes, submitted>>
  BY DEF Resume, store
<1>2. batch' \in Seq(Rows) /\ Len(batch') = 0
  BY <1>1, EmptySeq
<1>3. tx' = <<>> /\ tx' \in Seq(Rows)
  BY <1>1, EmptySeq DEF Inv, ThreadShape
<1>4. TypeOK'
  BY <1>1, <1>2, <1>3 DEF Inv, TypeOK
<1>5. MemoryBounded' /\ QueueShape' /\ CloseShape' /\ ThreadShape'
  BY <1>1, <1>2, <1>3, SizesAssumption
  DEF Inv, MemoryBounded, QueueShape, CloseShape, ThreadShape
<1>6. DrainShape'
  BY <1>1, <1>2, SizesAssumption DEF Inv, DrainShape
<1> QED
  BY <1>1, <1>2, <1>4, <1>5, <1>6

LEMMA FlushCountedInv ==
    ASSUME Inv, FlushCounted
    PROVE  Inv'
<1>1. /\ Resume /\ thread = "committed"
      /\ written' = written + changes /\ ignored' = ignored + (Len(batch) - changes)
      /\ dropped' = dropped /\ queue' = queue /\ submitted' = submitted
  BY DEF FlushCounted, Resume
<1>2. /\ Len(batch) \in Nat /\ changes \in Nat /\ changes <= Len(batch)
  <2>1. /\ Len(batch) \in Nat /\ changes \in Nat
        /\ Cardinality(executed) \in Nat /\ Cardinality(executed) <= Len(batch)
    BY PositionsFinite, LenProperties DEF Inv, TypeOK
  <2>2. changes <= Cardinality(executed)
    BY <1>1 DEF Inv, ThreadShape
  <2> QED
    BY <2>1, <2>2
<1>3. /\ written \in Nat /\ ignored \in Nat /\ dropped \in Nat
      /\ Len(queue) \in Nat /\ SentinelQueued \in {0, 1}
  BY LenProperties DEF Inv, TypeOK, SentinelQueued
<1>4. written' \in Nat /\ ignored' \in Nat /\ dropped' \in Nat
  BY <1>1, <1>2, <1>3
<1>5. /\ TypeOK' /\ MemoryBounded'
      /\ QueueShape' /\ DrainShape' /\ CloseShape' /\ ThreadShape'
      /\ Len(batch') = 0
  BY <1>1, <1>4, ResumeShape
<1>6. Accounted'
  <2>1. SentinelQueued' = SentinelQueued
    BY <1>1 DEF SentinelQueued
  <2>2. submitted = written + ignored + dropped + (Len(queue) - SentinelQueued) + Len(batch)
    BY DEF Inv, Accounted
  <2> QED
    BY <1>1, <1>2, <1>3, <1>5, <2>1, <2>2, SMTT(30) DEF Accounted
<1> QED
  BY <1>5, <1>6 DEF Inv

LEMMA FlushLostInv ==
    ASSUME Inv, FlushLost
    PROVE  Inv'
<1>1. /\ Resume /\ thread = "failed"
      /\ written' = written /\ ignored' = ignored /\ dropped' = dropped + Len(batch)
      /\ queue' = queue /\ submitted' = submitted
  BY DEF FlushLost, Resume
<1>2. /\ written \in Nat /\ ignored \in Nat /\ dropped \in Nat
      /\ Len(queue) \in Nat /\ Len(batch) \in Nat /\ SentinelQueued \in {0, 1}
  BY LenProperties DEF Inv, TypeOK, SentinelQueued
<1>3. /\ TypeOK' /\ MemoryBounded'
      /\ QueueShape' /\ DrainShape' /\ CloseShape' /\ ThreadShape'
      /\ Len(batch') = 0
  BY <1>1, <1>2, ResumeShape
<1>4. Accounted'
  <2>1. SentinelQueued' = SentinelQueued
    BY <1>1 DEF SentinelQueued
  <2>2. submitted = written + ignored + dropped + (Len(queue) - SentinelQueued) + Len(batch)
    BY DEF Inv, Accounted
  <2> QED
    BY <1>1, <1>2, <1>3, <2>1, <2>2, SMTT(30) DEF Accounted
<1> QED
  BY <1>3, <1>4 DEF Inv

\* Steps that move neither rows nor counters keep the accounts as they are.
LEMMA AccountsUntouched ==
    ASSUME Inv, UNCHANGED <<queue, batch, submitted, written, ignored, dropped>>
    PROVE  Accounted' /\ MemoryBounded'
  BY DEF Inv, Accounted, MemoryBounded, SentinelQueued

LEMMA DrainDiesInv ==
    ASSUME Inv, DrainDies
    PROVE  Inv'
<1>1. Accounted' /\ MemoryBounded'
  BY AccountsUntouched DEF DrainDies, counters
<1>2. TypeOK'
  BY DEF Inv, TypeOK, DrainDies, store, counters
<1>3. QueueShape' /\ DrainShape' /\ CloseShape' /\ ThreadShape'
  BY DEF Inv, QueueShape, DrainShape, CloseShape, ThreadShape, DrainDies
<1> QED
  BY <1>1, <1>2, <1>3 DEF Inv

LEMMA ExecuteRowInv ==
    ASSUME Inv, NEW i \in DOMAIN batch, ExecuteRow(i)
    PROVE  Inv'
<1>1. Accounted' /\ MemoryBounded'
  BY AccountsUntouched DEF ExecuteRow, counters
<1>2. batch[i] \in Rows /\ i \notin executed
  BY LenProperties DEF Inv, TypeOK, ExecuteRow, NextRow
<1>3. changes' \in Nat /\ changes' <= changes + 1
  BY DEF Inv, TypeOK, ExecuteRow
<1>4. Cardinality(executed') = Cardinality(executed) + 1 /\ Cardinality(executed) \in Nat
  BY <1>2, PositionsFinite, FS_AddElement DEF Inv, TypeOK, ExecuteRow
<1>5. TypeOK'
  <2>1. tx' \in Seq(Rows)
    BY <1>2, AppendProperties DEF Inv, TypeOK, ExecuteRow
  <2>2. executed' \subseteq DOMAIN batch'
    BY DEF Inv, TypeOK, ExecuteRow
  <2> QED
    BY <1>3, <2>1, <2>2 DEF Inv, TypeOK, ExecuteRow, store, counters
<1>6. QueueShape' /\ DrainShape' /\ CloseShape'
  BY DEF Inv, QueueShape, DrainShape, CloseShape, ExecuteRow
<1>7. ThreadShape'
  <2>1. thread = "writing" /\ thread' = "writing" /\ drain' = drain
    BY DEF ExecuteRow
  <2>2. changes <= Cardinality(executed) /\ drain \notin {"getting", "done"} /\ changes \in Nat
    BY <2>1 DEF Inv, TypeOK, ThreadShape
  <2> QED
    BY <1>3, <1>4, <2>1, <2>2 DEF ThreadShape
<1> QED
  BY <1>1, <1>5, <1>6, <1>7 DEF Inv

LEMMA ExecuteOverflowInv ==
    ASSUME Inv, NEW i \in DOMAIN batch, ExecuteOverflow(i)
    PROVE  Inv'
<1>1. Accounted' /\ MemoryBounded'
  BY AccountsUntouched DEF ExecuteOverflow, counters
<1>2. TypeOK'
  BY DEF Inv, TypeOK, ExecuteOverflow, store, counters
<1>3. QueueShape' /\ DrainShape' /\ CloseShape' /\ ThreadShape'
  BY DEF Inv, QueueShape, DrainShape, CloseShape, ThreadShape, ExecuteOverflow
<1> QED
  BY <1>1, <1>2, <1>3 DEF Inv

LEMMA CommitInv ==
    ASSUME Inv, Commit
    PROVE  Inv'
<1>1. Accounted' /\ MemoryBounded'
  BY AccountsUntouched DEF Commit, counters
<1>2. TypeOK'
  <2>1. table' \subseteq Rows /\ plain' \in Nat
    BY CommitType DEF Inv, TypeOK, Commit
  <2>2. tx' \in Seq(Rows)
    BY EmptySeq DEF Commit
  <2> QED
    BY <2>1, <2>2 DEF Inv, TypeOK, Commit, counters
<1>3. QueueShape' /\ DrainShape' /\ CloseShape' /\ ThreadShape'
  BY DEF Inv, QueueShape, DrainShape, CloseShape, ThreadShape, Commit
<1> QED
  BY <1>1, <1>2, <1>3 DEF Inv

LEMMA WriteFailsInv ==
    ASSUME Inv, WriteFails
    PROVE  Inv'
<1>1. Accounted' /\ MemoryBounded'
  BY AccountsUntouched DEF WriteFails, counters
<1>2. TypeOK'
  <2>1. tx' \in Seq(Rows)
    BY EmptySeq DEF WriteFails
  <2> QED
    BY <2>1 DEF Inv, TypeOK, WriteFails, store, counters
<1>3. QueueShape' /\ DrainShape' /\ CloseShape' /\ ThreadShape'
  BY DEF Inv, QueueShape, DrainShape, CloseShape, ThreadShape, WriteFails
<1> QED
  BY <1>1, <1>2, <1>3 DEF Inv

LEMMA PutSentinelInv ==
    ASSUME Inv, PutSentinel
    PROVE  Inv'
<1>1. /\ queue \in Seq(Rows \cup {Sentinel}) /\ Len(queue) \in Nat
      /\ Len(queue) < QueueMaxsize
      /\ \A i \in 1 .. Len(queue) : queue[i] # Sentinel
  BY LenProperties DEF Inv, TypeOK, PutSentinel, QueueShape
<1>2. SentinelQueued = 0
  BY <1>1, EmptyByLength DEF SentinelQueued
<1>3. /\ queue' \in Seq(Rows \cup {Sentinel})
      /\ Len(queue') = Len(queue) + 1
      /\ queue'[Len(queue')] = Sentinel
      /\ \A i \in 1 .. Len(queue) : queue'[i] # Sentinel
  BY <1>1, AppendProperties DEF PutSentinel
<1>4. SentinelQueued' = 1
  <2>1. queue' # <<>>
    BY <1>1, <1>3, EmptyByLength
  <2> QED
    BY <1>3, <2>1, Zenon DEF SentinelQueued
<1>5. /\ closer = "putting" /\ closer' = "waiting" /\ batch' = batch
      /\ UNCHANGED <<drain, timedOut, conn, table, plain, thread, executed, tx,
                     changes, submitted, written, ignored, dropped>>
  BY DEF PutSentinel, store, work, counters
<1>6. TypeOK'
  BY <1>3, <1>5 DEF Inv, TypeOK
<1>7. Accounted' /\ MemoryBounded'
  <2>1. MemoryBounded'
    BY <1>1, <1>3, <1>5, SizesAssumption DEF Inv, MemoryBounded
  <2>2. Accounted'
    BY <1>1, <1>2, <1>3, <1>4, <1>5, SMTT(30) DEF Inv, TypeOK, Accounted
  <2> QED
    BY <2>1, <2>2
<1>8. QueueShape'
  BY <1>1, <1>3, <1>5 DEF QueueShape
<1>9. DrainShape' /\ CloseShape' /\ ThreadShape'
  BY <1>5 DEF Inv, DrainShape, CloseShape, ThreadShape
<1> QED
  BY <1>6, <1>7, <1>8, <1>9 DEF Inv

\* The steps of close() that leave the rows alone: entering it, the three ways
\* its wait for the drain task ends, and an error in _finish.
LEMMA CloseMovesInv ==
    ASSUME Inv,
           CloseBegins \/ DrainEnded \/ CloseTimesOut \/ CloseRaises \/ FinishFails
    PROVE  Inv'
<1>1. /\ UNCHANGED <<queue, batch, conn, table, plain, thread, executed, tx, changes,
                     submitted, written, ignored, dropped>>
  BY DEF CloseBegins, DrainEnded, CloseTimesOut, CloseRaises, FinishFails, store, work,
         counters
<1>2. Accounted' /\ MemoryBounded'
  BY <1>1, AccountsUntouched
<1>3. CASE CloseBegins
  <2>1. closer = "open" /\ closer' = "putting" /\ UNCHANGED <<drain, timedOut>>
    BY <1>3 DEF CloseBegins
  <2>2. TypeOK' /\ QueueShape' /\ DrainShape' /\ CloseShape' /\ ThreadShape'
    BY <1>1, <2>1
    DEF Inv, TypeOK, QueueShape, DrainShape, CloseShape, ThreadShape
  <2> QED
    BY <1>2, <2>2 DEF Inv
<1>4. CASE DrainEnded
  <2>1. /\ closer = "waiting" /\ drain = "done" /\ closer' = "finishing"
        /\ UNCHANGED <<drain, timedOut>>
    BY <1>4 DEF DrainEnded
  <2>2. TypeOK' /\ QueueShape' /\ DrainShape' /\ CloseShape' /\ ThreadShape'
    BY <1>1, <2>1
    DEF Inv, TypeOK, QueueShape, DrainShape, CloseShape, ThreadShape
  <2> QED
    BY <1>2, <2>2 DEF Inv
<1>5. CASE CloseTimesOut
  <2>1. /\ closer = "waiting" /\ closer' = "finishing"
        /\ timedOut' = TRUE /\ drain' = "cancelled"
    BY <1>5 DEF CloseTimesOut
  <2>2. TypeOK' /\ QueueShape' /\ DrainShape' /\ CloseShape' /\ ThreadShape'
    BY <1>1, <2>1
    DEF Inv, TypeOK, QueueShape, DrainShape, CloseShape, ThreadShape
  <2> QED
    BY <1>2, <2>2 DEF Inv
<1>6. CASE CloseRaises
  <2>1. closer = "waiting" /\ closer' = "failed" /\ UNCHANGED <<drain, timedOut>>
    BY <1>6 DEF CloseRaises
  <2>2. TypeOK' /\ QueueShape' /\ DrainShape' /\ CloseShape' /\ ThreadShape'
    BY <1>1, <2>1
    DEF Inv, TypeOK, QueueShape, DrainShape, CloseShape, ThreadShape
  <2> QED
    BY <1>2, <2>2 DEF Inv
<1>7. CASE FinishFails
  <2>1. closer = "finishing" /\ closer' = "failed" /\ UNCHANGED <<drain, timedOut>>
    BY <1>7 DEF FinishFails
  <2>2. TypeOK' /\ QueueShape' /\ DrainShape' /\ CloseShape' /\ ThreadShape'
    BY <1>1, <2>1
    DEF Inv, TypeOK, QueueShape, DrainShape, CloseShape, ThreadShape
  <2> QED
    BY <1>2, <2>2 DEF Inv
<1> QED
  BY <1>3, <1>4, <1>5, <1>6, <1>7

LEMMA FinishInv ==
    ASSUME Inv, Finish
    PROVE  Inv'
<1>1. Accounted' /\ MemoryBounded'
  BY AccountsUntouched DEF Finish, counters
<1>2. TypeOK'
  <2>1. table' \subseteq Rows /\ plain' \in Nat
    BY CommitType DEF Inv, TypeOK, Finish
  <2>2. tx' \in Seq(Rows)
    BY EmptySeq DEF Finish
  <2> QED
    BY <2>1, <2>2 DEF Inv, TypeOK, Finish, counters
<1>3. QueueShape' /\ DrainShape' /\ CloseShape' /\ ThreadShape'
  BY DEF Inv, QueueShape, DrainShape, CloseShape, ThreadShape, Finish
<1> QED
  BY <1>1, <1>2, <1>3 DEF Inv

LEMMA StutterInv == Inv /\ UNCHANGED vars => Inv'
  BY DEF vars, Inv, TypeOK, Accounted, SentinelQueued, MemoryBounded, QueueShape,
         DrainShape, CloseShape, ThreadShape

LEMMA StepInv == Inv /\ [Next]_vars => Inv'
<1> SUFFICES ASSUME Inv, [Next]_vars PROVE Inv'
  OBVIOUS
<1>1. ASSUME Produce PROVE Inv'
  BY <1>1, SubmitInv DEF Produce
<1>2. ASSUME DrainStep PROVE Inv'
  BY <1>2, GetRowInv, FlushDueInv, GetSentinelInv, FlushCountedInv, FlushLostInv,
     DrainDiesInv DEF DrainStep
<1>3. ASSUME ThreadStep PROVE Inv'
  BY <1>3, ExecuteRowInv, ExecuteOverflowInv, CommitInv, WriteFailsInv DEF ThreadStep
<1>4. ASSUME CloseStep PROVE Inv'
  BY <1>4, PutSentinelInv, CloseMovesInv, FinishInv DEF CloseStep
<1>5. ASSUME UNCHANGED vars PROVE Inv'
  BY <1>5, StutterInv
<1> QED
  BY <1>1, <1>2, <1>3, <1>4, <1>5 DEF Next

-----------------------------------------------------------------------------
(* What the tables hold *)

\* A commit adds exactly the fresh rows to the tables and the loose ones beside
\* them (commit at the end of _write, and in _finish).
LEMMA CommitAdds ==
    ASSUME StoredBefore \subseteq table, IsFiniteSet(table \ StoredBefore),
           NEW t \in Seq(Rows), IsFiniteSet(Fresh(t)), plain \in Nat, CommitTo(t)
    PROVE  /\ StoredBefore \subseteq table' /\ IsFiniteSet(table' \ StoredBefore)
           /\ Cardinality(table' \ StoredBefore) + plain'
                = Cardinality(table \ StoredBefore) + plain
                  + Cardinality(Fresh(t)) + Cardinality(Loose(t))
<1>1. /\ StoredBefore \subseteq table'
      /\ table' \ StoredBefore = (table \ StoredBefore) \cup Fresh(t)
      /\ (table \ StoredBefore) \cap Fresh(t) = {}
  BY Zenon DEF CommitTo, Fresh
<1>2. /\ IsFiniteSet(table' \ StoredBefore)
      /\ Cardinality(table' \ StoredBefore)
           = Cardinality(table \ StoredBefore) + Cardinality(Fresh(t)) - 0
  BY <1>1, FS_Union, FS_EmptySet
<1>3. /\ Cardinality(table \ StoredBefore) \in Nat /\ Cardinality(Fresh(t)) \in Nat
      /\ Cardinality(Loose(t)) \in Nat
  <2>1. Loose(t) \in SUBSET DOMAIN t
    BY DEF Loose
  <2> QED
    BY <2>1, PositionsFinite, FS_CardinalityType
<1>4. plain' = plain + Cardinality(Loose(t))
  BY DEF CommitTo, Loose
<1> QED
  BY <1>1, <1>2, <1>3, <1>4

\* An empty transaction adds nothing.
LEMMA NothingToAdd ==
    /\ Fresh(<<>>) = {} /\ Loose(<<>>) = {}
    /\ IsFiniteSet(Fresh(<<>>))
    /\ Cardinality(Fresh(<<>>)) = 0 /\ Cardinality(Loose(<<>>)) = 0
<1>1. DOMAIN <<>> = {}
  BY EmptySeq
<1> QED
  BY <1>1, FS_EmptySet DEF Fresh, Loose

\* One more row adds one to what a commit would add, or nothing, as total_changes
\* counts it (INSERT OR IGNORE).
LEMMA RowAdds ==
    ASSUME tx \in Seq(Rows), NEW r \in Rows, IsFiniteSet(Fresh(tx))
    PROVE  LET t == Append(tx, r)
           IN  /\ IsFiniteSet(Fresh(t))
               /\ Cardinality(Fresh(t)) + Cardinality(Loose(t))
                    = Cardinality(Fresh(tx)) + Cardinality(Loose(tx))
                      + IF Lands(r) THEN 1 ELSE 0
               /\ \A k \in DOMAIN tx : k \in DOMAIN t /\ t[k] = tx[k]
               /\ \E k \in DOMAIN t : t[k] = r
<1> DEFINE t == Append(tx, r)
           n == Len(tx) + 1
<1>1. /\ Len(tx) \in Nat /\ DOMAIN tx = 1 .. Len(tx)
      /\ t \in Seq(Rows) /\ DOMAIN t = 1 .. n
      /\ \A k \in DOMAIN tx : t[k] = tx[k]
      /\ t[n] = r
  BY AppendProperties, LenProperties
<1>2. /\ DOMAIN t = DOMAIN tx \cup {n} /\ n \notin DOMAIN tx
      /\ \A k \in DOMAIN t : k = n \/ k \in DOMAIN tx
  BY <1>1
<1>3. /\ IsFiniteSet(Loose(tx)) /\ Cardinality(Loose(tx)) \in Nat
      /\ Cardinality(Fresh(tx)) \in Nat
  <2>1. Loose(tx) \in SUBSET DOMAIN tx
    BY DEF Loose
  <2> QED
    BY <2>1, PositionsFinite, FS_CardinalityType
<1> HIDE DEF t, n
<1>4. CASE r \in Untracked
  <2>1. Fresh(t) = Fresh(tx)
    BY <1>1, <1>2, <1>4, Zenon DEF Fresh
  <2>2. Loose(t) = Loose(tx) \cup {n}
    BY <1>1, <1>2, <1>4, Zenon DEF Loose
  <2>3. n \notin Loose(tx)
    BY <1>2 DEF Loose
  <2>4. Cardinality(Loose(t)) = Cardinality(Loose(tx)) + 1
    BY <1>3, <2>2, <2>3, FS_AddElement
  <2>5. Lands(r)
    BY <1>4 DEF Lands
  <2> QED
    BY <1>1, <1>2, <1>3, <2>1, <2>4, <2>5 DEF t
<1>5. CASE r \notin Untracked
  <2>1. Loose(t) = Loose(tx)
    BY <1>1, <1>2, <1>5, Zenon DEF Loose
  <2>2. {t[k] : k \in {k \in DOMAIN t : t[k] \notin Untracked}}
          = {tx[k] : k \in {k \in DOMAIN tx : tx[k] \notin Untracked}} \cup {r}
    <3>1. n \in {k \in DOMAIN t : t[k] \notin Untracked}
      BY <1>1, <1>2, <1>5, Zenon
    <3> QED
      BY <1>1, <1>2, <1>5, <3>1, SMT
  <2>3. CASE r \in table
    <3>1. Fresh(t) = Fresh(tx)
      BY <2>2, <2>3, Zenon DEF Fresh
    <3>2. ~Lands(r)
      BY <1>5, <2>3 DEF Lands
    <3> QED
      BY <1>1, <1>2, <1>3, <2>1, <3>1, <3>2 DEF t
  <2>4. CASE r \notin table
    <3>1. Fresh(t) = Fresh(tx) \cup {r}
      BY <2>2, <2>4, Zenon DEF Fresh
    <3>2. r \in Fresh(tx) <=> InTransaction(r)
      BY <1>5, <2>4, Zenon DEF Fresh, InTransaction
    <3>3. Lands(r) <=> r \notin Fresh(tx)
      BY <1>5, <2>4, <3>2 DEF Lands
    <3>4. /\ IsFiniteSet(Fresh(t))
          /\ Cardinality(Fresh(t))
               = IF r \in Fresh(tx) THEN Cardinality(Fresh(tx)) ELSE Cardinality(Fresh(tx)) + 1
      BY <3>1, FS_AddElement
    <3> QED
      BY <1>1, <1>2, <1>3, <2>1, <3>3, <3>4 DEF t
  <2> QED
    BY <2>3, <2>4
<1> QED
  BY <1>4, <1>5 DEF t

LEMMA InitStore == Init => StoreInv
<1> SUFFICES ASSUME Init PROVE StoreInv
  OBVIOUS
<1>1. table \ StoredBefore = {} /\ Cardinality(table \ StoredBefore) = 0
  BY FS_EmptySet DEF Init
<1>2. StoreShape
  BY <1>1, FS_EmptySet DEF Init, StoreShape
<1>3. WrittenIsStored
  BY <1>1 DEF Init, WrittenIsStored
<1> QED
  BY <1>2, <1>3, InitInv DEF StoreInv

\* Steps that touch neither the tables nor an open transaction, and start or end
\* none: `written` and the tables stay as they are.
LEMMA StoreUntouched ==
    ASSUME StoreInv, Inv',
           UNCHANGED <<table, plain, written, changes>>,
           timedOut => timedOut',
           thread' \notin {"writing", "committed"} \/ UNCHANGED <<thread, tx, batch, executed>>,
           thread = "committed" => thread' = "committed"
    PROVE  StoreInv'
<1>1. StoreShape'
  <2>1. CASE thread' = "writing"
    BY <2>1, Zenon DEF StoreInv, StoreShape, Fresh, Loose
  <2>2. CASE thread' # "writing"
    BY <2>2 DEF StoreInv, StoreShape
  <2> QED
    BY <2>1, <2>2
<1>2. WrittenIsStored'
  <2>1. thread' = "committed" <=> thread = "committed"
    BY DEF StoreInv
  <2> QED
    BY <2>1 DEF StoreInv, WrittenIsStored
<1> QED
  BY <1>1, <1>2 DEF StoreInv

\* A flush begins with an empty transaction and a count of zero (total_changes is
\* read before the inserts).
LEMMA StartFlushStore ==
    ASSUME StoreInv, Inv', drain = "getting",
           NEW b \in Seq(Rows), NEW stage, StartFlush(b, stage),
           UNCHANGED <<timedOut, table, plain, written>>
    PROVE  StoreInv'
<1>1. /\ tx' = <<>> /\ changes' = 0 /\ executed' = {} /\ thread' = "writing"
      /\ thread = "idle"
  BY DEF StoreInv, Inv, ThreadShape, StartFlush
<1>2. StoreShape'
  <2>1. Fresh(tx)' = {} /\ Loose(tx)' = {}
    <3>1. DOMAIN tx' = {}
      BY <1>1, EmptySeq
    <3> QED
      BY <3>1 DEF Fresh, Loose
  <2>2. changes' = Cardinality(Fresh(tx)') + Cardinality(Loose(tx)') /\ IsFiniteSet(Fresh(tx)')
    <3>1. /\ IsFiniteSet(Fresh(tx)') /\ Cardinality(Fresh(tx)') = 0
          /\ Cardinality(Loose(tx)') = 0
      BY <2>1, FS_EmptySet, Zenon
    <3> QED
      BY <1>1, <3>1
  <2>3. \A i \in executed' : \E k \in DOMAIN tx' : tx'[k] = batch'[i]
    BY <1>1
  <2> QED
    BY <2>2, <2>3 DEF StoreInv, StoreShape
<1>3. WrittenIsStored'
  BY <1>1 DEF StoreInv, WrittenIsStored
<1> QED
  BY <1>2, <1>3 DEF StoreInv

LEMMA DrainStore ==
    ASSUME StoreInv, Inv', DrainStep
    PROVE  StoreInv'
<1>1. CASE GetRow
  <2>1. /\ drain = "getting" /\ Append(batch, Head(queue)) \in Seq(Rows)
        /\ UNCHANGED <<timedOut, table, plain, written>>
    <3>1. Head(queue) \in Rows
      BY <1>1, QueueEnds DEF GetRow, StoreInv, Inv
    <3> QED
      BY <1>1, <3>1, AppendProperties DEF GetRow, StoreInv, Inv, TypeOK, store, counters
  <2>2. CASE StartFlush(Append(batch, Head(queue)), "flushing")
    BY <2>1, <2>2, StartFlushStore
  <2>3. CASE UNCHANGED <<drain, work>>
    <3>1. thread = "idle" /\ UNCHANGED <<thread, changes>>
      BY <2>1, <2>3 DEF StoreInv, Inv, ThreadShape, work
    <3> QED
      BY <2>1, <3>1, StoreUntouched
  <2> QED
    BY <1>1, <2>2, <2>3 DEF GetRow
<1>2. CASE FlushDue
  <2>1. /\ drain = "getting" /\ batch \in Seq(Rows)
        /\ UNCHANGED <<timedOut, table, plain, written>>
    BY <1>2 DEF FlushDue, StoreInv, Inv, TypeOK, store, counters
  <2> QED
    BY <1>2, <2>1, StartFlushStore DEF FlushDue
<1>3. CASE GetSentinel
  <2>1. /\ drain = "getting" /\ batch \o Tail(queue) \in Seq(Rows)
        /\ UNCHANGED <<timedOut, table, plain, written>>
    <3>1. Tail(queue) = <<>>
      BY <1>3, QueueEnds DEF GetSentinel, StoreInv, Inv
    <3> QED
      BY <1>3, <3>1, ConcatEmptySeq DEF GetSentinel, StoreInv, Inv, TypeOK, store, counters
  <2>2. CASE StartFlush(batch \o Tail(queue), "final")
    BY <2>1, <2>2, StartFlushStore
  <2>3. CASE UNCHANGED <<batch, work>>
    <3>1. thread = "idle" /\ UNCHANGED <<thread, changes>>
      BY <2>1, <2>3 DEF StoreInv, Inv, ThreadShape, work
    <3> QED
      BY <2>1, <3>1, StoreUntouched
  <2> QED
    BY <1>3, <2>2, <2>3 DEF GetSentinel
<1>4. CASE FlushCounted
  <2>1. /\ thread = "committed" /\ thread' = "idle" /\ written' = written + changes
        /\ UNCHANGED <<timedOut, table, plain>>
    BY <1>4 DEF FlushCounted, Resume, store
  <2>2. StoreShape'
    BY <2>1 DEF StoreInv, StoreShape
  <2>3. WrittenIsStored'
    BY <2>1 DEF StoreInv, Inv, TypeOK, WrittenIsStored
  <2> QED
    BY <2>2, <2>3 DEF StoreInv
<1>5. CASE FlushLost
  <2>1. /\ thread = "failed" /\ thread' = "idle"
        /\ UNCHANGED <<timedOut, table, plain, written, changes>>
    BY <1>5 DEF FlushLost, Resume, store
  <2> QED
    BY <2>1, StoreUntouched
<1>6. CASE DrainDies
  <2>1. /\ thread = "raised" /\ thread' = "idle"
        /\ UNCHANGED <<timedOut, table, plain, written, changes>>
    BY <1>6 DEF DrainDies, store, counters
  <2> QED
    BY <2>1, StoreUntouched
<1> QED
  BY <1>1, <1>2, <1>3, <1>4, <1>5, <1>6 DEF DrainStep

LEMMA ExecuteRowStore ==
    ASSUME StoreInv, Inv', NEW i \in DOMAIN batch, ExecuteRow(i)
    PROVE  StoreInv'
<1>1. /\ thread = "writing" /\ thread' = "writing"
      /\ executed' = executed \cup {i} /\ tx' = Append(tx, batch[i])
      /\ changes' = changes + IF Lands(batch[i]) THEN 1 ELSE 0
      /\ UNCHANGED <<timedOut, table, plain, written, batch>>
  BY DEF ExecuteRow, store, counters
<1>2. StoreShape'
  <2> SUFFICES ASSUME ~timedOut
               PROVE  /\ IsFiniteSet(Fresh(tx)')
                      /\ changes' = Cardinality(Fresh(tx)') + Cardinality(Loose(tx)')
                      /\ \A j \in executed' : \E k \in DOMAIN tx' : tx'[k] = batch'[j]
    BY <1>1 DEF StoreInv, StoreShape
  <2> DEFINE t == Append(tx, batch[i])
  <2>1. /\ tx \in Seq(Rows) /\ batch[i] \in Rows
        /\ IsFiniteSet(Fresh(tx))
        /\ changes = Cardinality(Fresh(tx)) + Cardinality(Loose(tx))
        /\ \A j \in executed : \E k \in DOMAIN tx : tx[k] = batch[j]
    BY <1>1, LenProperties DEF StoreInv, StoreShape, Inv, TypeOK
  <2>2. /\ IsFiniteSet(Fresh(t))
        /\ Cardinality(Fresh(t)) + Cardinality(Loose(t))
             = Cardinality(Fresh(tx)) + Cardinality(Loose(tx))
               + IF Lands(batch[i]) THEN 1 ELSE 0
        /\ \A k \in DOMAIN tx : k \in DOMAIN t /\ t[k] = tx[k]
        /\ \E k \in DOMAIN t : t[k] = batch[i]
    BY <2>1, RowAdds
  <2> HIDE DEF t
  <2>3. Fresh(tx)' = Fresh(t) /\ Loose(tx)' = Loose(t)
    BY <1>1 DEF Fresh, Loose, t
  <2>4. \A j \in executed' : \E k \in DOMAIN t : t[k] = batch[j]
    BY <1>1, <2>1, <2>2, Zenon
  <2> QED
    BY <1>1, <2>1, <2>2, <2>3, <2>4 DEF t
<1>3. WrittenIsStored'
  BY <1>1 DEF StoreInv, WrittenIsStored
<1> QED
  BY <1>2, <1>3 DEF StoreInv

LEMMA CommitStore ==
    ASSUME StoreInv, Inv', Commit
    PROVE  StoreInv'
<1>1. /\ thread = "writing" /\ thread' = "committed" /\ CommitTo(tx)
      /\ UNCHANGED <<timedOut, changes, written>>
  BY DEF Commit, counters
<1>2. CASE timedOut
  <2>1. StoredBefore \subseteq table'
    BY <1>1 DEF StoreInv, StoreShape, CommitTo
  <2> QED
    BY <1>1, <1>2, <2>1 DEF StoreInv, StoreShape, WrittenIsStored
<1>3. CASE ~timedOut
  <2>1. /\ StoredBefore \subseteq table' /\ IsFiniteSet(table' \ StoredBefore)
        /\ Cardinality(table' \ StoredBefore) + plain'
             = Cardinality(table \ StoredBefore) + plain
               + Cardinality(Fresh(tx)) + Cardinality(Loose(tx))
    <3>1. /\ StoredBefore \subseteq table /\ IsFiniteSet(table \ StoredBefore)
          /\ tx \in Seq(Rows) /\ IsFiniteSet(Fresh(tx)) /\ plain \in Nat
      BY <1>1, <1>3 DEF StoreInv, StoreShape, Inv, TypeOK
    <3> QED
      BY <1>1, <3>1, CommitAdds
  <2>2. changes = Cardinality(Fresh(tx)) + Cardinality(Loose(tx))
    BY <1>1, <1>3 DEF StoreInv, StoreShape
  <2>3. written = Cardinality(table \ StoredBefore) + plain /\ written \in Nat
    BY <1>1, <1>3 DEF StoreInv, Inv, TypeOK, WrittenIsStored
  <2>4. /\ Cardinality(Fresh(tx)) \in Nat /\ Cardinality(Loose(tx)) \in Nat
        /\ Cardinality(table \ StoredBefore) \in Nat /\ plain \in Nat
    <3>1. Loose(tx) \in SUBSET DOMAIN tx
      BY DEF Loose
    <3> QED
      BY <1>1, <1>3, <3>1, PositionsFinite, FS_CardinalityType
      DEF StoreInv, StoreShape, Inv, TypeOK
  <2>5. WrittenIsStored'
    BY <1>1, <2>1, <2>2, <2>3, <2>4 DEF WrittenIsStored
  <2>6. StoreShape'
    BY <1>1, <2>1 DEF StoreShape
  <2> QED
    BY <2>5, <2>6 DEF StoreInv
<1> QED
  BY <1>2, <1>3

\* _finish without a timeout finds nothing to commit but its own row.
LEMMA FinishStore ==
    ASSUME StoreInv, Inv', Finish
    PROVE  StoreInv' /\ (~timedOut => table' = table)
<1>1. UNCHANGED <<timedOut, thread, changes, written>> /\ tx' = <<>> /\ CommitTo(tx)
  BY DEF Finish, counters
<1>2. CASE timedOut
  <2>1. StoredBefore \subseteq table'
    BY <1>1 DEF StoreInv, StoreShape, CommitTo
  <2> QED
    BY <1>1, <1>2, <2>1 DEF StoreInv, StoreShape, WrittenIsStored
<1>3. CASE ~timedOut
  <2>1. drain = "done" /\ tx = <<>> /\ thread = "idle"
    BY <1>3 DEF StoreInv, Inv, Finish, CloseShape, ThreadShape
  <2>2. table' = table \cup Fresh(tx) /\ plain' = plain + Cardinality(Loose(tx))
    BY <1>1, Zenon DEF CommitTo, Fresh, Loose
  <2>3. table' = table /\ plain' = plain
    BY <2>1, <2>2, NothingToAdd DEF StoreInv, Inv, TypeOK
  <2> QED
    BY <1>1, <2>1, <2>3, StoreUntouched
<1> QED
  BY <1>2, <1>3

LEMMA StepStore == StoreInv /\ [Next]_vars => StoreInv'
<1> SUFFICES ASSUME StoreInv, [Next]_vars PROVE StoreInv'
  OBVIOUS
<1>1. Inv'
  BY StepInv DEF StoreInv
<1>2. CASE Produce
  <2>1. UNCHANGED <<table, plain, written, changes, timedOut, thread, tx, batch, executed>>
    BY <1>2 DEF Produce, Submit, Accept, store, work
  <2> QED
    BY <1>1, <2>1, StoreUntouched
<1>3. CASE DrainStep
  BY <1>1, <1>3, DrainStore
<1>4. CASE ThreadStep
  <2>1. ASSUME NEW i \in DOMAIN batch, ExecuteOverflow(i) PROVE StoreInv'
    <3>1. /\ thread = "writing" /\ thread' = "raised"
          /\ UNCHANGED <<table, plain, written, changes, timedOut>>
      BY <2>1 DEF ExecuteOverflow, store, counters
    <3> QED
      BY <1>1, <3>1, StoreUntouched
  <2>2. CASE WriteFails
    <3>1. /\ thread = "writing" /\ thread' = "failed"
          /\ UNCHANGED <<table, plain, written, changes, timedOut>>
      BY <2>2 DEF WriteFails, store, counters
    <3> QED
      BY <1>1, <3>1, StoreUntouched
  <2> QED
    BY <1>1, <1>4, <2>1, <2>2, ExecuteRowStore, CommitStore DEF ThreadStep
<1>5. CASE CloseStep
  <2>1. CASE Finish
    BY <1>1, <2>1, FinishStore
  <2>2. CASE \/ CloseBegins \/ PutSentinel \/ DrainEnded
             \/ CloseTimesOut \/ CloseRaises \/ FinishFails
    <3>1. /\ UNCHANGED <<table, plain, written, changes, thread, tx, batch, executed>>
          /\ timedOut => timedOut'
      BY <2>2 DEF CloseBegins, PutSentinel, DrainEnded, CloseTimesOut, CloseRaises,
                  FinishFails, store, work, counters
    <3> QED
      BY <1>1, <3>1, StoreUntouched
  <2> QED
    BY <1>5, <2>1, <2>2 DEF CloseStep
<1>6. CASE UNCHANGED vars
  <2>1. UNCHANGED <<table, plain, written, changes, timedOut, thread, tx, batch, executed>>
    BY <1>6 DEF vars
  <2> QED
    BY <1>1, <2>1, StoreUntouched
<1> QED
  BY <1>2, <1>3, <1>4, <1>5, <1>6 DEF Next

\* Which steps change the tables, and with what.
LEMMA StepAtomic ==
    ASSUME StoreInv, [Next]_vars, ~timedOut, table' # table
    PROVE  \A i \in DOMAIN batch : batch[i] \in Untracked \/ batch[i] \in table'
<1>1. Commit
  <2>1. ~(Produce \/ DrainStep \/ UNCHANGED vars)
    BY DEF Produce, Submit, Accept, DrainStep, GetRow, FlushDue, GetSentinel,
           FlushCounted, FlushLost, DrainDies, Resume, store, vars
  <2>2. ~(WriteFails \/ \E i \in DOMAIN batch : ExecuteRow(i) \/ ExecuteOverflow(i))
    BY DEF WriteFails, ExecuteRow, ExecuteOverflow, store
  <2>3. ~CloseStep
    <3>1. ~Finish
      BY FinishStore, StepInv DEF StoreInv
    <3> QED
      BY <3>1 DEF CloseStep, CloseBegins, PutSentinel, DrainEnded, CloseTimesOut,
                  CloseRaises, FinishFails, store, work
  <2> QED
    BY <2>1, <2>2, <2>3 DEF Next, ThreadStep
<1>2. /\ executed = DOMAIN batch
      /\ \A i \in executed : \E k \in DOMAIN tx : tx[k] = batch[i]
      /\ table' = table \cup {tx[k] : k \in {k \in DOMAIN tx : tx[k] \notin Untracked}}
  BY <1>1 DEF Commit, CommitTo, StoreInv, StoreShape
<1> SUFFICES ASSUME NEW i \in DOMAIN batch, batch[i] \notin Untracked
             PROVE  batch[i] \in table'
  OBVIOUS
<1>3. PICK k \in DOMAIN tx : tx[k] = batch[i]
  BY <1>2
<1> QED
  BY <1>2, <1>3, Zenon

-----------------------------------------------------------------------------
(* Theorems *)

\* For every queue size, batch size and set of rows: the invariant that relates
\* the queue, the batch, the transaction and close() holds throughout.
THEOREM InvHolds == Spec => []Inv
  BY InitInv, StepInv, PTL DEF Spec

\* The writer's state keeps its shape: in particular no counter goes negative,
\* although _flush computes `ignored` by a subtraction.
THEOREM TypeCorrect == Spec => []TypeOK
<1>1. Inv => TypeOK
  BY DEF Inv
<1> QED
  BY <1>1, InvHolds, PTL

\* Every submitted row is counted or still in memory, once (_put, _flush).
THEOREM NothingUnaccounted == Spec => []Accounted
<1>1. Inv => Accounted
  BY DEF Inv
<1> QED
  BY <1>1, InvHolds, PTL

\* The queue and the batch keep their bounds, the batch of close() included.
THEOREM MemoryIsBounded == Spec => []MemoryBounded
<1>1. Inv => MemoryBounded
  BY DEF Inv
<1> QED
  BY <1>1, InvHolds, PTL

\* A close() that did not time out leaves no row in memory (close, _drain_loop).
THEOREM OrderlyCloseIsComplete == Spec => []CloseLosesNothing
<1>1. ASSUME Inv PROVE CloseLosesNothing
  <2> SUFFICES ASSUME closer = "closed", ~timedOut
               PROVE  submitted = written + ignored + dropped /\ tx = <<>>
    BY DEF CloseLosesNothing
  <2>1. drain = "done"
    BY <1>1 DEF Inv, CloseShape
  <2>2. queue = <<>> /\ batch = <<>> /\ tx = <<>>
    BY <1>1, <2>1 DEF Inv, DrainShape, ThreadShape
  <2>3. Len(queue) = 0 /\ Len(batch) = 0 /\ SentinelQueued = 0
    BY <2>2, EmptySeq DEF SentinelQueued
  <2> QED
    BY <1>1, <2>2, <2>3 DEF Inv, TypeOK, Accounted
<1> QED
  BY <1>1, InvHolds, PTL

\* For every set of rows: the open transaction, the count of changes and the
\* tables agree, as long as close() has not given up waiting.
THEOREM StoreInvHolds == Spec => []StoreInv
  BY InitStore, StepStore, PTL DEF Spec

\* `written` is the number of rows this run added to the database: duplicates
\* inside a batch, across batches and from an earlier run, failed transactions and
\* rows without a unique index included (_write, _flush, total_changes).
THEOREM WrittenIsTrue == Spec => []WrittenIsStored
<1>1. StoreInv => WrittenIsStored
  BY DEF StoreInv
<1> QED
  BY <1>1, StoreInvHolds, PTL

\* The tables change by whole batches, whatever fails (BEGIN, commit and rollback
\* in _write), unless close() gave up waiting.
THEOREM BatchesAreAtomic == Spec => BatchAtomic
<1>1. StoreInv /\ [Next]_vars =>
        [~timedOut /\ table' # table =>
           \A i \in DOMAIN batch : batch[i] \in Untracked \/ batch[i] \in table']_vars
  BY StepAtomic
<1> QED
  BY <1>1, StoreInvHolds, PTL DEF Spec, BatchAtomic

-----------------------------------------------------------------------------
(* The program's run.                                                      *)

\* A step that is neither a submission nor the call of close() leaves the call of
\* close() where it is.
LEMMA WritingKeepsOpen ==
    ASSUME Writing
    PROVE  /\ Next
           /\ UNCHANGED <<main, live>>
           /\ closer = "open" <=> closer' = "open"
<1>1. Next /\ UNCHANGED <<main, live>>
  BY DEF Writing, Next, CloseStep
<1>2. DrainStep => closer' = closer
  BY DEF DrainStep, GetRow, FlushDue, GetSentinel, FlushCounted, FlushLost, DrainDies, Resume
<1>3. ThreadStep => closer' = closer
  BY DEF ThreadStep, ExecuteRow, ExecuteOverflow, Commit, WriteFails
<1>4. ASSUME \/ PutSentinel \/ DrainEnded \/ CloseTimesOut \/ CloseRaises
             \/ Finish \/ FinishFails
      PROVE  closer # "open" /\ closer' # "open"
  BY <1>4 DEF PutSentinel, DrainEnded, CloseTimesOut, CloseRaises, Finish, FinishFails
<1> QED
  BY <1>1, <1>2, <1>3, <1>4 DEF Writing

\* Each step of the program is one of Writer's, or leaves the writer alone, and keeps
\* the order of tasks and close().
LEMMA StepKeepsContract ==
    ASSUME LifeInv, [LifeNext]_lifeVars
    PROVE  [Next]_vars /\ LifeInv'
<1>1. CASE Running
  <2>1. CASE BuildFails \/ Launch \/ RequestStop \/ CancelAll
    BY <2>1 DEF BuildFails, Launch, RequestStop, CancelAll, LifeInv, vars
  <2>2. CASE Gathered
    BY <2>2 DEF Gathered, CloseBegins, Next, CloseStep, LifeInv
  <2>3. CASE Ends
    BY <2>3 DEF Ends, LifeInv, vars
  <2>4. CASE \E t \in Tasks : TaskEnds(t)
    BY <2>4 DEF TaskEnds, LifeInv, vars
  <2> QED
    BY <1>1, <2>1, <2>2, <2>3, <2>4 DEF Running
<1>2. CASE Feeding
  <2>1. PICK t \in Tasks, r \in Rows : TaskSubmits(t, r)
    BY <1>2 DEF Feeding
  <2>2. closer = "open" /\ Submit(r)
    BY <2>1 DEF TaskSubmits, Submit, LifeInv
  <2>3. closer' = closer
    BY <2>1 DEF TaskSubmits, Accept
  <2> QED
    BY <2>1, <2>2, <2>3 DEF Next, Produce, TaskSubmits, LifeInv
<1>3. CASE Writing
  BY <1>3, WritingKeepsOpen DEF LifeInv
<1>4. CASE UNCHANGED lifeVars
  BY <1>4 DEF lifeVars, vars, LifeInv
<1> QED
  BY <1>1, <1>2, <1>3, <1>4 DEF LifeNext

\* Whatever the tasks do and whenever the stop comes, the program uses the writer as
\* the writer demands: it implements Writer's specification.
THEOREM ContractIsKept == LifeSpec => KeepsContract
<1>1. LifeInit => Init /\ LifeInv
  BY DEF LifeInit, Init, LifeInv
<1>2. LifeInv /\ [LifeNext]_lifeVars => [Next]_vars /\ LifeInv'
  BY StepKeepsContract
<1> QED
  BY <1>1, <1>2, PTL DEF LifeSpec, KeepsContract, Spec

\* A run that is stopped and whose close() is not timed out stores or counts every row
\* any of its tasks has submitted.
THEOREM RunLosesNothing == LifeSpec => [](Accounted /\ CloseLosesNothing)
<1>1. LifeSpec => Spec
  BY ContractIsKept DEF KeepsContract
<1> QED
  BY <1>1, NothingUnaccounted, OrderlyCloseIsComplete, PTL
=============================================================================
