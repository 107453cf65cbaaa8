------------------------------- MODULE Writer -------------------------------
(***************************************************************************)
(* The SQLite writer: storage/sqlite_writer.py.                            *)
(*                                                                         *)
(* Three actors share it.  Producers (supervisors, adapters, the sampler)  *)
(* call submit_* synchronously and never wait; the drain task collects     *)
(* rows into a batch and hands the batch to a thread; the thread runs one  *)
(* transaction on the connection.  close() puts a sentinel behind the last *)
(* row, waits for the drain task for at most 30 s and closes the           *)
(* connection.  asyncio runs every stretch without an await as one step,   *)
(* so an action is such a stretch; the thread is not bound by that and     *)
(* takes a step per row.                                                   *)
(*                                                                         *)
(* A row is a member of Rows; two submissions of the same member are the   *)
(* same row to the unique indexes (a snapshot of one grid instant, a trade *)
(* with one id).  Column values are abstracted.                            *)
(***************************************************************************)
EXTENDS Integers, Sequences, FiniteSets

CONSTANTS
    Rows,           \* the rows producers may submit, records with a kind
    Untracked,      \* the rows no unique index covers
    Overflowing,    \* rows with an integer SQLite cannot bind (>= 2^63)
    StoredBefore,   \* trades an earlier run left in the database
    QueueMaxsize,   \* storage.queue_maxsize
    BatchSize,      \* storage.batch_size
    MaxSubmit       \* bound: submissions in one behaviour

Snap == "snap"   Upd == "upd"   Trd == "trd"   Event == "event"   Lat == "lat"

\* The order in which _write executes the kinds of a batch.
Rank == [kind \in {Snap, Upd, Trd, Event, Lat} |->
           CASE kind = Snap -> 1 [] kind = Upd -> 2 [] kind = Trd -> 3
             [] kind = Event -> 4 [] kind = Lat -> 5]

\* The shutdown marker: not a row.
Sentinel == [kind |-> "sentinel", id |-> 0]

\* storage.queue_maxsize >= 100 and storage.batch_size >= 1 in config.py; the
\* model needs only that both are positive.
ASSUME SizesAssumption ==
    /\ QueueMaxsize \in Nat \ {0}
    /\ BatchSize \in Nat \ {0}
    /\ MaxSubmit \in Nat

\* Events, updates and latencies have no unique index, nor have trades
\* without an id; grid snapshots always do, and it names the run.
ASSUME RowsAssumption ==
    /\ \A r \in Rows : r.kind \in DOMAIN Rank
    /\ Untracked \subseteq Rows
    /\ \A r \in Rows : r.kind \in {Upd, Event, Lat} => r \in Untracked
    /\ \A r \in Rows : r.kind = Snap => r \notin Untracked
    /\ Overflowing \subseteq Rows
    /\ StoredBefore \subseteq {r \in Rows \ Untracked : r.kind = Trd}

VARIABLES
    queue,      \* asyncio.Queue: submitted rows, then perhaps the sentinel
    batch,      \* rows the drain task holds
    drain,      \* where the drain task is
    closer,     \* where close() is
    timedOut,   \* the 30 s wait of close() expired
    conn,       \* the SQLite connection
    thread,     \* the thread of the current to_thread(_write)
    executed,   \* positions of the batch the thread has executed
    tx,         \* rows of the open transaction
    changes,    \* total_changes since the thread began: rows that landed
    table,      \* committed rows under a unique index
    plain,      \* number of committed rows of this run without one
    submitted,  \* ghost: calls of submit_*
    written, ignored, dropped   \* the writer's own counters

vars == <<queue, batch, drain, closer, timedOut, conn, thread, executed, tx,
          changes, table, plain, submitted, written, ignored, dropped>>

counters == <<written, ignored, dropped>>
store == <<conn, table, plain>>
work == <<thread, executed, tx, changes>>

Init ==
    /\ queue = <<>> /\ batch = <<>>
    /\ drain = "getting" /\ closer = "open" /\ timedOut = FALSE
    /\ conn = "open" /\ thread = "idle"
    /\ executed = {} /\ tx = <<>> /\ changes = 0
    /\ table = StoredBefore /\ plain = 0
    /\ submitted = 0 /\ written = 0 /\ ignored = 0 /\ dropped = 0

-----------------------------------------------------------------------------
(* Producers *)

\* _put on a queue with room.
PutWithRoom(r) ==
    /\ Len(queue) < QueueMaxsize
    /\ queue' = Append(queue, r)
    /\ UNCHANGED dropped

\* Mutant: the queue grows instead.
PutDroppingNone(r) ==
    /\ Len(queue) = QueueMaxsize
    /\ queue' = Append(queue, r)
    /\ UNCHANGED dropped

\* _put on a full queue: the oldest item makes room, whatever it is.
PutDroppingOldest(r) ==
    /\ Len(queue) = QueueMaxsize
    /\ queue' = Append(Tail(queue), r)
    /\ dropped' = dropped + 1

\* submit_snapshot, submit_update, submit_trade, submit_event and
\* submit_latency: nothing in them asks whether the writer is closing.
Accept(r) ==
    /\ submitted < MaxSubmit
    /\ PutWithRoom(r) \/ PutDroppingOldest(r)
    /\ submitted' = submitted + 1
    /\ UNCHANGED <<batch, drain, closer, timedOut, store, work, written, ignored>>

\* What the writer relies on: nobody submits once close() is called.  Lifecycle
\* shows that run_forever keeps to it.
Submit(r) == closer = "open" /\ Accept(r)

-----------------------------------------------------------------------------
(* The drain task *)

\* Mutant: total_changes is not read before the inserts.
StartFlushKeepingCount(b, stage) ==
    /\ batch' = b /\ drain' = stage /\ thread' = "writing"
    /\ executed' = {}
    /\ UNCHANGED <<tx, changes>>

\* _flush up to its to_thread: an empty batch is not written.
StartFlush(b, stage) ==
    /\ batch' = b
    /\ drain' = stage
    /\ thread' = "writing"
    /\ executed' = {} /\ changes' = 0
    /\ UNCHANGED tx

\* An item arrives: a full batch is flushed at once, any batch when the flush
\* interval has passed since the last flush.
GetRow ==
    /\ drain = "getting"
    /\ queue # <<>> /\ Head(queue) # Sentinel
    /\ queue' = Tail(queue)
    /\ LET b == Append(batch, Head(queue))
       IN \/ StartFlush(b, "flushing")
          \/ /\ Len(b) < BatchSize
             /\ batch' = b
             /\ UNCHANGED <<drain, work>>
    /\ UNCHANGED <<closer, timedOut, store, submitted, counters>>

\* Mutant: the timeout of queue.get() flushes only a full batch.
FlushDueWhenFull ==
    /\ drain = "getting" /\ Len(batch) >= BatchSize
    /\ StartFlush(batch, "flushing")
    /\ UNCHANGED <<queue, closer, timedOut, store, submitted, counters>>

\* No item until the flush interval has passed.
FlushDue ==
    /\ drain = "getting"
    /\ batch # <<>>
    /\ StartFlush(batch, "flushing")
    /\ UNCHANGED <<queue, closer, timedOut, store, submitted, counters>>

\* Mutant: the loop ends at the sentinel without the last flush.
GetSentinelUnflushed ==
    /\ drain = "getting" /\ queue # <<>> /\ Head(queue) = Sentinel
    /\ queue' = <<>> /\ drain' = "done"
    /\ UNCHANGED <<batch, closer, timedOut, store, work, submitted, counters>>

\* The sentinel: whatever is still queued joins the last batch.
GetSentinel ==
    /\ drain = "getting"
    /\ queue # <<>> /\ Head(queue) = Sentinel
    /\ queue' = <<>>
    /\ LET b == batch \o Tail(queue)
       IN \/ b # <<>> /\ StartFlush(b, "final")
          \/ b = <<>> /\ drain' = "done" /\ UNCHANGED <<batch, work>>
    /\ UNCHANGED <<closer, timedOut, store, submitted, counters>>

\* Mutant: the loop goes on after the last flush.
ResumeGetting ==
    /\ drain \in {"flushing", "final"}
    /\ drain' = "getting" /\ thread' = "idle"
    /\ batch' = <<>> /\ executed' = {}
    /\ UNCHANGED <<queue, closer, timedOut, store, tx, changes, submitted>>

\* _flush after to_thread: the counters, then the loop or its end.
Resume ==
    /\ drain \in {"flushing", "final"}
    /\ drain' = IF drain = "final" THEN "done" ELSE "getting"
    /\ thread' = "idle"
    /\ batch' = <<>> /\ executed' = {}
    /\ UNCHANGED <<queue, closer, timedOut, store, tx, changes, submitted>>

FlushCounted ==
    /\ thread = "committed"
    /\ Resume
    /\ written' = written + changes
    /\ ignored' = ignored + (Len(batch) - changes)
    /\ UNCHANGED dropped

\* Mutant: a lost batch counts as one lost row.
FlushLostAsOne ==
    /\ thread = "failed" /\ Resume
    /\ dropped' = dropped + 1
    /\ UNCHANGED <<written, ignored>>

FlushLost ==
    /\ thread = "failed"
    /\ Resume
    /\ dropped' = dropped + Len(batch)
    /\ UNCHANGED <<written, ignored>>

\* An exception that is not a sqlite3.Error leaves _flush and ends the task.
DrainDies ==
    /\ thread = "raised"
    /\ drain \in {"flushing", "final"}
    /\ drain' = "dead"
    /\ thread' = "idle"
    /\ UNCHANGED <<queue, batch, closer, timedOut, store, executed, tx, changes,
                   submitted, counters>>

-----------------------------------------------------------------------------
(* The thread *)

\* executemany runs kind by kind, and in batch order within a kind.
Before(i, j) ==
    \/ Rank[batch[i].kind] < Rank[batch[j].kind]
    \/ Rank[batch[i].kind] = Rank[batch[j].kind] /\ i <= j

NextRow(i) ==
    /\ i \in DOMAIN batch \ executed
    /\ \A j \in DOMAIN batch \ executed : Before(i, j)

InTransaction(r) == \E k \in DOMAIN tx : tx[k] = r

\* INSERT OR IGNORE: a row under a unique index lands once.
Lands(r) == r \in Untracked \/ (r \notin table /\ ~InTransaction(r))

ExecuteRow(i) ==
    /\ thread = "writing" /\ conn = "open"
    /\ NextRow(i)
    /\ batch[i] \notin Overflowing
    /\ executed' = executed \cup {i}
    /\ tx' = Append(tx, batch[i])
    /\ changes' = changes + IF Lands(batch[i]) THEN 1 ELSE 0
    /\ UNCHANGED <<queue, batch, drain, closer, timedOut, store, thread,
                   submitted, counters>>

\* Binding the row raises OverflowError: no rollback.
ExecuteOverflow(i) ==
    /\ thread = "writing" /\ conn = "open"
    /\ NextRow(i)
    /\ batch[i] \in Overflowing
    /\ thread' = "raised"
    /\ UNCHANGED <<queue, batch, drain, closer, timedOut, store, executed, tx,
                   changes, submitted, counters>>

\* What the tables hold once a transaction is committed.
CommitTo(t) ==
    /\ table' = table \cup {t[k] : k \in {k \in DOMAIN t : t[k] \notin Untracked}}
    /\ plain' = plain + Cardinality({k \in DOMAIN t : t[k] \in Untracked})

\* Mutant: a commit after every kind.
CommitEarly ==
    /\ thread = "writing" /\ conn = "open"
    /\ CommitTo(tx) /\ tx' = <<>>
    /\ thread' = IF executed = DOMAIN batch THEN "committed" ELSE thread
    /\ UNCHANGED <<queue, batch, drain, closer, timedOut, conn, executed, changes,
                   submitted, counters>>

Commit ==
    /\ thread = "writing" /\ conn = "open"
    /\ executed = DOMAIN batch
    /\ CommitTo(tx)
    /\ tx' = <<>>
    /\ thread' = "committed"
    /\ UNCHANGED <<queue, batch, drain, closer, timedOut, conn, executed, changes,
                   submitted, counters>>

\* Mutant: no rollback.
WriteFailsInPlace ==
    /\ thread = "writing" /\ thread' = "failed"
    /\ UNCHANGED <<queue, batch, drain, closer, timedOut, store, executed, tx, changes,
                   submitted, counters>>

\* A sqlite3.Error before the commit (locked, disk full, connection closed):
\* rollback.
WriteFails ==
    /\ thread = "writing"
    /\ tx' = <<>>
    /\ thread' = "failed"
    /\ UNCHANGED <<queue, batch, drain, closer, timedOut, store, executed, changes,
                   submitted, counters>>

-----------------------------------------------------------------------------
(* close() *)

\* Entering close(): the put waits for room behind the last row.
CloseBegins ==
    /\ closer = "open"
    /\ closer' = "putting"
    /\ UNCHANGED <<queue, batch, drain, timedOut, store, work, submitted, counters>>

PutSentinel ==
    /\ closer = "putting"
    /\ Len(queue) < QueueMaxsize
    /\ queue' = Append(queue, Sentinel)
    /\ closer' = "waiting"
    /\ UNCHANGED <<batch, drain, timedOut, store, work, submitted, counters>>

DrainEnded ==
    /\ closer = "waiting"
    /\ drain = "done"
    /\ closer' = "finishing"
    /\ UNCHANGED <<queue, batch, drain, timedOut, store, work, submitted, counters>>

\* 30 s have passed: the drain task is cancelled, its thread runs on.
CloseTimesOut ==
    /\ closer = "waiting"
    /\ drain \notin {"done", "dead"}
    /\ timedOut' = TRUE
    /\ drain' = "cancelled"
    /\ closer' = "finishing"
    /\ UNCHANGED <<queue, batch, store, work, submitted, counters>>

\* The dead task's exception comes out of wait_for: _finish is not reached.
CloseRaises ==
    /\ closer = "waiting"
    /\ drain = "dead"
    /\ closer' = "failed"
    /\ UNCHANGED <<queue, batch, drain, timedOut, store, work, submitted, counters>>

\* _finish: stopped_at, commit, close.  The commit takes whatever a thread
\* still at work has executed on the same connection.
Finish ==
    /\ closer = "finishing"
    /\ CommitTo(tx)
    /\ tx' = <<>>
    /\ conn' = "closed"
    /\ closer' = "closed"
    /\ UNCHANGED <<queue, batch, drain, timedOut, thread, executed, changes,
                   submitted, counters>>

\* A sqlite3.Error out of _finish (locked, disk full): nothing is committed, the
\* connection is left as it is, and the error leaves close().
FinishFails ==
    /\ closer = "finishing"
    /\ closer' = "failed"
    /\ UNCHANGED <<queue, batch, drain, timedOut, store, work, submitted, counters>>

-----------------------------------------------------------------------------
Produce == \E r \in Rows : Submit(r)

DrainStep == GetRow \/ FlushDue \/ GetSentinel \/ FlushCounted \/ FlushLost \/ DrainDies

ThreadStep ==
    \/ \E i \in DOMAIN batch : ExecuteRow(i)
    \/ \E i \in DOMAIN batch : ExecuteOverflow(i)
    \/ Commit
    \/ WriteFails

CloseStep ==
    \/ CloseBegins \/ PutSentinel
    \/ DrainEnded \/ CloseTimesOut \/ CloseRaises
    \/ Finish \/ FinishFails

Next == Produce \/ DrainStep \/ ThreadStep \/ CloseStep

Spec == Init /\ [][Next]_vars

\* The event loop runs every task that is ready, the thread ends (SQLite waits
\* 5 s for a lock at most), and close() goes on once it is called.  Nothing
\* makes a producer submit, a write fail or the 30 s expire.
FairSpec ==
    /\ Spec
    /\ WF_vars(DrainStep)
    /\ WF_vars(ThreadStep)
    /\ WF_vars(PutSentinel) /\ WF_vars(DrainEnded) /\ WF_vars(CloseRaises)
    /\ WF_vars(Finish)

-----------------------------------------------------------------------------
TypeOK ==
    /\ queue \in Seq(Rows \cup {Sentinel})
    /\ batch \in Seq(Rows)
    /\ drain \in {"getting", "flushing", "final", "done", "dead", "cancelled"}
    /\ closer \in {"open", "putting", "waiting", "finishing", "closed", "failed"}
    /\ timedOut \in BOOLEAN
    /\ conn \in {"open", "closed"}
    /\ thread \in {"idle", "writing", "committed", "failed", "raised"}
    /\ executed \subseteq DOMAIN batch
    /\ tx \in Seq(Rows)
    /\ changes \in Nat
    /\ table \subseteq Rows
    /\ plain \in Nat
    /\ submitted \in 0 .. MaxSubmit
    /\ written \in Nat /\ ignored \in Nat /\ dropped \in Nat

\* 1 when the sentinel is in the queue: it is not a row.
SentinelQueued == IF queue # <<>> /\ queue[Len(queue)] = Sentinel THEN 1 ELSE 0

\* Every submitted row is in exactly one place: counted as written, ignored or
\* dropped, or in the queue or the last batch.  No path (a full queue, a failed
\* transaction, the last flush, a timeout of close) counts a row twice, or takes
\* it out of queue and batch uncounted.  The rows that no counter will ever tell
\* of are those in `queue` and `batch` when the drain task has died or been
\* cancelled: `batch` then stands for the list that was local to that task.
Accounted ==
    submitted = written + ignored + dropped
                + (Len(queue) - SentinelQueued) + Len(batch)

\* The row counter is the truth about the database: apart from a commit whose
\* result the drain task has not seen yet, `written` is the number of rows this
\* run added, through duplicates, failed and retried transactions.  Only the
\* 30 s timeout of close() breaks it.
WrittenIsStored ==
    ~timedOut =>
        written + (IF thread = "committed" THEN changes ELSE 0)
            = Cardinality(table \ StoredBefore) + plain

\* An orderly close stores or counts everything: nothing is left behind in
\* memory when the connection is closed.
CloseLosesNothing ==
    closer = "closed" /\ ~timedOut =>
        submitted = written + ignored + dropped /\ tx = <<>>

\* A stalled writer cannot eat the memory: the queue keeps its bound however
\* fast rows come, and no batch outgrows the batch size, the last one included:
\* the producers have ended, so the sentinel is alone in the queue when it comes
\* out.
MemoryBounded ==
    /\ Len(queue) <= QueueMaxsize
    /\ Len(batch) <= BatchSize

\* A transaction is stored as a whole: when the tables change, every row of the
\* batch is stored, unless close() gave up waiting.
BatchAtomic ==
    [][ ~timedOut /\ table' # table =>
          \A i \in DOMAIN batch : batch[i] \in Untracked \/ batch[i] \in table' ]_vars

\* The strengthening that makes the invariants above inductive: where the
\* sentinel may be, how far close() can be ahead of the drain task, when a
\* transaction is open, and that no more rows landed than were executed.
QueueShape ==
    \A i \in 1 .. Len(queue) :
        queue[i] = Sentinel => i = Len(queue) /\ closer \notin {"open", "putting"}

DrainShape ==
    /\ drain \in {"final", "done"} => queue = <<>> /\ closer \notin {"open", "putting"}
    /\ drain = "done" => batch = <<>>
    /\ drain = "getting" => Len(batch) < BatchSize
    /\ drain = "cancelled" => timedOut

CloseShape == closer \in {"finishing", "closed"} => drain = "done" \/ timedOut

ThreadShape ==
    /\ drain \in {"getting", "done"} => thread = "idle" /\ tx = <<>>
    /\ thread \in {"committed", "failed"} => tx = <<>>
    /\ changes <= Cardinality(executed) \/ thread = "idle"

Inv ==
    /\ TypeOK /\ Accounted /\ MemoryBounded
    /\ QueueShape /\ DrainShape /\ CloseShape /\ ThreadShape

\* What a commit of the rows t would add: to the tables under a unique index, and
\* beside them.
Fresh(t) == {t[k] : k \in {k \in DOMAIN t : t[k] \notin Untracked}} \ table
Loose(t) == {k \in DOMAIN t : t[k] \in Untracked}

\* The strengthening for the tables: the open transaction holds every row the
\* thread has executed, and `changes` is what its commit would add.
StoreShape ==
    /\ StoredBefore \subseteq table
    /\ ~timedOut => IsFiniteSet(table \ StoredBefore)
    /\ ~timedOut /\ thread = "writing" =>
          /\ IsFiniteSet(Fresh(tx))
          /\ changes = Cardinality(Fresh(tx)) + Cardinality(Loose(tx))
          /\ \A i \in executed : \E k \in DOMAIN tx : tx[k] = batch[i]

StoreInv == Inv /\ StoreShape /\ WrittenIsStored

\* A row does not wait for company: everything submitted leaves memory, by the
\* flush interval if not by a full batch, while the drain task lives.
RowsLeaveMemory ==
    (queue # <<>> \/ batch # <<>>)
        ~> ((queue = <<>> /\ batch = <<>>) \/ drain \in {"dead", "cancelled"})

\* The comment at sqlite_writer.py:440: a failed batch does not end the writer.
DrainSurvives == drain # "dead"
=============================================================================
