# A formal model of the order book scraper

TLA+ modules for the concurrent and stateful core of the scraper, TLC
configurations that check them on small instances, and TLAPS proofs for every
instance. Paths below are relative to the repository root; `PROJECT.json` names
for every definition the lines it models.

## 1. The system

`run.py` starts one asyncio event loop. Each configured exchange gets an
*adapter* (`src/obscraper/exchanges/*.py` on top of `base.py`), which knows the
protocol and keeps the live book of every pair, and a *supervisor*
(`supervisor.py`), which keeps the adapter connected over WebSocket or REST. In
grid mode the *sampler* (`sampler.py`) reads every book on an absolute time grid;
in stream mode the adapter reports every update itself. Both go through the
*recording policy* in `base.py` (flags, skipping unchanged rows, heartbeat).
Trades go straight on. Rows, connection events and latency measurements end in
the *writer* (`storage/sqlite_writer.py`), whose drain task hands batches to a
thread that runs the SQLite transactions.

| Part | State | Operations | Talks to |
|---|---|---|---|
| Writer | queue, batch, connection, counters | `submit_*`, drain loop, `_flush`, `close` | called by all, one thread |
| Supervisor | transport choice, endpoint, backoff, failure count, tasks | WebSocket loop, REST window, watchdog, re-evaluation | adapter, writer, latency race |
| Adapter connection | `connected`, `transport`, `connected_since`, ... | `run_ws`, `run_rest`, `staleness` | shared by two tasks of the supervisor |
| Local books | price levels, sequence of the last delta | `_apply`, `_check_sequence`, `IncrementalBook` | exchange's frames and REST answers |
| Recording policy | last row per pair and table | `_flags_for`, `_is_unchanged`, `snapshot` | sampler, writer |
| Tape | trades seen | `_emit_trade`, unique index `ux_trade` | frames, REST polls, writer |
| Sampler | tick number | `run` | adapters, writer |
| Latency race | measurements | `race_endpoints`, `score` | supervisor |
| Lifecycle | stop event, tasks | `run_forever`, `_request_stop`, its `finally` | everything |
| Protobuf reader | none | `parse_message`, `get_*` | MEXC's adapter |

What makes them hard: tasks interleave at every `await`; a supervisor has up to
four tasks that share one adapter; the writer crosses a thread boundary and
shares its connection with `close()`; connections fail, close in good order, or
stay up and say nothing; the queue is bounded and drops; a row counts as written
before it is stored; a stop may arrive in any wait.

What makes each part correct:

- Writer: every submitted row is counted exactly once; the counters tell the
  truth about the tables; a transaction is stored as a whole; memory is bounded;
  an orderly close leaves nothing behind.
- Lifecycle: nobody submits once the writer is being closed; a stop ends the
  program.
- Supervisor: one feeder at a time; rows carry the right transport; stop ends
  everything and nothing starts after it; the REST window ends and comes back;
  a silent feed is noticed.
- Recording: forward filling the table gives the book; the distance is bounded
  by the heartbeat; repeats are due to the heartbeat only.
- Books: the local book is the exchange's book, or the gap is detected; what is
  shown never goes back in time, whatever is still on its way over the transport
  that was left.
- Protobuf: a frame is read as what it holds, with or without fields of a later
  schema, or not at all.
- Tape: a trade is stored once, whichever transports deliver it.
- Sampler: each instant of the grid at most once, in order, no burst.
- Race: the endpoint chosen answers and delivers, is not left for jitter, and is
  left for a clearly better one; a decision reaches the next attempt.

## 2. The modules

| Module | Models | Runs |
|---|---|---|
| `Writer` | `SqliteWriter`: producers, drain task, thread, `close()` | through `Lifecycle` |
| `Lifecycle` | `run_forever`: launch, stop, cancellation, gather, close, around `Writer` | `writer`, `writer_overflow` |
| `Supervisor` | `ExchangeSupervisor`, `run_ws`, `run_rest`, the stop in `run.py` | `supervisor`, `supervisor_stale`, `supervisor_unreadable`, `supervisor_gaps` |
| `ExchangeLink` | what a supervisor promises: one transport at a time, a gap between two, nothing after the end | refinement target in `supervisor` |
| `Race` | `latency.py` with the pick and the re-evaluation of `supervisor.py` | through `Steering` |
| `Steering` | the choice of an endpoint put together with the loop that connects | `race`, `race_dataless` |
| `Adapters` | what the ten adapters make of a frame, a REST answer, a trade (operators, no state) | through `Feed` |
| `Feed` | live book, sequence chain and tape of one pair, over stream and polls | `feed`, `feed_overlap` |
| `BookView` | what a reader of the dataset sees of a book: it only moves forward | refinement target in `feed` |
| `Protobuf` | `_protobuf.py` (operators on byte sequences, no state) | through `MexcBytes` |
| `MexcBytes` | what MEXC's adapter reads from the bytes of a frame of `Feed` | `feed` |
| `Recording` | recording policy, grid and stream mode | `recording_silent`, and through `Sampler` |
| `Sampler` | `sampler.py` on top of `Recording` | `recording` |
| `WriterProofs`, `RecordingProofs`, `SamplerProofs`, `FeedProofs`, `SupervisorProofs`, `SteeringProofs` | theorems about the module of that name; of `Lifecycle` in `WriterProofs` | TLAPS |
| `MexcBytesProofs` | theorems about `Protobuf` and `MexcBytes` | TLAPS |
| `OrderLemmas` | facts about finite sets of numbers: a least element, ranks, counting | TLAPS |
| `MCWriter`, `MCSupervisor`, `MCRace`, `MCFeed`, `MCRecording`, `MCSampler` | instances for TLC | |

`Lifecycle` extends `Writer`, `Steering` extends `Race`, `Sampler` extends
`Recording`, `Feed` extends `Adapters`, and `MexcBytes` extends `Feed` and
`Protobuf`. `Supervisor` takes the result of the race as any endpoint, and the
stream as updates and trades without content; `Steering` and `Feed` look into
each. Rows leave these models as submitted;
`Writer` takes any submissions, and `Recording` any loss by the writer.

Definitions whose comment begins with "Mutant" are plausible bugs of the
definition that follows them. They are used by no specification: each names a
fault that the property listed with it in `PROJECT.json` detects.

### Writer

asyncio runs a stretch between two awaits as one step, so an action is such a
stretch. `Accept` is `_put`: with room, or dropping the oldest item; `Submit` adds
what the writer trusts its callers with, that `close()` has not been called. The drain
task takes an item (`GetRow`), is woken by the flush interval (`FlushDue`) or by
the sentinel (`GetSentinel`), and waits in `flushing` or `final` for its thread.
The thread executes one row per step (`ExecuteRow`), in the order of
`_write`, and commits, fails with a `sqlite3.Error` (`WriteFails`) or with any
other exception (`ExecuteOverflow`). `close()` is `CloseBegins`, `PutSentinel`,
one of `DrainEnded`, `CloseTimesOut`, `CloseRaises`, and `Finish`, which a
`sqlite3.Error` may end (`FinishFails`). When the drain task has died or been
cancelled, the list of rows it was gathering is gone with it; `batch` keeps what was
in it, so that `Accounted` can still say where each row went. Column values
are abstracted: two submissions of one member of `Rows` are the same row to the
unique indexes.

### Lifecycle

`main` is where `run_forever` is, `live` the tasks that have not ended: the
supervisors and the sampler. A task submits at any moment while it lives
(`TaskSubmits`), also between its cancellation and its end, and may end by itself
(`TaskEnds`: an exchange without a listed symbol, an exception that nobody looks at
before the gather; in stream mode there is no sampler, which is one that ends at
once). `RequestStop` is the signal or the timer. Nothing in these actions says that
close() must not have begun: `KeepsContract` shows that every behaviour of the
composition is one of `Writer`'s `Spec`, in which it must not.

### Supervisor

`main` says where `run()` is, `rest` where `_run_rest_supervised` is (its own
task in the REST window), `watchdog` where the staleness watchdog is; the
re-evaluation loop has no state of its own and is the action `Switch`. `Tick`
moves all clocks; a clock stops at the last value the code's comparisons tell
apart, so no behaviour is cut off in time. A sleep ends any time after its
deadline, which covers the random 0..30 % of the reconnect delay. A stream goes
through `connecting`, `subscribing` (`connected` is already set) and `streaming`.
`journal` is the last connection event.

`ExchangeLink` is the abstract view. `ImplementsLink` is its specification under
the mapping in `Supervisor` (module instance `Link`), checked by TLC and proved.

### Race

In each round every candidate is probed at once (`Round`); a probe fails, answers
without market data, or measures a first message (`Outcomes`, by the `quality` of
the endpoint). `Change` is the environment: an endpoint becomes another, between
two races. `Median2`, `Score` and `Winner` are the summary; times
are doubled so that a median of two is an integer. A median is stated by counting
(`Nth`: fewer than k results below it, at least k up to it), which is what sorting
comes to. An endpoint that works delivers in every round that does not fail, and a
handshake takes the same time each round: `NoFlapping` and `BeatenIsLeft` are claimed of
such endpoints. One that delivers in some rounds only mixes the two scales of
`score`, which is the disagreement `race_dataless` shows. `TakeWinner` is the pick before
the loop, `Reevaluate` a turn of `_relatency_loop`.

### Steering

The same with `_run_ws_supervised` of `transport: auto` around it. `link` is what
`run()` is doing, `target` the endpoint of the attempt. Races go on beside the
loop (`Probing`, `Reconsidered`), both write `current` (`_current_endpoint`): the
loop when an attempt succeeds (`Opens`), the re-evaluation at any time. An attempt
to a dead endpoint fails, any other may. At the failure limit the race under way is
cancelled, and after the REST window (`WindowEnds`) the loop picks anew. The ghost
`pending` is a switch that no success has overwritten; `kept` is what had been left
when the attempt under way began, for its success takes back what the re-evaluation
decided meanwhile, and with it whatever that left. In `transport: ws` there is
no window and no second pick, so nothing there leaves a dead endpoint; no document
says that something should.

### Adapters and Feed

`truth` is the history of the exchange's book and `tape` its trades; frames go
through `wire`, from whose front any may be lost (an unreadable frame is a lost
one). `feed` is the adapter, OKX and Bitget once per channel (the depth decides
which): pushers of the best levels, maintained books with a sequence chain
(`Chained`) and maintained books without one (`Unchained`). `Connect` is the part
of `run_ws` before the first frame: new local book, no sequence. `HandleUpdate`,
`HandleGap`, `HandleNothing`, `HandleTrades` are `_handle_frame`; `PollBook` and
`PollTrades` the two halves of a turn of `run_rest`, each after a request: the
exchange answers with what is there at that moment (`Answer`), and the answer is
applied later, fails (`PollFails`), or is dropped with the poller when the window
ends (`StopRest`). An answer may also have status 200 and hold no book (`PollBlank`):
`get_json` looks at the status alone, and `rest_depth` of every adapter but OKX's
makes a snapshot without levels of an error told in the body. That empty book is
shown and recorded (with `FLAG_PARTIAL`); no document says that it should not be, so
`ShownIsReal` states it: it is empty, not part of another version, OKX never shows
it, and the first snapshot of a stream takes its place. The exchange is taken to answer a request with a book that is
not older than the frames it has sent. The table is written at once
and through `ux_trade`; what the writer does to rows is `Writer`'s subject.

Abstractions. One side of the book stands for both: the code treats them alike,
except for the direction of sorting. Sizes are whole numbers. A sequence is the
version of the book. REST answers hold every trade there was; the
window of 100 is not modelled. KuCoin's, HTX's and MEXC's adapters have a second name
for a trade (`Substitutes`: `sequence`, `id`, and a key made of its fields). A stream
names its trades by the first one, as the frames in `tests/test_trades.py` do; of
answers the repository holds no example, so an answer may or may not (`Polled`, and
it may change from poll to poll). A trade is then stored under both names, and
`OncePerTrade` claims for these three no more than one row per kind of name.
That a `sequence` or `id` is never the `tradeId` of another trade is assumed, and that
the elements of the other adapters have the one id they read. The ghosts `based` and `lossy`, and the flag `sure` in
`shown`, say whether the code can know: the documentation does not claim that a
connection whose first snapshot is lost is noticed, nor a lost delta of Bybit and
Coinbase (README.md:205 admits it), so `ShownIsReal` and `LocalBookExact` exclude
these; `lossy` is kept only on the feeds without a chain.

`BookView` is the abstract view: a version that grows and a version shown that
grows towards it. `ImplementsView` is its specification under `version <-
Len(truth)`, `shownAt <- shown.at`.

### Protobuf and MexcBytes

A message is the sequence of its fields up to the first that cannot be read
(`Broken`, the exception); `Readable` says there is none. `Fields` gives what is
read from each place on, as `iter_fields` goes from field to field; `Latest` is the
last value of a number, which the accessors take. `ReadBook` and `ReadTrades` are `parse` and
`parse_trades`, with the exception caught as there. The exchange's side (`Encoded`)
writes a frame of `Feed` in the schema `_protobuf.py` quotes, with prices, sizes and
ids of one digit. `Unknown` holds a field of each wire type, the payload of some
looking like fields of their own. Every frame `Feed` can put on MEXC's wire is
encoded, with such a field at each place it may stand, and cut after each byte;
what is read is compared with what `Adapters` says of the record
(`GrownFrameReadsSame`, `CutFrameIsLost`). So the abstraction of a frame to a
record, which `Feed` makes, is itself checked for MEXC. Varints from 2^28 (`Huge`) on
are one value (with their three lowest bits): the fields read are smaller, and so is
every length, since the connection takes frames of 16 MiB at most (`max_size`,
`base.py:401`), which is `FrameSizeAssumption`.

### Recording

One exchange and pair. A book is one of a few top-N states; the row is the book
with its flags. `last` is the tracker (`_LastWritten`), `stored` what a reader
finds; they differ when the writer loses a row. Ages stop at `RowCap` and above
`StaleAfter`, beyond which no comparison tells them apart.

### Sampler

`due` is the distance from now to the loop's target. The event loop may be
blocked, so `Fire` comes up to `MaxLate` after the target, which is more than an
interval in the run: instants are missed. Sampling itself takes no time. The
stream table of the same pair is written beside it.

## 3. The runs

| Run | Expectation | What it shows |
|---|---|---|
| `writer` | pass | in a run of the program: accounting, atomicity, bounds, the contract between tasks and writer, the end after a stop |
| `writer_overflow` | violation | an integer beyond 64 bits ends the drain task |
| `supervisor` | pass | all transports, two endpoints: one feeder, tags, stop, warnings; under fairness stop ends it, windows end, REST comes back, silence is reported, and it implements `ExchangeLink` |
| `supervisor_stale` | violation | the forced reconnect does not happen |
| `supervisor_unreadable` | violation | an unreadable stream never falls back |
| `supervisor_gaps` | violation | an orderly close leaves no event |
| `race` | pass | no swinging to and fro; beaten and dead endpoints are left; a switch is followed |
| `race_dataless` | violation | an endpoint without market data wins by its handshake |
| `feed` | pass | local books, recorded books (empty after an answer without one), one row per trade and name, none lost, the taker's side, on every adapter; the book shown only moves forward; MEXC's bytes |
| `feed_overlap` | violation | MEXC's trades are stored again by the polls |
| `recording` | pass | both tables, the grid under a late sampler and a lossy writer: forward filling, heartbeat, repeats, grid |
| `recording_silent` | violation | no heartbeat row in stream mode |

The `findings` of `PROJECT.json` quote what each violated property takes from the
documentation, and the line where the code differs.

Bounds.

- `Lifecycle`, `Writer`: `MaxSubmit` 4 with a queue and a batch of two, one
  supervisor and the sampler. The queue overflows, one batch is written and a second
  is gathered, which is every relation between the parts; the sentinel, the timeout
  and the failure combine with all of them, and the stop comes at any point. More
  supervisors submit what one can; the theorems hold for any number.
- `Supervisor`: nothing is cut off. Two failures exhaust the WebSocket, the backoff
  goes through both its bounds, and clocks saturate.
- `Race`, `Steering`: two rounds, so that failures leave two, one or no result and
  a median of two lies between them; two failures exhaust the loop; the slow
  endpoint takes twice the time of the fast one, the handshake less than both; one
  change, without which no chosen endpoint is ever clearly beaten.
- `Feed`: `MaxEvents` 3 changes of book and trades together, `MaxWire` 1 frame in
  flight, two prices, two sizes, depth one: a level below the depth exists, moves
  up, changes and vanishes; two trades of one stamp exist; a frame can be lost
  between two others, before the first and after a reconnect. A second frame in
  flight adds nothing that a later push does not show, frames being handled one by
  one and in order.
- `Recording`, `Sampler`: the heartbeat (3) and the stale age (2) come in either
  order, the interval is 2, and a tick can be late by 3, over the next one. `Slack`
  6 keeps ages apart that `RowsKeepComing` compares. Ages saturate.

Fairness. `FairLifeSpec` of `Lifecycle`: the event loop runs ready tasks, the thread
ends (SQLite waits 5 s for a lock at most), `run_forever` goes on when it can, and a
cancelled task ends (what `StopEnds` shows of a supervisor). Nobody has to submit or to ask for a stop, and the timeout of
`close()` need not fire. `FairSpec` of `Supervisor`: time
passes, ready tasks run, handshakes and requests have timeouts, and
`run_forever` cancels after it has set the stop flag. `FairSteering` of `Steering`:
races, delays and windows end, an attempt has an outcome, and the pings end a
connection to an endpoint that died; one that works need never end. The exchange
owes nothing. `Feed`, `Recording` and
`Sampler` claim no liveness; their bounds are stated as safety.

Deadlock is checked in every run but those of the writer, which stop with the
program.

## 4. The proofs

`WriterProofs` proves for every set of rows, queue size, batch size and bound:
`Inv` is inductive, and with it `TypeOK`, `Accounted`, `MemoryBounded` and
`CloseLosesNothing`. The invariants are not inductive alone: that the last batch
fits needs to know that the sentinel is alone in the queue when it comes out,
which holds because no producer is left when it is put (`QueueShape`); that
`ignored` never goes negative needs that no more rows landed than were executed
(`ThreadShape`); that an orderly close is complete needs how far `close()` can be
ahead of the drain task (`DrainShape`, `CloseShape`). For the tables, `StoreInv` adds `StoreShape`: the open
transaction holds every row the thread has executed, and the count of changes is
what its commit would add (`Fresh`, `Loose`). From it follow `WrittenIsStored`, over
duplicates in a batch, across batches and from an earlier run, and `BatchAtomic`.
Assumptions: `SizesAssumption`, `RowsAssumption`.

`WriterProofs` goes on to `Lifecycle` with `ContractIsKept`: for any number of supervisors the
composition is a behaviour of `Writer`. `LifeInv` carries it: while a task lives,
`main` has not reached the close, so `closer` is still open (`WritingKeepsOpen`
shows that the drain task and the thread cannot change that). The theorems above then
hold of a run of the program (`RunLosesNothing`). Assumptions: those of `Writer`.

`FeedProofs` proves that `Feed` implements `BookView` for every adapter, set of
prices, depth, number of events and length of the wire. That the book shown never
goes back is not inductive: `ViewInv` adds that frames in flight are in the order of
the versions they were made from and none is older than what is shown, that an
answer on its way is not either, and that only the transport in use has anything on
its way, which is why a change of transport is harmless. `TakeKeepsInv` and
`WireGrows` are the two lemmas about the wire.

It goes on to every other invariant of `Feed`. `BookInv` is the one for the books:
each frame in flight fits the book it was made from (`FrameOK`), so that applied to
that book a delta gives the book it was made for; on a chained feed the sequence
stands where the local book does (`Chain`), so that a delta that passes
`_check_sequence` meets the right book; on the others `NothingSkipped` says that
as long as nothing is lost each delta in flight will find the book it was made from.
`LocalBookExact` and `ShownIsReal` are conjuncts of it. An answer without a book is
a snapshot without levels (`NoLevels`), so it empties a maintained book and what is
shown and moves nothing else (`PollBlankBook`). It rests on what `Listing`,
`BookOf`, `Cut` and `Top` make of a book (a listing is the only one of its levels in
its order, and its first levels are the best). `TapeInv` is the one for the trades:
each row is true to the trade it stands for (`RowTrue`), under whichever name its
element carried (`TradeFacts`), names differ, and each trade
handed on has a row; from it follow `OncePerTrade`, `EveryTradeKept` and
`SideIsTakers`. Assumptions: `FeedAssumption` (with it, that the prices are finitely
many), `FirstBookAssumption`, `DepthAssumption`.

`MexcBytesProofs` proves what `MexcBytes` says of MEXC's bytes, `GrownFrameReadsSame`
and `CutFrameIsLost`, for every book, depth, number of trades and place of the cut,
in four stages:

1. The reader, on all bytes. A field is the same wherever its bytes stand
   (`FieldCarries`), so what follows a readable message is read as if it stood alone
   (`MessageOfConcat`), and what is read of a beginning is what the whole begins with
   (`MessageOfCut`). Both take the place furthest back from which the two readings
   differ, after `FieldsExist` has shown that the recursive function exists. With the
   accessors over a concatenation (`LatestOfConcat`, `SubmessagesOfConcat`) follows
   that a field of another number disturbs none (`UnknownFieldsAreSkipped`).
2. The encoding. A varint of one to four bytes is read back (`VarintOfIsRead`), hence
   each field (`TextFieldReads`, `NumberFieldReads`), item, body and wrapper, with
   each member of `Unknown` at each place.
3. The adapter. What `ReadBook` and `ReadTrades` make of such a wrapper is what
   `Adapters` makes of the record (`EncodedIsRead`). Of a cut frame, the part that is
   left either still holds the body and the symbol or gives nothing
   (`BeginningIsRead`); the lemma holds of a grown frame too, of which the runs do not
   speak.
4. The wire. `MexcOnWire`, an invariant on top of `TypeOK`, `BookInv` and `TapeInv`,
   says that what MEXC sends is among the `Contents` of stages 2 and 3.

Assumptions: those of `Feed` and `FrameSizeAssumption`; without the latter a length
would be among the numbers the model does not tell apart. A price or an id is one symbol
of the text, 48 + n, also beyond the digits: the reader hands texts on without looking
into them, and the theorems say nothing of how a number is spelled.

The library's induction takes an operator, which no prover here can use; where a
proof needs induction it takes the least counterexample instead (`LeastNat` of
`OrderLemmas`): the k-th of an ordered listing, the rows stored one after the other
(`AllStored`, whose recursive function has to be shown to exist first), the k-th
smallest time of a race, the fields of a message.

`RecordingProofs` proves `TypeOK`, `ForwardFills`, `HeartbeatKept` and
`RepeatsOnlyOnHeartbeat` for every set of books and flags, heartbeat, stale age and
choice of modes. `ForwardFills` speaks of the table and the book; the code compares
with the tracker. `Looked` connects the tracker with the book (where the policy has
judged the present state, the tracker holds it and is younger than a heartbeat),
`Tracked` the table with the tracker (they agree unless a row was lost since the
tracker was set); `JudgeKeeps` is the lemma about one decision. Assumptions:
`ConstantsAssumption` and `NoBookAssumption` (the absent book is no book).

`SamplerProofs` proves that the sampler only adds a schedule
(`GridImplementsPolicy`: a behaviour of `GridSpec` is one of `Recording`'s `Spec`),
so that the theorems above hold under it, and that the target is always the first
instant after the last sample (`InstantsFollow`) and on the grid (`TargetsOnGrid`;
`NextDueOnGrid` does the arithmetic of the remainder), for every interval and lateness.
`RowsKeepComing` (`GridRowsKeepComing`) relates two ages and a clock, and needs
`Paced`: between two samples the tracker ages with the clock, and the sample leaves it
younger than a heartbeat. Assumptions: those of `Recording` and `SamplerAssumption`.

`SupervisorProofs` proves every safety property of the `supervisor` run, for any
symbols, endpoints, timers and limits: `TypeOK`, `OneFeeder`, `RowsTagged`,
`NothingOutlivesRun`, `NothingStartsAfterStop`, `TradeWarningEarned`, and that it
implements `ExchangeLink`. `Inv` is `TypeOK` with `Placed`: a poller exists only
while `run()` is in REST or in the window, a watchdog only during an attempt, and
each transport has tagged the adapter before it feeds and is not disturbed until it
ends. That the clock of the connection is never ahead of the clock of its attempt
carries the warning. `TypeOK` is proved in two parts, `Flags` and `Ranges`. Of the
refinement, `StepMovesLink` says what a step does to the link (`LinkStep`, without
the instance), `LinkStepImplements` that this is a step of `ExchangeLink`.
Assumption: `ConstantsAssumption`.

`SteeringProofs` proves every safety property of the `race` run, for any candidates,
times, jitter, rounds and threshold. `SwitchTakesEffect` from `Remembered`: a switch
that is still to be followed is `_current_endpoint` itself, and none is left over where
an attempt or a pick may overwrite it. `SteeringTypeOK` and `NoFlapping` from
`SteeringInv`. Of its parts, `RaceInv` says that every result fits the endpoint as it
still is, from which `ScoreIsTrue` bounds a score by twice the endpoint's time and
twice that time and the jitter (`NthIsOne`, `MedianBetween`); `LoopInv` that an attempt
has an endpoint, with `WinnerListed`; `OnlyFaster` that all that was left is truly
slower than what is chosen, also after an attempt brings back its endpoint
(`ClearIsTrue` is the arithmetic). Assumptions: `RaceAssumption`, `NoEndpointAssumption`
(the absent endpoint is none of the candidates), `InfinityAssumption` (the score of an
endpoint without a result is worse than any other, as `float("inf")` is) and
`FailureLimitAssumption`.

What the attempts at proofs showed. `NoFlapping` was wrong as first stated, with a
ghost that took back only the endpoint whose attempt succeeds: with three endpoints and
two re-evaluations within one attempt, the second may leave an endpoint the first had
chosen, and the success then takes back both. Two endpoints cannot show it; the ghost
`kept` states what is meant. `NoBookAssumption`, `NoEndpointAssumption` and
`InfinityAssumption` had been taken for granted, and so had that the prices are finitely
many.

Only model-checked: liveness, which is out of the prover's reach (`StopExits`,
`RowsLeaveMemory`, `StopEnds`, `WindowIsBounded`, `SafetyNet`, `SilenceReported`,
`BeatenIsLeft`, `DeadIsLeft`), and the disagreements with the documents, each of which
is one counterexample.

## 5. What is not modelled

- Configuration, health report, registry, dry run and the inspection tool keep no
  state that matters at run time; the validated bounds of the configuration are the
  assumptions on the constants, and a refused exchange name is `BuildFails`.
- Jumps of the wall clock (`now_ms`).
- How a probe or a subscription talks to the exchange, keepalives, URLs, listings
  of symbols and their resolution to depths.
- An exception in the sampler: `Lifecycle` lets the task end at any time, and
  nothing else depends on it; that sampling has ended is told to nobody.
- The window of 100 trades of a REST answer: a poll that comes later than 100
  trades loses some, which no document excludes.
- The process ending without `close()`: WAL and SQLite's recovery are taken as they
  are; the transaction of `Writer` is stored as a whole or not at all.

## 6. Plan

Done: the components above with their runs; every safety property of the passing runs
is proved for every value of the constants. To come, in this order:

1. Several pairs over one connection: a gap of one takes down all, the stale age is
   the youngest of all.
2. The window of 100 trades of a REST answer, and when a poll loses some.
3. The keepalive task of a connection.
