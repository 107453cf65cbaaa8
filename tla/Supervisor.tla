----------------------------- MODULE Supervisor -----------------------------
(***************************************************************************)
(* The lifecycle of one exchange: ExchangeSupervisor in supervisor.py and  *)
(* the connection it drives, run_ws and run_rest in exchanges/base.py.     *)
(*                                                                         *)
(* Tasks of the event loop that share the supervisor and its adapter:      *)
(*   main      run(): validation, the WebSocket loop, the REST window      *)
(*   rest      _run_rest_supervised, a task of its own in the window and a *)
(*             part of main when the transport is REST                     *)
(*   watchdog  _staleness_watchdog, one per connection attempt             *)
(*   relatency _relatency_loop, alive while the WebSocket loop runs        *)
(* and run_forever, which sets the stop flag and then cancels the tasks.   *)
(* An action is what one task does between two awaits.                     *)
(*                                                                         *)
(* Time: Tick moves every clock.  A sleep ends at any time after its       *)
(* deadline, which covers a busy event loop and the random 0..30 % that    *)
(* _run_ws_supervised adds to a reconnect delay.  Clocks saturate at the   *)
(* last value a comparison in the code tells apart, so time is unbounded.  *)
(***************************************************************************)
EXTENDS Integers

CONSTANTS
    Symbols,            \* the configured pairs
    Endpoints,          \* WS endpoints of the adapter
    DefaultEndpoint,    \* candidates[0]
    Transports,         \* the configured transport is one of them
    SupportsWs,         \* SUPPORTS_WS of the adapter
    PickFastest,        \* pick_fastest_endpoint
    Relatency,          \* relatency_interval_s > 0
    BackoffMin,         \* reconnect_backoff_min_s
    BackoffMax,         \* reconnect_backoff_max_s
    FailuresBeforeRest, \* ws_failures_before_rest
    FallbackFor,        \* rest_fallback_duration_s
    StaleAfter,         \* stale_after_s
    TradeSilence,       \* trade_silence_warn_s, 0 = off
    CollectTrades       \* trades are collected from this exchange

\* The time unit is free, so stale_after_s / 2 can be a whole number of ticks.
ASSUME ConstantsAssumption ==
    /\ DefaultEndpoint \in Endpoints
    /\ Transports \subseteq {"auto", "ws", "rest"}
    /\ SupportsWs \in BOOLEAN /\ PickFastest \in BOOLEAN
    /\ Relatency \in BOOLEAN /\ CollectTrades \in BOOLEAN
    /\ BackoffMin \in Nat \ {0} /\ BackoffMax \in Nat /\ BackoffMin <= BackoffMax
    /\ FailuresBeforeRest \in Nat \ {0}
    /\ FallbackFor \in Nat \ {0}
    /\ StaleAfter \in Nat \ {0} /\ StaleAfter % 2 = 0
    /\ TradeSilence \in Nat

VARIABLES
    main,       \* where run() is
    rest,       \* where _run_rest_supervised is
    watchdog,   \* "none", "asleep", or "dead" after its exception
    stop,       \* the stop event
    wanted,     \* cfg.transport
    listed,     \* SymbolStatus.listed: "yes", "no", "unknown"
    target,     \* _current_endpoint
    current,    \* the endpoint of this attempt
    connected,  \* adapter.connected
    transport,  \* adapter.transport, stamped on every row
    backoff,    \* _backoff
    failures,   \* consecutive_failures
    left,       \* ticks until each sleep is over
    up,         \* ticks since the attempt started
    age,        \* ticks since each symbol's last update, Never before it
    since,      \* ticks since adapter.connected_since
    traded,     \* trades_this_connection > 0
    warned,     \* warned_trades of the watchdog
    journal     \* the last event submitted to the writer

setup == <<wanted, listed>>
tasks == <<main, rest, watchdog>>
choice == <<target, current>>
feed == <<connected, transport>>
retry == <<backoff, failures>>
trades == <<since, traded>>
vars == <<tasks, stop, setup, choice, feed, retry, left, up, age, trades, warned,
          journal>>

Never == -1
UpCap == (IF TradeSilence <= 2 * BackoffMax THEN 2 * BackoffMax ELSE TradeSilence) + 1
AgeCap == StaleAfter + 1
SinceCap == IF TradeSilence = 0 THEN 0 ELSE TradeSilence + 1
Timers == {"reconnect", "polling", "window", "watchdog"}

AtMost(a, b) == IF a <= b THEN a ELSE b

Init ==
    /\ main = "validating" /\ rest = "none" /\ watchdog = "none"
    /\ stop = FALSE
    /\ wanted \in Transports
    /\ listed = [s \in Symbols |-> "unknown"]
    /\ target = DefaultEndpoint /\ current = DefaultEndpoint
    /\ connected = FALSE
    /\ transport = IF SupportsWs THEN "ws" ELSE "rest"
    /\ backoff = BackoffMin /\ failures = 0
    /\ left = [t \in Timers |-> 0]
    /\ up = 0
    /\ age = [s \in Symbols |-> Never]
    /\ since = 0 /\ traded = FALSE /\ warned = FALSE
    /\ journal = "none"

-----------------------------------------------------------------------------
(* The loops' heads: what runs when a loop condition is evaluated *)

\* The top of the loop in _run_ws_supervised: an attempt and its watchdog, or
\* the end of run() when stop is set.
BeginAttempt(endpoint, event) ==
    \/ /\ stop
       /\ main' = "done"
       /\ journal' = event
       /\ UNCHANGED <<watchdog, current, left, up, warned>>
    \/ /\ ~stop
       /\ main' = "connecting"
       /\ current' = endpoint
       /\ watchdog' = "asleep"
       /\ left' = [left EXCEPT !.watchdog = StaleAfter \div 2]
       /\ up' = 0
       /\ warned' = FALSE
       /\ journal' = "connecting"

\* Entering _run_ws_supervised: the endpoint race if there is one, else the
\* first candidate.
EnterWs(event) ==
    /\ failures' = 0
    /\ \/ /\ PickFastest /\ Endpoints # {DefaultEndpoint}
          /\ main' = "picking"
          /\ journal' = event
          /\ UNCHANGED <<watchdog, choice, left, up, warned>>
       \/ /\ ~(PickFastest /\ Endpoints # {DefaultEndpoint})
          /\ target' = DefaultEndpoint
          /\ BeginAttempt(DefaultEndpoint, event)

\* _run_rest_supervised returns; when it is a part of main, run() does.
RestReturns ==
    /\ rest' = "none"
    /\ main' = IF main = "fallback" THEN "fallback" ELSE "done"

\* Mutant: the rows keep the transport of the stream.
BeginPollingUntagged(m) ==
    /\ rest' = "polling" /\ main' = m
    /\ connected' = TRUE /\ transport' = transport
    /\ since' = 0 /\ traded' = FALSE
    /\ journal' = "rest_polling_start"

\* The top of the loop in _run_rest_supervised and run_rest up to its first
\* request; m is where main then is.
BeginPolling(m) ==
    /\ rest' = "polling"
    /\ main' = m
    /\ connected' = TRUE /\ transport' = "rest"
    /\ since' = 0 /\ traded' = FALSE
    /\ journal' = "rest_polling_start"

-----------------------------------------------------------------------------
(* Start *)

UsesWs == SupportsWs /\ wanted # "rest"

\* _validate_symbols: the instrument list answers for every symbol, or the
\* request fails and nothing is known.
Validated(l) ==
    \/ \A s \in Symbols : l[s] \in {"yes", "no"}
    \/ \A s \in Symbols : l[s] = "unknown"

Validate ==
    /\ main = "validating"
    /\ \E l \in [Symbols -> {"yes", "no", "unknown"}] : Validated(l) /\ listed' = l
    /\ \/ /\ \A s \in Symbols : listed'[s] = "no"
          /\ main' = "done"
          /\ journal' = "skipped_no_listing"
          /\ UNCHANGED <<rest, watchdog, choice, feed, retry, left, up, trades, warned>>
       \/ /\ \E s \in Symbols : listed'[s] # "no"
          /\ UsesWs
          /\ EnterWs(journal)
          /\ UNCHANGED <<rest, feed, backoff, trades>>
       \/ /\ \E s \in Symbols : listed'[s] # "no"
          /\ ~UsesWs
          /\ \/ stop /\ main' = "done" /\ UNCHANGED <<rest, feed, trades, journal>>
             \/ ~stop /\ BeginPolling("rest")
          /\ UNCHANGED <<watchdog, choice, retry, left, up, warned>>
    /\ UNCHANGED <<wanted, stop, age>>

\* _pick_endpoint: the race names a winner, the first candidate if all failed.
Pick ==
    /\ main = "picking"
    /\ \E e \in Endpoints : target' = e /\ BeginAttempt(e, journal)
    /\ UNCHANGED <<rest, stop, setup, feed, retry, age, trades>>

-----------------------------------------------------------------------------
(* The WebSocket loop *)

\* Mutant: the clock of the previous connection runs on.
HandshakeKeepingClock ==
    /\ main = "connecting"
    /\ main' = "subscribing"
    /\ connected' = TRUE /\ transport' = "ws"
    /\ UNCHANGED <<rest, watchdog, stop, setup, choice, retry, left, up, age, trades,
                   warned, journal>>

\* run_ws after the handshake, up to the sends of the subscriptions.  The last
\* update's time and the books survive the reconnect.
Handshake ==
    /\ main = "connecting"
    /\ main' = "subscribing"
    /\ connected' = TRUE /\ transport' = "ws"
    /\ since' = 0 /\ traded' = FALSE
    /\ UNCHANGED <<rest, watchdog, stop, setup, choice, retry, left, up, age, warned,
                   journal>>

\* Everything is subscribed: _on_connect, then the first frame is awaited.
Connect ==
    /\ main = "subscribing"
    /\ main' = "streaming"
    /\ target' = current
    /\ journal' = "connected"
    /\ UNCHANGED <<rest, watchdog, stop, setup, current, feed, retry, left, up, age,
                   trades, warned>>

Exhausted(f) == wanted = "auto" /\ f >= FailuresBeforeRest

\* Mutant: the backoff is not capped.
WaitUncapped ==
    LET delay == IF up > 2 * BackoffMax THEN BackoffMin ELSE backoff
    IN left' = [left EXCEPT !.reconnect = delay] /\ backoff' = 2 * delay

\* The wait before the next attempt; a stable connection resets the backoff.
Wait ==
    LET delay == IF up > 2 * BackoffMax THEN BackoffMin ELSE backoff
    IN /\ left' = [left EXCEPT !.reconnect = delay]
       /\ backoff' = AtMost(2 * delay, BackoffMax)

\* What follows the end of an attempt: run() returns, the REST window opens,
\* or the loop waits.
AfterAttempt(f, event) ==
    /\ failures' = AtMost(f, FailuresBeforeRest)
    /\ watchdog' = "none"
    /\ \/ /\ stop
          /\ main' = "done" /\ journal' = event
          /\ UNCHANGED <<rest, left, backoff>>
       \/ /\ ~stop /\ Exhausted(f)
          /\ main' = "fallback" /\ rest' = "starting"
          /\ left' = [left EXCEPT !.window = FallbackFor]
          /\ journal' = "fallback_to_rest"
          /\ UNCHANGED backoff
       \/ /\ ~stop /\ ~Exhausted(f)
          /\ main' = "waiting" /\ journal' = event
          /\ Wait
          /\ UNCHANGED rest
    /\ UNCHANGED <<stop, setup, choice, transport, up, age, trades, warned>>

\* Mutant: every failure counts as the first.
ConnectFailsAsFirst ==
    /\ main \in {"connecting", "subscribing"}
    /\ AfterAttempt(1, "disconnected")
    /\ UNCHANGED connected

\* The KuCoin bootstrap, the handshake or a subscription fails.  The sends are
\* outside the try block whose finally clears `connected`.
ConnectFails ==
    /\ main \in {"connecting", "subscribing"}
    /\ AfterAttempt(failures + 1, "disconnected")
    /\ UNCHANGED connected

\* An exception ends the stream: connection lost, ping timeout, a frame that
\* does not decode, BookSequenceGap.
Drop ==
    /\ main = "streaming"
    /\ connected' = FALSE
    /\ AfterAttempt(failures + 1, "disconnected")

\* The server closes in good order: run_ws returns, and no event is submitted.
CleanClose ==
    /\ main = "streaming"
    /\ connected' = FALSE
    /\ AfterAttempt(0, journal)

Reconnect ==
    /\ main = "waiting"
    /\ left["reconnect"] = 0 \/ stop
    /\ BeginAttempt(target, journal)
    /\ UNCHANGED <<rest, stop, setup, target, feed, retry, age, trades>>

\* _relatency_loop: a race is won clearly by another endpoint.  Races that
\* change nothing are stutters.
Switch ==
    /\ Relatency
    /\ main \in {"connecting", "subscribing", "streaming", "waiting"}
    /\ \E e \in Endpoints \ {target} : target' = e
    /\ UNCHANGED <<tasks, stop, setup, current, feed, retry, left, up, age, trades,
                   warned, journal>>

-----------------------------------------------------------------------------
(* The watchdog *)

\* staleness() > threshold: time since the latest update of any symbol.
Stale ==
    /\ \E s \in Symbols : age[s] # Never
    /\ \A s \in Symbols : age[s] = Never \/ age[s] > StaleAfter

\* Collects trades, connected for long, and not one came.
TradesSilent ==
    /\ ~warned /\ TradeSilence > 0 /\ CollectTrades
    /\ ~traded /\ connected /\ since > TradeSilence

WatchdogWakes == watchdog = "asleep" /\ left["watchdog"] = 0

\* The exception ends the watchdog's own task; nothing awaits that task.
WatchdogRaises ==
    /\ WatchdogWakes /\ Stale
    /\ watchdog' = "dead"
    /\ journal' = "stale_forced_reconnect"
    /\ UNCHANGED <<main, rest, stop, setup, choice, feed, retry, left, up, age, trades,
                   warned>>

\* Mutant: the watchdog looks once.
WatchdogEnds ==
    /\ WatchdogWakes /\ ~Stale
    /\ watchdog' = "none"
    /\ UNCHANGED <<main, rest, stop, setup, choice, feed, retry, left, up, age, trades,
                   warned, journal>>

WatchdogSleeps ==
    /\ WatchdogWakes /\ ~Stale
    /\ left' = [left EXCEPT !.watchdog = StaleAfter \div 2]
    /\ \/ TradesSilent /\ warned' = TRUE /\ journal' = "no_trades_since_connect"
       \/ ~TradesSilent /\ UNCHANGED <<warned, journal>>
    /\ UNCHANGED <<tasks, stop, setup, choice, feed, retry, up, age, trades>>

-----------------------------------------------------------------------------
(* REST *)

\* Mutant: the loop does not look at the stop flag.
RestStartAnyway ==
    /\ rest = "starting" \/ (rest = "waiting" /\ (left["polling"] = 0 \/ stop))
    /\ main # "reaping"
    /\ BeginPolling(main)
    /\ UNCHANGED <<watchdog, stop, setup, choice, retry, left, up, age, warned>>

\* The window's task runs for the first time or wakes from its wait.
RestStart ==
    /\ rest = "starting" \/ (rest = "waiting" /\ (left["polling"] = 0 \/ stop))
    /\ main # "reaping"
    /\ \/ stop /\ RestReturns /\ UNCHANGED <<feed, trades, journal>>
       \/ ~stop /\ BeginPolling(main)
    /\ UNCHANGED <<watchdog, stop, setup, choice, retry, left, up, age, warned>>

\* An exception leaves run_rest: wait, twice as long every time.
RestFails ==
    /\ rest = "polling" /\ main # "reaping"
    /\ connected' = FALSE
    /\ journal' = "rest_error"
    /\ \/ stop /\ RestReturns /\ UNCHANGED <<left, backoff>>
       \/ /\ ~stop
          /\ rest' = "waiting"
          /\ left' = [left EXCEPT !.polling = backoff]
          /\ backoff' = AtMost(2 * backoff, BackoffMax)
          /\ UNCHANGED main
    /\ UNCHANGED <<watchdog, stop, setup, choice, transport, failures, up, age, trades,
                   warned>>

\* Mutant: the window waits for its task only.
WindowOpenEnded ==
    /\ main = "fallback" /\ rest = "none"
    /\ main' = "reaping"
    /\ UNCHANGED <<rest, watchdog, stop, setup, choice, feed, retry, left, up, age,
                   trades, warned, journal>>

\* Mutant: the window's task is not cancelled.
WindowLeaksTask ==
    /\ main = "fallback" /\ left["window"] = 0 /\ ~stop
    /\ backoff' = BackoffMin
    /\ EnterWs("retry_ws")
    /\ UNCHANGED <<rest, stop, setup, feed, age, trades>>

\* _run_rest_for: the window is over or its task returned; cancel and gather.
WindowEnds ==
    /\ main = "fallback"
    /\ left["window"] = 0 \/ rest = "none"
    /\ main' = "reaping"
    /\ UNCHANGED <<rest, watchdog, stop, setup, choice, feed, retry, left, up, age,
                   trades, warned, journal>>

\* The cancelled task ends; run_rest's finally clears connected.
RestCancelled ==
    /\ main = "reaping" /\ rest # "none"
    /\ rest' = "none"
    /\ connected' = IF rest = "polling" THEN FALSE ELSE connected
    /\ UNCHANGED <<main, watchdog, stop, setup, choice, transport, retry, left, up, age,
                   trades, warned, journal>>

\* Back in _run_auto.
RetryWs ==
    /\ main = "reaping" /\ rest = "none"
    /\ \/ /\ stop
          /\ main' = "done"
          /\ UNCHANGED <<watchdog, choice, retry, left, up, warned, journal>>
       \/ /\ ~stop
          /\ backoff' = BackoffMin
          /\ EnterWs("retry_ws")
    /\ UNCHANGED <<rest, stop, setup, feed, age, trades>>

-----------------------------------------------------------------------------
(* The exchange *)

Feeding == main = "streaming" \/ rest = "polling"

\* _apply.  The stream subscribes to unlisted pairs too, but an exchange has
\* nothing to send for them; run_rest skips them.
Update(s) ==
    /\ Feeding
    /\ listed[s] # "no"
    /\ age' = [age EXCEPT ![s] = 0]
    /\ UNCHANGED <<tasks, stop, setup, choice, feed, retry, left, up, trades, warned,
                   journal>>

Trade ==
    /\ Feeding /\ CollectTrades
    /\ traded' = TRUE
    /\ UNCHANGED <<tasks, stop, setup, choice, feed, retry, left, up, age, since, warned,
                   journal>>

-----------------------------------------------------------------------------
(* Shutdown and time *)

\* _request_stop of run_forever.
RequestStop ==
    /\ ~stop
    /\ stop' = TRUE
    /\ UNCHANGED <<tasks, setup, choice, feed, retry, left, up, age, trades, warned,
                   journal>>

\* Mutant: only a task that waits for the stop flag ends.
CancelWaiting ==
    /\ stop /\ main = "waiting"
    /\ main' = "done"
    /\ UNCHANGED <<rest, watchdog, stop, setup, choice, feed, retry, left, up, age,
                   trades, warned, journal>>

\* Mutant: the window's task is not taken along.
CancelAtOnce ==
    /\ stop /\ main \notin {"reaping", "done"}
    /\ main' = "done" /\ watchdog' = "none"
    /\ UNCHANGED <<rest, stop, setup, choice, feed, retry, left, up, age, trades,
                   warned, journal>>

\* run_forever cancels run(), which is at an await; in the REST window it takes
\* the window's task with it.
Cancel ==
    /\ stop
    /\ \/ /\ main \in {"validating", "picking", "connecting", "subscribing", "streaming",
                         "waiting"}
          /\ main' = "done"
          /\ connected' = IF main = "streaming" THEN FALSE ELSE connected
          /\ UNCHANGED rest
       \/ /\ main = "rest"
          /\ main' = "done" /\ rest' = "none"
          /\ connected' = IF rest = "polling" THEN FALSE ELSE connected
       \/ /\ main = "fallback"
          /\ main' = "reaping"
          /\ UNCHANGED <<rest, connected>>
    /\ watchdog' = "none"
    /\ UNCHANGED <<stop, setup, choice, transport, retry, left, up, age, trades, warned,
                   journal>>

\* A task that waits for nothing runs before the clock moves: the time unit is
\* seconds, a turn of the event loop is not.
Tick ==
    /\ rest # "starting"
    /\ left' = [t \in Timers |-> IF left[t] = 0 THEN 0 ELSE left[t] - 1]
    /\ up' = AtMost(up + 1, UpCap)
    /\ age' = [s \in Symbols |->
                 IF age[s] = Never THEN Never ELSE AtMost(age[s] + 1, AgeCap)]
    /\ since' = AtMost(since + 1, SinceCap)
    /\ UNCHANGED <<tasks, stop, setup, choice, feed, retry, traded, warned, journal>>

-----------------------------------------------------------------------------
Supervise ==
    \/ Validate \/ Pick
    \/ Handshake \/ Connect \/ ConnectFails \/ Reconnect
    \/ WindowEnds \/ RetryWs

Next ==
    \/ Supervise
    \/ Drop \/ CleanClose
    \/ Switch
    \/ WatchdogRaises \/ WatchdogSleeps
    \/ RestStart \/ RestFails \/ RestCancelled
    \/ \E s \in Symbols : Update(s)
    \/ Trade
    \/ RequestStop \/ Cancel
    \/ Tick

Spec == Init /\ [][Next]_vars

\* Time passes and the event loop runs every task that is ready: requests and
\* handshakes have timeouts, and run_forever cancels after it has set stop.
\* The exchange owes nothing: no update, no drop, no close.
FairSpec ==
    /\ Spec
    /\ WF_vars(Supervise)
    /\ WF_vars(WatchdogRaises \/ WatchdogSleeps)
    /\ WF_vars(RestStart) /\ WF_vars(RestCancelled)
    /\ WF_vars(Cancel)
    /\ WF_vars(Tick)

-----------------------------------------------------------------------------
(* Safety *)

TypeOK ==
    /\ main \in {"validating", "picking", "connecting", "subscribing", "streaming",
                 "waiting", "fallback", "reaping", "rest", "done"}
    /\ rest \in {"none", "starting", "polling", "waiting"}
    /\ watchdog \in {"none", "asleep", "dead"}
    /\ stop \in BOOLEAN
    /\ wanted \in Transports
    /\ listed \in [Symbols -> {"yes", "no", "unknown"}]
    /\ target \in Endpoints /\ current \in Endpoints
    /\ connected \in BOOLEAN /\ transport \in {"ws", "rest"}
    /\ backoff \in BackoffMin .. BackoffMax
    /\ failures \in 0 .. FailuresBeforeRest
    /\ left \in [Timers -> Nat]
    /\ up \in 0 .. UpCap
    /\ age \in [Symbols -> {Never} \cup (0 .. AgeCap)]
    /\ since \in 0 .. SinceCap
    /\ traded \in BOOLEAN /\ warned \in BOOLEAN
    /\ journal \in {"none", "skipped_no_listing", "connecting", "connected",
                    "disconnected", "fallback_to_rest", "retry_ws",
                    "rest_polling_start", "rest_error", "stale_forced_reconnect",
                    "no_trades_since_connect"}

\* The stream and the poller share one adapter and never feed it together: the
\* REST window's task has ended before the next attempt starts, however the
\* window ends.
OneFeeder ==
    main \in {"picking", "connecting", "subscribing", "streaming", "waiting"}
        => rest = "none"

\* Rows carry the transport they came over, and an exchange that feeds the books
\* counts as connected: no leftover of the other transport, of its window or of
\* its cleanup is in the way.
RowsTagged ==
    /\ Feeding => connected
    /\ main = "streaming" => transport = "ws"
    /\ rest = "polling" => transport = "rest"

\* Nothing outlives run(): when it has returned, by stop or by cancellation, no
\* poller and no watchdog is left.
NothingOutlivesRun == main = "done" => rest = "none" /\ watchdog = "none"

\* Once the stop flag is set no attempt, no REST window and no polling begins,
\* whichever wait, race or window the flag arrives in.
NothingStartsAfterStop ==
    [][ stop => /\ main' = "connecting" => main = "connecting"
                /\ rest' \in {"starting", "polling"} => rest' = rest ]_vars

\* no_trades_since_connect is said of a connection only after it has been up for
\* longer than trade_silence_warn_s: the clock and the counter of an earlier
\* connection or of the REST window do not count.
TradeWarningEarned ==
    [][ warned' /\ ~warned /\ main = "streaming" => up > TradeSilence ]_vars

-----------------------------------------------------------------------------
(* The supervisor implements the link its surroundings rely on *)

Link == INSTANCE ExchangeLink WITH
    begun <- main # "validating",
    stop <- stop,
    link <- CASE main = "done" -> "off"
              [] main = "streaming" -> "ws"
              [] rest = "polling" -> "rest"
              [] OTHER -> "down"

\* One transport at a time, with a gap between two; no polling that begins after
\* the stop; nothing after the end.
ImplementsLink == Link!LinkSpec

-----------------------------------------------------------------------------
(* Liveness *)

\* Stop ends the supervisor from wherever it is.
StopEnds == stop ~> (main = "done" /\ rest = "none")

\* The REST window is bounded: the WebSocket is tried again.
WindowIsBounded == main = "fallback" ~> main \in {"picking", "connecting", "done"}

\* REST is the safety net of transport = auto: if from some time on no attempt
\* connects, REST polling keeps coming back.
SafetyNet ==
    wanted = "auto" /\ <>[](main # "streaming") => []<>(rest = "polling" \/ main = "done" \/ stop)

\* A feed that falls silent after an update is reported as stale, the first time
\* it does so on a connection.
SilenceReported ==
    (main = "streaming" /\ watchdog # "dead" /\ Stale)
        ~> (journal = "stale_forced_reconnect" \/ main # "streaming" \/ ~Stale)

-----------------------------------------------------------------------------
(* What the documentation says and the code does not do *)

\* config.yaml:98: a feed without updates for stale_after_s is reconnected.
StaleReconnects == journal = "stale_forced_reconnect" ~> main # "streaming"

\* README.md:204: when no frame can be read any more, REST takes over.
UnreadableFallsBack ==
    wanted = "auto" /\ [](\A s \in Symbols : age[s] = Never) => <>(rest = "polling" \/ main = "done" \/ stop)

\* README.md:6: connection events make gaps traceable: while the WebSocket is
\* down between two attempts, the last event is not that it is connected.
GapsTraceable == main \in {"waiting", "picking", "fallback"} => journal # "connected"

=============================================================================
