-------------------------- MODULE SupervisorProofs --------------------------
(***************************************************************************)
(* The safety of the supervisor, for any symbols, endpoints, timers and    *)
(* limits: what its tasks share is in order in every state, nothing begins *)
(* after the stop, and it implements the link of ExchangeLink.             *)
(***************************************************************************)
EXTENDS Supervisor, TLAPS

Opening == {"connecting", "subscribing"}
Attempting == Opening \cup {"streaming"}

\* Which task is there beside run(), and what it has written to the adapter.
Placed ==
    /\ rest # "none" => main \in {"rest", "fallback", "reaping"}
    /\ watchdog # "none" => main \in Attempting
    /\ rest = "polling" => connected /\ transport = "rest"
    /\ main \in {"subscribing", "streaming"} =>
          connected /\ transport = "ws" /\ since <= up

Inv == TypeOK /\ Placed

\* TypeOK in two parts: the provers that know arithmetic know truth values badly.
Flags ==
    stop \in BOOLEAN /\ connected \in BOOLEAN /\ traded \in BOOLEAN /\ warned \in BOOLEAN

Ranges ==
    /\ main \in {"validating", "picking", "connecting", "subscribing", "streaming",
                 "waiting", "fallback", "reaping", "rest", "done"}
    /\ rest \in {"none", "starting", "polling", "waiting"}
    /\ watchdog \in {"none", "asleep", "dead"}
    /\ wanted \in Transports
    /\ listed \in [Symbols -> {"yes", "no", "unknown"}]
    /\ target \in Endpoints /\ current \in Endpoints
    /\ transport \in {"ws", "rest"}
    /\ backoff \in BackoffMin .. BackoffMax
    /\ failures \in 0 .. FailuresBeforeRest
    /\ left \in [Timers -> Nat]
    /\ up \in 0 .. UpCap
    /\ age \in [Symbols -> {Never} \cup (0 .. AgeCap)]
    /\ since \in 0 .. SinceCap
    /\ journal \in {"none", "skipped_no_listing", "connecting", "connected",
                    "disconnected", "fallback_to_rest", "retry_ws",
                    "rest_polling_start", "rest_error", "stale_forced_reconnect",
                    "no_trades_since_connect"}

LEMMA TypeParts == TypeOK <=> Flags /\ Ranges
  BY Zenon DEF TypeOK, Flags, Ranges

-----------------------------------------------------------------------------
(* Arithmetic of the timers. *)

LEMMA HalfIsNat == StaleAfter \div 2 \in Nat
  BY ConstantsAssumption

LEMMA AtMostIsLeast ==
    ASSUME NEW a \in Int, NEW b \in Int
    PROVE  AtMost(a, b) \in Int /\ AtMost(a, b) <= a /\ AtMost(a, b) <= b
             /\ AtMost(a, b) \in {a, b}
  BY DEF AtMost

LEMMA CapsOrdered ==
    /\ UpCap \in Nat /\ SinceCap \in Nat /\ AgeCap \in Nat
    /\ SinceCap <= UpCap
    /\ TradeSilence < UpCap
  BY ConstantsAssumption DEF UpCap, SinceCap, AgeCap

LEMMA BackoffBounded ==
    ASSUME NEW b \in BackoffMin .. BackoffMax
    PROVE  /\ AtMost(2 * b, BackoffMax) \in BackoffMin .. BackoffMax
           /\ b \in Nat
  BY ConstantsAssumption DEF AtMost

-----------------------------------------------------------------------------
(* Every variable stays in its range. *)

LEMMA InitFlags == Init => Flags
  BY Zenon DEF Init, Flags

LEMMA InitRanges == Init => Ranges
  BY ConstantsAssumption, CapsOrdered DEF Init, Ranges

LEMMA StepKeepsFlags == Flags /\ [Next]_vars => Flags'
<1> SUFFICES ASSUME Flags, [Next]_vars
             PROVE  Flags'
  OBVIOUS
<1> USE DEF tasks, setup, choice, feed, retry, trades
<1>1. CASE Validate
  BY <1>1, Zenon DEF Validate, EnterWs, BeginAttempt, BeginPolling, Flags
<1>2. CASE Pick
  BY <1>2, Zenon DEF Pick, BeginAttempt, Flags
<1>3. CASE Handshake
  BY <1>3, Zenon DEF Handshake, Flags
<1>4. CASE Connect
  BY <1>4, Zenon DEF Connect, Flags
<1>5. CASE ConnectFails
  BY <1>5, Zenon DEF ConnectFails, AfterAttempt, Flags
<1>6. CASE Drop
  BY <1>6, Zenon DEF Drop, AfterAttempt, Flags
<1>7. CASE CleanClose
  BY <1>7, Zenon DEF CleanClose, AfterAttempt, Flags
<1>8. CASE Reconnect
  BY <1>8, Zenon DEF Reconnect, BeginAttempt, Flags
<1>9. CASE Switch
  BY <1>9, Zenon DEF Switch, Flags
<1>10. CASE WatchdogRaises
  BY <1>10, Zenon DEF WatchdogRaises, Flags
<1>11. CASE WatchdogSleeps
  BY <1>11, Zenon DEF WatchdogSleeps, Flags
<1>12. CASE RestStart
  BY <1>12, Zenon DEF RestStart, RestReturns, BeginPolling, Flags
<1>13. CASE RestFails
  BY <1>13, Zenon DEF RestFails, RestReturns, Flags
<1>14. CASE WindowEnds
  BY <1>14, Zenon DEF WindowEnds, Flags
<1>15. CASE RestCancelled
  BY <1>15, Zenon DEF RestCancelled, Flags
<1>16. CASE RetryWs
  BY <1>16, Zenon DEF RetryWs, EnterWs, BeginAttempt, Flags
<1>17. CASE \E s \in Symbols : Update(s)
  BY <1>17, Zenon DEF Update, Flags
<1>18. CASE Trade
  BY <1>18, Zenon DEF Trade, Flags
<1>19. CASE RequestStop
  BY <1>19, Zenon DEF RequestStop, Flags
<1>20. CASE Cancel
  BY <1>20, Zenon DEF Cancel, Flags
<1>21. CASE Tick
  BY <1>21, Zenon DEF Tick, Flags
<1>22. CASE UNCHANGED vars
  BY <1>22, Zenon DEF vars, Flags
<1> QED
  BY <1>1, <1>2, <1>3, <1>4, <1>5, <1>6, <1>7, <1>8, <1>9, <1>10, <1>11, <1>12,
     <1>13, <1>14, <1>15, <1>16, <1>17, <1>18, <1>19, <1>20, <1>21, <1>22 DEF Next, Supervise

\* The head of the loop, on whatever path it is reached.
LEMMA BeginKeepsRanges ==
    ASSUME Ranges, NEW e \in Endpoints,
           NEW j \in {"connecting", journal, "retry_ws"}, BeginAttempt(e, j)
    PROVE  /\ main' \in {"done", "connecting"} /\ watchdog' \in {watchdog, "asleep"}
           /\ current' \in Endpoints /\ left' \in [Timers -> Nat] /\ up' \in 0 .. UpCap
           /\ journal' \in {j, "connecting"}
  BY HalfIsNat, CapsOrdered DEF BeginAttempt, Ranges, Timers

LEMMA EnterKeepsRanges ==
    ASSUME Ranges, NEW j \in {journal, "retry_ws"}, EnterWs(j)
    PROVE  /\ main' \in {"picking", "done", "connecting"} /\ failures' = 0
           /\ watchdog' \in {watchdog, "asleep"}
           /\ target' \in Endpoints /\ current' \in Endpoints
           /\ left' \in [Timers -> Nat] /\ up' \in 0 .. UpCap
           /\ journal' \in {j, "connecting"}
<1>1. CASE main' = "picking"
  BY <1>1 DEF EnterWs, choice, Ranges, BeginAttempt
<1>2. CASE BeginAttempt(DefaultEndpoint, j)
  BY <1>2, BeginKeepsRanges, ConstantsAssumption DEF EnterWs, choice, Ranges
<1> QED
  BY <1>1, <1>2 DEF EnterWs

\* The end of an attempt, however it ended.
LEMMA AfterKeepsRanges ==
    ASSUME Ranges, NEW f \in Nat, NEW j \in {"disconnected", journal}, AfterAttempt(f, j)
    PROVE  Ranges'
<1>1. failures' \in 0 .. FailuresBeforeRest
  BY ConstantsAssumption DEF AfterAttempt, AtMost
<1>2. /\ left' \in [Timers -> Nat] /\ backoff' \in BackoffMin .. BackoffMax
      /\ main' \in {"done", "fallback", "waiting"} /\ rest' \in {rest, "starting"}
      /\ journal' \in {j, "fallback_to_rest"}
  <2>1. CASE main' = "waiting" /\ Wait
    BY <2>1, ConstantsAssumption DEF AfterAttempt, Wait, AtMost, Ranges, Timers
  <2>2. CASE ~(main' = "waiting" /\ Wait)
    BY <2>2, ConstantsAssumption DEF AfterAttempt, Ranges, Timers
  <2> QED
    BY <2>1, <2>2
<1> QED
  BY <1>1, <1>2 DEF AfterAttempt, Ranges, setup, choice, trades

LEMMA StepKeepsRanges == Ranges /\ [Next]_vars => Ranges'
<1> SUFFICES ASSUME Ranges, [Next]_vars
             PROVE  Ranges'
  OBVIOUS
<1> USE DEF tasks, setup, choice, feed, retry, trades
<1>1. CASE Validate
  <2>1. listed' \in [Symbols -> {"yes", "no", "unknown"}]
    BY <1>1 DEF Validate
  <2>2. CASE EnterWs(journal) /\ UNCHANGED <<rest, feed, backoff, trades>>
    <3>1. UNCHANGED <<wanted, age, rest, transport, backoff, since>>
      BY <1>1, <2>2 DEF Validate
    <3> QED
      BY <2>1, <2>2, <3>1, EnterKeepsRanges, ConstantsAssumption DEF Ranges
  <2>3. CASE ~UsesWs /\ UNCHANGED <<watchdog, choice, retry, left, up, warned>>
    BY <1>1, <2>1, <2>3, CapsOrdered DEF Validate, Ranges, BeginPolling
  <2>4. CASE main' = "done" /\ journal' = "skipped_no_listing"
             /\ UNCHANGED <<rest, watchdog, choice, feed, retry, left, up, trades, warned>>
    BY <1>1, <2>1, <2>4 DEF Validate, Ranges
  <2> QED
    BY <1>1, <2>2, <2>3, <2>4 DEF Validate
<1>2. CASE Pick
  BY <1>2, BeginKeepsRanges DEF Pick, Ranges
<1>3. CASE Handshake
  BY <1>3, CapsOrdered DEF Handshake, Ranges
<1>4. CASE Connect
  BY <1>4 DEF Connect, Ranges
<1>5. CASE ConnectFails
  <2>1. failures + 1 \in Nat
    BY <1>5, ConstantsAssumption DEF ConnectFails, Ranges
  <2> QED
    BY <1>5, <2>1, AfterKeepsRanges DEF ConnectFails
<1>6. CASE Drop
  <2>1. failures + 1 \in Nat
    BY <1>6, ConstantsAssumption DEF Drop, Ranges
  <2> QED
    BY <1>6, <2>1, AfterKeepsRanges DEF Drop
<1>7. CASE CleanClose
  BY <1>7, AfterKeepsRanges DEF CleanClose
<1>8. CASE Reconnect
  BY <1>8, BeginKeepsRanges DEF Reconnect, Ranges
<1>9. CASE Switch
  BY <1>9 DEF Switch, Ranges
<1>10. CASE WatchdogRaises
  BY <1>10 DEF WatchdogRaises, Ranges
<1>11. CASE WatchdogSleeps
  BY <1>11, HalfIsNat DEF WatchdogSleeps, Ranges, Timers
<1>12. CASE RestStart
  BY <1>12, CapsOrdered DEF RestStart, RestReturns, BeginPolling, Ranges
<1>13. CASE RestFails
  BY <1>13, BackoffBounded DEF RestFails, RestReturns, Ranges, Timers
<1>14. CASE WindowEnds
  BY <1>14 DEF WindowEnds, Ranges
<1>15. CASE RestCancelled
  BY <1>15 DEF RestCancelled, Ranges
<1>16. CASE RetryWs
  <2>1. CASE stop /\ main' = "done"
             /\ UNCHANGED <<watchdog, choice, retry, left, up, warned, journal>>
    BY <1>16, <2>1 DEF RetryWs, Ranges
  <2>2. CASE backoff' = BackoffMin /\ EnterWs("retry_ws")
    BY <1>16, <2>2, EnterKeepsRanges, ConstantsAssumption DEF RetryWs, Ranges
  <2> QED
    BY <1>16, <2>1, <2>2 DEF RetryWs
<1>17. CASE \E s \in Symbols : Update(s)
  BY <1>17, CapsOrdered DEF Update, Ranges
<1>18. CASE Trade
  BY <1>18 DEF Trade, Ranges
<1>19. CASE RequestStop
  BY <1>19 DEF RequestStop, Ranges
<1>20. CASE Cancel
  BY <1>20 DEF Cancel, Ranges
<1>21. CASE Tick
  <2>1. /\ left' \in [Timers -> Nat]
        /\ age' \in [Symbols -> {Never} \cup (0 .. AgeCap)]
    BY <1>21, CapsOrdered DEF Tick, Ranges, AtMost, Never
  <2>2. up' \in 0 .. UpCap /\ since' \in 0 .. SinceCap
    BY <1>21, CapsOrdered DEF Tick, Ranges, AtMost
  <2> QED
    BY <1>21, <2>1, <2>2 DEF Tick, Ranges
<1>22. CASE UNCHANGED vars
  BY <1>22 DEF vars, Ranges
<1> QED
  BY <1>1, <1>2, <1>3, <1>4, <1>5, <1>6, <1>7, <1>8, <1>9, <1>10, <1>11, <1>12,
     <1>13, <1>14, <1>15, <1>16, <1>17, <1>18, <1>19, <1>20, <1>21, <1>22 DEF Next, Supervise

-----------------------------------------------------------------------------
(* The tasks beside run() are where they belong. *)

LEMMA StepKeepsPlaced == Inv /\ [Next]_vars => Placed'
<1> SUFFICES ASSUME Inv, [Next]_vars
             PROVE  Placed'
  OBVIOUS
<1>a. Ranges /\ Placed
  BY TypeParts DEF Inv
<1> USE <1>a DEF Placed, Attempting, Opening, tasks, setup, choice, feed, retry, trades
<1>1. CASE Validate
  BY <1>1 DEF Validate, EnterWs, BeginAttempt, BeginPolling
<1>2. CASE Pick
  BY <1>2 DEF Pick, BeginAttempt
<1>3. CASE Handshake
  BY <1>3 DEF Handshake, Ranges
<1>4. CASE Connect
  BY <1>4 DEF Connect
<1>5. CASE ConnectFails
  BY <1>5 DEF ConnectFails, AfterAttempt
<1>6. CASE Drop
  BY <1>6 DEF Drop, AfterAttempt
<1>7. CASE CleanClose
  BY <1>7 DEF CleanClose, AfterAttempt
<1>8. CASE Reconnect
  BY <1>8 DEF Reconnect, BeginAttempt
<1>9. CASE Switch
  BY <1>9 DEF Switch
<1>10. CASE WatchdogRaises
  BY <1>10 DEF WatchdogRaises, WatchdogWakes
<1>11. CASE WatchdogSleeps
  BY <1>11 DEF WatchdogSleeps, WatchdogWakes
<1>12. CASE RestStart
  BY <1>12 DEF RestStart, RestReturns, BeginPolling
<1>13. CASE RestFails
  BY <1>13 DEF RestFails, RestReturns
<1>14. CASE WindowEnds
  BY <1>14 DEF WindowEnds
<1>15. CASE RestCancelled
  BY <1>15 DEF RestCancelled
<1>16. CASE RetryWs
  BY <1>16 DEF RetryWs, EnterWs, BeginAttempt
<1>17. CASE \E s \in Symbols : Update(s)
  BY <1>17 DEF Update
<1>18. CASE Trade
  BY <1>18 DEF Trade
<1>19. CASE RequestStop
  BY <1>19 DEF RequestStop
<1>20. CASE Cancel
  <2>1. CASE main = "fallback"
    BY <1>20, <2>1 DEF Cancel
  <2>2. CASE main # "fallback"
    BY <1>20, <2>2 DEF Cancel
  <2> QED
    BY <2>1, <2>2
<1>21. CASE Tick
  <2>1. since <= up => since' <= up'
    BY <1>21, CapsOrdered DEF Tick, AtMost, Ranges
  <2> QED
    BY <1>21, <2>1 DEF Tick
<1>22. CASE UNCHANGED vars
  BY <1>22 DEF vars
<1> QED
  BY <1>1, <1>2, <1>3, <1>4, <1>5, <1>6, <1>7, <1>8, <1>9, <1>10, <1>11, <1>12,
     <1>13, <1>14, <1>15, <1>16, <1>17, <1>18, <1>19, <1>20, <1>21, <1>22 DEF Next, Supervise

LEMMA InitInv == Init => Inv
<1>1. Init => Placed
  BY DEF Init, Placed, Attempting, Opening
<1> QED
  BY <1>1, InitFlags, InitRanges, TypeParts DEF Inv

\* Types, and who may be there beside run(), hold always.
THEOREM InvHolds == Spec => []Inv
<1>1. Inv /\ [Next]_vars => Inv'
  BY StepKeepsFlags, StepKeepsRanges, StepKeepsPlaced, TypeParts DEF Inv, TypeOK, Flags, Ranges
<1> QED
  BY <1>1, InitInv, PTL DEF Spec

\* Variables stay in their ranges: the backoff between its bounds, whichever loop
\* doubles or resets it, and the count of failures within its limit.
THEOREM TypesHold == Spec => []TypeOK
  BY InvHolds, PTL DEF Inv

\* The stream and the poller never feed the adapter together.
THEOREM OneFeederHolds == Spec => []OneFeeder
<1>1. Inv => OneFeeder
  BY DEF Inv, Placed, OneFeeder
<1> QED
  BY <1>1, InvHolds, PTL

\* Rows carry the transport they came over.
THEOREM RowsAreTagged == Spec => []RowsTagged
<1>1. Inv => RowsTagged
  BY DEF Inv, Placed, RowsTagged, Feeding
<1> QED
  BY <1>1, InvHolds, PTL

\* When run() has returned, no poller and no watchdog is left.
THEOREM NothingOutlives == Spec => []NothingOutlivesRun
<1>1. Inv => NothingOutlivesRun
  BY DEF Inv, Placed, NothingOutlivesRun, Attempting, Opening
<1> QED
  BY <1>1, InvHolds, PTL

-----------------------------------------------------------------------------
(* What a step may never do. *)

\* A loop looks at the stop flag before it begins anything.
LEMMA NoStartWhenStopped ==
    ASSUME [Next]_vars, stop
    PROVE  /\ main' = "connecting" => main = "connecting"
           /\ rest' \in {"starting", "polling"} => rest' = rest
<1> USE DEF tasks
<1>1. CASE Validate
  BY <1>1 DEF Validate, EnterWs, BeginAttempt, BeginPolling
<1>2. CASE Pick
  BY <1>2 DEF Pick, BeginAttempt
<1>3. CASE Handshake
  BY <1>3 DEF Handshake
<1>4. CASE Connect
  BY <1>4 DEF Connect
<1>5. CASE ConnectFails
  BY <1>5 DEF ConnectFails, AfterAttempt
<1>6. CASE Drop
  BY <1>6 DEF Drop, AfterAttempt
<1>7. CASE CleanClose
  BY <1>7 DEF CleanClose, AfterAttempt
<1>8. CASE Reconnect
  BY <1>8 DEF Reconnect, BeginAttempt
<1>9. CASE Switch
  BY <1>9 DEF Switch
<1>10. CASE WatchdogRaises
  BY <1>10 DEF WatchdogRaises
<1>11. CASE WatchdogSleeps
  BY <1>11 DEF WatchdogSleeps
<1>12. CASE RestStart
  BY <1>12 DEF RestStart, RestReturns, BeginPolling
<1>13. CASE RestFails
  BY <1>13 DEF RestFails, RestReturns
<1>14. CASE WindowEnds
  BY <1>14 DEF WindowEnds
<1>15. CASE RestCancelled
  BY <1>15 DEF RestCancelled
<1>16. CASE RetryWs
  BY <1>16 DEF RetryWs, EnterWs, BeginAttempt
<1>17. CASE \E s \in Symbols : Update(s)
  BY <1>17 DEF Update
<1>18. CASE Trade
  BY <1>18 DEF Trade
<1>19. CASE RequestStop
  BY <1>19 DEF RequestStop
<1>20. CASE Cancel
  BY <1>20 DEF Cancel
<1>21. CASE Tick
  BY <1>21 DEF Tick
<1>22. CASE UNCHANGED vars
  BY <1>22 DEF vars
<1> QED
  BY <1>1, <1>2, <1>3, <1>4, <1>5, <1>6, <1>7, <1>8, <1>9, <1>10, <1>11, <1>12,
     <1>13, <1>14, <1>15, <1>16, <1>17, <1>18, <1>19, <1>20, <1>21, <1>22 DEF Next, Supervise

\* Once the stop flag is set no attempt, no REST window and no polling begins.
THEOREM StopStartsNothing == Spec => NothingStartsAfterStop
<1>1. [Next]_vars
        => [ stop => /\ main' = "connecting" => main = "connecting"
                     /\ rest' \in {"starting", "polling"} => rest' = rest ]_vars
  BY NoStartWhenStopped
<1> QED
  BY <1>1, PTL DEF Spec, NothingStartsAfterStop

\* Only the watchdog, and an attempt that begins, write the mark of the warning.
LEMMA WarningIsEarned ==
    ASSUME Inv, [Next]_vars, warned', ~warned, main = "streaming"
    PROVE  up > TradeSilence
<1>1. WatchdogSleeps /\ warned' # warned
  BY DEF Next, Supervise, vars, Validate, Pick, Handshake, Connect, ConnectFails, Reconnect,
         WindowEnds, RetryWs, Drop, CleanClose, AfterAttempt, Switch, WatchdogRaises, RestStart,
         RestFails, RestCancelled, Update, Trade, RequestStop, Cancel, Tick
<1>2. TradesSilent
  BY <1>1 DEF WatchdogSleeps
<1>3. since <= up /\ since \in Int /\ up \in Int /\ since > TradeSilence
  BY <1>2, TypeParts, CapsOrdered DEF Inv, Placed, Ranges, TradesSilent
<1> QED
  BY <1>3, ConstantsAssumption

\* The warning is said of a connection that has itself been up for long enough.
THEOREM WarningsAreEarned == Spec => TradeWarningEarned
<1>1. Inv /\ [Next]_vars
        => [ warned' /\ ~warned /\ main = "streaming" => up > TradeSilence ]_vars
  BY WarningIsEarned
<1> QED
  BY <1>1, InvHolds, PTL DEF Spec, TradeWarningEarned

-----------------------------------------------------------------------------
(* The link. *)

\* Where the link is, as the instance of ExchangeLink in Supervisor reads it.
LinkOf ==
    CASE main = "done" -> "off"
      [] main = "streaming" -> "ws"
      [] rest = "polling" -> "rest"
      [] OTHER -> "down"

LEMMA LinkIs ==
    ASSUME Placed
    PROVE  /\ main = "done" => LinkOf = "off"
           /\ main = "streaming" => LinkOf = "ws"
           /\ main \notin {"done", "streaming"} /\ rest = "polling" => LinkOf = "rest"
           /\ main \notin {"done", "streaming"} /\ rest # "polling" => LinkOf = "down"
  BY DEF LinkOf, Placed, Attempting, Opening

LEMMA LinkWillBe ==
    ASSUME Placed'
    PROVE  /\ main' = "done" => LinkOf' = "off"
           /\ main' = "streaming" => LinkOf' = "ws"
           /\ main' \notin {"done", "streaming"} /\ rest' = "polling" => LinkOf' = "rest"
           /\ main' \notin {"done", "streaming"} /\ rest' # "polling" => LinkOf' = "down"
  BY DEF LinkOf, Placed, Attempting, Opening

SameListing == (main' # "validating") <=> (main # "validating")

\* A step of the link, in terms of LinkOf.
LinkStep ==
    \/ /\ stop' = stop
       /\ \/ LinkOf = "down" /\ LinkOf' = "rest" /\ ~stop /\ main' # "validating"
          \/ LinkOf = "down" /\ LinkOf' = "ws" /\ main # "validating" /\ main' # "validating"
          \/ LinkOf \in {"ws", "rest"} /\ LinkOf' = "down" /\ SameListing
          \/ main = "validating" /\ main' # "validating" /\ LinkOf' \in {LinkOf, "off"}
          \/ stop /\ LinkOf # "off" /\ LinkOf' = "off" /\ main' # "validating"
          \/ LinkOf' = LinkOf /\ SameListing
    \/ ~stop /\ stop' /\ LinkOf' = LinkOf /\ SameListing

LEMMA StepMovesLink == Inv /\ [Next]_vars => LinkStep
<1> SUFFICES ASSUME Inv, [Next]_vars
             PROVE  LinkStep
  OBVIOUS
<1>a. Placed'
  BY StepKeepsPlaced
<1> USE LinkIs, LinkWillBe, <1>a DEF LinkStep, SameListing, tasks, Inv, Placed, Attempting, Opening
<1>1. CASE Validate
  BY <1>1 DEF Validate, EnterWs, BeginAttempt, BeginPolling
<1>2. CASE Pick
  BY <1>2 DEF Pick, BeginAttempt
<1>3. CASE Handshake
  BY <1>3 DEF Handshake
<1>4. CASE Connect
  BY <1>4 DEF Connect
<1>5. CASE ConnectFails
  BY <1>5 DEF ConnectFails, AfterAttempt
<1>6. CASE Drop
  BY <1>6 DEF Drop, AfterAttempt
<1>7. CASE CleanClose
  BY <1>7 DEF CleanClose, AfterAttempt
<1>8. CASE Reconnect
  BY <1>8 DEF Reconnect, BeginAttempt
<1>9. CASE Switch
  BY <1>9 DEF Switch
<1>10. CASE WatchdogRaises
  BY <1>10 DEF WatchdogRaises
<1>11. CASE WatchdogSleeps
  BY <1>11 DEF WatchdogSleeps
<1>12. CASE RestStart
  BY <1>12 DEF RestStart, RestReturns, BeginPolling
<1>13. CASE RestFails
  BY <1>13 DEF RestFails, RestReturns
<1>14. CASE WindowEnds
  BY <1>14 DEF WindowEnds
<1>15. CASE RestCancelled
  BY <1>15 DEF RestCancelled
<1>16. CASE RetryWs
  BY <1>16 DEF RetryWs, EnterWs, BeginAttempt
<1>17. CASE \E s \in Symbols : Update(s)
  BY <1>17 DEF Update
<1>18. CASE Trade
  BY <1>18 DEF Trade
<1>19. CASE RequestStop
  <2>1. ~stop /\ stop' /\ main' = main /\ rest' = rest
    BY <1>19 DEF RequestStop
  <2>2. LinkOf' = LinkOf
    BY <2>1 DEF LinkOf
  <2> QED
    BY <2>1, <2>2
<1>20. CASE Cancel
  <2>1. CASE main = "fallback"
    <3>1. main' = "reaping" /\ rest' = rest /\ stop' = stop
      BY <1>20, <2>1 DEF Cancel
    <3> QED
      BY <2>1, <3>1
  <2>2. CASE main # "fallback"
    <3>1. stop /\ main # "done" /\ main' = "done" /\ stop' = stop
      BY <1>20, <2>2 DEF Cancel
    <3>2. LinkOf # "off"
      BY <3>1
    <3> QED
      BY <3>1, <3>2
  <2> QED
    BY <2>1, <2>2
<1>21. CASE Tick
  BY <1>21 DEF Tick
<1>22. CASE UNCHANGED vars
  BY <1>22 DEF vars
<1> QED
  BY <1>1, <1>2, <1>3, <1>4, <1>5, <1>6, <1>7, <1>8, <1>9, <1>10, <1>11, <1>12,
     <1>13, <1>14, <1>15, <1>16, <1>17, <1>18, <1>19, <1>20, <1>21, <1>22 DEF Next, Supervise

\* What LinkStep says is a step of the instance, or a stutter.
LEMMA LinkStepImplements ==
    ASSUME LinkStep, stop \in BOOLEAN, stop' \in BOOLEAN
    PROVE  [Link!LinkNext]_Link!linkVars
<1> USE DEF LinkStep, SameListing, LinkOf, Link!LinkNext, Link!linkVars, Link!Up, Link!Down,
            Link!Begin, Link!StopLink, Link!End
<1> QED
  OBVIOUS

\* The supervisor implements the link: one transport at a time, a gap between two, no
\* polling that begins after the stop, nothing after the end.
THEOREM SupervisorImplementsLink == Spec => ImplementsLink
<1>1. Init => Link!LinkInit
  BY LinkIs, InitInv DEF Init, Link!LinkInit, LinkOf
<1>2. Inv /\ Inv' /\ [Next]_vars => [Link!LinkNext]_Link!linkVars
  BY StepMovesLink, LinkStepImplements DEF Inv, TypeOK
<1> QED
  BY <1>1, <1>2, InvHolds, PTL DEF Spec, ImplementsLink, Link!LinkSpec
=============================================================================
