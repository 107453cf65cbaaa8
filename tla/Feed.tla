-------------------------------- MODULE Feed --------------------------------
(***************************************************************************)
(* One pair of one exchange: the book and the tape as the scraper sees     *)
(* them (exchanges/base.py: run_ws, run_rest, _handle_frame, _apply,       *)
(* _check_sequence, _emit_trade; models.py: IncrementalBook), over a       *)
(* stream that comes and goes and may lose frames, and over REST polls     *)
(* while it is down.  Adapters says what each adapter makes of a frame.    *)
(*                                                                         *)
(* The exchange is the environment: a history of books, a tape of trades   *)
(* and a stream of frames in order.  A frame may be lost before it reaches *)
(* the scraper, or be unreadable, which is the same here.                  *)
(***************************************************************************)
EXTENDS Adapters

CONSTANTS
    Followed,    \* the feeds that are looked at
    Prices,      \* price levels
    Sizes,       \* quantities
    Stamps,      \* time, price and quantity of a trade, as far as they differ
    FirstBook,   \* the book at the start
    MaxEvents,   \* bound: changes of the book plus trades at the exchange
    MaxWire      \* bound: frames in flight

\* A price is a 64-bit float in the code, so there are finitely many.
ASSUME FeedAssumption ==
    /\ Followed \subseteq Feeds
    /\ Prices \subseteq Nat /\ IsFiniteSet(Prices) /\ Sizes \subseteq Nat \ {0}
    /\ MaxEvents \in Nat /\ MaxWire \in Nat

Books == UNION {[P -> Sizes] : P \in SUBSET Prices}
ASSUME FirstBookAssumption == FirstBook \in Books

VARIABLES
    feed,      \* the adapter (never changes)
    truth,     \* the exchange's books, oldest first; the version is the index
    tape,      \* its trades, oldest first; the id is the index
    link,      \* what feeds the adapter: "down", "ws" or "rest"
    sent,      \* version of the last book sent on this connection, 0 = none
    told,      \* last trade sent on this connection
    wire,      \* frames in flight
    turn,      \* the request the poller makes next, or has made
    answer,    \* the answer to it on its way, or NoAnswer
    inc,       \* inc[symbol], the local book
    lastSeq,   \* _last_seq[symbol]
    shown,     \* books[symbol]; ghosts: the version last shown, whether the code can
               \* be sure of it, and whether an answer without a book came since
    table,     \* rows of the trades table, oldest first
    emitted,   \* ghost: trades handed to the writer
    based,     \* ghost: a snapshot was applied on this connection
    lossy      \* ghost: a book frame of this connection was lost on a feed without chain

exchange == <<truth, tape>>
channel == <<link, sent, told, wire>>
poll == <<turn, answer>>
book == <<inc, lastSeq, shown, based>>
trades == <<table, emitted>>
vars == <<feed, exchange, channel, poll, book, trades, lossy>>

EmptyBook == [p \in {} |-> 0]
NoAnswer == [of |-> "nothing", at |-> 0]
NoBook == [levels |-> <<>>, at |-> 0, sure |-> TRUE, blank |-> FALSE]
Version == Len(truth)

Init ==
    /\ feed \in Followed
    /\ truth = <<FirstBook>> /\ tape = <<>>
    /\ link = "down" /\ sent = 0 /\ told = 0 /\ wire = <<>>
    /\ turn = "book" /\ answer = NoAnswer
    /\ inc = EmptyBook /\ lastSeq = NoSeq /\ shown = NoBook /\ based = FALSE
    /\ table = <<>> /\ emitted = {}
    /\ lossy = FALSE

-----------------------------------------------------------------------------
(* The exchange.                                                           *)

Quiet == Len(truth) + Len(tape) <= MaxEvents

Quote(newBook) ==
    /\ Quiet
    /\ newBook # truth[Version]
    /\ truth' = Append(truth, newBook)
    /\ UNCHANGED <<feed, tape, channel, poll, book, trades, lossy>>

Match(stamp, taker) ==
    /\ Quiet
    /\ tape' = Append(tape, [stamp |-> stamp, taker |-> taker])
    /\ UNCHANGED <<feed, truth, channel, poll, book, trades, lossy>>

\* Prices whose quantity differs, with the new quantity; 0 for a level gone.
Delta(old, new) ==
    LET Size(b, p) == IF p \in DOMAIN b THEN b[p] ELSE 0
    IN Listing([p \in {q \in Prices : Size(old, q) # Size(new, q)} |-> Size(new, p)])

Reversed(levels) == [i \in DOMAIN levels |-> levels[Len(levels) + 1 - i]]

\* What is on the wire: BingX lists the worst first, fixed channels number nothing.
Frame(kind, levels, prev) ==
    [kind |-> kind,
     levels |-> IF feed = "bingx" THEN Reversed(levels) ELSE levels,
     seq |-> IF feed \in Fixed THEN NoSeq ELSE Version,
     prev |-> IF kind = "delta" THEN prev ELSE NoSeq,
     fills |-> <<>>, version |-> Version]

\* The stream's frames carry the id the adapters ask for first (tests/test_trades.py).
FillOf(i, trade) ==
    [id |-> i, named |-> TRUE, stamp |-> trade.stamp,
     taker |-> trade.taker, maker |-> Opposite(trade.taker),
     buyer_is_maker |-> trade.taker = "sell",
     trade_type |-> IF trade.taker = "buy" THEN 1 ELSE 2]
Fill(i) == FillOf(i, tape[i])
Fills(from) == [i \in 1 .. Len(tape) - from |-> Fill(from + i)]

\* A book frame leaves the exchange and arrives, or is lost on the way.
Send(frame) ==
    /\ link = "ws" /\ Len(wire) < MaxWire
    /\ sent' = Version
    /\ \/ wire' = Append(wire, frame) /\ UNCHANGED lossy
       \/ lossy' = (feed \in Unchained) /\ UNCHANGED wire
    /\ UNCHANGED <<feed, exchange, link, told, poll, book, trades>>

PushSnapshot ==
    /\ feed \in Chained \cup Unchained
    /\ Send(Frame("snapshot", Listing(truth[Version]), NoSeq))

PushDelta ==
    /\ feed \in Chained \cup Unchained
    /\ sent \in 1 .. Version - 1
    /\ Send(Frame("delta", Delta(truth[sent], truth[Version]), sent))

PushTop ==
    /\ feed \in Pushers \cup Fixed
    /\ sent < Version
    /\ Send(Frame("top", Listing(truth[Version]), NoSeq))

PushTrades ==
    /\ link = "ws" /\ Len(wire) < MaxWire
    /\ told < Len(tape)
    /\ wire' = Append(wire, [Frame("trades", <<>>, NoSeq) EXCEPT !.fills = Fills(told)])
    /\ told' = Len(tape)
    /\ UNCHANGED <<feed, exchange, link, sent, poll, book, trades, lossy>>

-----------------------------------------------------------------------------
(* The local book.                                                         *)

\* Mutant: a level whose quantity becomes 0 stays.
AppliedKeepingZero(old, levels) ==
    LET new == BookOf(levels)
    IN [p \in DOMAIN old \cup DOMAIN new |-> IF p \in DOMAIN new THEN new[p] ELSE old[p]]

\* IncrementalBook.apply.
Applied(old, levels) ==
    LET new == BookOf(levels)
        gone == {p \in DOMAIN new : new[p] = 0}
    IN [p \in (DOMAIN old \cup DOMAIN new) \ gone |->
          IF p \in DOMAIN new THEN new[p] ELSE old[p]]

\* Mutant: the chain is not checked.
GapIgnored(upd) == FALSE

\* _check_sequence: the update does not follow the last one applied.
Gap(upd) ==
    /\ feed \in Maintains /\ ~upd.is_snapshot
    /\ upd.prev_seq # NoSeq /\ lastSeq # NoSeq /\ upd.prev_seq # lastSeq

\* _apply, after the check.
Apply(upd, version, sure, blank) ==
    LET newInc == Applied(IF upd.is_snapshot THEN EmptyBook ELSE inc, upd.levels)
    IN /\ lastSeq' = IF feed \in Maintains /\ upd.seq # NoSeq THEN upd.seq ELSE lastSeq
       /\ inc' = IF feed \in Maintains THEN newInc ELSE inc
       /\ shown' = [levels |-> IF feed \in Maintains THEN Top(newInc) ELSE Cut(upd.levels),
                    at |-> version, sure |-> sure, blank |-> blank]

\* A snapshot needs no history.  A delta needs a snapshot under it, and either a
\* chain or a stream that lost nothing.
Sure(upd) == upd.is_snapshot \/ (based /\ (feed \in Chained \/ ~lossy))

-----------------------------------------------------------------------------
(* The tape.                                                               *)

\* The index ux_trade: an id is stored once, a row without an id always.
Stored(rows, row) ==
    IF row.trade_id # NoId /\ \E i \in DOMAIN rows : rows[i].trade_id = row.trade_id
    THEN rows ELSE Append(rows, row)

\* The rows as the table takes them, one after the other.
AllStored(rows, new) ==
    LET After[i \in 0 .. Len(new)] ==
            IF i = 0 THEN rows ELSE Stored(After[i - 1], new[i])
    IN After[Len(new)]

\* _emit_trade for each of the trades, down to the table.  The row keeps the
\* number of the trade as a ghost.
Emit(found, fills) ==
    LET Row(i) == [trade_id |-> found[i].trade_id, side |-> found[i].side,
                   no |-> fills[i].id]
    IN /\ table' = AllStored(table, [i \in DOMAIN found |-> Row(i)])
       /\ emitted' = emitted \cup {fills[i].id : i \in DOMAIN fills}

-----------------------------------------------------------------------------
(* The scraper.                                                            *)

\* run_ws: a new connection starts without book and chain.  Coinbase replays the
\* last match on it, the others send what happens from now on.
Connect ==
    /\ link = "down"
    /\ link' = "ws" /\ sent' = 0 /\ wire' = <<>>
    /\ told' = IF feed = "coinbase" /\ tape # <<>> THEN Len(tape) - 1 ELSE Len(tape)
    /\ inc' = EmptyBook /\ lastSeq' = NoSeq /\ based' = FALSE
    /\ lossy' = FALSE
    /\ UNCHANGED <<feed, exchange, poll, shown, trades>>

\* The connection ends, by the exchange or by an exception; frames in flight
\* are gone.  The local book and the chain stay until the next connection.
Down ==
    /\ link' = "down" /\ wire' = <<>>
    /\ sent' = 0 /\ told' = 0 /\ lossy' = FALSE /\ based' = FALSE
    /\ UNCHANGED <<feed, exchange, poll, inc, lastSeq, shown, trades>>

Drop ==
    /\ link = "ws"
    /\ Down

Arriving == Head(wire)
TakeFrame == link = "ws" /\ wire # <<>>

\* _handle_frame with a frame that holds an update.
HandleUpdate ==
    /\ TakeFrame /\ Arriving.kind # "trades"
    /\ \E upds \in {Parse(feed, Arriving)} :
          /\ upds # <<>> /\ ~Gap(upds[1])
          /\ Apply(upds[1], Arriving.version, Sure(upds[1]), FALSE)
          /\ based' = (based \/ upds[1].is_snapshot)
    /\ wire' = Tail(wire)
    /\ UNCHANGED <<feed, exchange, link, sent, told, poll, trades, lossy>>

\* BookSequenceGap leaves _handle_frame and run_ws: the connection is torn down.
HandleGap ==
    /\ TakeFrame /\ Arriving.kind # "trades"
    /\ \E upds \in {Parse(feed, Arriving)} : upds # <<>> /\ Gap(upds[1])
    /\ Down

\* A frame without an update, such as an empty book of a pusher.
HandleNothing ==
    /\ TakeFrame /\ Arriving.kind # "trades"
    /\ Parse(feed, Arriving) = <<>>
    /\ wire' = Tail(wire)
    /\ UNCHANGED <<feed, exchange, link, sent, told, poll, book, trades, lossy>>

HandleTrades ==
    /\ TakeFrame /\ Arriving.kind = "trades"
    /\ LET fills == Arriving.fills
       IN Emit([i \in DOMAIN fills |-> StreamTrade(feed, fills[i])], fills)
    /\ wire' = Tail(wire)
    /\ UNCHANGED <<feed, exchange, link, sent, told, poll, book, lossy>>

\* run_rest: a request for the book and one for the recent trades by turns.
StartRest ==
    /\ link = "down"
    /\ link' = "rest"
    /\ UNCHANGED <<feed, exchange, sent, told, wire, poll, book, trades, lossy>>

\* The exchange answers with what is there now; the answer takes its time.
Answer ==
    /\ link = "rest" /\ answer = NoAnswer
    /\ turn = "trades" => tape # <<>>
    /\ answer' = [of |-> turn, at |-> IF turn = "book" THEN Version ELSE Len(tape)]
    /\ UNCHANGED <<feed, exchange, channel, turn, book, trades, lossy>>

PollBook ==
    /\ answer.of = "book"
    /\ LET levels == Listing(truth[answer.at])
           listed == IF feed = "bingx" THEN Reversed(levels) ELSE levels
       IN Apply(RestDepth(feed, WithBook(listed, answer.at))[1], answer.at, TRUE, FALSE)
    /\ turn' = "trades" /\ answer' = NoAnswer
    /\ UNCHANGED <<feed, exchange, channel, based, trades, lossy>>

\* The answer has status 200 and no book: an error told in the body, or an empty one.
\* The book shown is empty until the next update, except on OKX.
PollBlank ==
    /\ answer.of = "book"
    /\ \E upds \in {RestDepth(feed, WithoutBook)} :
          \/ upds = <<>> /\ UNCHANGED book
          \/ upds # <<>> /\ Apply(upds[1], shown.at, TRUE, TRUE) /\ UNCHANGED based
    /\ turn' = "trades" /\ answer' = NoAnswer
    /\ UNCHANGED <<feed, exchange, channel, trades, lossy>>

\* The elements of an answer carry the id, or, where the adapter has another name for
\* a trade, perhaps only that.
Polled(i, named) == [Fill(i) EXCEPT !.named = named]

PollTrades ==
    /\ answer.of = "trades"
    /\ \E named \in IF feed \in Substitutes THEN BOOLEAN ELSE {TRUE} :
          Emit([i \in 1 .. answer.at |-> RestTrade(feed, Polled(i, named))],
               [i \in 1 .. answer.at |-> Polled(i, named)])
    /\ turn' = "book" /\ answer' = NoAnswer
    /\ UNCHANGED <<feed, exchange, channel, book, lossy>>

\* A request fails or times out, or no trade is listed.  Without the book the trades
\* are not asked for either.
PollFails ==
    /\ link = "rest" /\ (turn = "trades" \/ answer # NoAnswer)
    /\ turn' = "book" /\ answer' = NoAnswer
    /\ UNCHANGED <<feed, exchange, channel, book, trades, lossy>>

\* Mutant: the request under way is not cancelled.
StopRestLeavingRequest ==
    /\ link = "rest"
    /\ link' = "down"
    /\ UNCHANGED <<feed, exchange, sent, told, wire, poll, book, trades, lossy>>

\* The poller is cancelled in the middle of its request: the answer reaches nobody.
StopRest ==
    /\ link = "rest"
    /\ link' = "down"
    /\ turn' = "book" /\ answer' = NoAnswer
    /\ UNCHANGED <<feed, exchange, sent, told, wire, book, trades, lossy>>

Next ==
    \/ \E b \in Books : Quote(b)
    \/ \E stamp \in Stamps, taker \in {"buy", "sell"} : Match(stamp, taker)
    \/ PushSnapshot \/ PushDelta \/ PushTop \/ PushTrades
    \/ Connect \/ Drop
    \/ HandleUpdate \/ HandleGap \/ HandleNothing \/ HandleTrades
    \/ StartRest \/ Answer \/ PollBook \/ PollBlank \/ PollTrades \/ PollFails
    \/ StopRest

Spec == Init /\ [][Next]_vars

-----------------------------------------------------------------------------
\* The book as the reader of the data sees it; an empty book in between moves nothing.
View == INSTANCE BookView WITH version <- Version, shownAt <- shown.at

Rows == [trade_id : {<<kind, i>> : kind \in {"id", "other"}, i \in 1 .. MaxEvents}
                       \cup {<<"syn", stamp, side>> : stamp \in Stamps, side \in {"buy", "sell"}},
         side : {"buy", "sell", NoSide}, no : 1 .. MaxEvents]

TypeOK ==
    /\ feed \in Followed
    /\ truth \in Seq(Books) /\ Len(truth) \in 1 .. MaxEvents + 1
    /\ Len(tape) <= MaxEvents
    /\ \A i \in DOMAIN tape : tape[i] \in [stamp : Stamps, taker : {"buy", "sell"}]
    /\ link \in {"down", "ws", "rest"}
    /\ sent \in 0 .. Version /\ told \in 0 .. Len(tape)
    /\ Len(wire) <= MaxWire
    /\ turn \in {"book", "trades"}
    /\ answer \in [of : {"book", "trades"}, at : Nat] \cup {NoAnswer}
    /\ answer # NoAnswer => link = "rest"
    /\ inc \in Books
    /\ lastSeq \in {NoSeq} \cup 1 .. Version
    /\ Len(shown.levels) <= Depth /\ shown.at \in 0 .. Version
    /\ shown.sure \in BOOLEAN /\ shown.blank \in BOOLEAN
    /\ \A i \in DOMAIN table : table[i] \in Rows
    /\ emitted \subseteq 1 .. Len(tape)

\* The book maintained from snapshot and deltas is the exchange's book, level by
\* level, beyond the depth recorded: on a chained feed whatever was lost on the
\* way, for a loss ends the connection before the next delta is applied; on the
\* others as long as nothing was lost.
LocalBookExact ==
    /\ link = "ws" /\ based
    /\ feed \in Chained \/ (feed \in Unchained /\ ~lossy)
    => inc = truth[shown.at]

\* Every recorded book the scraper can be sure of is the best Depth levels of one
\* version of the exchange's book, on every adapter and transport: never a mixture
\* of two versions, nor the wrong end of the listing.  An answer without a book
\* (PollBlank) is the exception: what is shown is then empty, not part of an old book;
\* it is gone with the first snapshot of a stream, and OKX never shows it.
ShownIsReal ==
    IF shown.blank
    THEN shown.levels = <<>> /\ ~based /\ feed \notin OkxFeeds
    ELSE shown.at # 0 /\ shown.sure => shown.levels = Top(truth[shown.at])

\* README.md:100: a trade that stream, replay and overlapping polls deliver several
\* times is one row.  On the exchanges for which the code has a second name of a trade
\* it is at most one row per kind of name: see OncePerTradeAlways.
OncePerTrade ==
    \A i, j \in DOMAIN table :
        table[i].no = table[j].no =>
            \/ i = j
            \/ /\ feed \in Substitutes
               /\ table[i].trade_id[1] # table[j].trade_id[1]

\* README.md:101: the index never drops a row that is not a repetition: each trade
\* handed on is in the table.  MEXC's polls give two fills of one stamp and side
\* one key.
EveryTradeKept ==
    \A k \in emitted :
        \E i \in DOMAIN table :
            \/ table[i].no = k
            \/ /\ feed = "mexc"
               /\ table[i].trade_id = <<"syn", tape[k].stamp, tape[k].taker>>

\* The side of a row is the taker's, whatever the exchange reports and whichever
\* transport brought it; only BingX, whose flag means nothing, leaves it open.
SideIsTakers ==
    \A i \in DOMAIN table :
        table[i].side = IF feed = "bingx" THEN NoSide ELSE tape[table[i].no].taker

\* The book shown only moves forward, over drops, reconnects, lost frames, REST windows
\* and an answer still on its way when its window ends: nobody reads a book older than
\* one he has read.
ImplementsView == View!Spec

\* README.md:102: overlapping polls re-deliver trades that are simply ignored, on
\* every exchange.
OncePerTradeAlways ==
    \A i, j \in DOMAIN table : table[i].no = table[j].no => i = j
=============================================================================
