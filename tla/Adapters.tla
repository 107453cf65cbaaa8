------------------------------ MODULE Adapters ------------------------------
(***************************************************************************)
(* What the adapters under exchanges/ make of the frames and REST answers  *)
(* of their exchanges, as operators.  One side of a book (the asks) stands *)
(* for both.  A listing is a sequence of levels <<price, quantity>>; a     *)
(* book maps the prices that occur to their quantities.                    *)
(*                                                                         *)
(* A frame of the exchange is a record with every field some adapter       *)
(* reads:                                                                  *)
(*   kind      "snapshot", "delta", "top" (the best levels) or "trades"    *)
(*   levels    the levels listed                                           *)
(*   seq, prev sequence of this message and of the one before it, or NoSeq  *)
(*   fills     the trades                                                  *)
(*   version   ghost: the version of the exchange's book it describes      *)
(* A frame no adapter can read yields nothing; it is a lost frame.         *)
(***************************************************************************)
EXTENDS Integers, Sequences, FiniteSets

CONSTANT Depth      \* effective_depth
ASSUME DepthAssumption == Depth \in Nat \ {0}

\* Python's None, where a number, an id or a side is expected.
NoSeq == 0
NoId == <<>>
NoSide == "none"

-----------------------------------------------------------------------------
(* Levels and listings.                                                    *)

\* The levels of a book, best (lowest) price first.
Listing(book) ==
    LET prices == DOMAIN book
        Nth(i) == CHOOSE p \in prices : Cardinality({q \in prices : q < p}) = i - 1
    IN [i \in 1 .. Cardinality(prices) |-> <<Nth(i), book[Nth(i)]>>]

\* The book a listing describes.
BookOf(levels) ==
    [p \in {levels[i][1] : i \in DOMAIN levels} |->
        levels[CHOOSE i \in DOMAIN levels : levels[i][1] = p][2]]

\* parse_levels with a limit: the first levels of the listing.
Cut(levels) == SubSeq(levels, 1, IF Len(levels) < Depth THEN Len(levels) ELSE Depth)

\* sort_levels, best first.
Sorted(levels) == Listing(BookOf(levels))

\* Mutant: cut first, as for the other exchanges.
OrderedCutFirst(levels) == Sorted(Cut(levels))

\* BingX lists the worst asks first: sort, then cut.
Ordered(levels) == Cut(Sorted(levels))

\* IncrementalBook.top.
Top(book) == Cut(Listing(book))

-----------------------------------------------------------------------------
(* Book updates.  Each operator is the parse() of an adapter: a sequence   *)
(* of updates for _apply.                                                  *)

Update(levels, seq, prev, snapshot) ==
    [levels |-> levels, seq |-> seq, prev_seq |-> prev, is_snapshot |-> snapshot]

\* Frames about the book; other channels yield no update.
OfBook(f) == f.kind # "trades"
OnlyIf(condition, update) == IF condition THEN <<update>> ELSE <<>>

OkxParse(f) == OnlyIf(OfBook(f), Update(f.levels, f.seq, f.prev, f.kind # "delta"))
BitgetParse(f) == OnlyIf(OfBook(f), Update(f.levels, f.seq, f.prev, f.kind # "delta"))
BybitParse(f) == OnlyIf(OfBook(f), Update(f.levels, f.seq, NoSeq, f.kind = "snapshot"))
CoinbaseParse(f) ==
    OnlyIf(f.kind = "snapshot" \/ (f.kind = "delta" /\ f.levels # <<>>),
           Update(f.levels, NoSeq, NoSeq, f.kind = "snapshot"))
BinanceParse(f) ==
    OnlyIf(OfBook(f) /\ f.levels # <<>>, Update(Cut(f.levels), f.seq, NoSeq, TRUE))
KucoinParse(f) ==
    OnlyIf(OfBook(f) /\ f.levels # <<>>, Update(Cut(f.levels), NoSeq, NoSeq, TRUE))
GateParse(f) == OnlyIf(OfBook(f), Update(Cut(f.levels), f.seq, NoSeq, TRUE))
HtxParse(f) == OnlyIf(OfBook(f), Update(Cut(f.levels), f.seq, NoSeq, TRUE))
BingxParse(f) ==
    OnlyIf(OfBook(f) /\ f.levels # <<>>, Update(Ordered(f.levels), NoSeq, NoSeq, TRUE))
MexcParse(f) == OnlyIf(OfBook(f), Update(Cut(f.levels), f.seq, NoSeq, TRUE))

\* The feeds: an exchange on one of its channels.  OKX and Bitget have a channel
\* of snapshots for a small depth, on which no sequence is sent.
Chained == {"okx", "bitget"}
Unchained == {"bybit", "coinbase"}
Fixed == {"okx books5", "bitget books15"}
Pushers == {"binance", "kucoin", "gate", "htx", "bingx", "mexc"}
Feeds == Chained \cup Unchained \cup Fixed \cup Pushers
OkxFeeds == {"okx", "okx books5"}

\* MAINTAINS_BOOK.
Maintains == Chained \cup Unchained \cup Fixed

Parse(feed, f) ==
    CASE feed \in OkxFeeds -> OkxParse(f)
      [] feed \in {"bitget", "bitget books15"} -> BitgetParse(f)
      [] feed = "bybit" -> BybitParse(f)
      [] feed = "coinbase" -> CoinbaseParse(f)
      [] feed = "binance" -> BinanceParse(f)
      [] feed = "kucoin" -> KucoinParse(f)
      [] feed = "gate" -> GateParse(f)
      [] feed = "htx" -> HtxParse(f)
      [] feed = "bingx" -> BingxParse(f)
      [] feed = "mexc" -> MexcParse(f)

\* rest_depth.  An answer of status 200 is a record: whether it holds a book, its
\* levels and its sequence.  get_json looks at the status alone, so a body that tells
\* of an error, or is empty, is an answer too: `or {}` turns it into a snapshot without
\* levels.  Only OKX makes nothing of it.
WithBook(levels, seq) == [found |-> TRUE, levels |-> levels, seq |-> seq]
WithoutBook == [found |-> FALSE, levels |-> <<>>, seq |-> NoSeq]

OkxDepth(a) == OnlyIf(a.found, Update(Cut(a.levels), NoSeq, NoSeq, TRUE))
BitgetDepth(a) == <<Update(Cut(a.levels), NoSeq, NoSeq, TRUE)>>
BybitDepth(a) == <<Update(Cut(a.levels), a.seq, NoSeq, TRUE)>>
CoinbaseDepth(a) == <<Update(Cut(a.levels), a.seq, NoSeq, TRUE)>>
BinanceDepth(a) == <<Update(Cut(a.levels), a.seq, NoSeq, TRUE)>>
KucoinDepth(a) == <<Update(Cut(a.levels), a.seq, NoSeq, TRUE)>>
GateDepth(a) == <<Update(Cut(a.levels), a.seq, NoSeq, TRUE)>>
HtxDepth(a) == <<Update(Cut(a.levels), a.seq, NoSeq, TRUE)>>
BingxDepth(a) == <<Update(Ordered(a.levels), NoSeq, NoSeq, TRUE)>>
MexcDepth(a) == <<Update(Cut(a.levels), a.seq, NoSeq, TRUE)>>

RestDepth(feed, a) ==
    CASE feed \in OkxFeeds -> OkxDepth(a)
      [] feed \in {"bitget", "bitget books15"} -> BitgetDepth(a)
      [] feed = "bybit" -> BybitDepth(a)
      [] feed = "coinbase" -> CoinbaseDepth(a)
      [] feed = "binance" -> BinanceDepth(a)
      [] feed = "kucoin" -> KucoinDepth(a)
      [] feed = "gate" -> GateDepth(a)
      [] feed = "htx" -> HtxDepth(a)
      [] feed = "bingx" -> BingxDepth(a)
      [] feed = "mexc" -> MexcDepth(a)

-----------------------------------------------------------------------------
(* Trades.  A fill is a trade as the exchange reports it, in every way     *)
(* some adapter reads: its id, whether the element carries that id under   *)
(* the name the adapter asks for first, the sides of taker and maker,      *)
(* whether the buyer was the maker, and the stamp (time, price, quantity). *)

Opposite(side) == IF side = "buy" THEN "sell" ELSE "buy"

\* normalise_side, invert_side, taker_from_buyer_maker.
NormaliseSide(raw) ==
    CASE raw \in {"buy", "Buy", "BUY"} -> "buy"
      [] raw \in {"sell", "Sell", "SELL"} -> "sell"
      [] OTHER -> NoSide
InvertSide(side) == Opposite(side)
TakerFromBuyerMaker(m) == IF m THEN "sell" ELSE "buy"
SideFromTradeType(t) == CASE t = 1 -> "buy" [] t = 2 -> "sell" [] OTHER -> NoSide

\* Mutant: Coinbase's side read like everybody else's.
CoinbaseTradeUninverted(e) ==
    [trade_id |-> <<"id", e.id>>, side |-> NormaliseSide(e.maker)]

\* Mutant: the answer read with the names of the stream's fields: no id.
BingxRestTradeAsStream(e) == [trade_id |-> NoId, side |-> NoSide]

\* Mutant: the time of the trade where its id is missing.
KucoinTradeByTime(e) ==
    [trade_id |-> IF e.named THEN <<"id", e.id>> ELSE <<"other", e.stamp>>,
     side |-> NormaliseSide(e.taker)]

\* The adapters that have a second name for a trade: KuCoin's sequence, HTX's own id
\* of the element, and the key made for MEXC.
Substitutes == {"kucoin", "htx", "mexc"}

\* The id, else the second name.  Both are numbers of the exchange and are taken to
\* differ from every number of the other kind.
IdElse(e) == IF e.named THEN <<"id", e.id>> ELSE <<"other", e.id>>

OkxTrade(e) == [trade_id |-> <<"id", e.id>>, side |-> NormaliseSide(e.taker)]
BitgetTrade(e) == [trade_id |-> <<"id", e.id>>, side |-> NormaliseSide(e.taker)]
BybitTrade(e) == [trade_id |-> <<"id", e.id>>, side |-> NormaliseSide(e.taker)]
BybitRestTrade(e) == [trade_id |-> <<"id", e.id>>, side |-> NormaliseSide(e.taker)]
CoinbaseTrade(e) ==
    LET maker == NormaliseSide(e.maker)
    IN [trade_id |-> <<"id", e.id>>,
        side |-> IF maker = NoSide THEN NoSide ELSE InvertSide(maker)]
BinanceTrade(e) ==
    [trade_id |-> <<"id", e.id>>, side |-> TakerFromBuyerMaker(e.buyer_is_maker)]
KucoinTrade(e) == [trade_id |-> IdElse(e), side |-> NormaliseSide(e.taker)]
GateTrade(e) == [trade_id |-> <<"id", e.id>>, side |-> NormaliseSide(e.taker)]
HtxTrade(e) == [trade_id |-> IdElse(e), side |-> NormaliseSide(e.taker)]
BingxTrade(e) == [trade_id |-> <<"id", e.id>>, side |-> NoSide]
BingxRestTrade(e) == [trade_id |-> <<"id", e.id>>, side |-> NoSide]
MexcTrade(e) == [trade_id |-> <<"id", e.id>>, side |-> SideFromTradeType(e.trade_type)]

\* Where the answer carries no id, one is made of what identifies the fill.
MexcRestTrade(e) ==
    LET side == IF e.buyer_is_maker THEN "sell" ELSE "buy"
    IN [trade_id |-> IF e.named THEN <<"id", e.id>> ELSE <<"syn", e.stamp, side>>,
        side |-> side]

StreamTrade(feed, e) ==
    CASE feed \in OkxFeeds -> OkxTrade(e)
      [] feed \in {"bitget", "bitget books15"} -> BitgetTrade(e)
      [] feed = "bybit" -> BybitTrade(e)
      [] feed = "coinbase" -> CoinbaseTrade(e)
      [] feed = "binance" -> BinanceTrade(e)
      [] feed = "kucoin" -> KucoinTrade(e)
      [] feed = "gate" -> GateTrade(e)
      [] feed = "htx" -> HtxTrade(e)
      [] feed = "bingx" -> BingxTrade(e)
      [] feed = "mexc" -> MexcTrade(e)

\* Three adapters read the answer of REST differently from the stream.
RestTrade(feed, e) ==
    CASE feed = "bybit" -> BybitRestTrade(e)
      [] feed = "bingx" -> BingxRestTrade(e)
      [] feed = "mexc" -> MexcRestTrade(e)
      [] OTHER -> StreamTrade(feed, e)
=============================================================================
