----------------------------- MODULE MexcBytes ------------------------------
(***************************************************************************)
(* MEXC's frames as bytes: what parse and parse_trades (exchanges/mexc.py) *)
(* read from them with the protobuf reader.  Feed takes a frame as a       *)
(* record; here the record is encoded as MEXC encodes it, and the bytes    *)
(* may have grown (the exchange added a field) or be cut short.            *)
(*                                                                         *)
(* A price, a quantity, a version and an id are one digit, the symbol and  *)
(* the parts of the channel's name one letter each.                        *)
(***************************************************************************)
EXTENDS Feed, Protobuf

At == 64                            \* "@"
Pair == <<69>>
Digit(n) == <<48 + n>>
DigitOf(text) == text[1] - 48

-----------------------------------------------------------------------------
(* The adapter.                                                            *)

\* The k-th part of the channel's name from its end, empty if there is none.
Part(topic, k) ==
    LET edges == {0, Len(topic) + 1} \cup {i \in DOMAIN topic : topic[i] = At}
        Edge(j) == CHOOSE e \in edges : Cardinality({d \in edges : d > e}) = j
    IN IF Cardinality(edges) > k THEN SubSeq(topic, Edge(k) + 1, Edge(k - 1) - 1) ELSE <<>>

\* The symbol, or the part of the channel's name that holds it.
SymbolOf(wrapper, k) ==
    LET symbol == Text(wrapper, 3)
        topic == Text(wrapper, 1)
    IN IF symbol \notin {None, <<>>} THEN symbol
       ELSE IF topic = None THEN <<>> ELSE Part(topic, k)

\* The last body under the first of the two numbers that occurs, as a sequence.
Body(wrapper, first, second) ==
    LET LastOf(bodies) ==
          IF bodies # <<>> /\ \A b \in Range(bodies) : Readable(b) THEN <<Last(bodies)>> ELSE <<>>
    IN IF ~Readable(wrapper) THEN <<>>
       ELSE IF Submessages(wrapper, first) # <<>> THEN LastOf(Submessages(wrapper, first))
       ELSE LastOf(Submessages(wrapper, second))

\* The items that name a price and a quantity.
Named(items) ==
    FlattenSeq([i \in DOMAIN items |->
        IF Text(items[i], 1) # None /\ Text(items[i], 2) # None THEN <<items[i]>> ELSE <<>>])
Items(body) == Named(Submessages(body, 1))

LevelsIn(items) == [i \in DOMAIN items |-> <<DigitOf(Text(items[i], 1)), DigitOf(Text(items[i], 2))>>]
VersionIn(body) == IF Text(body, 4) = None THEN NoSeq ELSE DigitOf(Text(body, 4))

DealIn(item) ==
    [trade_id |-> IF Text(item, 5) = None THEN NoId ELSE <<"id", DigitOf(Text(item, 5))>>,
     side |-> SideFromTradeType(Number(item, 3))]
DealsIn(items) == [i \in DOMAIN items |-> DealIn(items[i])]

\* A wrapper with a body and items that can be read, for the pair of this feed.
Understood(wrapper, body, k) ==
    /\ Readable(wrapper) /\ body # <<>>
    /\ SymbolOf(wrapper, k) = Pair
    /\ \A item \in Range(Submessages(body[1], 1)) : Readable(item)

\* _parse_protobuf and _levels: 303 is the top of the book, 313 an aggregate of it.
ReadBook(data) ==
    LET In(wrapper, body) ==
          IF ~Understood(wrapper, body, 2) THEN <<>>
          ELSE <<Update(Cut(LevelsIn(Items(body[1]))), VersionIn(body[1]), NoSeq,
                        Submessages(wrapper, 303) # <<>>)>>
        Of(wrapper) == In(wrapper, Body(wrapper, 303, 313))
    IN Of(Message(data))

\* _parse_trades_protobuf.
ReadTrades(data) ==
    LET In(wrapper, body) ==
          IF ~Understood(wrapper, body, 1) THEN <<>> ELSE DealsIn(Items(body[1]))
        Of(wrapper) == In(wrapper, Body(wrapper, 314, 301))
    IN Of(Message(data))

-----------------------------------------------------------------------------
(* The exchange's encoding, in the order of the tests.  `more` is a field  *)
(* inserted at some place.                                                 *)

\* A varint of as many bytes as the number needs; numbers are below Huge.
VarintOf(n) ==
    LET rest == n \div 128
    IN CASE n < 128 -> <<n>>
         [] n >= 128 /\ rest < 128 -> <<128 + (n % 128), rest>>
         [] rest >= 128 /\ rest \div 128 < 128 ->
              <<128 + (n % 128), 128 + (rest % 128), rest \div 128>>
         [] OTHER -> <<128 + (n % 128), 128 + (rest % 128),
                       128 + ((rest \div 128) % 128), (rest \div 128) \div 128>>
Key(no, type) == VarintOf(8 * no + type)
TextField(no, text) == Key(no, 2) \o VarintOf(Len(text)) \o text
NumberField(no, n) == Key(no, 0) \o VarintOf(n)

Places == {"first", "last", "body", "item"}
Spot(place, here, more) == IF place = here THEN more ELSE <<>>

Wrapped(topic, no, body, more, place) ==
    Spot(place, "first", more)
        \o TextField(1, topic) \o TextField(no, Spot(place, "body", more) \o body)
        \o TextField(3, Pair) \o NumberField(6, 300)
        \o Spot(place, "last", more)

Item(fields, more, place) == TextField(1, fields \o Spot(place, "item", more))

Level(l, more, place) ==
    Item(TextField(1, Digit(l[1])) \o TextField(2, Digit(l[2])), more, place)

Deal(e, more, place) ==
    Item(TextField(1, Digit(1)) \o TextField(2, Digit(1)) \o NumberField(3, e.trade_type)
             \o NumberField(4, 300) \o TextField(5, Digit(e.id)), more, place)

Depths(f, more, place) ==
    FlattenSeq([i \in DOMAIN f.levels |-> Level(f.levels[i], more, place)])
        \o TextField(3, <<83>>) \o TextField(4, Digit(f.seq))

Deals(f, more, place) == FlattenSeq([i \in DOMAIN f.fills |-> Deal(f.fills[i], more, place)])

Encoded(f, more, place) ==
    IF f.kind = "trades"
    THEN Wrapped(<<83, At, 49, At, 69>>, 314, Deals(f, more, place), more, place)
    ELSE Wrapped(<<83, At, 69, At, 50>>, 303, Depths(f, more, place), more, place)

\* Fields of numbers nobody knows, of every wire type, with a payload that would make
\* sense if it were not skipped as a whole.
Unknown ==
    {NumberField(42, 300), Key(43, 1) \o <<10, 1, 57, 18, 1, 57, 24, 1>>,
     TextField(44, TextField(1, Digit(9))), Key(45, 5) \o <<10, 1, 57, 16>>}

-----------------------------------------------------------------------------
\* What _handle_frame gets from bytes, and what Feed lets it get from the record.
Read(data) == <<ReadBook(data), ReadTrades(data)>>
Meant(f) ==
    <<MexcParse(f),
      IF f.kind = "trades" THEN [i \in DOMAIN f.fills |-> MexcTrade(f.fills[i])] ELSE <<>> >>
Nothing == << <<>>, <<>> >>

\* The part of a frame that is encoded; trades carry no version.
Content(f) ==
    [kind |-> f.kind, levels |-> f.levels, fills |-> f.fills,
     seq |-> IF f.kind = "trades" THEN NoSeq ELSE f.seq, prev |-> NoSeq]

\* The (n + 1)-th to the m-th of the trades ts as one message tells of them.
Told(n, m, ts) == [i \in 1 .. m - n |-> FillOf(n + i, ts[n + i])]

\* What MEXC may have on the wire.
Contents ==
    {[kind |-> "top", levels |-> Listing(b), fills |-> <<>>, seq |-> v, prev |-> NoSeq] :
        b \in Books, v \in 1 .. MaxEvents + 1}
    \cup {[kind |-> "trades", levels |-> <<>>, seq |-> NoSeq, prev |-> NoSeq,
           fills |-> Told(n, m, ts)] :
             n \in 0 .. MaxEvents - 1, m \in 1 .. MaxEvents,
             ts \in [1 .. MaxEvents -> [stamp : Stamps, taker : {"buy", "sell"}]]}

\* The exchange's frames are within the connection's max_size of 16 MiB (base.py:401).
ASSUME FrameSizeAssumption ==
    \A c \in Contents, more \in Unknown \cup {<<>>}, place \in Places :
        Len(Encoded(c, more, place)) < Huge

ReadsSameGrown ==
    [c \in Contents |->
        /\ Read(Encoded(c, <<>>, "last")) = Meant(c)
        /\ \A more \in Unknown, place \in Places : Read(Encoded(c, more, place)) = Meant(c)]

ReadsWholeOrNothing ==
    [c \in Contents |->
        LET data == Encoded(c, <<>>, "last")
        IN \A n \in 0 .. Len(data) - 1 : Read(SubSeq(data, 1, n)) \in {Meant(c), Nothing}]

\* README.md:167: new fields in the schema do not disturb the reader.  Whatever MEXC sends, as it is or with
\* a new field anywhere in it, is read as the book and the trades it holds: what Feed
\* says of a record holds of the bytes.
GrownFrameReadsSame ==
    feed = "mexc" => \A i \in DOMAIN wire : ReadsSameGrown[Content(wire[i])]

\* test_protobuf.py: a truncated frame is not readable.  Wherever a frame ends early, it
\* gives the whole book and all trades or nothing: never fewer levels, and no error that
\* would end the connection.
CutFrameIsLost ==
    feed = "mexc" => \A i \in DOMAIN wire : ReadsWholeOrNothing[Content(wire[i])]
=============================================================================
